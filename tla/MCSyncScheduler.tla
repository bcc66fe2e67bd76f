-------------------------- MODULE MCSyncScheduler --------------------------
(***************************************************************************)
(* Override files of up to two entries on two VMs, one file with an entry  *)
(* that validation rejects.                                                *)
(***************************************************************************)
EXTENDS SyncScheduler

CONSTANTS v1, v2, d1, d2

MCVm     == {v1, v2}
MCTarget == {d1, d2}

MCFiles == {<<>>, <<<<v1, d1>>>>, <<<<v1, d2>>, <<v2, d2>>>>, <<<<v1, d1>>, <<v1, d2>>>>,
            <<<<v2, d1>>, Invalid, <<v1, d2>>>>}
=============================================================================
