---------------------------- MODULE MCStateFile ----------------------------
(***************************************************************************)
(* Instance of StateFile for TLC: the service and a one-off sync.          *)
(***************************************************************************)
EXTENDS StateFile, TLC

\* Every property is a safety property: processes and stamps are interchangeable.
Symmetry == Permutations(Process) \cup Permutations(Stamp)
=============================================================================
