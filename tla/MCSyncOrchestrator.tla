------------------------- MODULE MCSyncOrchestrator -------------------------
(***************************************************************************)
(* Instances of SyncOrchestrator for TLC.                                  *)
(***************************************************************************)
EXTENDS SyncOrchestrator, TLC

CONSTANTS v1, v2, d1, d2, vc1, vc2, a, b, x

\* Two vCenters with one VM each.
MCHomeOf == [v \in Vm |-> IF v = v1 THEN vc1 ELSE vc2]

\* Whatever categories the vCenters have in common, they have under one id.
MCHidesNothing == [w \in VCenter |-> [c \in VCenter |-> {}]]

\* Both have every category, each under an id of its own, and vc1 is configured first.
MCSeparateIds ==
    [w \in VCenter |-> [c \in VCenter |-> IF w = vc1 /\ c = vc2 THEN VmwareTag ELSE {}]]

\* One VM per device, and an unlisted VM leaves its device unmatched.
PairedMatchings ==
    [l \in SUBSET Vm |-> [f \in SUBSET Device |->
        {{m \in {<<v1, d1>>, <<v2, d2>>} : m[1] \in l /\ m[2] \in f}}]]

\* d1 has the host name of v1; it shares an address with v2, which counts when v1 is
\* unlisted.
FallbackMatchings ==
    [l \in SUBSET Vm |-> [f \in SUBSET Device |->
        {(IF v1 \in l THEN {v1} ELSE l) \X f}]]

\* v1, v2 and d1 share a host name: with both listed, d1 is matched to both, with
\* allowMultipleMatches, or to none.
SharedNameMatchings ==
    [l \in SUBSET Vm |-> [f \in SUBSET Device |->
        {l \X f} \cup IF Cardinality(l) > 1 THEN {{}} ELSE {}]]

\* With these matchings and nothing hidden, the VMs can change places, each with its
\* vCenter.
VmSymmetry ==
    {p \in Permutations(Vm \cup VCenter) :
        \A v \in Vm : p[v] \in Vm /\ HomeOf[p[v]] = p[HomeOf[v]]}
=============================================================================
