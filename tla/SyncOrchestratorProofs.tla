----------------------- MODULE SyncOrchestratorProofs -----------------------
(***************************************************************************)
(* Theorems about SyncOrchestrator, for every set of VMs, devices and      *)
(* tags, every matching, every limit, every kind and number of faults.     *)
(***************************************************************************)
EXTENDS SyncOrchestrator, Integers, FiniteSetTheorems, TLAPS

-----------------------------------------------------------------------------
(* Facts about finite sets that the cut at the tag limit rests on.         *)

\* A finite set has a subset of every size up to its own.
LEMMA SubsetOfSize ==
    ASSUME NEW S, IsFiniteSet(S), NEW n \in Nat, n <= Cardinality(S)
    PROVE  \E U \in SUBSET S : Cardinality(U) = n
<1>1. Cardinality(S) \in Nat
  BY FS_CardinalityType
<1> PICK f : f \in Bijection(1..Cardinality(S), S)
  BY FS_CardinalityType DEF ExistsBijection
<1> DEFINE U == {f[i] : i \in 1..n}
           g == [i \in 1..n |-> f[i]]
<1>2. U \in SUBSET S
  BY <1>1 DEF Bijection, Injection
<1>3. g \in Bijection(1..n, U)
  <2>1. \A i \in 1..n : i \in 1..Cardinality(S)  BY <1>1
  <2>2. g \in [1..n -> U]  OBVIOUS
  <2>3. IsInjective(g)
    BY <2>1 DEF Bijection, Injection, IsInjective
  <2>4. \A u \in U : \E i \in 1..n : g[i] = u  OBVIOUS
  <2> QED  BY <2>2, <2>3, <2>4 DEF Bijection, Injection, Surjection
<1>4. IsFiniteSet(1..n) /\ Cardinality(1..n) = n
  BY FS_Interval
<1>5. Cardinality(U) = n
  <2>1. ExistsBijection(1..n, U)  BY <1>3 DEF ExistsBijection
  <2> HIDE DEF U
  <2> QED  BY <2>1, <1>4, FS_Bijection
<1> QED  BY <1>2, <1>5

\* Between two nested finite sets there is one of every size between theirs.
LEMMA SetBetween ==
    ASSUME NEW S, NEW T, S \subseteq T, IsFiniteSet(T),
           NEW n \in Nat, Cardinality(S) <= n, n <= Cardinality(T)
    PROVE  \E U \in SUBSET T : S \subseteq U /\ Cardinality(U) = n
<1>1. IsFiniteSet(S) /\ IsFiniteSet(T \ S)
  BY FS_Subset, FS_Difference
<1>2. Cardinality(S) \in Nat /\ Cardinality(T) \in Nat /\ Cardinality(T \ S) \in Nat
  BY <1>1, FS_CardinalityType
<1>3. Cardinality(T \ S) = Cardinality(T) - Cardinality(S)
  <2>1. T \cap S = S  OBVIOUS
  <2> QED  BY <2>1, FS_Difference, <1>1
<1>4. PICK R \in SUBSET (T \ S) : Cardinality(R) = n - Cardinality(S)
  <2>1. n - Cardinality(S) \in Nat /\ n - Cardinality(S) <= Cardinality(T \ S)
    BY <1>2, <1>3
  <2> QED  BY <2>1, <1>1, SubsetOfSize
<1>5. IsFiniteSet(R)
  BY <1>1, FS_Subset
<1>6. S \cap R = {}
  OBVIOUS
<1>7. Cardinality(S \cup R) = n
  <2>1. Cardinality(S \cap R) = 0  BY <1>6, FS_EmptySet
  <2>2. Cardinality(S \cup R) = Cardinality(S) + Cardinality(R) - Cardinality(S \cap R)
    BY <1>1, <1>5, FS_Union
  <2> QED  BY <2>1, <2>2, <1>2, <1>4
<1>8. S \cup R \in SUBSET T /\ S \subseteq S \cup R
  OBVIOUS
<1> QED  BY <1>7, <1>8

-----------------------------------------------------------------------------
(* Assumptions on the constants.                                           *)

\* The assumptions on constants that most proofs use, without those on matching.
LEMMA Bounds ==
    /\ IsFiniteSet(Tag) /\ VmwareTag \subseteq Tag /\ InitialCatalog \subseteq Tag
    /\ \A tags \in InitialTags : tags \subseteq Tag /\ Cardinality(tags) <= TagLimit
    /\ AllowlistFile \in Allowlist /\ DryRuns \subseteq BOOLEAN
    /\ TagLimit \in Nat /\ MaxFaults \in Nat /\ MaxEdits \in Nat
BY SyncAssumption

LEMMA MatchesAreListed ==
    \A l \in SUBSET Vm, f \in SUBSET Device :
        \A matches \in Matchings[l][f] : matches \subseteq l \X f
BY SyncAssumption

-----------------------------------------------------------------------------
(* The operators a plan is built from.                                     *)

\* The cut at TagLimit yields at most TagLimit tags, all of them kept or added, takes
\* none of the kept ones if they fit, and is no cut unless the limit is reached.
LEMMA TruncatedFacts ==
    ASSUME NEW kept \in SUBSET Tag, NEW added \in SUBSET Tag
    PROVE  /\ Truncated(kept, added) \in SUBSET (kept \cup added)
           /\ Cardinality(Truncated(kept, added)) <= TagLimit
           /\ Cardinality(kept) <= TagLimit => kept \subseteq Truncated(kept, added)
           /\ \/ Truncated(kept, added) = kept \cup added
              \/ Cardinality(Truncated(kept, added)) = TagLimit
<1> DEFINE all == kept \cup added
           Fits(ids) == Cardinality(ids) = TagLimit /\ (ids \subseteq kept \/ kept \subseteq ids)
<1>1. IsFiniteSet(all) /\ IsFiniteSet(kept)
  BY Bounds, FS_Subset
<1>2. Cardinality(all) \in Nat /\ Cardinality(kept) \in Nat /\ TagLimit \in Nat
  BY <1>1, FS_CardinalityType, Bounds
<1>3. CASE Cardinality(all) <= TagLimit
  BY <1>3 DEF Truncated
<1>4. CASE ~(Cardinality(all) <= TagLimit)
  <2>1. Truncated(kept, added) = CHOOSE ids \in SUBSET all : Fits(ids)
    BY <1>4 DEF Truncated
  <2>2. \E ids \in SUBSET all : Fits(ids)
    <3>1. CASE Cardinality(kept) <= TagLimit
      <4>1. kept \subseteq all /\ TagLimit <= Cardinality(all)  BY <1>4, <1>2
      <4>2. \E ids \in SUBSET all : kept \subseteq ids /\ Cardinality(ids) = TagLimit
        <5> HIDE DEF all
        <5> QED  BY <4>1, <3>1, <1>1, <1>2, SetBetween
      <4> QED  BY <4>2
    <3>2. CASE ~(Cardinality(kept) <= TagLimit)
      <4>1. \E ids \in SUBSET kept : Cardinality(ids) = TagLimit
        BY <3>2, <1>1, <1>2, SubsetOfSize
      <4> QED  BY <4>1
    <3> QED  BY <3>1, <3>2
  <2> DEFINE cut == Truncated(kept, added)
  <2>3. cut \in SUBSET all /\ Fits(cut)
    <3> HIDE DEF all, Fits
    <3> QED  BY <2>1, <2>2
  <2>4. ASSUME Cardinality(kept) <= TagLimit, cut \subseteq kept
        PROVE  kept \subseteq cut
    <3>1. Cardinality(cut) <= Cardinality(kept)
          /\ (Cardinality(kept) = Cardinality(cut) => kept = cut)
      <4> HIDE DEF cut
      <4> QED  BY <2>4, <1>1, FS_Subset
    <3>2. Cardinality(cut) = TagLimit  BY <2>3
    <3>3. Cardinality(kept) = Cardinality(cut)
      <4> HIDE DEF cut
      <4> QED  BY <3>1, <3>2, <2>4, <1>2
    <3> QED  BY <3>1, <3>3
  <2>5. Cardinality(cut) <= TagLimit  BY <2>3, <1>2
  <2> QED  BY <2>3, <2>4, <2>5
<1> QED  BY <1>3, <1>4

\* What is in a diff, and what the update built from it keeps, adds and drops.
LEMMA UpdateFacts ==
    ASSUME TypeOK, NEW d \in Device, NEW want, want \in [Device -> SUBSET Tag],
           NEW diff \in DiffsOf(d, want)
    PROVE  LET u == UpdateOf(d, diff) IN
           /\ u \in Update
           /\ u.device = d
           /\ u.add \subseteq want[d]
           /\ u.tags \subseteq seenLive[d] \cup u.add
           /\ Cardinality(u.tags) <= TagLimit
           /\ Cardinality(seenLive[d]) <= TagLimit =>
                seenLive[d] \ u.tags \subseteq Orphans(want[d], LiveNames(d), seenState[d], allowlist)
<1> DEFINE add == SplitLookup(diff.add)
           kept == seenLive[d] \ SplitLookup(diff.remove)
           orphans == Orphans(want[d], LiveNames(d), seenState[d], allowlist)
<1>1. diff.add = want[d] \ LiveNames(d) /\ diff.remove = orphans
  BY DEF DiffsOf, ComputeSingleDiff, DiffOrNull
<1>2. seenLive[d] \in SUBSET Tag /\ want[d] \in SUBSET Tag
  BY DEF TypeOK
<1>3. add \subseteq want[d] /\ kept \subseteq seenLive[d] /\ seenLive[d] \ kept \subseteq orphans
  BY <1>1 DEF SplitLookup
<1>4. add \in SUBSET Tag /\ kept \in SUBSET Tag
  BY <1>2, <1>3
<1> DEFINE tags == Truncated(kept, add)
<1>5. UpdateOf(d, diff) = [device |-> d, add |-> add, tags |-> tags]
  BY DEF UpdateOf
<1>6. IsFiniteSet(seenLive[d])
  BY <1>2, Bounds, FS_Subset
<1>7. Cardinality(seenLive[d]) <= TagLimit => Cardinality(kept) <= TagLimit
  <2>1. Cardinality(kept) <= Cardinality(seenLive[d])
    <3> HIDE DEF kept
    <3> QED  BY <1>3, <1>6, FS_Subset
  <2>2. Cardinality(kept) \in Nat /\ Cardinality(seenLive[d]) \in Nat
    BY <1>6, <1>3, FS_Subset, FS_CardinalityType
  <2> HIDE DEF kept
  <2> QED  BY <2>1, <2>2, Bounds
<1>8. /\ tags \in SUBSET (kept \cup add)
      /\ Cardinality(tags) <= TagLimit
      /\ Cardinality(kept) <= TagLimit => kept \subseteq tags
  <2> HIDE DEF kept, add
  <2> QED  BY <1>4, TruncatedFacts
<1> HIDE DEF add, kept, orphans, tags
<1>9. UpdateOf(d, diff) \in Update
  BY <1>4, <1>5, <1>8 DEF Update
<1> QED  BY <1>3, <1>5, <1>7, <1>8, <1>9 DEF orphans

-----------------------------------------------------------------------------
(* Types                                                                   *)

LEMMA CycleOverType ==
    ASSUME CycleOver
    PROVE  /\ pc' = "idle" /\ pending' \subseteq Read /\ listed' \subseteq Vm
           /\ found' \subseteq Device /\ twice' \subseteq found'
           /\ seenTags' \in [Vm -> SUBSET Tag] /\ seenLive' \in [Device -> SUBSET Tag]
           /\ seenCatalog' \subseteq Tag /\ seenState' \in [Device -> Entry]
           /\ wanted' \in [Device -> SUBSET Tag] /\ plan' \subseteq Update
BY DEF CycleOver, Read, Entry

LEMMA FaultType ==
    ASSUME TypeOK, NEW kind, Fault(kind)
    PROVE  faults' \in 0..MaxFaults
BY Bounds DEF TypeOK, Fault

LEMMA EditType ==
    ASSUME TypeOK, NEW kind, Edit(kind)
    PROVE  edits' \in 0..MaxEdits
BY Bounds DEF TypeOK, Edit

\* What PlanUpdates leaves in wanted and plan.
LEMMA PlanFacts ==
    ASSUME TypeOK, PlanUpdates
    PROVE  /\ found \subseteq Device
           /\ wanted' \in [Device -> SUBSET Tag]
           /\ \A d \in Device : wanted'[d] = {} \/ \E v \in Vm : wanted'[d] \subseteq seenTags[v]
           /\ \A u \in plan' : \E d \in found : \E diff \in DiffsOf(d, wanted') :
                u = UpdateOf(d, diff)
<1>1. PICK matches \in CycleMatches :
        LET matched == {m[2] : m \in matches} IN
        \E source \in [matched -> Vm] :
          /\ \A d \in matched : <<source[d], d>> \in matches
          /\ wanted' = [d \in Device |-> IF d \in matched THEN Resolved(source[d]) ELSE {}]
          /\ plan' = UNION {{UpdateOf(d, diff) : diff \in DiffsOf(d, wanted')} : d \in matched}
  BY DEF PlanUpdates
<1> DEFINE matched == {m[2] : m \in matches}
<1>2. PICK source \in [matched -> Vm] :
          /\ \A d \in matched : <<source[d], d>> \in matches
          /\ wanted' = [d \in Device |-> IF d \in matched THEN Resolved(source[d]) ELSE {}]
          /\ plan' = UNION {{UpdateOf(d, diff) : diff \in DiffsOf(d, wanted')} : d \in matched}
  BY <1>1
<1>3. matched \subseteq found
  <2>1. listed \in SUBSET Vm /\ found \in SUBSET Device  BY DEF TypeOK
  <2>2. PICK all \in Matchings[listed][found] : matches \subseteq all
    BY DEF CycleMatches
  <2>3. all \subseteq listed \X found  BY <2>1, MatchesAreListed
  <2> QED  BY <2>2, <2>3
<1>4. \A v \in Vm : Resolved(v) \in SUBSET Tag /\ Resolved(v) \subseteq seenTags[v]
  BY DEF TypeOK, Resolved
<1> HIDE DEF matched
<1>5. wanted' \in [Device -> SUBSET Tag]
  BY <1>2, <1>4
<1>6. \A d \in Device : wanted'[d] = {} \/ \E v \in Vm : wanted'[d] \subseteq seenTags[v]
  BY <1>2, <1>4
<1>7. \A u \in plan' : \E d \in found : \E diff \in DiffsOf(d, wanted') : u = UpdateOf(d, diff)
  BY <1>2, <1>3
<1> QED  BY <1>5, <1>6, <1>7 DEF TypeOK

\* One step of the process, of Vision One or of the environment keeps the types.
LEMMA TypeStep == TypeOK /\ [Next]_vars => TypeOK'
<1> SUFFICES ASSUME TypeOK, [Next]_vars PROVE TypeOK'
  OBVIOUS
<1> USE DEF vars, external, process, reads, locals
<1>1. CASE UNCHANGED vars
  BY <1>1 DEF TypeOK
<1>2. CASE StartCycle
  BY <1>2 DEF StartCycle, TypeOK, Read
<1>3. CASE ListVms
  <2>1. faults' \in 0..MaxFaults  BY <1>3, FaultType DEF ListVms, TypeOK
  <2> QED  BY <1>3, <2>1 DEF ListVms, TypeOK
<1>4. CASE ReadVmTags
  <2>1. faults' \in 0..MaxFaults  BY <1>4, FaultType DEF ReadVmTags, TypeOK
  <2>2. seenTags' \in [Vm -> SUBSET Tag]
    BY <1>4, Bounds DEF ReadVmTags, TypeOK
  <2> QED  BY <1>4, <2>1, <2>2 DEF ReadVmTags, TypeOK
<1>5. CASE ListDevicePage
  <2>1. faults' \in 0..MaxFaults  BY <1>5, FaultType DEF ListDevicePage, TypeOK
  <2>2. /\ seenLive' \in [Device -> SUBSET Tag] /\ found' \subseteq Device
        /\ twice' \subseteq found' /\ pending' \subseteq Read
    BY <1>5 DEF ListDevicePage, TypeOK
  <2> QED  BY <1>5, <2>1, <2>2 DEF ListDevicePage, TypeOK
<1>6. CASE ListCustomTags
  BY <1>6 DEF ListCustomTags, TypeOK
<1>7. CASE LoadState
  <2>1. faults' \in 0..MaxFaults  BY <1>7, FaultType DEF LoadState, TypeOK
  <2>2. seenState' \in [Device -> Entry]  BY <1>7 DEF LoadState, TypeOK, Entry
  <2> QED  BY <1>7, <2>1, <2>2 DEF LoadState, TypeOK
<1>8. CASE CycleFails \/ SaveFails
  <2>1. faults' \in 0..MaxFaults  BY <1>8, FaultType DEF CycleFails, SaveFails
  <2>2. CycleOver  BY <1>8 DEF CycleFails, SaveFails
  <2>3. UNCHANGED <<vmTags, catalog, liveTags, inFlight, owned, stateFile, dryRun, allowlist, edits>>
    BY <1>8 DEF CycleFails, SaveFails
  <2> HIDE DEF vars
  <2> QED  BY <2>1, <2>2, <2>3, CycleOverType DEF TypeOK
<1>9. CASE PlanUpdates
  <2>1. plan' \subseteq Update  BY <1>9, PlanFacts, UpdateFacts
  <2> QED  BY <1>9, <2>1, PlanFacts DEF PlanUpdates, TypeOK
<1>10. CASE SendUpdates
  BY <1>10 DEF SendUpdates, TypeOK
<1>11. CASE VisionOneApplies
  <2>1. faults' \in 0..MaxFaults  BY <1>11, FaultType DEF VisionOneApplies, TypeOK
  <2>2. \A d \in DevicesOf(inFlight) : UpdateFor(inFlight, d) \in Update
    BY DEF TypeOK, DevicesOf, UpdateFor
  <2>3. liveTags' \in [Device -> SUBSET Tag] /\ owned' \in [Device -> SUBSET Tag]
    <3> PICK done \in SUBSET DevicesOf(inFlight) :
          /\ liveTags' = [d \in Device |->
                IF d \in done THEN UpdateFor(inFlight, d).tags ELSE liveTags[d]]
          /\ owned' = [d \in Device |->
                IF d \in done THEN owned[d] \cup (UpdateFor(inFlight, d).add \ liveTags[d])
                              ELSE owned[d]]
      BY <1>11 DEF VisionOneApplies
    <3>1. \A d \in done : UpdateFor(inFlight, d).tags \in SUBSET Tag
                          /\ UpdateFor(inFlight, d).add \in SUBSET Tag
      BY <2>2 DEF Update
    <3> QED  BY <3>1 DEF TypeOK
  <2> QED  BY <1>11, <2>1, <2>3 DEF VisionOneApplies, TypeOK
<1>12. CASE UpdatesAnswered
  BY <1>12 DEF UpdatesAnswered, TypeOK
<1>13. CASE UpdatesFail
  <2>1. faults' \in 0..MaxFaults  BY <1>13, FaultType DEF UpdatesFail
  <2>2. CycleOver  BY <1>13 DEF UpdatesFail
  <2>3. UNCHANGED <<vmTags, catalog, liveTags, owned, stateFile, dryRun, allowlist, edits>>
        /\ inFlight' \subseteq inFlight
    BY <1>13 DEF UpdatesFail
  <2> HIDE DEF vars
  <2> QED  BY <2>1, <2>2, <2>3, CycleOverType DEF TypeOK
<1>14. CASE PersistState
  <2>1. stateFile' \in [Device -> Entry]
    BY <1>14 DEF PersistState, SavedEntries, TypeOK, Entry
  <2>2. CycleOver  BY <1>14 DEF PersistState
  <2>3. UNCHANGED <<vmTags, catalog, liveTags, inFlight, owned, dryRun, allowlist, faults, edits>>
    BY <1>14 DEF PersistState
  <2> HIDE DEF vars
  <2> QED  BY <2>1, <2>2, <2>3, CycleOverType DEF TypeOK
<1>15. CASE Restart
  <2>1. faults' \in 0..MaxFaults  BY <1>15, FaultType DEF Restart
  <2>2. CycleOver  BY <1>15 DEF Restart
  <2>3. dryRun' \in BOOLEAN /\ allowlist' \in Allowlist
    BY <1>15, Bounds DEF Restart, LoadedAllowlists, Allowlist
  <2>4. UNCHANGED <<vmTags, catalog, liveTags, inFlight, owned, stateFile, edits>>
    BY <1>15 DEF Restart
  <2> HIDE DEF vars
  <2> QED  BY <2>1, <2>2, <2>3, <2>4, CycleOverType DEF TypeOK
<1>16. CASE TagOrUntagVm
  <2>1. edits' \in 0..MaxEdits  BY <1>16, EditType DEF TagOrUntagVm
  <2> QED  BY <1>16, <2>1 DEF TagOrUntagVm, TypeOK
<1>17. CASE ConsoleAdds
  <2>1. edits' \in 0..MaxEdits  BY <1>17, EditType DEF ConsoleAdds
  <2> QED  BY <1>17, <2>1 DEF ConsoleAdds, TypeOK
<1>18. CASE ConsoleRemoves
  <2>1. edits' \in 0..MaxEdits  BY <1>18, EditType DEF ConsoleRemoves
  <2> QED  BY <1>18, <2>1 DEF ConsoleRemoves, TypeOK
<1>19. CASE CreateTag
  <2>1. edits' \in 0..MaxEdits  BY <1>19, EditType DEF CreateTag
  <2> QED  BY <1>19, <2>1 DEF CreateTag, TypeOK
<1> QED
  BY <1>1, <1>2, <1>3, <1>4, <1>5, <1>6, <1>7, <1>8, <1>9, <1>10, <1>11, <1>12, <1>13,
     <1>14, <1>15, <1>16, <1>17, <1>18, <1>19 DEF Next, Cycle, Others

LEMMA TypeInit == Init => TypeOK
BY Bounds DEF Init, TypeOK, Entry, Allowlist, LoadedAllowlists

\* Every state of the process and of both systems is well typed.
THEOREM TypeCorrect == Spec => []TypeOK
BY TypeInit, TypeStep, PTL DEF Spec

-----------------------------------------------------------------------------
(* The invariant behind the safety theorems.                               *)

\* Reads are pending only while fetching, and a plan exists only afterwards.
Phases ==
    /\ pc # "fetch" => pending = {}
    /\ pc \in {"idle", "fetch"} => plan = {}
    /\ pc = "idle" => twice = {}

\* Nothing exceeds the limit: not the devices, not the snapshots, not the updates.
WithinLimit ==
    /\ \A d \in Device : Cardinality(liveTags[d]) <= TagLimit
                         /\ Cardinality(seenLive[d]) <= TagLimit
    /\ \A u \in plan \cup inFlight : Cardinality(u.tags) <= TagLimit

\* Nobody else writes the state file between the load and the save of a cycle, and the
\* load reads it.
StateIsCurrent == (pc # "idle" /\ "state" \notin pending) => seenState = stateFile

\* The alternatives of Next, by what they do to a cycle.
ReadStep == ListVms \/ ReadVmTags \/ ListDevicePage \/ ListCustomTags \/ LoadState
EndStep == CycleFails \/ UpdatesFail \/ PersistState \/ SaveFails \/ Restart
QuietStep == VisionOneApplies \/ SendUpdates \/ UpdatesAnswered \/ Others \/ UNCHANGED vars

LEMMA NextCases == [Next]_vars => StartCycle \/ ReadStep \/ PlanUpdates \/ EndStep \/ QuietStep
BY DEF Next, Cycle, ReadStep, EndStep, QuietStep

LEMMA EndStepEnds == EndStep => CycleOver
BY DEF EndStep, CycleFails, UpdatesFail, PersistState, SaveFails, Restart

LEMMA QuietStepKeeps == QuietStep => UNCHANGED <<locals, stateFile, process>>
BY DEF QuietStep, VisionOneApplies, SendUpdates, UpdatesAnswered, Others, TagOrUntagVm,
       ConsoleAdds, ConsoleRemoves, CreateTag, vars, locals

LEMMA ReadStepKeeps ==
    ReadStep => pending # {} /\ pending' \subseteq pending /\ UNCHANGED <<pc, plan, wanted, stateFile, external>>
BY DEF ReadStep, ListVms, ReadVmTags, ListDevicePage, ListCustomTags, LoadState

LEMMA PhasesStep == Phases /\ [Next]_vars => Phases'
<1> SUFFICES ASSUME Phases, [Next]_vars PROVE Phases'
  OBVIOUS
<1>1. CASE StartCycle  BY <1>1 DEF StartCycle, Phases
<1>2. CASE ReadStep  BY <1>2, ReadStepKeeps DEF Phases
<1>3. CASE PlanUpdates  BY <1>3 DEF PlanUpdates, Phases, reads
<1>4. CASE EndStep  BY <1>4, EndStepEnds DEF Phases, CycleOver
<1>5. CASE QuietStep
  <2>1. UNCHANGED <<pending, twice, plan>>
    BY <1>5, QuietStepKeeps DEF locals, reads
  <2>2. pc' = pc \/ (pc \in {"apply", "await"} /\ pc' \in {"await", "persist"})
    BY <1>5 DEF QuietStep, VisionOneApplies, SendUpdates, UpdatesAnswered, Others,
                TagOrUntagVm, ConsoleAdds, ConsoleRemoves, CreateTag, vars
  <2> QED  BY <2>1, <2>2 DEF Phases
<1> QED  BY <1>1, <1>2, <1>3, <1>4, <1>5, NextCases

LEMMA StateStep ==
    ASSUME "access" \notin FaultKinds
    PROVE  StateIsCurrent /\ [Next]_vars => StateIsCurrent'
<1> SUFFICES ASSUME StateIsCurrent, [Next]_vars PROVE StateIsCurrent'
  OBVIOUS
<1>1. CASE StartCycle  BY <1>1 DEF StartCycle, StateIsCurrent, Read
<1>2. CASE ReadStep
  <2>1. pc' = pc /\ stateFile' = stateFile  BY <1>2, ReadStepKeeps
  <2>2. CASE LoadState  BY <2>1, <2>2 DEF LoadState, Fault, StateIsCurrent
  <2>3. CASE ~LoadState
    <3>1. seenState' = seenState /\ ("state" \in pending => "state" \in pending')
      BY <1>2, <2>3 DEF ReadStep, ListVms, ReadVmTags, ListDevicePage, ListCustomTags
    <3> QED  BY <2>1, <3>1 DEF StateIsCurrent
  <2> QED  BY <2>2, <2>3
<1>3. CASE PlanUpdates  BY <1>3 DEF PlanUpdates, StateIsCurrent, reads
<1>4. CASE EndStep  BY <1>4, EndStepEnds DEF StateIsCurrent, CycleOver
<1>5. CASE QuietStep
  <2>1. UNCHANGED <<pending, seenState, stateFile>>
    BY <1>5, QuietStepKeeps DEF locals, reads
  <2>2. pc' = pc \/ pc # "idle"
    BY <1>5 DEF QuietStep, VisionOneApplies, SendUpdates, UpdatesAnswered, Others,
                TagOrUntagVm, ConsoleAdds, ConsoleRemoves, CreateTag, vars
  <2> QED  BY <2>1, <2>2 DEF StateIsCurrent
<1> QED  BY <1>1, <1>2, <1>3, <1>4, <1>5, NextCases

LEMMA EmptyFits == Cardinality({}) <= TagLimit
BY FS_EmptySet, Bounds

LEMMA LimitStep == TypeOK /\ WithinLimit /\ [Next]_vars => WithinLimit'
<1> SUFFICES ASSUME TypeOK, WithinLimit, [Next]_vars PROVE WithinLimit'
  OBVIOUS
<1>1. CASE StartCycle
  BY <1>1 DEF StartCycle, WithinLimit, external
<1>2. CASE ReadStep
  <2>1. UNCHANGED <<liveTags, inFlight, plan>>
    BY <1>2, ReadStepKeeps DEF external
  <2>2. \A d \in Device : seenLive'[d] = seenLive[d] \/ seenLive'[d] = liveTags[d]
    BY <1>2 DEF ReadStep, ListVms, ReadVmTags, ListDevicePage, ListCustomTags, LoadState
  <2> QED  BY <2>1, <2>2 DEF WithinLimit
<1>3. CASE PlanUpdates
  <2>1. UNCHANGED <<liveTags, inFlight, seenLive>>
    BY <1>3 DEF PlanUpdates, external, reads
  <2>2. \A u \in plan' : Cardinality(u.tags) <= TagLimit
    BY <1>3, PlanFacts, UpdateFacts
  <2> QED  BY <2>1, <2>2 DEF WithinLimit
<1>4. CASE EndStep
  <2>1. liveTags' = liveTags /\ inFlight' \subseteq inFlight
    BY <1>4 DEF EndStep, CycleFails, UpdatesFail, PersistState, SaveFails, Restart, external
  <2>2. plan' = {} /\ seenLive' = [d \in Device |-> {}]
    BY <1>4, EndStepEnds DEF CycleOver
  <2> QED  BY <2>1, <2>2, EmptyFits DEF WithinLimit
<1>5. CASE QuietStep
  <2>1. plan' = plan /\ seenLive' = seenLive
    BY <1>5, QuietStepKeeps DEF locals, reads
  <2>2. inFlight' \subseteq plan \cup inFlight
    BY <1>5 DEF QuietStep, VisionOneApplies, SendUpdates, UpdatesAnswered, Others,
                TagOrUntagVm, ConsoleAdds, ConsoleRemoves, CreateTag, vars, external
  <2>3. ASSUME NEW d \in Device
        PROVE  Cardinality(liveTags'[d]) <= TagLimit
    <3>1. IsFiniteSet(liveTags[d]) /\ Cardinality(liveTags[d]) \in Nat
      <4>1. liveTags[d] \in SUBSET Tag  BY DEF TypeOK
      <4> QED  BY <4>1, Bounds, FS_Subset, FS_CardinalityType
    <3>2. CASE VisionOneApplies
      <4>1. \A e \in DevicesOf(inFlight) : UpdateFor(inFlight, e) \in inFlight
        BY DEF DevicesOf, UpdateFor
      <4> QED  BY <3>2, <4>1 DEF VisionOneApplies, WithinLimit
    <3>3. CASE ConsoleAdds
      <4>1. PICK e \in Device, t \in catalog :
              /\ t \notin liveTags[e]
              /\ Cardinality(liveTags[e]) < TagLimit
              /\ liveTags' = [liveTags EXCEPT ![e] = @ \cup {t}]
        BY <3>3 DEF ConsoleAdds
      <4>2. CASE e = d
        <5>1. liveTags'[d] = liveTags[d] \cup {t}  BY <4>1, <4>2 DEF TypeOK
        <5>2. Cardinality(liveTags[d] \cup {t}) = Cardinality(liveTags[d]) + 1
          BY <4>1, <4>2, <3>1, FS_AddElement
        <5>3. Cardinality(liveTags[d]) < TagLimit  BY <4>1, <4>2
        <5> QED  BY <5>1, <5>2, <5>3, <3>1, Bounds
      <4>3. CASE e # d
        <5>1. liveTags'[d] = liveTags[d]  BY <4>1, <4>3 DEF TypeOK
        <5> QED  BY <5>1 DEF WithinLimit
      <4> QED  BY <4>2, <4>3
    <3>4. CASE ConsoleRemoves
      <4>1. liveTags'[d] \subseteq liveTags[d]  BY <3>4 DEF ConsoleRemoves, TypeOK
      <4>2. Cardinality(liveTags'[d]) <= Cardinality(liveTags[d])
        BY <4>1, <3>1, FS_Subset
      <4>3. Cardinality(liveTags'[d]) \in Nat
        BY <4>1, <3>1, FS_Subset, FS_CardinalityType
      <4> QED  BY <4>2, <4>3, <3>1, Bounds DEF WithinLimit
    <3>5. CASE liveTags' = liveTags
      BY <3>5 DEF WithinLimit
    <3> QED
      BY <1>5, <3>2, <3>3, <3>4, <3>5
      DEF QuietStep, SendUpdates, UpdatesAnswered, Others, TagOrUntagVm, CreateTag, vars, external
  <2> QED  BY <2>1, <2>2, <2>3 DEF WithinLimit
<1> QED  BY <1>1, <1>2, <1>3, <1>4, <1>5, NextCases

\* The plan's own part of the invariant.
LEMMA PlanStep ==
    TypeOK /\ Phases /\ WithinLimit /\ PlanRemovesOnlyOrphans /\ [Next]_vars
        => PlanRemovesOnlyOrphans'
<1> SUFFICES ASSUME TypeOK, Phases, WithinLimit, PlanRemovesOnlyOrphans, [Next]_vars
             PROVE  PlanRemovesOnlyOrphans'
  OBVIOUS
<1>1. CASE StartCycle  BY <1>1 DEF StartCycle, Phases, PlanRemovesOnlyOrphans
<1>2. CASE ReadStep
  <2>1. plan = {} /\ plan' = plan  BY <1>2, ReadStepKeeps DEF Phases
  <2> QED  BY <2>1 DEF PlanRemovesOnlyOrphans
<1>3. CASE PlanUpdates
  <2>1. UNCHANGED <<seenLive, seenState, seenCatalog, allowlist>>
    BY <1>3 DEF PlanUpdates, reads, process
  <2> SUFFICES ASSUME NEW u \in plan', NEW t \in seenLive[u.device] \ u.tags
               PROVE  /\ RemoveOrphanedTags
                      /\ t \in Recorded(seenState[u.device]) \ wanted'[u.device]
                      /\ IsEligibleForRemoval(t, allowlist)
    BY <2>1 DEF PlanRemovesOnlyOrphans, IsEligibleForRemoval, Recorded
  <2>2. PICK d \in Device : d \in found /\ \E diff \in DiffsOf(d, wanted') : u = UpdateOf(d, diff)
    BY <1>3, PlanFacts
  <2>3. u.device = d /\ seenLive[d] \ u.tags
          \subseteq Orphans(wanted'[d], LiveNames(d), seenState[d], allowlist)
    BY <1>3, <2>2, PlanFacts, UpdateFacts DEF WithinLimit
  <2> QED  BY <2>3 DEF Orphans
<1>4. CASE EndStep  BY <1>4, EndStepEnds DEF CycleOver, PlanRemovesOnlyOrphans
<1>5. CASE QuietStep
  BY <1>5, QuietStepKeeps
  DEF locals, reads, process, PlanRemovesOnlyOrphans, IsEligibleForRemoval, Recorded
<1> QED  BY <1>1, <1>2, <1>3, <1>4, <1>5, NextCases

Inv == Phases /\ WithinLimit /\ PlanRemovesOnlyOrphans

LEMMA InvInit == Init => Inv
<1> SUFFICES ASSUME Init PROVE Inv
  OBVIOUS
<1>1. Phases /\ PlanRemovesOnlyOrphans
  BY DEF Init, Phases, PlanRemovesOnlyOrphans
<1>2. WithinLimit
  BY Bounds, EmptyFits DEF Init, WithinLimit
<1> QED  BY <1>1, <1>2 DEF Inv

LEMMA InvHolds == Spec => [](TypeOK /\ Inv)
<1>1. TypeOK /\ Inv /\ [Next]_vars => Inv'
  BY PhasesStep, LimitStep, PlanStep DEF Inv
<1> QED  BY <1>1, InvInit, TypeInit, TypeStep, PTL DEF Spec

\* An update takes off a device only what the state records, VMware no longer has
\* and the scope of removal allows, whatever the limit truncates.
THEOREM RemovalsAreOrphans == Spec => []PlanRemovesOnlyOrphans
BY InvHolds, PTL DEF Inv

\* A save changes the entries of the devices it planned an update of, and no other,
\* provided a state file that is there can be accessed.
THEOREM OtherEntriesKept ==
    ASSUME "access" \notin FaultKinds
    PROVE  Spec => UnplannedEntriesKept
<1>1. Inv /\ StateIsCurrent /\ [Next]_vars =>
        [\A d \in Device : stateFile'[d] # stateFile[d] => d \in DevicesOf(plan)]_vars
  <2> SUFFICES ASSUME Inv, StateIsCurrent, [Next]_vars,
                      NEW d \in Device, stateFile'[d] # stateFile[d]
               PROVE  d \in DevicesOf(plan)
    OBVIOUS
  <2>1. CASE PersistState
    <3>1. seenState = stateFile
      BY <2>1 DEF PersistState, Inv, Phases, StateIsCurrent
    <3>2. stateFile'[d] = IF d \in DevicesOf(plan) THEN wanted[d] ELSE seenState[d]
      BY <2>1 DEF PersistState, SavedEntries
    <3> QED  BY <3>1, <3>2
  <2>2. CASE ~PersistState
    <3>1. stateFile' = stateFile
      <4>1. CASE StartCycle  BY <4>1 DEF StartCycle
      <4>2. CASE ReadStep  BY <4>2, ReadStepKeeps
      <4>3. CASE PlanUpdates  BY <4>3 DEF PlanUpdates
      <4>4. CASE EndStep
        BY <4>4, <2>2 DEF EndStep, CycleFails, UpdatesFail, SaveFails, Restart
      <4>5. CASE QuietStep  BY <4>5, QuietStepKeeps
      <4> QED  BY <4>1, <4>2, <4>3, <4>4, <4>5, NextCases
    <3> QED  BY <3>1
  <2> QED  BY <2>1, <2>2
<1>2. Init => StateIsCurrent  BY DEF Init, StateIsCurrent
<1>3. StateIsCurrent /\ [Next]_vars => StateIsCurrent'  BY StateStep
<1> QED  BY <1>1, <1>2, <1>3, InvHolds, PTL DEF Spec, UnplannedEntriesKept

-----------------------------------------------------------------------------
(* Foreign tags, when nobody but the tool puts a vCenter tag on a device   *)
(* and the console does not edit devices during a run.                     *)

ForeignTagsAreSeparate ==
    /\ {"add", "remove"} \cap EditKinds = {}
    /\ \A tags \in InitialTags : tags \cap VmwareTag = {}

Foreign(tags) == tags \ VmwareTag

\* What the tool wants and records are vCenter tags.
OnlyVmwareTagsManaged ==
    /\ \A v \in Vm : seenTags[v] \subseteq VmwareTag
    /\ \A d \in Device : /\ wanted[d] \subseteq VmwareTag
                         /\ Recorded(stateFile[d]) \subseteq VmwareTag
                         /\ Recorded(seenState[d]) \subseteq VmwareTag

\* The vCenter tags of a device are the tool's, in the snapshot and the updates too,
\* and they all agree on its foreign tags.
ForeignTagsAgree ==
    /\ \A d \in Device : liveTags[d] \cap VmwareTag \subseteq owned[d]
    /\ \A d \in found :
          /\ Foreign(seenLive[d]) = Foreign(liveTags[d])
          /\ seenLive[d] \cap VmwareTag \subseteq owned[d]
    /\ \A u \in plan \cup inFlight :
          /\ Foreign(u.tags) = Foreign(liveTags[u.device])
          /\ u.tags \cap VmwareTag \subseteq owned[u.device] \cup u.add

LEMMA ManagedStep == TypeOK /\ OnlyVmwareTagsManaged /\ [Next]_vars => OnlyVmwareTagsManaged'
<1> SUFFICES ASSUME TypeOK, OnlyVmwareTagsManaged, [Next]_vars PROVE OnlyVmwareTagsManaged'
  OBVIOUS
<1> USE DEF OnlyVmwareTagsManaged
<1>1. CASE StartCycle  BY <1>1 DEF StartCycle, Recorded
<1>2. CASE ReadStep
  <2>1. UNCHANGED <<wanted, stateFile>>  BY <1>2, ReadStepKeeps
  <2>2. \A d \in Device : seenState'[d] \in {seenState[d], stateFile[d], NoEntry}
    BY <1>2 DEF ReadStep, ListVms, ReadVmTags, ListDevicePage, ListCustomTags, LoadState
  <2>3. \A v \in Vm : seenTags'[v] \subseteq VmwareTag
    BY <1>2 DEF ReadStep, ListVms, ReadVmTags, ListDevicePage, ListCustomTags, LoadState, TypeOK
  <2> QED  BY <2>1, <2>2, <2>3 DEF Recorded
<1>3. CASE PlanUpdates
  <2>1. UNCHANGED <<stateFile, seenState, seenTags>>  BY <1>3 DEF PlanUpdates, reads
  <2>2. \A d \in Device : wanted'[d] \subseteq VmwareTag  BY <1>3, PlanFacts
  <2> QED  BY <2>1, <2>2 DEF Recorded
<1>4. CASE EndStep
  <2>1. /\ seenTags' = [v \in Vm |-> {}]
        /\ wanted' = [d \in Device |-> {}]
        /\ seenState' = [d \in Device |-> NoEntry]
    BY <1>4, EndStepEnds DEF CycleOver
  <2>2. \A d \in Device : stateFile'[d] \in {stateFile[d], seenState[d], wanted[d]}
    BY <1>4 DEF EndStep, CycleFails, UpdatesFail, PersistState, SaveFails, Restart, SavedEntries
  <2>3. \A d \in Device : Recorded(stateFile'[d]) \subseteq VmwareTag
    BY <2>2 DEF Recorded
  <2> QED  BY <2>1, <2>3 DEF Recorded
<1>5. CASE QuietStep
  BY <1>5, QuietStepKeeps DEF locals, reads, Recorded
<1> QED  BY <1>1, <1>2, <1>3, <1>4, <1>5, NextCases

LEMMA ForeignStep ==
    ASSUME ForeignTagsAreSeparate
    PROVE  TypeOK /\ Inv /\ OnlyVmwareTagsManaged /\ ForeignTagsAgree /\ [Next]_vars
             => ForeignTagsAgree'
<1> SUFFICES ASSUME TypeOK, Inv, OnlyVmwareTagsManaged, ForeignTagsAgree, [Next]_vars
             PROVE  ForeignTagsAgree'
  OBVIOUS
<1>1. CASE StartCycle
  BY <1>1 DEF StartCycle, external, ForeignTagsAgree
<1>2. CASE ReadStep
  <2>1. UNCHANGED <<pc, plan, liveTags, inFlight, owned>>
    BY <1>2, ReadStepKeeps DEF external
  <2>2. CASE ListDevicePage
    <3>1. PICK page \in SUBSET Device :
            /\ found' = found \cup page
            /\ seenLive' = [d \in Device |-> IF d \in page THEN liveTags[d] ELSE seenLive[d]]
      BY <2>2 DEF ListDevicePage
    <3>2. \A d \in found' : /\ d \in Device
                            /\ seenLive'[d] = liveTags[d] \/ (d \in found /\ seenLive'[d] = seenLive[d])
      BY <3>1 DEF TypeOK
    <3> QED  BY <2>1, <3>2 DEF ForeignTagsAgree
  <2>3. CASE ~ListDevicePage
    <3>1. seenLive' = seenLive /\ found' = found
      BY <1>2, <2>3 DEF ReadStep, ListVms, ReadVmTags, ListCustomTags, LoadState
    <3> QED  BY <2>1, <3>1 DEF ForeignTagsAgree
  <2> QED  BY <2>2, <2>3
<1>3. CASE PlanUpdates
  <2>1. UNCHANGED <<liveTags, inFlight, owned, seenLive, found>>
    BY <1>3 DEF PlanUpdates, external, reads
  <2>2. \A d \in found : /\ Foreign(seenLive[d]) = Foreign(liveTags[d])
                          /\ seenLive[d] \cap VmwareTag \subseteq owned[d]
    BY <1>3 DEF PlanUpdates, ForeignTagsAgree
  <2>3. ASSUME NEW u \in plan'
        PROVE  /\ Foreign(u.tags) = Foreign(liveTags[u.device])
               /\ u.tags \cap VmwareTag \subseteq owned[u.device] \cup u.add
    <3>1. PICK d \in Device : d \in found /\ \E diff \in DiffsOf(d, wanted') : u = UpdateOf(d, diff)
      BY <1>3, PlanFacts
    <3>2. /\ u.device = d
          /\ u.add \subseteq wanted'[d]
          /\ u.tags \subseteq seenLive[d] \cup u.add
          /\ seenLive[d] \ u.tags
                \subseteq Orphans(wanted'[d], LiveNames(d), seenState[d], allowlist)
      BY <1>3, <3>1, PlanFacts, UpdateFacts DEF Inv, WithinLimit
    <3>3. Orphans(wanted'[d], LiveNames(d), seenState[d], allowlist) \subseteq VmwareTag
      BY DEF Orphans, OnlyVmwareTagsManaged
    <3>4. u.add \subseteq VmwareTag
      BY <1>3, <3>2, PlanFacts DEF OnlyVmwareTagsManaged
    <3> QED  BY <2>2, <3>1, <3>2, <3>3, <3>4 DEF Foreign
  <2> QED  BY <2>1, <2>2, <2>3 DEF ForeignTagsAgree
<1>4. CASE EndStep
  <2>1. UNCHANGED <<liveTags, owned>> /\ inFlight' \subseteq inFlight
    BY <1>4 DEF EndStep, CycleFails, UpdatesFail, PersistState, SaveFails, Restart, external
  <2>2. plan' = {} /\ found' = {}
    BY <1>4, EndStepEnds DEF CycleOver
  <2> QED  BY <2>1, <2>2 DEF ForeignTagsAgree
<1>5. CASE VisionOneApplies
  <2>1. UNCHANGED <<plan, seenLive, found>> /\ inFlight' = {}
    BY <1>5 DEF VisionOneApplies, locals, reads
  <2>2. PICK done \in SUBSET DevicesOf(inFlight) :
          /\ liveTags' = [d \in Device |->
                IF d \in done THEN UpdateFor(inFlight, d).tags ELSE liveTags[d]]
          /\ owned' = [d \in Device |->
                IF d \in done THEN owned[d] \cup (UpdateFor(inFlight, d).add \ liveTags[d])
                              ELSE owned[d]]
    BY <1>5 DEF VisionOneApplies
  <2>3. \A d \in done : UpdateFor(inFlight, d) \in inFlight /\ UpdateFor(inFlight, d).device = d
    BY DEF DevicesOf, UpdateFor
  <2>4. \A d \in Device : Foreign(liveTags'[d]) = Foreign(liveTags[d])
    BY <2>2, <2>3 DEF ForeignTagsAgree
  <2>5. \A d \in Device : owned[d] \subseteq owned'[d]
    BY <2>2
  <2>6. \A d \in Device : liveTags'[d] \cap VmwareTag \subseteq owned'[d]
    BY <2>2, <2>3 DEF ForeignTagsAgree
  <2>7. (\A u \in plan : u.device \in Device) /\ found \subseteq Device
    BY DEF TypeOK, Update
  <2> QED  BY <2>1, <2>4, <2>5, <2>6, <2>7 DEF ForeignTagsAgree
<1>6. CASE SendUpdates \/ UpdatesAnswered
  <2>1. /\ UNCHANGED <<liveTags, owned, plan, seenLive, found>>
        /\ inFlight' \subseteq plan \cup inFlight
    BY <1>6 DEF SendUpdates, UpdatesAnswered, external, locals, reads
  <2> QED  BY <2>1 DEF ForeignTagsAgree
<1>7. CASE Others \/ UNCHANGED vars
  <2>1. UNCHANGED <<liveTags, owned, inFlight, plan, seenLive, found>>
    BY <1>7, ForeignTagsAreSeparate
    DEF ForeignTagsAreSeparate, Others, TagOrUntagVm, ConsoleAdds, ConsoleRemoves, CreateTag,
        Edit, vars, external, locals, reads
  <2> QED  BY <2>1 DEF ForeignTagsAgree
<1> QED  BY <1>1, <1>2, <1>3, <1>4, <1>5, <1>6, <1>7, NextCases DEF QuietStep

LEMMA ForeignInit ==
    ASSUME ForeignTagsAreSeparate, Init PROVE OnlyVmwareTagsManaged /\ ForeignTagsAgree
<1>1. OnlyVmwareTagsManaged
  BY DEF Init, OnlyVmwareTagsManaged, Recorded
<1>2. ForeignTagsAgree
  BY ForeignTagsAreSeparate DEF ForeignTagsAreSeparate, Init, ForeignTagsAgree
<1> QED  BY <1>1, <1>2

\* No step of the tool or of Vision One takes a foreign tag off a device, whatever
\* crashes, is refused, is lost or arrives late.
THEOREM ForeignTagsAreKept ==
    ASSUME ForeignTagsAreSeparate
    PROVE  Spec => ForeignTagsStay
<1>1. TypeOK /\ ForeignTagsAgree /\ [Next]_vars =>
        [edits' = edits => \A d \in Device : liveTags[d] \ owned[d] \subseteq liveTags'[d]]_vars
  <2> SUFFICES ASSUME TypeOK, ForeignTagsAgree, [Next]_vars, edits' = edits,
                      NEW d \in Device, NEW t \in liveTags[d] \ owned[d]
               PROVE  t \in liveTags'[d]
    OBVIOUS
  <2>1. CASE VisionOneApplies
    <3>1. PICK done \in SUBSET DevicesOf(inFlight) :
            liveTags' = [e \in Device |->
                IF e \in done THEN UpdateFor(inFlight, e).tags ELSE liveTags[e]]
      BY <2>1 DEF VisionOneApplies
    <3>2. CASE d \in done
      <4>1. UpdateFor(inFlight, d) \in inFlight /\ UpdateFor(inFlight, d).device = d
        BY <3>2 DEF DevicesOf, UpdateFor
      <4>2. t \in Foreign(liveTags[d])  BY DEF ForeignTagsAgree, Foreign
      <4> QED  BY <3>1, <3>2, <4>1, <4>2 DEF ForeignTagsAgree, Foreign
    <3>3. CASE d \notin done  BY <3>1, <3>3
    <3> QED  BY <3>2, <3>3
  <2>2. CASE Others
    <3>1. edits' # edits
      BY <2>2 DEF Others, TagOrUntagVm, ConsoleAdds, ConsoleRemoves, CreateTag, Edit, TypeOK
    <3> QED  BY <3>1
  <2>3. CASE ~VisionOneApplies /\ ~Others
    <3>1. liveTags' = liveTags
      BY <2>3, NextCases, ReadStepKeeps
      DEF StartCycle, PlanUpdates, EndStep, CycleFails, UpdatesFail, PersistState, SaveFails,
          Restart, QuietStep, SendUpdates, UpdatesAnswered, vars, external
    <3> QED  BY <3>1
  <2> QED  BY <2>1, <2>2, <2>3
<1>2. TypeOK /\ Inv /\ OnlyVmwareTagsManaged /\ ForeignTagsAgree /\ [Next]_vars
        => (OnlyVmwareTagsManaged /\ ForeignTagsAgree)'
  BY ManagedStep, ForeignStep
<1>3. Init => OnlyVmwareTagsManaged /\ ForeignTagsAgree
  BY ForeignInit
<1> QED  BY <1>1, <1>2, <1>3, InvHolds, PTL DEF Spec, ForeignTagsStay

-----------------------------------------------------------------------------
(* The cycle at the register of StateRegister, step by step.               *)

\* What the cycle in progress has loaded, and the entries it asks to replace.
Held == [p \in {"execute"} |->
            IF pc = "idle" \/ "state" \in pending THEN Nothing ELSE seenState]
Changes == [p \in {"execute"} |-> [d \in DevicesOf(plan) |-> wanted[d]]]
mapped == <<stateFile, Held, Changes>>

\* A cycle that has loaded holds a state.
LEMMA HeldOf ==
    ASSUME TypeOK
    PROVE  Held["execute"] # Nothing <=> pc # "idle" /\ "state" \notin pending
BY SyncAssumption DEF Held, TypeOK

\* Without a plan nothing is asked for.
LEMMA NoPlanNoChange ==
    ASSUME plan = {}
    PROVE  Changes = [p \in {"execute"} |-> Register!NoChange]
<1>1. DevicesOf(plan) = {}  BY DEF DevicesOf
<1>2. [d \in DevicesOf(plan) |-> wanted[d]] = Register!NoChange
  BY <1>1 DEF Register!NoChange
<1> QED  BY <1>2 DEF Changes

\* The end of a cycle leaves nothing of it.
LEMMA EndLeaves ==
    ASSUME TypeOK, CycleOver
    PROVE  /\ Held' = [Held EXCEPT !["execute"] = Nothing]
           /\ Changes' = [Changes EXCEPT !["execute"] = Register!NoChange]
<1>1. Held' = [Held EXCEPT !["execute"] = Nothing]
  BY DEF CycleOver, Held
<1>2. DevicesOf(plan)' = {}  BY DEF CycleOver, DevicesOf
<1>3. [d \in DevicesOf(plan) |-> wanted[d]]' = Register!NoChange
  BY <1>2 DEF Register!NoChange
<1> QED  BY <1>1, <1>3 DEF Changes

\* The end of a cycle that saves nothing gives up what was loaded.
LEMMA EndGivesUp ==
    ASSUME TypeOK, Phases, EndStep, stateFile' = stateFile
    PROVE  Register!GiveUp("execute") \/ UNCHANGED mapped
<1>1. /\ Held' = [Held EXCEPT !["execute"] = Nothing]
      /\ Changes' = [Changes EXCEPT !["execute"] = Register!NoChange]
  BY EndStepEnds, EndLeaves
<1>2. CASE Held["execute"] = Nothing
  <2>1. plan = {}  BY <1>2, HeldOf DEF Phases
  <2>2. Changes["execute"] = Register!NoChange  BY <2>1, NoPlanNoChange
  <2> QED  BY <1>1, <1>2, <2>2 DEF Held, Changes, mapped
<1>3. CASE Held["execute"] # Nothing
  BY <1>1, <1>3 DEF Register!GiveUp, Register!Leave, Held, Changes
<1> QED  BY <1>2, <1>3

\* The entries saved are those loaded, with those asked for replaced.
LEMMA PersistSaves ==
    ASSUME TypeOK, Phases, PersistState
    PROVE  Register!Save("execute")
<1>1. Held["execute"] = seenState /\ Held["execute"] # Nothing
  BY HeldOf DEF PersistState, Phases, Held
<1>2. /\ Held' = [Held EXCEPT !["execute"] = Nothing]
      /\ Changes' = [Changes EXCEPT !["execute"] = Register!NoChange]
  BY EndLeaves DEF PersistState
<1>3. stateFile' = Register!Put(seenState, Changes["execute"])
  BY DEF PersistState, SavedEntries, Register!Put, Changes
<1> QED  BY <1>1, <1>2, <1>3 DEF Register!Save, Register!Leave, Held, Changes

\* The plan settles, for some devices, the entries to be saved.
LEMMA PlanAsks ==
    ASSUME TypeOK, Phases, PlanUpdates
    PROVE  Register!Plan("execute")
<1>1. Held["execute"] # Nothing /\ UNCHANGED <<stateFile, pending, seenState>>
  BY HeldOf DEF PlanUpdates, reads
<1>2. Held' = Held  BY <1>1 DEF PlanUpdates, Held
<1>3. Changes["execute"] = Register!NoChange
  BY NoPlanNoChange DEF PlanUpdates, Phases
<1> DEFINE changed == [d \in DevicesOf(plan) |-> wanted[d]]'
<1>4. DevicesOf(plan)' \in SUBSET Device /\ changed \in [DevicesOf(plan)' -> Entry]
  <2>1. \A u \in plan' : u.device \in Device
    BY PlanFacts, UpdateFacts
  <2>2. DevicesOf(plan)' \subseteq Device  BY <2>1 DEF DevicesOf
  <2>3. wanted' \in [Device -> SUBSET Tag]  BY PlanFacts
  <2> QED  BY <2>2, <2>3 DEF Entry
<1>5. Changes' = [Changes EXCEPT !["execute"] = changed]
  BY DEF Changes
<1> HIDE DEF changed
<1> QED  BY <1>1, <1>2, <1>3, <1>4, <1>5 DEF Register!Plan, Held, Changes

LEMMA CycleStepRefines ==
    TypeOK /\ Phases /\ [Next]_vars => [Register!Next]_mapped
<1> SUFFICES ASSUME TypeOK, Phases, [Next]_vars,
                    ~UNCHANGED mapped
             PROVE  \E p \in {"execute"} :
                        Register!Load(p) \/ Register!Plan(p) \/ Register!Save(p) \/ Register!GiveUp(p)
  BY DEF Register!Next
<1>1. ~StartCycle
  <2>1. ASSUME StartCycle PROVE UNCHANGED mapped
    BY <2>1 DEF StartCycle, Held, Read, Changes, DevicesOf, mapped
  <2> QED  BY <2>1
<1>2. CASE LoadState
  <2>1. /\ pc' = pc /\ stateFile' = stateFile /\ pc = "fetch"
        /\ "state" \in pending /\ "state" \notin pending'
        /\ seenState' \in {stateFile, [d \in Device |-> NoEntry]}
        /\ UNCHANGED <<plan, wanted>>
    BY <1>2 DEF LoadState, Phases
  <2>2. Held = [p \in {"execute"} |-> Nothing] /\ Held' = [p \in {"execute"} |-> seenState']
    BY <2>1 DEF Held
  <2>3. Register!Empty = [d \in Device |-> NoEntry]
    BY DEF Register!Empty
  <2>4. Changes' = Changes  BY <2>1 DEF Changes, DevicesOf
  <2>5. Register!Load("execute")
    BY <2>1, <2>2, <2>3, <2>4 DEF Register!Load, Held, Changes
  <2> QED  BY <2>5
<1>3. ~(ReadStep /\ ~LoadState)
  <2>1. ASSUME ReadStep, ~LoadState PROVE UNCHANGED mapped
    <3>1. UNCHANGED <<pc, seenState, stateFile>> /\ ("state" \in pending <=> "state" \in pending')
      BY <2>1 DEF ReadStep, ListVms, ReadVmTags, ListDevicePage, ListCustomTags
    <3>2. UNCHANGED <<plan, wanted>>  BY <2>1, ReadStepKeeps
    <3> QED  BY <3>1, <3>2 DEF Held, Changes, DevicesOf, mapped
  <2> QED  BY <2>1
<1>4. CASE PlanUpdates
  BY <1>4, PlanAsks
<1>5. CASE PersistState
  BY <1>5, PersistSaves
<1>6. CASE EndStep /\ ~PersistState
  <2>1. stateFile' = stateFile
    BY <1>6 DEF EndStep, CycleFails, UpdatesFail, SaveFails, Restart
  <2> QED  BY <1>6, <2>1, EndGivesUp
<1>7. ~QuietStep
  <2>1. ASSUME QuietStep PROVE UNCHANGED mapped
    <3>1. UNCHANGED <<pending, seenState, stateFile, plan, wanted>>
      BY <2>1, QuietStepKeeps DEF locals, reads
    <3>2. pc = "idle" <=> pc' = "idle"
      BY <2>1 DEF QuietStep, VisionOneApplies, SendUpdates, UpdatesAnswered, Others,
                  TagOrUntagVm, ConsoleAdds, ConsoleRemoves, CreateTag, vars
    <3> QED  BY <3>1, <3>2 DEF Held, Changes, DevicesOf, mapped
  <2> QED  BY <2>1
<1> QED  BY <1>1, <1>2, <1>3, <1>4, <1>5, <1>6, <1>7, NextCases

\* A cycle, however it ends, is at most one load of the state file and one save after it,
\* each whole and at one moment.  The save writes what was loaded with the entries of the
\* planned devices, and no other, replaced: what the cycle relies on is the register that
\* FileSyncStateRepo keeps (FileIsRegister of StateFileProofs), and nothing recorded of a
\* device it did not plan an update of is lost by it.
THEOREM CycleIsClient == Spec => CycleUsesRegister
<1>1. Init => Register!Init
  <2> SUFFICES ASSUME Init PROVE Register!Init
    OBVIOUS
  <2>1. Changes = [p \in {"execute"} |-> Register!NoChange]
    BY NoPlanNoChange DEF Init
  <2> QED  BY <2>1 DEF Init, Register!Init, Register!State, Entry, Held, Changes
<1>2. UNCHANGED mapped <=> UNCHANGED Register!vars
  BY DEF mapped, Register!vars, Held, Changes
<1>3. TypeOK /\ Phases /\ [Next]_vars => [Register!Next]_(Register!vars)
  BY CycleStepRefines, <1>2
<1> QED  BY <1>1, <1>3, InvHolds, PTL
         DEF Spec, Inv, CycleUsesRegister, Register!Spec
=============================================================================
