------------------------- MODULE ConvergenceProofs -------------------------
(***************************************************************************)
(* What a cycle plans closes the gap between the snapshots and what is     *)
(* wanted, and nothing else; one undisturbed cycle makes the mirror exact, *)
(* and no later one touches it.                                            *)
(***************************************************************************)
EXTENDS SyncOrchestratorProofs

\* The tags of device d when the snapshots are brought to what is wanted.
Goal(d) ==
    (seenLive[d] \ SplitLookup(Orphans(wanted[d], LiveNames(d), seenState[d], allowlist)))
        \cup SplitLookup(wanted[d])

Matched(matches) == {m[2] : m \in matches}

\* wanted and plan are what PlanUpdates computes for these matches.
PlannedFrom(matches, source) ==
    /\ source \in [Matched(matches) -> Vm]
    /\ \A d \in Matched(matches) : <<source[d], d>> \in matches
    /\ wanted = [d \in Device |-> IF d \in Matched(matches) THEN Resolved(source[d]) ELSE {}]
    /\ \A d \in Matched(matches) : \A diff \in DiffsOf(d, wanted) : UpdateOf(d, diff) \in plan
    /\ \A u \in plan : \E d \in Matched(matches) : \E diff \in DiffsOf(d, wanted) : u = UpdateOf(d, diff)

\* From the planning to the end of the cycle, the plan is that of the snapshots.
PlanHasSource ==
    pc \in {"apply", "await", "persist"} =>
        \E matches \in CycleMatches : \E source : PlannedFrom(matches, source)

-----------------------------------------------------------------------------
LEMMA PlanSourced ==
    ASSUME PlanUpdates
    PROVE  \E matches \in CycleMatches : \E source : PlannedFrom(matches, source)'
<1>1. UNCHANGED <<pending, listed, found, twice, seenTags, seenLive, seenCatalog, seenState, allowlist>>
  BY DEF PlanUpdates, reads, process
<1>2. PICK matches \in CycleMatches :
        LET matched == {m[2] : m \in matches} IN
        \E source \in [matched -> Vm] :
          /\ \A d \in matched : <<source[d], d>> \in matches
          /\ wanted' = [d \in Device |-> IF d \in matched THEN Resolved(source[d]) ELSE {}]
          /\ plan' = UNION {{UpdateOf(d, diff) : diff \in DiffsOf(d, wanted')} : d \in matched}
  BY DEF PlanUpdates
<1>3. PICK source \in [Matched(matches) -> Vm] :
          /\ \A d \in Matched(matches) : <<source[d], d>> \in matches
          /\ wanted' = [d \in Device |-> IF d \in Matched(matches) THEN Resolved(source[d]) ELSE {}]
          /\ plan' = UNION {{UpdateOf(d, diff) : diff \in DiffsOf(d, wanted')} : d \in Matched(matches)}
  BY <1>2 DEF Matched
<1>4. \A v : Resolved(v)' = (seenTags[v] \cap seenCatalog)
  BY <1>1 DEF Resolved
<1>5. \A d : DiffsOf(d, wanted)' = DiffsOf(d, wanted')
  BY <1>1 DEF DiffsOf, LiveNames
<1>6. \A d, diff : UpdateOf(d, diff)' = UpdateOf(d, diff)
  BY <1>1 DEF UpdateOf, SplitLookup
<1> DEFINE updates(d) == {UpdateOf(d, diff) : diff \in DiffsOf(d, wanted')}
<1>7. plan' = UNION {updates(d) : d \in Matched(matches)}
  BY <1>3
<1>8. \A d \in Matched(matches) : \A diff \in DiffsOf(d, wanted)' : UpdateOf(d, diff)' \in plan'
  <2>1. \A d \in Matched(matches) : updates(d) \subseteq plan'
    <3> HIDE DEF updates
    <3> QED  BY <1>7
  <2>2. \A d : \A diff \in DiffsOf(d, wanted') : UpdateOf(d, diff) \in updates(d)
    OBVIOUS
  <2> HIDE DEF updates
  <2> QED  BY <1>5, <1>6, <2>1, <2>2
<1>9. \A u \in plan' : \E d \in Matched(matches) :
            \E diff \in DiffsOf(d, wanted)' : u = UpdateOf(d, diff)'
  <2>1. \A u \in plan' : \E d \in Matched(matches) : u \in updates(d)
    <3> HIDE DEF updates
    <3> QED  BY <1>7
  <2>2. \A d : \A u \in updates(d) : \E diff \in DiffsOf(d, wanted') : u = UpdateOf(d, diff)
    OBVIOUS
  <2> HIDE DEF updates
  <2> QED  BY <1>5, <1>6, <2>1, <2>2
<1>10. wanted' = [d \in Device |-> IF d \in Matched(matches) THEN Resolved(source[d])' ELSE {}]
  BY <1>3, <1>4 DEF Resolved
<1>11. PlannedFrom(matches, source)'
  BY <1>3, <1>8, <1>9, <1>10 DEF PlannedFrom
<1> QED  BY <1>11

LEMMA SourceStep == Phases /\ PlanHasSource /\ [Next]_vars => PlanHasSource'
<1> SUFFICES ASSUME Phases, PlanHasSource, [Next]_vars, pc' \in {"apply", "await", "persist"}
             PROVE  \E matches \in CycleMatches' : \E source : PlannedFrom(matches, source)'
  BY DEF PlanHasSource
<1>1. CASE StartCycle  BY <1>1 DEF StartCycle
<1>2. CASE ReadStep
  <2>1. pc = "fetch" /\ pc' = pc  BY <1>2, ReadStepKeeps DEF Phases
  <2> QED  BY <2>1
<1>3. CASE PlanUpdates
  <2>1. CycleMatches' = CycleMatches  BY <1>3 DEF PlanUpdates, reads, CycleMatches
  <2> QED  BY <1>3, <2>1, PlanSourced
<1>4. CASE EndStep  BY <1>4, EndStepEnds DEF CycleOver
<1>5. CASE QuietStep
  <2>1. UNCHANGED <<listed, found, twice, seenTags, seenLive, seenCatalog, seenState, allowlist,
                    wanted, plan>>
    BY <1>5, QuietStepKeeps DEF locals, reads, process
  <2>2. pc \in {"apply", "await", "persist"}
    BY <1>5 DEF QuietStep, VisionOneApplies, SendUpdates, UpdatesAnswered, Others,
                TagOrUntagVm, ConsoleAdds, ConsoleRemoves, CreateTag, vars
  <2>3. \A matches, source : PlannedFrom(matches, source)' <=> PlannedFrom(matches, source)
    <3>1. \A v : Resolved(v)' = Resolved(v)  BY <2>1 DEF Resolved
    <3>2. \A d : DiffsOf(d, wanted)' = DiffsOf(d, wanted)
      BY <2>1 DEF DiffsOf, LiveNames
    <3>3. \A d, diff : UpdateOf(d, diff)' = UpdateOf(d, diff)
      BY <2>1 DEF UpdateOf, SplitLookup
    <3> QED  BY <2>1, <3>1, <3>2, <3>3 DEF PlannedFrom
  <2>4. CycleMatches' = CycleMatches  BY <2>1 DEF CycleMatches
  <2> QED  BY <2>2, <2>3, <2>4 DEF PlanHasSource
<1> QED  BY <1>1, <1>2, <1>3, <1>4, <1>5, NextCases

-----------------------------------------------------------------------------
(* What a plan makes of one device.                                        *)

LEMMA GoalTyped ==
    ASSUME TypeOK, NEW d \in Device
    PROVE  /\ seenLive[d] \in SUBSET Tag /\ wanted[d] \in SUBSET Tag
           /\ Goal(d) \in SUBSET Tag
           /\ Goal(d) \subseteq seenLive[d] \cup wanted[d]
BY DEF TypeOK, Goal, SplitLookup

\* An update brings its device to the goal, unless the limit is reached.
LEMMA UpdateReachesGoal ==
    ASSUME TypeOK, NEW d \in Device, NEW diff \in DiffsOf(d, wanted)
    PROVE  LET u == UpdateOf(d, diff) IN
           /\ u.device = d
           /\ u.tags \subseteq Goal(d)
           /\ u.tags = Goal(d) \/ Cardinality(u.tags) = TagLimit
           /\ Cardinality(Goal(d)) <= TagLimit => u.tags = Goal(d)
<1> DEFINE add == SplitLookup(diff.add)
           kept == seenLive[d] \ SplitLookup(diff.remove)
<1>1. diff.add = wanted[d] \ LiveNames(d)
      /\ diff.remove = Orphans(wanted[d], LiveNames(d), seenState[d], allowlist)
  BY DEF DiffsOf, ComputeSingleDiff, DiffOrNull
<1>2. kept \cup add = Goal(d)
  <2>1. kept = seenLive[d] \ SplitLookup(Orphans(wanted[d], LiveNames(d), seenState[d], allowlist))
    BY <1>1
  <2>2. add = SplitLookup(wanted[d]) \ seenLive[d]
    BY <1>1 DEF SplitLookup, LiveNames
  <2>3. SplitLookup(wanted[d]) \cap seenLive[d] \subseteq kept
    BY <2>1 DEF SplitLookup, Orphans
  <2> HIDE DEF kept, add
  <2> QED  BY <2>1, <2>2, <2>3 DEF Goal
<1>3. kept \in SUBSET Tag /\ add \in SUBSET Tag
  <2> HIDE DEF kept, add
  <2> QED  BY <1>2, GoalTyped
<1>4. UpdateOf(d, diff) = [device |-> d, add |-> add, tags |-> Truncated(kept, add)]
  BY DEF UpdateOf
<1> HIDE DEF kept, add
<1>5. /\ Truncated(kept, add) \subseteq Goal(d)
      /\ Truncated(kept, add) = Goal(d) \/ Cardinality(Truncated(kept, add)) = TagLimit
  BY <1>2, <1>3, TruncatedFacts
<1>6. Cardinality(Goal(d)) <= TagLimit => Truncated(kept, add) = Goal(d)
  BY <1>2 DEF Truncated
<1> QED  BY <1>4, <1>5, <1>6

\* A device that has no diff is at its goal.
LEMMA NoDiffAtGoal ==
    ASSUME TypeOK, NEW d \in Device, DiffsOf(d, wanted) = {}, wanted[d] \subseteq seenCatalog
    PROVE  seenLive[d] = Goal(d)
<1> DEFINE orphans == Orphans(wanted[d], LiveNames(d), seenState[d], allowlist)
<1>1. wanted[d] \ LiveNames(d) = {} /\ orphans = {}
  <2>1. CASE UpToDate(wanted[d], LiveNames(d), seenState[d])
    <3>1. wanted[d] \in SUBSET Tag  BY DEF TypeOK
    <3>2. Recorded(seenState[d]) = wanted[d]
      BY <2>1, <3>1, DiffAssumption DEF UpToDate, Recorded
    <3> QED  BY <2>1, <3>2 DEF UpToDate, Orphans
  <2>2. CASE ~UpToDate(wanted[d], LiveNames(d), seenState[d])
    BY <2>2 DEF DiffsOf, ComputeSingleDiff, DiffOrNull
  <2> QED  BY <2>1, <2>2
<1> QED  BY <1>1 DEF Goal, SplitLookup, LiveNames

LEMMA PlanReachesGoal ==
    ASSUME TypeOK, NEW matches \in SUBSET (Vm \X Device), NEW source,
           PlannedFrom(matches, source), NEW d \in Matched(matches)
    PROVE  /\ d \in Device
           /\ wanted[d] = Resolved(source[d]) /\ wanted[d] \subseteq seenCatalog
           /\ PlannedTags(d) \subseteq Goal(d)
           /\ PlannedTags(d) = Goal(d) \/ Cardinality(PlannedTags(d)) = TagLimit
           /\ Cardinality(Goal(d)) <= TagLimit => PlannedTags(d) = Goal(d)
<1>1. Matched(matches) \subseteq Device  BY DEF Matched
<1>2. wanted[d] = Resolved(source[d]) /\ wanted[d] \subseteq seenCatalog
  BY <1>1 DEF PlannedFrom, Resolved
<1>3. \A e \in Matched(matches) : \A diff \in DiffsOf(e, wanted) : UpdateOf(e, diff).device = e
  BY <1>1, UpdateReachesGoal
<1>4. CASE d \in DevicesOf(plan)
  <2>1. UpdateFor(plan, d) \in plan /\ UpdateFor(plan, d).device = d
    BY <1>4 DEF DevicesOf, UpdateFor
  <2>2. PICK e \in Matched(matches) :
            \E diff \in DiffsOf(e, wanted) : UpdateFor(plan, d) = UpdateOf(e, diff)
    BY <2>1 DEF PlannedFrom
  <2>3. e = d
    BY <1>3, <2>1, <2>2
  <2>4. PlannedTags(d) = UpdateFor(plan, d).tags
    BY <1>4 DEF PlannedTags
  <2> QED  BY <1>1, <1>2, <2>2, <2>3, <2>4, UpdateReachesGoal
<1>5. CASE d \notin DevicesOf(plan)
  <2>1. DiffsOf(d, wanted) = {}
    <3> SUFFICES ASSUME NEW diff \in DiffsOf(d, wanted) PROVE FALSE
      OBVIOUS
    <3>1. UpdateOf(d, diff) \in plan /\ UpdateOf(d, diff).device = d
      BY <1>3 DEF PlannedFrom
    <3> QED  BY <1>5, <3>1 DEF DevicesOf
  <2>2. PlannedTags(d) = seenLive[d]
    BY <1>5 DEF PlannedTags
  <2> QED  BY <1>1, <1>2, <2>1, <2>2, NoDiffAtGoal
<1> QED  BY <1>1, <1>2, <1>4, <1>5

\* Unmatched devices are not wanted anything of, and are left as they are.
LEMMA UnmatchedUntouched ==
    ASSUME TypeOK, NEW matches \in SUBSET (Vm \X Device), NEW source,
           PlannedFrom(matches, source), NEW d \in Device, d \notin Matched(matches)
    PROVE  wanted[d] = {} /\ d \notin DevicesOf(plan)
<1>1. wanted[d] = {}  BY DEF PlannedFrom
<1>2. ASSUME NEW u \in plan PROVE u.device # d
  <2>1. PICK e \in Matched(matches) : \E diff \in DiffsOf(e, wanted) : u = UpdateOf(e, diff)
    BY DEF PlannedFrom
  <2>2. e \in Device  BY DEF Matched
  <2>3. u.device = e  BY <2>1, <2>2, UpdateReachesGoal
  <2> QED  BY <2>3
<1> QED  BY <1>1, <1>2 DEF DevicesOf

\* No orphan that can be looked up is part of the goal.
LEMMA NoOrphanInGoal ==
    ASSUME NEW d \in Device, NEW t \in Goal(d), t \in Recorded(seenState[d]),
           RemoveOrphanedTags, IsEligibleForRemoval(t, allowlist)
    PROVE  t \in wanted[d] \cup SlashKeyed \/ t \notin seenCatalog
BY DEF Goal, SplitLookup, Orphans, LiveNames

-----------------------------------------------------------------------------
(* The plan, under every fault and edit and for every matching.            *)

Sourced == TypeOK /\ Inv /\ PlanHasSource

LEMMA SourcedHolds == Spec => []Sourced
<1>1. Init => PlanHasSource
  BY DEF Init, PlanHasSource
<1>2. TypeOK /\ Inv /\ PlanHasSource /\ [Next]_vars => PlanHasSource'
  BY SourceStep DEF Inv
<1> QED  BY <1>1, <1>2, InvHolds, PTL DEF Spec, Sourced

\* The matches a plan was computed from: a result of matching, but for those lost of
\* devices listed twice.
LEMMA SourceOfPlan ==
    ASSUME Sourced, pc \in {"apply", "await", "persist"}
    PROVE  \E all \in Matchings[listed][found], matches \in SUBSET (Vm \X Device) :
              /\ matches \subseteq all /\ matches \subseteq listed \X found
              /\ twice = {} => matches = all
              /\ \E source : PlannedFrom(matches, source)
<1>1. PICK matches \in CycleMatches : \E source : PlannedFrom(matches, source)
  BY DEF Sourced, PlanHasSource
<1>2. PICK all \in Matchings[listed][found], lost \in SUBSET twice :
            matches = {m \in all : m[2] \notin lost}
  BY <1>1 DEF CycleMatches
<1>3. listed \in SUBSET Vm /\ found \in SUBSET Device
  BY DEF Sourced, TypeOK
<1>4. all \subseteq listed \X found
  BY <1>2, <1>3, MatchesAreListed
<1>5. matches \subseteq all /\ (twice = {} => matches = all)
  BY <1>2
<1> QED  BY <1>1, <1>2, <1>3, <1>4, <1>5

LEMMA CompleteByGoal == Sourced => PlanCompletesMirror
<1> SUFFICES ASSUME Sourced, pc \in {"apply", "await", "persist"}, NEW d \in Device
             PROVE  /\ \/ wanted[d] \ SlashKeyed \subseteq PlannedTags(d)
                       \/ Cardinality(PlannedTags(d)) = TagLimit
                    /\ (wanted[d] # {} \/ d \in DevicesOf(plan)) =>
                          \A t \in PlannedTags(d) \cap Recorded(seenState[d]) :
                              (RemoveOrphanedTags /\ IsEligibleForRemoval(t, allowlist))
                                  => t \in wanted[d] \cup SlashKeyed \/ t \notin seenCatalog
  BY DEF PlanCompletesMirror
<1>1. PICK matches \in SUBSET (Vm \X Device) : \E source : PlannedFrom(matches, source)
  BY SourceOfPlan
<1>2. PICK source : PlannedFrom(matches, source)
  BY <1>1
<1>3. CASE d \in Matched(matches)
  <2>1. /\ wanted[d] \subseteq seenCatalog
        /\ PlannedTags(d) \subseteq Goal(d)
        /\ PlannedTags(d) = Goal(d) \/ Cardinality(PlannedTags(d)) = TagLimit
    BY <1>2, <1>3, PlanReachesGoal DEF Sourced
  <2>2. wanted[d] \ SlashKeyed \subseteq Goal(d)
    BY <2>1 DEF Goal, SplitLookup
  <2> QED  BY <2>1, <2>2, NoOrphanInGoal
<1>4. CASE d \notin Matched(matches)
  BY <1>2, <1>4, UnmatchedUntouched DEF Sourced
<1> QED  BY <1>3, <1>4

\* Whatever the faults and the drift before it, a plan misses no wanted tag and no
\* orphan, but for the limit and the names with a "/" too many.
THEOREM PlansAreComplete == Spec => []PlanCompletesMirror
BY SourcedHolds, CompleteByGoal, PTL

LEMMA EffectByGoal == Sourced => UpdatesHaveEffect
<1> SUFFICES ASSUME Sourced, NEW u \in plan,
                    u.tags = seenLive[u.device], Cardinality(u.tags) # TagLimit
             PROVE  \E t \in SlashKeyed :
                        t \in (wanted[u.device] \ seenLive[u.device])
                                 \cup (Recorded(seenState[u.device]) \ wanted[u.device])
  BY DEF UpdatesHaveEffect
<1>1. pc \in {"apply", "await", "persist"}
  BY DEF Sourced, Inv, Phases, TypeOK
<1>2. PICK matches \in SUBSET (Vm \X Device) : \E source : PlannedFrom(matches, source)
  BY <1>1, SourceOfPlan
<1>3. PICK source : PlannedFrom(matches, source)
  BY <1>2
<1>4. PICK d \in Matched(matches) : \E diff \in DiffsOf(d, wanted) : u = UpdateOf(d, diff)
  BY <1>3 DEF PlannedFrom
<1>5. PICK diff \in DiffsOf(d, wanted) : u = UpdateOf(d, diff)
  BY <1>4
<1>6. d \in Device /\ wanted[d] \subseteq seenCatalog
  BY <1>3, PlanReachesGoal DEF Sourced
<1>7. u.device = d /\ seenLive[d] = Goal(d)
  BY <1>5, <1>6, UpdateReachesGoal DEF Sourced
<1> DEFINE orphans == Orphans(wanted[d], LiveNames(d), seenState[d], allowlist)
<1>8. PICK t \in (wanted[d] \ LiveNames(d)) \cup orphans : TRUE
  BY DEF DiffsOf, ComputeSingleDiff, DiffOrNull
<1>9. CASE t \in wanted[d] \ LiveNames(d)
  <2>1. t \in seenCatalog /\ t \notin seenLive[d]
    BY <1>6, <1>9 DEF LiveNames
  <2>2. t \in SlashKeyed
    BY <1>7, <1>9, <2>1 DEF Goal, SplitLookup
  <2> QED  BY <1>7, <1>9, <2>1, <2>2
<1>10. CASE t \in orphans
  <2>1. t \in Recorded(seenState[d]) \ wanted[d] /\ t \in seenCatalog /\ t \in seenLive[d]
    BY <1>10 DEF Orphans, LiveNames
  <2>2. t \in SlashKeyed
    BY <1>7, <1>10, <2>1 DEF Goal, SplitLookup
  <2> QED  BY <1>7, <2>1, <2>2
<1> QED  BY <1>8, <1>9, <1>10

\* No update is sent that leaves its device as it was listed, but at the limit and for
\* the names with a "/" too many.
THEOREM NoIdleUpdates == Spec => []UpdatesHaveEffect
BY SourcedHolds, EffectByGoal, PTL

-----------------------------------------------------------------------------
(* One cycle makes the mirror exact, and none touches it from then on.     *)

\* With everything listed there is one result of matching, and it gives a device one VM.
OneMatching ==
    \E matches \in SUBSET (Vm \X Device) :
        /\ Matchings[Vm][Device] = {matches}
        /\ \A m, n \in matches : m[2] = n[2] => m = n

\* The vCenters have the categories they share under the same ids.
NothingHidden == \A w, c \in VCenter : Hides[w][c] = {}

\* A plan from inputs that agree is one of the settled matches.
LEMMA SettledSource ==
    ASSUME OneMatching, Sourced, InputsAgree, pc \in {"apply", "await", "persist"}
    PROVE  /\ SettledMatches \in SUBSET (Vm \X Device)
           /\ \E source : PlannedFrom(SettledMatches, source)
           /\ listed = Vm /\ found = Device
           /\ seenTags = vmTags /\ seenCatalog = catalog /\ seenState = stateFile
<1>1. pending = {}
  BY DEF Sourced, Inv, Phases
<1>2. /\ listed = Vm /\ found = Device /\ twice = {}
      /\ seenTags = vmTags /\ seenCatalog = catalog /\ seenState = stateFile
  BY <1>1 DEF InputsAgree
<1>3. PICK matches \in Matchings[Vm][Device] :
        matches \in SUBSET (Vm \X Device) /\ \E source : PlannedFrom(matches, source)
  BY <1>2, SourceOfPlan
<1>4. SettledMatches = matches
  BY <1>3 DEF OneMatching, SettledMatches
<1> QED  BY <1>2, <1>3, <1>4

LEMMA SettledAreFunctional ==
    ASSUME OneMatching
    PROVE  \A m, n \in SettledMatches : m[2] = n[2] => m = n
BY DEF OneMatching, SettledMatches

\* What a settled match wants is what the cycle wants of its device.
LEMMA WantedOfMatch ==
    ASSUME OneMatching, Sourced, InputsAgree, pc \in {"apply", "await", "persist"},
           NEW m \in SettledMatches
    PROVE  /\ m[2] \in Device
           /\ wanted[m[2]] = vmTags[m[1]] \cap catalog
           /\ Cardinality(Goal(m[2])) <= TagLimit => PlannedTags(m[2]) = Goal(m[2])
<1>1. PICK source : PlannedFrom(SettledMatches, source)
  BY SettledSource
<1>2. SettledMatches \in SUBSET (Vm \X Device)
  BY SettledSource
<1>3. m[2] \in Matched(SettledMatches) /\ m[1] \in Vm /\ m = <<m[1], m[2]>>
  BY <1>2 DEF Matched
<1>4. <<source[m[2]], m[2]>> \in SettledMatches
  BY <1>1, <1>3 DEF PlannedFrom
<1>5. source[m[2]] = m[1]
  BY <1>3, <1>4, SettledAreFunctional
<1>6. wanted[m[2]] = seenTags[m[1]] \cap seenCatalog
  BY <1>1, <1>2, <1>3, <1>5, PlanReachesGoal DEF Sourced, Resolved
<1>7. /\ m[2] \in Device
      /\ Cardinality(Goal(m[2])) <= TagLimit => PlannedTags(m[2]) = Goal(m[2])
  BY <1>1, <1>2, <1>3, PlanReachesGoal DEF Sourced
<1> QED  BY <1>6, <1>7, SettledSource

LEMMA GoalFits ==
    ASSUME TypeOK, NEW d \in Device, Cardinality(seenLive[d] \cup wanted[d]) <= TagLimit
    PROVE  Cardinality(Goal(d)) <= TagLimit
<1> DEFINE all == seenLive[d] \cup wanted[d]
<1>1. Goal(d) \subseteq all /\ all \in SUBSET Tag
  BY GoalTyped
<1>2. IsFiniteSet(all)
  <2> HIDE DEF all
  <2> QED  BY <1>1, Bounds, FS_Subset
<1>3. Cardinality(Goal(d)) <= Cardinality(all) /\ IsFiniteSet(Goal(d))
  <2> HIDE DEF all
  <2> QED  BY <1>1, <1>2, FS_Subset
<1>4. Cardinality(Goal(d)) \in Nat /\ Cardinality(all) \in Nat
  <2> HIDE DEF all
  <2> QED  BY <1>2, <1>3, FS_CardinalityType
<1> QED  BY <1>3, <1>4, Bounds

\* Without a fault, the only step that ends a cycle is the save.
LEMMA FaultlessEnd ==
    ASSUME TypeOK, EndStep, faults' = faults PROVE PersistState
<1>1. faults + 1 # faults
  BY Bounds DEF TypeOK
<1> QED  BY <1>1 DEF EndStep, CycleFails, UpdatesFail, SaveFails, Restart, Fault

\* An undisturbed cycle whose batch arrived leaves an exact mirror.
THEOREM OneCycleSettles ==
    ASSUME OneMatching
    PROVE  Spec => CyclesSettle
<1>1. Sourced /\ [Next]_vars =>
        [( /\ pc = "persist" /\ pc' = "idle" /\ faults' = faults
           /\ InputsAgree /\ inFlight = {}
           /\ \A d \in Device : liveTags[d] = PlannedTags(d)
           /\ \A d \in Device : Cardinality(seenLive[d] \cup wanted[d]) <= TagLimit )
              => InSync']_vars
  <2> SUFFICES ASSUME Sourced, [Next]_vars, pc = "persist", pc' = "idle", faults' = faults,
                      InputsAgree, inFlight = {},
                      \A d \in Device : liveTags[d] = PlannedTags(d),
                      \A d \in Device : Cardinality(seenLive[d] \cup wanted[d]) <= TagLimit
               PROVE  InSync'
    OBVIOUS
  <2>1. PersistState
    <3>1. EndStep
      <4>1. pending = {}  BY DEF Sourced, Inv, Phases
      <4>2. ~ReadStep  BY <4>1, ReadStepKeeps
      <4>3. ~QuietStep
        BY DEF QuietStep, VisionOneApplies, SendUpdates, UpdatesAnswered, Others, TagOrUntagVm,
               ConsoleAdds, ConsoleRemoves, CreateTag, vars
      <4> QED  BY <4>2, <4>3, NextCases DEF StartCycle, PlanUpdates
    <3> QED  BY <3>1, FaultlessEnd DEF Sourced
  <2>2. /\ UNCHANGED <<vmTags, catalog, liveTags, inFlight, allowlist>>
        /\ stateFile' = SavedEntries
        /\ pc' = "idle" /\ plan' = {} /\ found' = {}
    BY <2>1 DEF PersistState, CycleOver, external, process
  <2>3. MirrorIsExact'
    <3> SUFFICES ASSUME NEW m \in SettledMatches
                 PROVE  LET want == vmTags[m[1]] \cap catalog IN
                        /\ want \ SlashKeyed \subseteq liveTags[m[2]]
                        /\ \A t \in liveTags[m[2]] \cap Recorded(stateFile'[m[2]]) :
                              (RemoveOrphanedTags /\ IsEligibleForRemoval(t, allowlist))
                                  => t \in want \cup SlashKeyed \/ t \notin catalog
      BY <2>2 DEF MirrorIsExact, IsEligibleForRemoval, Recorded, SettledMatches
    <3> DEFINE d == m[2]
    <3>1. d \in Device /\ wanted[d] = vmTags[m[1]] \cap catalog
      BY WantedOfMatch
    <3>2. liveTags[d] = Goal(d)
      <4>1. Cardinality(Goal(d)) <= TagLimit
        BY <3>1, GoalFits DEF Sourced
      <4> QED  BY <3>1, <4>1, WantedOfMatch
    <3>3. seenCatalog = catalog
      BY SettledSource
    <3>4. wanted[d] \ SlashKeyed \subseteq Goal(d)
      BY <3>1, <3>3 DEF Goal, SplitLookup
    <3>5. ASSUME NEW t \in Goal(d), t \in Recorded(stateFile'[d]),
                 RemoveOrphanedTags, IsEligibleForRemoval(t, allowlist)
          PROVE  t \in wanted[d] \cup SlashKeyed \/ t \notin catalog
      <4>1. stateFile'[d] = IF d \in DevicesOf(plan) THEN wanted[d] ELSE seenState[d]
        BY <2>2, <3>1 DEF SavedEntries
      <4>2. CASE d \in DevicesOf(plan)
        <5>1. Recorded(wanted[d]) \subseteq wanted[d]  BY DEF Recorded
        <5> QED  BY <3>5, <4>1, <4>2, <5>1
      <4>3. CASE d \notin DevicesOf(plan)
        BY <3>1, <3>3, <3>5, <4>1, <4>3, NoOrphanInGoal
      <4> QED  BY <4>2, <4>3
    <3> QED  BY <3>1, <3>2, <3>4, <3>5
  <2> QED  BY <2>2, <2>3 DEF InSync, InputsAgree
<1> QED  BY <1>1, SourcedHolds, PTL DEF Spec, CyclesSettle

\* The parts of InSync that do not speak of the plan.
Agreed == MirrorIsExact /\ InputsAgree /\ \A d \in found : seenLive[d] = liveTags[d]

\* On an exact mirror the goal of every settled match is what its device has.
LEMMA ExactIsGoal ==
    ASSUME OneMatching, Sourced, Agreed, pc \in {"apply", "await", "persist"},
           NEW m \in SettledMatches
    PROVE  Goal(m[2]) = seenLive[m[2]] /\ seenLive[m[2]] = liveTags[m[2]]
<1> DEFINE d == m[2]
<1>1. /\ d \in Device /\ wanted[d] = vmTags[m[1]] \cap catalog
      /\ found = Device /\ seenCatalog = catalog /\ seenState = stateFile
  BY WantedOfMatch, SettledSource DEF Agreed
<1>2. seenLive[d] = liveTags[d]
  BY <1>1 DEF Agreed
<1>3. SplitLookup(wanted[d]) \subseteq seenLive[d]
  BY <1>1, <1>2 DEF Agreed, MirrorIsExact, SplitLookup
<1>4. SplitLookup(Orphans(wanted[d], LiveNames(d), seenState[d], allowlist)) = {}
  BY <1>1, <1>2 DEF Agreed, MirrorIsExact, SplitLookup, Orphans, LiveNames
<1> QED  BY <1>2, <1>3, <1>4 DEF Goal

\* So a plan from an exact mirror replaces tags by themselves.
IdlePlan ==
    (Sourced /\ Agreed /\ pc \in {"apply", "await", "persist"}) =>
        \A u \in plan : u.tags = liveTags[u.device]

LEMMA PlanFromExact == ASSUME OneMatching PROVE IdlePlan
<1> SUFFICES ASSUME Sourced, Agreed, pc \in {"apply", "await", "persist"}, NEW u \in plan
             PROVE  u.tags = liveTags[u.device]
  BY DEF IdlePlan
<1>1. PICK source : PlannedFrom(SettledMatches, source)
  BY SettledSource DEF Agreed
<1>2. PICK d \in Matched(SettledMatches) : \E diff \in DiffsOf(d, wanted) : u = UpdateOf(d, diff)
  BY <1>1 DEF PlannedFrom
<1>3. PICK m \in SettledMatches : d = m[2]
  BY <1>2 DEF Matched
<1>4. d \in Device /\ Goal(d) = seenLive[d] /\ seenLive[d] = liveTags[d]
  BY <1>3, WantedOfMatch, ExactIsGoal DEF Agreed
<1>5. Cardinality(Goal(d)) <= TagLimit
  BY <1>4 DEF Sourced, Inv, WithinLimit
<1>6. u.device = d /\ u.tags = Goal(d)
  BY <1>2, <1>4, <1>5, UpdateReachesGoal DEF Sourced
<1> QED  BY <1>4, <1>6

LEMMA PlanFromExactNext == ASSUME OneMatching PROVE IdlePlan'
BY PlanFromExact, PTL

\* The steps that move neither the two systems, nor what is recorded, nor the plan.
LEMMA SameMirror ==
    ASSUME UNCHANGED <<vmTags, catalog, liveTags, stateFile, allowlist>>
    PROVE  MirrorIsExact' <=> MirrorIsExact
BY DEF MirrorIsExact, SettledMatches, IsEligibleForRemoval, Recorded

LEMMA ReadKeepsSync ==
    ASSUME NothingHidden, TypeOK, Phases, InSync, ReadStep, faults' = faults
    PROVE  InSync' /\ liveTags' = liveTags
<1>1. /\ UNCHANGED <<pc, plan, wanted, stateFile, vmTags, catalog, liveTags, inFlight, allowlist>>
      /\ pc = "fetch"
  BY ReadStepKeeps DEF external, Phases, ReadStep, ListVms, ReadVmTags, ListDevicePage,
     ListCustomTags, LoadState, process
<1>2. MirrorIsExact'  BY <1>1, SameMirror DEF InSync
<1>3. \A kind : ~Fault(kind)
  BY Bounds DEF TypeOK, Fault
<1>4. ReadVmTags =>
        \E heard \in SUBSET VCenter :
            seenTags' = [v \in Vm |-> IF v \in listed /\ HomeOf[v] \in VCenter
                                        THEN vmTags[v] \ Hidden(HomeOf[v], heard) ELSE {}]
  BY <1>3 DEF ReadVmTags
<1>5. InputsAgree' /\ \A d \in found' : seenLive'[d] = liveTags[d]
  <2> USE <1>1, <1>3 DEF InSync, InputsAgree
  <2>1. CASE ListVms
    <3>1. listed' = Vm
      BY <2>1, SyncAssumption DEF ListVms
    <3> QED  BY <2>1, <3>1 DEF ListVms
  <2>2. CASE ReadVmTags
    <3>1. PICK heard \in SUBSET VCenter :
            seenTags' = [v \in Vm |-> IF v \in listed /\ HomeOf[v] \in VCenter
                                        THEN vmTags[v] \ Hidden(HomeOf[v], heard) ELSE {}]
      BY <2>2, <1>4
    <3>2. \A v \in Vm : HomeOf[v] \in VCenter
      BY SyncAssumption
    <3>3. \A v \in Vm : Hidden(HomeOf[v], heard) = {}
      BY <3>2 DEF Hidden, NothingHidden
    <3>4. listed = Vm
      BY <2>2 DEF ReadVmTags
    <3>5. seenTags' = vmTags
      BY <3>1, <3>2, <3>3, <3>4 DEF TypeOK
    <3> QED  BY <2>2, <3>5 DEF ReadVmTags
  <2>3. CASE ListDevicePage
    <3>1. PICK page \in SUBSET Device :
            /\ found' = found \cup page
            /\ twice' = twice \cup (found \cap page) /\ found \cap page = {}
            /\ seenLive' = [d \in Device |-> IF d \in page THEN liveTags[d] ELSE seenLive[d]]
            /\ pending' = pending \/ (found' = Device /\ pending' = pending \ {"devices"})
      BY <2>3 DEF ListDevicePage
    <3>2. \A d \in found' : seenLive'[d] = liveTags[d]
      BY <3>1 DEF TypeOK
    <3>3. twice' = {}
      BY <3>1
    <3> QED  BY <2>3, <3>1, <3>2, <3>3 DEF ListDevicePage
  <2>4. CASE ListCustomTags
    BY <2>4 DEF ListCustomTags
  <2>5. CASE LoadState
    BY <2>5 DEF LoadState
  <2> QED  BY <2>1, <2>2, <2>3, <2>4, <2>5 DEF ReadStep
<1> QED  BY <1>1, <1>2, <1>5 DEF InSync

LEMMA PlanKeepsSync ==
    ASSUME OneMatching, Phases, InSync, PlanUpdates, Sourced'
    PROVE  InSync' /\ liveTags' = liveTags
<1>1. /\ UNCHANGED <<vmTags, catalog, liveTags, inFlight, stateFile, allowlist, faults>>
      /\ UNCHANGED <<pending, listed, found, twice, seenTags, seenLive, seenCatalog, seenState>>
      /\ pc = "fetch" /\ pc' = "apply"
  BY DEF PlanUpdates, external, process, reads
<1>2. MirrorIsExact' /\ InputsAgree'
  BY <1>1, SameMirror DEF InSync, InputsAgree
<1>3. \A d \in found' : seenLive'[d] = liveTags'[d]
  BY <1>1 DEF InSync
<1>4. \A u \in plan' : u.tags = liveTags'[u.device]
  BY <1>1, <1>2, <1>3, PlanFromExactNext DEF IdlePlan, Agreed
<1> QED  BY <1>1, <1>2, <1>3, <1>4 DEF InSync

\* A save on an exact mirror records what is wanted of the devices it planned for.
LEMMA SaveKeepsSync ==
    ASSUME OneMatching, Sourced, InSync, PersistState
    PROVE  InSync' /\ liveTags' = liveTags
<1>1. /\ UNCHANGED <<vmTags, catalog, liveTags, inFlight, allowlist>>
      /\ stateFile' = SavedEntries
      /\ pc = "persist" /\ pc' = "idle" /\ plan' = {} /\ found' = {}
  BY DEF PersistState, CycleOver, external, process
<1>2. MirrorIsExact'
  <2> SUFFICES ASSUME NEW m \in SettledMatches
               PROVE  LET want == vmTags[m[1]] \cap catalog IN
                      /\ want \ SlashKeyed \subseteq liveTags[m[2]]
                      /\ \A t \in liveTags[m[2]] \cap Recorded(stateFile'[m[2]]) :
                            (RemoveOrphanedTags /\ IsEligibleForRemoval(t, allowlist))
                                => t \in want \cup SlashKeyed \/ t \notin catalog
    BY <1>1 DEF MirrorIsExact, IsEligibleForRemoval, Recorded, SettledMatches
  <2> DEFINE d == m[2]
  <2>1. d \in Device /\ wanted[d] = vmTags[m[1]] \cap catalog /\ seenState = stateFile
    BY <1>1, WantedOfMatch, SettledSource DEF InSync
  <2>2. stateFile'[d] = IF d \in DevicesOf(plan) THEN wanted[d] ELSE stateFile[d]
    BY <1>1, <2>1 DEF SavedEntries
  <2>3. Recorded(wanted[d]) \subseteq wanted[d]
    BY DEF Recorded
  <2> QED  BY <2>1, <2>2, <2>3 DEF InSync, MirrorIsExact
<1> QED  BY <1>1, <1>2 DEF InSync, InputsAgree

LEMMA QuietKeepsSync ==
    ASSUME TypeOK, Phases, InSync, StartCycle \/ QuietStep, faults' = faults, edits' = edits
    PROVE  InSync' /\ liveTags' = liveTags
<1>1. ~Others
  BY DEF Others, TagOrUntagVm, ConsoleAdds, ConsoleRemoves, CreateTag, Edit, TypeOK
<1>2. /\ UNCHANGED <<vmTags, catalog, stateFile, allowlist, listed, found, seenTags, seenLive,
                     seenCatalog, seenState, plan>>
      /\ pc' # "idle" => \/ pc = "idle" /\ pending' = Read /\ twice = {} /\ twice' = {}
                         \/ pc # "idle" /\ pending' = pending /\ twice' = twice
  BY <1>1 DEF StartCycle, QuietStep, VisionOneApplies, SendUpdates, UpdatesAnswered, external,
              process, locals, reads, vars, Phases
<1>3. liveTags' = liveTags
  <2>1. CASE VisionOneApplies
    <3>1. liveTags' = [d \in Device |->
              IF d \in DevicesOf(inFlight) THEN UpdateFor(inFlight, d).tags ELSE liveTags[d]]
      <4>1. \A kind : ~Fault(kind)
        BY Bounds DEF TypeOK, Fault
      <4> QED  BY <2>1, <4>1 DEF VisionOneApplies
    <3>2. \A d \in DevicesOf(inFlight) : UpdateFor(inFlight, d).tags = liveTags[d]
      BY DEF InSync, DevicesOf, UpdateFor
    <3> QED  BY <3>1, <3>2 DEF TypeOK
  <2>2. CASE ~VisionOneApplies
    BY <1>1, <2>2 DEF StartCycle, QuietStep, SendUpdates, UpdatesAnswered, external, vars
  <2> QED  BY <2>1, <2>2
<1>4. inFlight' \subseteq plan \cup inFlight
  BY <1>1 DEF StartCycle, QuietStep, VisionOneApplies, SendUpdates, UpdatesAnswered, external, vars
<1>5. MirrorIsExact'
  BY <1>2, <1>3, SameMirror DEF InSync
<1>6. InputsAgree'
  BY <1>2 DEF InSync, InputsAgree, Read
<1> QED  BY <1>2, <1>3, <1>4, <1>5, <1>6 DEF InSync

\* However many cycles run over an exact mirror, they change no tag of it and do not
\* lose track of it.
THEOREM ExactMirrorsStay ==
    ASSUME OneMatching, NothingHidden
    PROVE  Spec => MirrorIsStable
<1>1. Sourced /\ Sourced' /\ [Next]_vars =>
        [(InSync /\ faults' = faults /\ edits' = edits) => InSync' /\ liveTags' = liveTags]_vars
  <2> SUFFICES ASSUME Sourced, Sourced', [Next]_vars, InSync, faults' = faults, edits' = edits
               PROVE  InSync' /\ liveTags' = liveTags
    OBVIOUS
  <2>1. TypeOK /\ Phases  BY DEF Sourced, Inv
  <2>2. CASE StartCycle \/ QuietStep  BY <2>1, <2>2, QuietKeepsSync
  <2>3. CASE ReadStep  BY <2>1, <2>3, ReadKeepsSync
  <2>4. CASE PlanUpdates  BY <2>1, <2>4, PlanKeepsSync
  <2>5. CASE EndStep  BY <2>1, <2>5, FaultlessEnd, SaveKeepsSync
  <2> QED  BY <2>2, <2>3, <2>4, <2>5, NextCases
<1> QED  BY <1>1, SourcedHolds, PTL DEF Spec, MirrorIsStable

-----------------------------------------------------------------------------
(* Removals mirror vCenter, when it answers for its tags whenever it       *)
(* answers for its VMs.                                                    *)

\* No vCenter fails to answer for its tags, no category is hidden behind that of another,
\* and the tags of VMs stay as they are.  Any other fault or edit may happen.
TagsAreRead ==
    "tagread" \notin FaultKinds /\ "vm" \notin EditKinds /\ NothingHidden

\* The tags of every VM listed have been read as they are.
VmTagsSeen ==
    pc # "idle" =>
        /\ "vms" \in pending => "tags" \in pending
        /\ "tags" \notin pending => \A v \in listed : seenTags[v] = vmTags[v]

LEMMA ReadSeesAll ==
    ASSUME TagsAreRead, TypeOK, ReadVmTags
    PROVE  \A v \in listed : seenTags'[v] = vmTags[v]
<1>0. PICK heard \in SUBSET VCenter : \E up \in SUBSET heard :
        /\ IF up = VCenter THEN faults' = faults ELSE Fault("tagread")
        /\ seenTags' = [v \in Vm |-> IF v \in listed /\ HomeOf[v] \in up
                                       THEN vmTags[v] \ Hidden(HomeOf[v], heard) ELSE {}]
  BY DEF ReadVmTags
<1>1. PICK up \in SUBSET heard :
        /\ IF up = VCenter THEN faults' = faults ELSE Fault("tagread")
        /\ seenTags' = [v \in Vm |-> IF v \in listed /\ HomeOf[v] \in up
                                       THEN vmTags[v] \ Hidden(HomeOf[v], heard) ELSE {}]
  BY <1>0
<1>2. up = VCenter
  BY <1>1 DEF Fault, TagsAreRead
<1>3. \A v \in Vm : HomeOf[v] \in VCenter
  BY SyncAssumption
<1>4. \A c \in VCenter : Hidden(c, heard) = {}
  BY DEF Hidden, TagsAreRead, NothingHidden
<1>5. \A v \in listed : v \in Vm
  BY DEF TypeOK
<1> QED  BY <1>1, <1>2, <1>3, <1>4, <1>5

LEMMA SeenStep ==
    ASSUME TagsAreRead
    PROVE  TypeOK /\ Phases /\ VmTagsSeen /\ [Next]_vars => VmTagsSeen'
<1> SUFFICES ASSUME TypeOK, Phases, VmTagsSeen, [Next]_vars PROVE VmTagsSeen'
  OBVIOUS
<1>1. CASE StartCycle  BY <1>1 DEF StartCycle, VmTagsSeen, Read
<1>2. CASE ReadStep
  <2>1. pc' = pc /\ pc # "idle" /\ vmTags' = vmTags
    BY <1>2, ReadStepKeeps DEF Phases, external
  <2>2. CASE ListVms
    <3>1. "vms" \notin pending' /\ "tags" \in pending'
      BY <2>1, <2>2 DEF ListVms, VmTagsSeen
    <3> QED  BY <3>1 DEF VmTagsSeen
  <2>3. CASE ReadVmTags
    <3>1. "vms" \notin pending' /\ "tags" \notin pending' /\ listed' = listed
      BY <2>3 DEF ReadVmTags
    <3> QED  BY <2>1, <2>3, <3>1, ReadSeesAll DEF VmTagsSeen
  <2>4. CASE ListDevicePage \/ ListCustomTags \/ LoadState
    <3>1. /\ UNCHANGED <<listed, seenTags>>
          /\ "vms" \in pending' <=> "vms" \in pending
          /\ "tags" \in pending' <=> "tags" \in pending
      BY <2>4 DEF ListDevicePage, ListCustomTags, LoadState
    <3> QED  BY <2>1, <3>1 DEF VmTagsSeen
  <2> QED  BY <1>2, <2>2, <2>3, <2>4 DEF ReadStep
<1>3. CASE PlanUpdates
  BY <1>3 DEF PlanUpdates, VmTagsSeen, reads, external
<1>4. CASE EndStep  BY <1>4, EndStepEnds DEF VmTagsSeen, CycleOver
<1>5. CASE QuietStep
  <2>1. UNCHANGED <<pending, listed, seenTags>>
    BY <1>5, QuietStepKeeps DEF locals, reads
  <2>2. vmTags' = vmTags /\ (pc' = "idle" <=> pc = "idle")
    BY <1>5 DEF QuietStep, VisionOneApplies, SendUpdates, UpdatesAnswered, Others,
                TagOrUntagVm, ConsoleAdds, ConsoleRemoves, CreateTag, vars, external,
                TagsAreRead, Edit
  <2> QED  BY <2>1, <2>2 DEF VmTagsSeen
<1> QED  BY <1>1, <1>2, <1>3, <1>4, <1>5, NextCases

LEMMA RemovalsFromTags ==
    ASSUME TagsAreRead
    PROVE  Sourced /\ VmTagsSeen => RemovalsMirrorVmware
<1> SUFFICES ASSUME Sourced, VmTagsSeen,
                    NEW u \in plan, NEW t \in seenLive[u.device] \ u.tags
             PROVE  \E matches \in Matchings[listed][found] :
                      \E m \in matches : m[2] = u.device /\ t \notin vmTags[m[1]]
  BY DEF RemovalsMirrorVmware
<1>1. pc \in {"apply", "await", "persist"} /\ pending = {}
  BY DEF Sourced, Inv, Phases, TypeOK
<1>2. PICK all \in Matchings[listed][found], matches \in SUBSET (Vm \X Device) :
        /\ matches \subseteq all /\ matches \subseteq listed \X found
        /\ \E source : PlannedFrom(matches, source)
  BY <1>1, SourceOfPlan
<1>3. PICK source : PlannedFrom(matches, source)
  BY <1>2
<1>4. PICK d \in Matched(matches) : \E diff \in DiffsOf(d, wanted) : u = UpdateOf(d, diff)
  BY <1>3 DEF PlannedFrom
<1>5. PICK diff \in DiffsOf(d, wanted) : u = UpdateOf(d, diff)
  BY <1>4
<1>6. d \in Device /\ source[d] \in listed /\ <<source[d], d>> \in matches
  <2>1. <<source[d], d>> \in matches
    BY <1>3, <1>4 DEF PlannedFrom
  <2> QED  BY <1>2, <2>1
<1>7. u.device = d /\ seenLive[d] \ u.tags \subseteq
        Orphans(wanted[d], LiveNames(d), seenState[d], allowlist)
  <2>1. wanted \in [Device -> SUBSET Tag] /\ Cardinality(seenLive[d]) <= TagLimit
    BY <1>6 DEF Sourced, TypeOK, Inv, WithinLimit
  <2> QED  BY <1>5, <1>6, <2>1, UpdateFacts DEF Sourced
<1>8. t \in seenCatalog /\ t \notin wanted[d]
  BY <1>7 DEF Orphans, LiveNames
<1>9. wanted[d] = seenTags[source[d]] \cap seenCatalog
  BY <1>3, <1>4, <1>6 DEF PlannedFrom, Resolved
<1>10. t \notin vmTags[source[d]]
  BY <1>1, <1>6, <1>8, <1>9 DEF VmTagsSeen
<1> QED  BY <1>2, <1>6, <1>7, <1>10

\* A tag comes off a device only if a VM matched to it lacks the tag in vCenter, whatever
\* else fails: the one fault that misreads a VM is the outage that TagReadOutage shows.
THEOREM OnlyTagOutagesMislead ==
    ASSUME TagsAreRead
    PROVE  Spec => []RemovalsMirrorVmware
<1>1. Init => VmTagsSeen
  BY DEF Init, VmTagsSeen
<1>2. Sourced /\ VmTagsSeen /\ [Next]_vars => VmTagsSeen'
  BY SeenStep DEF Sourced, Inv
<1>3. Sourced /\ VmTagsSeen => RemovalsMirrorVmware
  BY RemovalsFromTags
<1> QED  BY <1>1, <1>2, <1>3, SourcedHolds, PTL DEF Spec
=============================================================================
