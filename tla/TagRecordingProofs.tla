------------------------- MODULE TagRecordingProofs -------------------------
(***************************************************************************)
(* The sync state knows every tag the tool put on a device and may have to *)
(* take off again, provided that every batch is applied and recorded.      *)
(***************************************************************************)
EXTENDS SyncOrchestratorProofs

\* Updates are neither refused nor lost, cycles end in a save, the state file can be
\* read, and the scope of removal does not change from one start to the next.
UpdatesAreSafe ==
    /\ {"item", "answer", "save", "crash", "access", "allowlist"} \cap FaultKinds = {}
    /\ DryRuns = {FALSE}

InScope(t) == RemoveOrphanedTags /\ IsEligibleForRemoval(t, AllowlistFile)

\* Vision One has dealt with the batch of the cycle, and the cycle has not saved yet.
BatchDone == pc = "persist" \/ (pc = "await" /\ inFlight = {})

\* The process runs as it was configured, and a batch is only out while it waits.
Undisturbed ==
    /\ dryRun = FALSE /\ allowlist = AllowlistFile
    /\ inFlight = {} \/ (pc = "await" /\ inFlight = plan)

\* The plan is what the snapshots of this cycle gave.
PlanIsDiff ==
    \A u \in plan :
        /\ u.device \in found
        /\ \E diff \in DiffsOf(u.device, wanted) : u = UpdateOf(u.device, diff)

\* A tag the tool added can be looked up again, in the cycle's catalog too.
OwnedIsKnown ==
    /\ seenCatalog \subseteq catalog
    /\ \A d \in Device :
        /\ owned[d] \subseteq catalog \ SlashKeyed
        /\ (pc # "idle" /\ "catalog" \notin pending) => owned[d] \subseteq seenCatalog

\* What the cycle is about to record of device d, or what is recorded of it.
ToBeRecorded(d) ==
    IF BatchDone /\ d \in DevicesOf(plan) THEN wanted[d] ELSE Recorded(stateFile[d])

\* The tool's tags on a device, as it is and as it was listed, are recorded.
OwnedIsRecorded ==
    \A d \in Device : \A t \in owned[d] : InScope(t) =>
        /\ t \in liveTags[d] => t \in ToBeRecorded(d)
        /\ (~BatchDone /\ d \in found /\ t \in seenLive[d]) => t \in Recorded(stateFile[d])

Recording == Undisturbed /\ PlanIsDiff /\ OwnedIsKnown /\ OwnedIsRecorded

-----------------------------------------------------------------------------
\* What an update adds and keeps.
LEMMA UpdateKeeps ==
    ASSUME TypeOK, NEW d \in Device, NEW diff \in DiffsOf(d, wanted)
    PROVE  LET u == UpdateOf(d, diff) IN
           /\ u.device = d
           /\ u.add \subseteq (wanted[d] \cap seenCatalog) \ SlashKeyed
           /\ u.tags \subseteq
                (seenLive[d] \ SplitLookup(Orphans(wanted[d], LiveNames(d), seenState[d], allowlist)))
                    \cup u.add
<1> DEFINE add == SplitLookup(diff.add)
           kept == seenLive[d] \ SplitLookup(diff.remove)
<1>1. diff.add = wanted[d] \ LiveNames(d)
      /\ diff.remove = Orphans(wanted[d], LiveNames(d), seenState[d], allowlist)
  BY DEF DiffsOf, ComputeSingleDiff, DiffOrNull
<1>2. add \subseteq (wanted[d] \cap seenCatalog) \ SlashKeyed
  BY <1>1 DEF SplitLookup
<1>3. add \in SUBSET Tag /\ kept \in SUBSET Tag
  BY <1>2 DEF TypeOK
<1>4. Truncated(kept, add) \in SUBSET (kept \cup add)
  <2> HIDE DEF kept, add
  <2> QED  BY <1>3, TruncatedFacts
<1>5. UpdateOf(d, diff) = [device |-> d, add |-> add, tags |-> Truncated(kept, add)]
  BY DEF UpdateOf
<1> QED  BY <1>1, <1>2, <1>4, <1>5

\* A recorded tag that an update leaves on its device is wanted there.
LEMMA KeptIsWanted ==
    ASSUME TypeOK, Phases, StateIsCurrent, Recording,
           NEW u \in plan, NEW t \in u.tags, t \in owned[u.device] \cup u.add,
           InScope(t), pc # "idle", pending = {}, ~BatchDone
    PROVE  t \in wanted[u.device]
<1>1. u.device \in Device  BY DEF TypeOK, Update
<1>2. PICK diff \in DiffsOf(u.device, wanted) : u = UpdateOf(u.device, diff)
  BY DEF Recording, PlanIsDiff
<1> DEFINE d == u.device
           orphans == Orphans(wanted[d], LiveNames(d), seenState[d], allowlist)
<1>3. /\ u.add \subseteq wanted[d]
      /\ u.tags \subseteq (seenLive[d] \ SplitLookup(orphans)) \cup u.add
  BY <1>1, <1>2, UpdateKeeps
<1>4. CASE t \in u.add  BY <1>3, <1>4
<1>5. CASE t \notin u.add
  <2>1. t \in owned[d] /\ t \in seenLive[d] /\ t \notin SplitLookup(orphans)
    BY <1>3, <1>5
  <2>2. t \in seenCatalog /\ t \notin SlashKeyed
    BY <1>1, <2>1 DEF Recording, OwnedIsKnown
  <2>3. t \in Recorded(seenState[d])
    <3>1. d \in found  BY DEF Recording, PlanIsDiff
    <3>2. t \in Recorded(stateFile[d])
      BY <1>1, <2>1, <3>1 DEF Recording, OwnedIsRecorded
    <3>3. seenState = stateFile  BY DEF StateIsCurrent
    <3> QED  BY <3>2, <3>3
  <2>4. t \notin orphans  BY <2>1, <2>2 DEF SplitLookup
  <2>5. t \in LiveNames(d)  BY <2>1, <2>2 DEF LiveNames
  <2>6. RemoveOrphanedTags /\ IsEligibleForRemoval(t, allowlist)
    BY DEF InScope, Recording, Undisturbed
  <2> QED  BY <2>3, <2>4, <2>5, <2>6 DEF Orphans
<1> QED  BY <1>4, <1>5

LEMMA RecordingInit ==
    ASSUME UpdatesAreSafe, Init PROVE Recording
<1>1. Undisturbed
  BY DEF UpdatesAreSafe, Init, LoadedAllowlists, Undisturbed
<1>2. PlanIsDiff /\ OwnedIsKnown /\ OwnedIsRecorded
  BY DEF Init, PlanIsDiff, OwnedIsKnown, OwnedIsRecorded
<1> QED  BY <1>1, <1>2 DEF Recording

\* The safe steps that end a cycle, and those that cannot happen.
LEMMA SafeEnds ==
    ASSUME UpdatesAreSafe, TypeOK, Phases, Recording, EndStep
    PROVE  /\ CycleFails \/ PersistState \/ (Restart /\ pc = "idle")
           /\ inFlight = {} /\ UNCHANGED external
           /\ dryRun' = FALSE /\ allowlist' = AllowlistFile
<1>1. CycleFails \/ PersistState \/ (Restart /\ pc = "idle")
  BY DEF UpdatesAreSafe, EndStep, UpdatesFail, SaveFails, Restart, Fault
<1>2. pc # "await"  BY <1>1 DEF CycleFails, PersistState
<1>3. inFlight = {}  BY <1>2 DEF Recording, Undisturbed
<1>4. UNCHANGED external  BY <1>1 DEF CycleFails, PersistState, Restart
<1>5. dryRun' = FALSE /\ allowlist' = AllowlistFile
  <2>1. CASE CycleFails \/ PersistState
    BY <2>1 DEF CycleFails, PersistState, process, Recording, Undisturbed
  <2>2. CASE Restart
    BY <2>2 DEF Restart, UpdatesAreSafe, LoadedAllowlists
  <2> QED  BY <1>1, <2>1, <2>2
<1> QED  BY <1>1, <1>3, <1>4, <1>5

\* A cycle that ends leaves what the tool put on the devices recorded.
LEMMA EndRecords ==
    ASSUME UpdatesAreSafe, TypeOK, Phases, StateIsCurrent, Recording, EndStep
    PROVE  Recording'
<1>1. /\ CycleFails \/ PersistState \/ (Restart /\ pc = "idle")
      /\ inFlight = {} /\ UNCHANGED <<catalog, liveTags, owned, inFlight>>
      /\ dryRun' = FALSE /\ allowlist' = AllowlistFile
  BY SafeEnds DEF external
<1>2. pc' = "idle" /\ plan' = {} /\ found' = {} /\ seenCatalog' = {}
  BY EndStepEnds DEF CycleOver
<1>3. Undisturbed' /\ PlanIsDiff'
  BY <1>1, <1>2 DEF Undisturbed, PlanIsDiff
<1>4. OwnedIsKnown'
  BY <1>1, <1>2 DEF OwnedIsKnown, Recording
<1>5. OwnedIsRecorded'
  <2> SUFFICES ASSUME NEW d \in Device, NEW t \in owned[d], InScope(t), t \in liveTags[d]
               PROVE  t \in Recorded(stateFile'[d])
    BY <1>1, <1>2 DEF OwnedIsRecorded, ToBeRecorded, BatchDone, Recorded
  <2>1. t \in ToBeRecorded(d)  BY DEF Recording, OwnedIsRecorded
  <2>2. CASE PersistState
    <3>1. BatchDone /\ seenState = stateFile
      BY <2>2 DEF PersistState, BatchDone, StateIsCurrent, Phases
    <3>2. stateFile'[d] = IF d \in DevicesOf(plan) THEN wanted[d] ELSE stateFile[d]
      BY <2>2, <3>1 DEF PersistState, SavedEntries
    <3>3. wanted[d] # NoEntry
      BY DiffAssumption DEF TypeOK
    <3> QED  BY <2>1, <3>1, <3>2, <3>3 DEF ToBeRecorded, Recorded
  <2>3. CASE CycleFails \/ (Restart /\ pc = "idle")
    <3>1. ~BatchDone /\ stateFile' = stateFile
      BY <2>3 DEF CycleFails, Restart, BatchDone
    <3> QED  BY <2>1, <3>1 DEF ToBeRecorded
  <2> QED  BY <1>1, <2>2, <2>3
<1> QED  BY <1>3, <1>4, <1>5 DEF Recording

\* Reads see only recorded tags of the tool.
LEMMA ReadRecords ==
    ASSUME TypeOK, Phases, Recording, ReadStep
    PROVE  Recording'
<1>1. /\ pc = "fetch" /\ plan = {}
      /\ UNCHANGED <<pc, plan, wanted, stateFile, catalog, liveTags, inFlight, owned, dryRun, allowlist>>
  <2>1. pc = "fetch" /\ plan = {}  BY ReadStepKeeps DEF Phases
  <2>2. UNCHANGED <<dryRun, allowlist>>
    BY DEF ReadStep, ListVms, ReadVmTags, ListDevicePage, ListCustomTags, LoadState, process
  <2> QED  BY <2>1, <2>2, ReadStepKeeps DEF external
<1>2. Undisturbed' /\ PlanIsDiff'
  BY <1>1 DEF Recording, Undisturbed, PlanIsDiff
<1>3. OwnedIsKnown'
  <2>1. CASE ListCustomTags
    BY <1>1, <2>1 DEF ListCustomTags, Recording, OwnedIsKnown
  <2>2. CASE ~ListCustomTags
    <3>1. seenCatalog' = seenCatalog /\ ("catalog" \in pending => "catalog" \in pending')
      BY <2>2 DEF ReadStep, ListVms, ReadVmTags, ListDevicePage, LoadState
    <3> QED  BY <1>1, <3>1 DEF Recording, OwnedIsKnown
  <2> QED  BY <2>1, <2>2
<1>4. OwnedIsRecorded'
  <2>1. ~BatchDone /\ ~BatchDone'  BY <1>1 DEF BatchDone
  <2>2. \A d \in Device : \A t \in owned[d] : (InScope(t) /\ t \in liveTags[d]) => t \in Recorded(stateFile[d])
    BY <2>1 DEF Recording, OwnedIsRecorded, ToBeRecorded
  <2>3. \A d \in Device : d \in found' =>
            seenLive'[d] = liveTags[d] \/ (d \in found /\ seenLive'[d] = seenLive[d])
    BY DEF ReadStep, ListVms, ReadVmTags, ListDevicePage, ListCustomTags, LoadState
  <2>4. \A d \in Device : \A t \in owned[d] :
            (InScope(t) /\ d \in found' /\ t \in seenLive'[d]) => t \in Recorded(stateFile[d])
    BY <2>1, <2>2, <2>3 DEF Recording, OwnedIsRecorded
  <2> QED  BY <1>1, <2>1, <2>2, <2>4 DEF OwnedIsRecorded, ToBeRecorded, Recorded
<1> QED  BY <1>2, <1>3, <1>4 DEF Recording

LEMMA PlanRecords ==
    ASSUME TypeOK, Recording, PlanUpdates
    PROVE  Recording'
<1>1. /\ pc = "fetch" /\ pc' = "apply" /\ pending = {}
      /\ UNCHANGED <<pending, found, seenLive, seenCatalog, seenState, stateFile,
                     catalog, liveTags, inFlight, owned, dryRun, allowlist>>
  BY DEF PlanUpdates, reads, process, external
<1>2. Undisturbed'
  BY <1>1 DEF Recording, Undisturbed
<1>3. PlanIsDiff'
  <2> SUFFICES ASSUME NEW u \in plan'
               PROVE  /\ u.device \in found'
                      /\ \E diff \in DiffsOf(u.device, wanted)' : u = UpdateOf(u.device, diff)'
    BY DEF PlanIsDiff
  <2>1. PICK d \in Device : d \in found /\ \E diff \in DiffsOf(d, wanted') : u = UpdateOf(d, diff)
    BY PlanFacts
  <2>2. u.device = d  BY <2>1, PlanFacts, UpdateFacts
  <2>3. DiffsOf(d, wanted)' = DiffsOf(d, wanted')
    BY <1>1 DEF DiffsOf, LiveNames
  <2>4. \A diff : UpdateOf(d, diff)' = UpdateOf(d, diff)
    BY <1>1 DEF UpdateOf, SplitLookup
  <2> QED  BY <1>1, <2>1, <2>2, <2>3, <2>4
<1>4. OwnedIsKnown'
  BY <1>1 DEF Recording, OwnedIsKnown
<1>5. OwnedIsRecorded'
  BY <1>1 DEF Recording, OwnedIsRecorded, ToBeRecorded, BatchDone, Recorded
<1> QED  BY <1>2, <1>3, <1>4, <1>5 DEF Recording

\* Vision One applies the whole batch: what it leaves of the tool's is wanted.
LEMMA ApplyRecords ==
    ASSUME UpdatesAreSafe, TypeOK, Phases, StateIsCurrent, Recording, VisionOneApplies
    PROVE  Recording'
<1>1. /\ pc = "await" /\ inFlight = plan /\ inFlight # {} /\ inFlight' = {}
      /\ UNCHANGED <<pc, pending, found, wanted, plan, seenLive, seenCatalog, seenState,
                     stateFile, catalog, dryRun, allowlist>>
  BY DEF VisionOneApplies, locals, reads, process, Recording, Undisturbed
<1>2. DevicesOf(plan) \subseteq Device /\ pending = {} /\ ~BatchDone /\ BatchDone'
  BY <1>1 DEF DevicesOf, TypeOK, Update, Phases, BatchDone
<1>3. /\ liveTags' = [d \in Device |->
            IF d \in DevicesOf(plan) THEN UpdateFor(plan, d).tags ELSE liveTags[d]]
      /\ owned' = [d \in Device |->
            IF d \in DevicesOf(plan) THEN owned[d] \cup (UpdateFor(plan, d).add \ liveTags[d])
                                     ELSE owned[d]]
  BY <1>1 DEF VisionOneApplies, UpdatesAreSafe, Fault
<1>4. \A d \in DevicesOf(plan) : UpdateFor(plan, d) \in plan /\ UpdateFor(plan, d).device = d
  BY DEF DevicesOf, UpdateFor
<1>5. Undisturbed' /\ PlanIsDiff'
  <2>1. PlanIsDiff'
    BY <1>1 DEF Recording, PlanIsDiff, DiffsOf, LiveNames, UpdateOf, SplitLookup
  <2> QED  BY <1>1, <2>1 DEF Recording, Undisturbed
<1>6. OwnedIsKnown'
  <2>1. \A d \in DevicesOf(plan) : UpdateFor(plan, d).add \subseteq seenCatalog \ SlashKeyed
    BY <1>2, <1>4, UpdateKeeps DEF Recording, PlanIsDiff
  <2> QED  BY <1>1, <1>2, <1>3, <2>1 DEF Recording, OwnedIsKnown
<1>7. OwnedIsRecorded'
  <2> SUFFICES ASSUME NEW d \in Device, NEW t \in owned'[d], InScope(t), t \in liveTags'[d]
               PROVE  t \in ToBeRecorded(d)'
    BY <1>2 DEF OwnedIsRecorded
  <2>1. CASE d \in DevicesOf(plan)
    <3>1. t \in UpdateFor(plan, d).tags /\ t \in owned[d] \cup UpdateFor(plan, d).add
      BY <1>3, <2>1
    <3>2. t \in wanted[d]
      BY <1>1, <1>2, <1>4, <2>1, <3>1, KeptIsWanted
    <3> QED  BY <1>1, <1>2, <2>1, <3>2 DEF ToBeRecorded
  <2>2. CASE d \notin DevicesOf(plan)
    <3>1. t \in owned[d] /\ t \in liveTags[d]  BY <1>3, <2>2
    <3>2. t \in Recorded(stateFile[d])
      BY <1>2, <3>1 DEF Recording, OwnedIsRecorded, ToBeRecorded
    <3> QED  BY <1>1, <2>2, <3>2 DEF ToBeRecorded, Recorded
  <2> QED  BY <2>1, <2>2
<1> QED  BY <1>5, <1>6, <1>7 DEF Recording

\* Sending the batch, counting its results, and what others do.
LEMMA QuietRecords ==
    ASSUME UpdatesAreSafe, TypeOK, Phases, Recording,
           SendUpdates \/ UpdatesAnswered \/ Others \/ UNCHANGED vars
    PROVE  Recording'
<1>1. UNCHANGED <<pending, found, wanted, plan, seenLive, seenCatalog, seenState, stateFile,
                  dryRun, allowlist>>
  BY QuietStepKeeps DEF QuietStep, locals, reads, process
<1>2. PlanIsDiff'
  BY <1>1 DEF Recording, PlanIsDiff, DiffsOf, LiveNames, UpdateOf, SplitLookup
<1>3. CASE SendUpdates \/ UpdatesAnswered
  <2>1. UNCHANGED <<catalog, liveTags, owned>>
    BY <1>3 DEF SendUpdates, UpdatesAnswered, external
  <2>2. Undisturbed' /\ pc # "idle" /\ pc' # "idle"
    BY <1>1, <1>3 DEF SendUpdates, UpdatesAnswered, external, Recording, Undisturbed
  <2>3. OwnedIsKnown'
    BY <1>1, <2>1, <2>2 DEF Recording, OwnedIsKnown
  <2>4. \A d \in Device : ToBeRecorded(d)' = ToBeRecorded(d) /\ (~BatchDone' => ~BatchDone)
    <3>1. CASE SendUpdates
      BY <1>1, <3>1 DEF SendUpdates, ToBeRecorded, BatchDone, DevicesOf, Recording, Undisturbed, Recorded
    <3>2. CASE UpdatesAnswered
      BY <1>1, <3>2 DEF UpdatesAnswered, external, ToBeRecorded, BatchDone, DevicesOf, Recorded
    <3> QED  BY <1>3, <3>1, <3>2
  <2>5. OwnedIsRecorded'
    BY <1>1, <2>1, <2>4 DEF Recording, OwnedIsRecorded, Recorded
  <2> QED  BY <1>2, <2>2, <2>3, <2>5 DEF Recording
<1>4. CASE Others \/ UNCHANGED vars
  <2>1. UNCHANGED <<pc, inFlight>> /\ catalog \subseteq catalog'
    BY <1>4 DEF Others, TagOrUntagVm, ConsoleAdds, ConsoleRemoves, CreateTag, vars, external
  <2>2. \A d \in Device : /\ owned'[d] \subseteq owned[d]
                          /\ owned'[d] \cap liveTags'[d] \subseteq liveTags[d]
    BY <1>4 DEF Others, TagOrUntagVm, ConsoleAdds, ConsoleRemoves, CreateTag, vars, external, TypeOK
  <2>3. Undisturbed'
    BY <1>1, <2>1 DEF Recording, Undisturbed
  <2>4. OwnedIsKnown'
    BY <1>1, <2>1, <2>2 DEF Recording, OwnedIsKnown
  <2>5. BatchDone' = BatchDone /\ \A d \in Device : ToBeRecorded(d)' = ToBeRecorded(d)
    BY <1>1, <2>1 DEF BatchDone, ToBeRecorded, DevicesOf, Recorded
  <2>6. OwnedIsRecorded'
    BY <1>1, <2>2, <2>5 DEF Recording, OwnedIsRecorded, Recorded
  <2> QED  BY <1>2, <2>3, <2>4, <2>6 DEF Recording
<1> QED  BY <1>3, <1>4

LEMMA StartRecords ==
    ASSUME TypeOK, Recording, StartCycle
    PROVE  Recording'
<1>1. /\ UNCHANGED <<catalog, liveTags, inFlight, owned, stateFile, dryRun, allowlist,
                     found, wanted, plan, seenLive, seenCatalog, seenState>>
      /\ pc = "idle" /\ pc' = "fetch" /\ pending' = Read
  BY DEF StartCycle, external, process
<1>2. Undisturbed' /\ PlanIsDiff'
  BY <1>1 DEF Recording, Undisturbed, PlanIsDiff, DiffsOf, LiveNames, UpdateOf, SplitLookup
<1>3. OwnedIsKnown'
  BY <1>1 DEF Recording, OwnedIsKnown, Read
<1>4. OwnedIsRecorded'
  BY <1>1 DEF Recording, OwnedIsRecorded, ToBeRecorded, BatchDone, Recorded
<1> QED  BY <1>2, <1>3, <1>4 DEF Recording

\* Between cycles the state file knows every tag in scope that the tool put on a
\* device, whatever vCenter outage, incomplete listing, failed fetch, restart between
\* cycles or edit of either system came between.
THEOREM OwnedTagsAreRecorded ==
    ASSUME UpdatesAreSafe
    PROVE  Spec => []ToolTagsAreRecorded
<1> DEFINE All == TypeOK /\ Inv /\ StateIsCurrent /\ Recording
<1>1. Init => All
  <2>1. Init => StateIsCurrent  BY DEF Init, StateIsCurrent
  <2> QED  BY <2>1, TypeInit, InvInit, RecordingInit
<1>2. All /\ [Next]_vars => All'
  <2> SUFFICES ASSUME All, [Next]_vars PROVE All'
    OBVIOUS
  <2>1. TypeOK'  BY TypeStep
  <2>2. Inv'  BY PhasesStep, LimitStep, PlanStep DEF Inv
  <2>3. StateIsCurrent'
    <3>1. "access" \notin FaultKinds  BY DEF UpdatesAreSafe
    <3> QED  BY <3>1, StateStep
  <2>4. Recording'
    <3>1. Phases  BY DEF Inv
    <3> QED
      BY <3>1, NextCases, StartRecords, ReadRecords, PlanRecords, EndRecords, ApplyRecords,
         QuietRecords DEF QuietStep
  <2> QED  BY <2>1, <2>2, <2>3, <2>4
<1>3. All => ToolTagsAreRecorded
  <2> SUFFICES ASSUME All, pc = "idle", RemoveOrphanedTags,
                      NEW d \in Device, NEW t \in owned[d] \cap liveTags[d],
                      IsEligibleForRemoval(t, allowlist)
               PROVE  t \in Recorded(stateFile[d])
    BY DEF ToolTagsAreRecorded
  <2>1. InScope(t)  BY DEF InScope, Recording, Undisturbed
  <2> QED  BY <2>1 DEF Recording, OwnedIsRecorded, ToBeRecorded, BatchDone
<1> QED  BY <1>1, <1>2, <1>3, PTL DEF Spec
=============================================================================
