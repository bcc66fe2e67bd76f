-------------------------- MODULE SyncOrchestrator --------------------------
(***************************************************************************)
(* One process that runs sync cycles, SyncOrchestrator.execute, between    *)
(* two systems that change under it: vCenter, whose VM tags are the        *)
(* source, and Vision One, whose device tags are the copy.                 *)
(*                                                                         *)
(* A cycle reads the four inputs in any order, plans full-replacement      *)
(* updates from those snapshots, sends them in one batch, and saves what   *)
(* it wanted as the sync state.  Everything it holds is local to execute() *)
(* and lost with it; the state file is replaced whole by a rename.         *)
(*                                                                         *)
(* Matching is a parameter: Matchings[l][f] is the set of results          *)
(* applyOverrides and MatchingService.match may return when the VMs in l   *)
(* and the devices in f were listed.  What they compute has modules of its *)
(* own.                                                                    *)
(***************************************************************************)
EXTENDS Naturals, FiniteSets, DiffService

CONSTANTS
    Vm, Device, VCenter,
    HomeOf,          \* the vCenter of each VM
    VmwareTag,       \* the tags that exist in vCenter
    InitialTags,     \* the sets of tags a device may carry before the first cycle
    InitialCatalog,  \* the tags that exist in Vision One at the start
    Hides,           \* Hides[w][c]: the tags in a category whose name vCenter w, configured
                     \* before c, has under another id
    Matchings,       \* sets of VMs, of devices -> SUBSET SUBSET (Vm \X Device)
    TagLimit,        \* 20 in the code and in Vision One
    SlashKeyed,      \* the tags whose category has a "/" in its name
    AllowlistFile,   \* the tags in orphanRemovalAllowlistFile, or NoAllowlist
    DryRuns,         \* the values of DRY_RUN the process may be started with
    Nothing,         \* no state loaded: what a cycle holds before it reads the state file
    FaultKinds, MaxFaults,   \* the faults that may happen, and a bound on their number
    EditKinds, MaxEdits      \* the edits made outside the tool, and a bound on their number

ASSUME SyncAssumption ==
    /\ IsFiniteSet(Tag) /\ VmwareTag \subseteq Tag /\ InitialCatalog \subseteq Tag
    /\ HomeOf \in [Vm -> VCenter]
    /\ Hides \in [VCenter -> [VCenter -> SUBSET VmwareTag]]
    /\ Matchings \in [SUBSET Vm -> [SUBSET Device -> SUBSET SUBSET (Vm \X Device)]]
    /\ \A l \in SUBSET Vm, f \in SUBSET Device :
          \A matches \in Matchings[l][f] : matches \subseteq l \X f
    /\ TagLimit \in Nat
    /\ \A tags \in InitialTags : tags \subseteq Tag /\ Cardinality(tags) <= TagLimit
    /\ SlashKeyed \subseteq Tag
    /\ AllowlistFile \in Allowlist
    /\ DryRuns \subseteq BOOLEAN
    /\ \A s \in [Device -> Entry] : s # Nothing
    /\ MaxFaults \in Nat /\ MaxEdits \in Nat

VARIABLES
    vmTags,       \* vCenter: the tags of each VM
    catalog,      \* Vision One: the custom tags that exist
    liveTags,     \* Vision One: assetCustomTagIds of each device
    inFlight,     \* updates sent, and neither applied nor refused by Vision One
    owned,        \* auxiliary: the tags of each device the tool last added there; one that a
                  \* batch only puts back, after the console took it off, is not among them
    stateFile,    \* the entries of the sync state file
    dryRun,       \* the gateway is wrapped in a DryRunDecorator
    allowlist,    \* the allowlist bootstrap loaded
    pc,           \* where execute() stands
    pending,      \* the reads of the fetch step that have not returned
    listed,       \* the VMs listVms returned
    found,        \* the devices on the pages of listDevices so far
    twice,        \* those of them that were on more than one
    seenTags, seenLive, seenCatalog, seenState,   \* what the reads returned
    wanted,       \* desiredTagNamesByDeviceId
    plan,         \* the updates
    faults, edits

external == <<vmTags, catalog, liveTags, inFlight, owned>>
process  == <<dryRun, allowlist>>
reads    == <<pending, listed, found, twice, seenTags, seenLive, seenCatalog, seenState>>
locals   == <<reads, wanted, plan>>
vars     == <<external, stateFile, process, pc, locals, faults, edits>>

Read   == {"vms", "tags", "devices", "catalog", "state"}
Update == [device : Device, add : SUBSET Tag, tags : SUBSET Tag]

TypeOK ==
    /\ vmTags \in [Vm -> SUBSET VmwareTag]
    /\ catalog \subseteq Tag
    /\ liveTags \in [Device -> SUBSET Tag]
    /\ inFlight \subseteq Update
    /\ owned \in [Device -> SUBSET Tag]
    /\ stateFile \in [Device -> Entry]
    /\ dryRun \in BOOLEAN
    /\ allowlist \in Allowlist
    /\ pc \in {"idle", "fetch", "apply", "await", "persist"}
    /\ pending \subseteq Read
    /\ listed \subseteq Vm
    /\ found \subseteq Device
    /\ twice \subseteq found
    /\ seenTags \in [Vm -> SUBSET Tag]
    /\ seenLive \in [Device -> SUBSET Tag]
    /\ seenCatalog \subseteq Tag
    /\ seenState \in [Device -> Entry]
    /\ wanted \in [Device -> SUBSET Tag]
    /\ plan \subseteq Update
    /\ faults \in 0..MaxFaults
    /\ edits \in 0..MaxEdits

-----------------------------------------------------------------------------
(* Start of the process, and the locals of execute().                      *)

\* bootstrap: an allowlist file that cannot be read leaves no allowlist.
LoadedAllowlists ==
    {AllowlistFile} \cup (IF "allowlist" \in FaultKinds THEN {NoAllowlist} ELSE {})

Init ==
    /\ vmTags \in [Vm -> SUBSET VmwareTag]
    /\ catalog = InitialCatalog
    /\ liveTags \in [Device -> InitialTags]
    /\ inFlight = {}
    /\ owned = [d \in Device |-> {}]
    /\ stateFile = [d \in Device |-> NoEntry]
    /\ dryRun \in DryRuns
    /\ allowlist \in LoadedAllowlists
    /\ pc = "idle"
    /\ pending = {}
    /\ listed = {}
    /\ found = {}
    /\ twice = {}
    /\ seenTags = [v \in Vm |-> {}]
    /\ seenLive = [d \in Device |-> {}]
    /\ seenCatalog = {}
    /\ seenState = [d \in Device |-> NoEntry]
    /\ wanted = [d \in Device |-> {}]
    /\ plan = {}
    /\ faults = 0
    /\ edits = 0

\* execute() returns, throws or dies with the process: its locals are gone.
CycleOver ==
    /\ pc' = "idle"
    /\ pending' = {}
    /\ listed' = {}
    /\ found' = {}
    /\ twice' = {}
    /\ seenTags' = [v \in Vm |-> {}]
    /\ seenLive' = [d \in Device |-> {}]
    /\ seenCatalog' = {}
    /\ seenState' = [d \in Device |-> NoEntry]
    /\ wanted' = [d \in Device |-> {}]
    /\ plan' = {}

\* A fault of this kind happens, if such faults do and some are left.
Fault(kind) ==
    /\ kind \in FaultKinds
    /\ faults < MaxFaults
    /\ faults' = faults + 1

Edit(kind) ==
    /\ kind \in EditKinds
    /\ edits < MaxEdits
    /\ edits' = edits + 1

-----------------------------------------------------------------------------
(* Steps 1 and 2: connect, then four fetches in parallel.                  *)

\* connect() throws only when no vCenter answers, and then nothing happens.
StartCycle ==
    /\ pc = "idle"
    /\ pc' = "fetch"
    /\ pending' = Read
    /\ UNCHANGED <<external, stateFile, process, listed, found, twice, seenTags, seenLive,
                   seenCatalog, seenState, wanted, plan, faults, edits>>

\* A vCenter that does not answer is logged and left out.
ListVms ==
    /\ "vms" \in pending
    /\ \E up \in SUBSET VCenter :
        /\ IF up = VCenter THEN faults' = faults ELSE Fault("vcenter")
        /\ listed' = {v \in Vm : HomeOf[v] \in up}
    /\ pending' = pending \ {"vms"}
    /\ UNCHANGED <<external, stateFile, process, pc, found, twice, seenTags, seenLive,
                   seenCatalog, seenState, wanted, plan, edits>>

\* Categories are merged by name and looked up by id: a tag of c is lost, its category
\* being "Unknown", when an earlier vCenter that was heard has a category of that name.
Hidden(c, heard) == UNION {Hides[w][c] : w \in heard}

\* heard answer for their categories; those among them that answer for their tags and
\* associations too are up.  A VM elsewhere is left without any tag that resolves.
ReadVmTags ==
    /\ "tags" \in pending
    /\ "vms" \notin pending
    /\ \E heard \in SUBSET VCenter : \E up \in SUBSET heard :
        /\ IF up = VCenter THEN faults' = faults ELSE Fault("tagread")
        /\ seenTags' = [v \in Vm |-> IF v \in listed /\ HomeOf[v] \in up
                                       THEN vmTags[v] \ Hidden(HomeOf[v], heard) ELSE {}]
    /\ pending' = pending \ {"tags"}
    /\ UNCHANGED <<external, stateFile, process, pc, listed, found, twice, seenLive,
                   seenCatalog, seenState, wanted, plan, edits>>

\* listDevices follows nextLink from page to page, each read at its own moment.  A
\* device that moves from one page to another in between is missed, or listed twice:
\* its later record overwrites the live tags known of it.
ListDevicePage ==
    /\ "devices" \in pending
    /\ \E page \in SUBSET Device :
        /\ found' = found \cup page
        /\ twice' = twice \cup (found \cap page)
        /\ seenLive' = [d \in Device |-> IF d \in page THEN liveTags[d] ELSE seenLive[d]]
        /\ \/ page # {} /\ UNCHANGED pending
           \/ pending' = pending \ {"devices"}
        /\ IF found \cap page = {} /\ ("devices" \in pending' \/ found' = Device)
             THEN faults' = faults ELSE Fault("page")
    /\ UNCHANGED <<external, stateFile, process, pc, listed, seenTags,
                   seenCatalog, seenState, wanted, plan, edits>>

ListCustomTags ==
    /\ "catalog" \in pending
    /\ seenCatalog' = catalog
    /\ pending' = pending \ {"catalog"}
    /\ UNCHANGED <<external, stateFile, process, pc, listed, found, twice, seenTags, seenLive,
                   seenState, wanted, plan, faults, edits>>

\* A state file that is there but cannot be accessed counts as absent.
LoadState ==
    /\ "state" \in pending
    /\ \/ seenState' = stateFile /\ faults' = faults
       \/ seenState' = [d \in Device |-> NoEntry] /\ Fault("access")
    /\ pending' = pending \ {"state"}
    /\ UNCHANGED <<external, stateFile, process, pc, listed, found, twice, seenTags, seenLive,
                   seenCatalog, wanted, plan, edits>>

\* A read is rejected, or the unmatched report cannot be written: the catch block.
CycleFails ==
    /\ pc = "fetch"
    /\ Fault("fetch")
    /\ CycleOver
    /\ UNCHANGED <<external, stateFile, process, edits>>

-----------------------------------------------------------------------------
(* Steps 3 to 8: match, resolve, diff, and build the updates.              *)

\* The tagIds of VM v that tagLookup finds, under their "category/name".
Resolved(v) == seenTags[v] \cap seenCatalog

\* The names of the live tag ids the catalog knows.
LiveNames(d) == seenLive[d] \cap seenCatalog

\* Mutant of SplitLookup: the name is looked up as it is, and the key is never found.
SplitLookupUnsplit(tags) == {}

\* The ids found when a name is split again at its first "/".  Split there, a name of
\* SlashKeyed is a key and a value that no tag has: another tag with those would have
\* the same name, and a name stands for one tag here.
SplitLookup(tags) == (tags \cap seenCatalog) \ SlashKeyed

\* Mutant of Truncated: the added ids come first.
TruncatedKeepingAdded(kept, added) ==
    IF Cardinality(kept \cup added) <= TagLimit THEN kept \cup added
    ELSE CHOOSE ids \in SUBSET (kept \cup added) :
            /\ Cardinality(ids) = TagLimit
            /\ ids \subseteq added \/ added \subseteq ids

\* finalTagIds.length = 20: kept ids come first, which ones is the ids' order.
Truncated(kept, added) ==
    IF Cardinality(kept \cup added) <= TagLimit THEN kept \cup added
    ELSE CHOOSE ids \in SUBSET (kept \cup added) :
            /\ Cardinality(ids) = TagLimit
            /\ ids \subseteq kept \/ kept \subseteq ids

\* Mutant of UpdateOf: it starts from the recorded tags, not from the live ones.
UpdateOfRecorded(d, diff) ==
    LET add == SplitLookup(diff.add) IN
    [device |-> d, add |-> add,
     tags |-> Truncated(Recorded(seenState[d]) \ SplitLookup(diff.remove), add)]

UpdateOf(d, diff) ==
    LET add == SplitLookup(diff.add) IN
    [device |-> d, add |-> add,
     tags |-> Truncated(seenLive[d] \ SplitLookup(diff.remove), add)]

DiffsOf(d, want) == ComputeSingleDiff(want[d], LiveNames(d), seenState[d], allowlist)

\* The two records of a device listed twice make its automatic matches ambiguous, and
\* allowMultipleMatches or an override keeps them all the same.
CycleMatches ==
    {{m \in matches : m[2] \notin lost} : matches \in Matchings[listed][found],
                                         lost \in SUBSET twice}

\* source[d] is the last VM matched to d: later matches overwrite the wanted tags.
PlanUpdates ==
    /\ pc = "fetch"
    /\ pending = {}
    /\ \E matches \in CycleMatches :
       LET matched == {m[2] : m \in matches} IN
       \E source \in [matched -> Vm] :
          /\ \A d \in matched : <<source[d], d>> \in matches
          /\ wanted' = [d \in Device |-> IF d \in matched THEN Resolved(source[d]) ELSE {}]
          /\ plan' = UNION {{UpdateOf(d, diff) : diff \in DiffsOf(d, wanted')} : d \in matched}
    /\ pc' = "apply"
    /\ UNCHANGED <<external, stateFile, process, reads, faults, edits>>

-----------------------------------------------------------------------------
(* Step 8: the batch.  Vision One applies each update of it or refuses it. *)

\* No call without updates, and none that leaves the DryRunDecorator.
SendUpdates ==
    /\ pc = "apply"
    /\ inFlight = {}
    /\ IF plan = {} \/ dryRun
         THEN pc' = "persist" /\ UNCHANGED inFlight
         ELSE pc' = "await" /\ inFlight' = plan
    /\ UNCHANGED <<vmTags, catalog, liveTags, owned, stateFile, process, locals,
                   faults, edits>>

UpdateFor(batch, d) == CHOOSE u \in batch : u.device = d
DevicesOf(batch) == {u.device : u \in batch}

\* Full replacement of the tags of every device whose update is not refused.
\* It may come after the cycle that sent the batch has given up on it.
VisionOneApplies ==
    /\ inFlight # {}
    /\ \E done \in SUBSET DevicesOf(inFlight) :
        /\ IF done = DevicesOf(inFlight) THEN faults' = faults ELSE Fault("item")
        /\ liveTags' = [d \in Device |->
              IF d \in done THEN UpdateFor(inFlight, d).tags ELSE liveTags[d]]
        /\ owned' = [d \in Device |->
              IF d \in done THEN owned[d] \cup (UpdateFor(inFlight, d).add \ liveTags[d])
                            ELSE owned[d]]
    /\ inFlight' = {}
    /\ UNCHANGED <<vmTags, catalog, stateFile, process, pc, locals, edits>>

\* The results are counted, whatever they are.
UpdatesAnswered ==
    /\ pc = "await"
    /\ inFlight = {}
    /\ pc' = "persist"
    /\ UNCHANGED <<external, stateFile, process, locals, faults, edits>>

\* updateDeviceTags throws: refused as a whole, or timed out before, or after,
\* Vision One applied it.
UpdatesFail ==
    /\ pc = "await"
    /\ Fault("answer")
    /\ inFlight' \in {inFlight, {}}
    /\ CycleOver
    /\ UNCHANGED <<vmTags, catalog, liveTags, owned, stateFile, process, edits>>

-----------------------------------------------------------------------------
(* Step 9: the state file.                                                 *)

\* Mutants of SavedEntries: the copy of the loaded entries is left out, is of the
\* updated devices only, or the entry is what was added rather than what was wanted.
SavedWithoutCopy ==
    [d \in Device |-> IF d \in DevicesOf(plan) THEN wanted[d] ELSE NoEntry]
SavedUpdatesOnly ==
    [d \in DevicesOf(plan) |-> wanted[d]]
SavedAdditions ==
    [d \in Device |-> IF d \in DevicesOf(plan) THEN UpdateFor(plan, d).add ELSE seenState[d]]

\* The loaded entries, with that of every planned device replaced by what was
\* wanted of it, whatever became of its update.
SavedEntries ==
    [d \in Device |-> IF d \in DevicesOf(plan) THEN wanted[d] ELSE seenState[d]]

PersistState ==
    /\ pc = "persist"
    /\ stateFile' = SavedEntries
    /\ CycleOver
    /\ UNCHANGED <<external, process, faults, edits>>

SaveFails ==
    /\ pc = "persist"
    /\ Fault("save")
    /\ CycleOver
    /\ UNCHANGED <<external, stateFile, process, edits>>

\* The process ends, by itself ("crash", SIGTERM included) or between two cycles
\* ("restart"), and is started again.
Restart ==
    /\ Fault("crash") \/ (pc = "idle" /\ Fault("restart"))
    /\ dryRun' \in DryRuns
    /\ allowlist' \in LoadedAllowlists
    /\ CycleOver
    /\ UNCHANGED <<external, stateFile, edits>>

-----------------------------------------------------------------------------
(* What others do to the two systems.                                      *)

TagOrUntagVm ==
    /\ Edit("vm")
    /\ \E v \in Vm, t \in VmwareTag :
        vmTags' = [vmTags EXCEPT ![v] = IF t \in @ THEN @ \ {t} ELSE @ \cup {t}]
    /\ UNCHANGED <<catalog, liveTags, inFlight, owned, stateFile, process, pc, locals, faults>>

ConsoleAdds ==
    /\ Edit("add")
    /\ \E d \in Device, t \in catalog :
        /\ t \notin liveTags[d]
        /\ Cardinality(liveTags[d]) < TagLimit
        /\ liveTags' = [liveTags EXCEPT ![d] = @ \cup {t}]
        /\ owned' = [owned EXCEPT ![d] = @ \ {t}]
    /\ UNCHANGED <<vmTags, catalog, inFlight, stateFile, process, pc, locals, faults>>

ConsoleRemoves ==
    /\ Edit("remove")
    /\ \E d \in Device : \E t \in liveTags[d] :
        /\ liveTags' = [liveTags EXCEPT ![d] = @ \ {t}]
    /\ UNCHANGED <<vmTags, catalog, inFlight, owned, stateFile, process, pc, locals, faults>>

\* An administrator creates a tag of the missing-tags file.
CreateTag ==
    /\ Edit("create")
    /\ \E t \in Tag \ catalog : catalog' = catalog \cup {t}
    /\ UNCHANGED <<vmTags, liveTags, inFlight, owned, stateFile, process, pc, locals, faults>>

-----------------------------------------------------------------------------
Cycle ==
    \/ StartCycle \/ ListVms \/ ReadVmTags \/ ListDevicePage \/ ListCustomTags \/ LoadState
    \/ CycleFails \/ PlanUpdates \/ SendUpdates \/ UpdatesAnswered \/ UpdatesFail
    \/ PersistState \/ SaveFails

Others == TagOrUntagVm \/ ConsoleAdds \/ ConsoleRemoves \/ CreateTag

Next == Cycle \/ VisionOneApplies \/ Restart \/ Others

Spec == Init /\ [][Next]_vars

\* The interval timer starts the next cycle, an await of the cycle settles (every
\* request has a timeout), and Vision One deals with what it accepted.
Fairness == WF_vars(Cycle) /\ WF_vars(VisionOneApplies)

FairSpec == Spec /\ Fairness

-----------------------------------------------------------------------------
(* Safety                                                                  *)

\* What the plan takes off a device is recorded as the tool's, no longer wanted
\* and in scope for removal.  In particular the cut at TagLimit, which comes after
\* the additions, never costs the device a tag it already had.
PlanRemovesOnlyOrphans ==
    \A u \in plan : \A t \in seenLive[u.device] \ u.tags :
        /\ RemoveOrphanedTags
        /\ t \in Recorded(seenState[u.device]) \ wanted[u.device]
        /\ IsEligibleForRemoval(t, allowlist)

\* An entry of the state file changes only for a device the saving cycle planned an
\* update of: a device whose VM went unlisted, or unmatched, keeps what was recorded.
UnplannedEntriesKept ==
    [][\A d \in Device : stateFile'[d] # stateFile[d] => d \in DevicesOf(plan)]_vars

\* No step of the tool or of Vision One takes off a device a tag that someone else
\* had added last: whatever the interleaving, the crash or the late batch.
ForeignTagsStay ==
    [][edits' = edits => \A d \in Device : liveTags[d] \ owned[d] \subseteq liveTags'[d]]_vars

\* Between cycles, the state file knows every tag the tool put on a device and may
\* have to take off again.
ToolTagsAreRecorded ==
    (pc = "idle" /\ inFlight = {} /\ RemoveOrphanedTags) =>
        \A d \in Device : \A t \in owned[d] \cap liveTags[d] :
            IsEligibleForRemoval(t, allowlist) => t \in Recorded(stateFile[d])

\* Every removal planned is of a tag some VM matched to the device lacks in vCenter.
RemovalsMirrorVmware ==
    \A u \in plan : \A t \in seenLive[u.device] \ u.tags :
        \E matches \in Matchings[listed][found] :
            \E m \in matches : m[2] = u.device /\ t \notin vmTags[m[1]]

\* What d carries once its part of the plan is applied.
PlannedTags(d) == IF d \in DevicesOf(plan) THEN UpdateFor(plan, d).tags ELSE seenLive[d]

\* The plan misses nothing, whatever drift, refused update or lost save left the device
\* and its entry in: it lacks a wanted tag only when the device is full or the name is
\* split at the wrong place, and no recorded tag that it should take off stays.
PlanCompletesMirror ==
    pc \in {"apply", "await", "persist"} =>
        \A d \in Device :
            /\ \/ wanted[d] \ SlashKeyed \subseteq PlannedTags(d)
               \/ Cardinality(PlannedTags(d)) = TagLimit
            /\ (wanted[d] # {} \/ d \in DevicesOf(plan)) =>
                  \A t \in PlannedTags(d) \cap Recorded(seenState[d]) :
                      (RemoveOrphanedTags /\ IsEligibleForRemoval(t, allowlist))
                          => t \in wanted[d] \cup SlashKeyed \/ t \notin seenCatalog

\* No update is sent for nothing: it changes the tags it was computed from, unless the
\* device is full or the only tags to change have names that are split at the wrong place.
UpdatesHaveEffect ==
    \A u \in plan :
        \/ u.tags # seenLive[u.device]
        \/ Cardinality(u.tags) = TagLimit
        \/ \E t \in SlashKeyed :
              t \in (wanted[u.device] \ seenLive[u.device])
                       \cup (Recorded(seenState[u.device]) \ wanted[u.device])

\* The cycle is one process at the register of StateRegister, which the state file
\* implements: it loads at most once, asks for the entries of the devices it planned an
\* update of, and saves what it had loaded with those, and no other, replaced.
Register == INSTANCE StateRegister WITH
    Process <- {"execute"},
    state <- stateFile,
    held <- [p \in {"execute"} |->
                IF pc = "idle" \/ "state" \in pending THEN Nothing ELSE seenState],
    changes <- [p \in {"execute"} |-> [d \in DevicesOf(plan) |-> wanted[d]]]

CycleUsesRegister == Register!Spec

-----------------------------------------------------------------------------
(* Liveness, for a matching that does not change while all is listed       *)

SettledMatches == UNION Matchings[Vm][Device]

\* Every device carries the tags of its VM, and no recorded tag that should go.
MirrorIsExact ==
    \A m \in SettledMatches :
        LET want == vmTags[m[1]] \cap catalog IN
        /\ want \ SlashKeyed \subseteq liveTags[m[2]]
        /\ \A t \in liveTags[m[2]] \cap Recorded(stateFile[m[2]]) :
              (RemoveOrphanedTags /\ IsEligibleForRemoval(t, allowlist))
                  => t \in want \cup SlashKeyed \/ t \notin catalog

\* What the cycle in progress has read is how things still are, but for the device tags.
InputsAgree ==
    pc # "idle" =>
        /\ "vms" \notin pending => listed = Vm
        /\ "devices" \notin pending => found = Device
        /\ twice = {}
        /\ "tags" \notin pending => seenTags = vmTags
        /\ "catalog" \notin pending => seenCatalog = catalog
        /\ "state" \notin pending => seenState = stateFile

\* The mirror is exact, what has been read of it agrees with it, and what has been sent
\* or is about to be would not change it.
InSync ==
    /\ MirrorIsExact
    /\ InputsAgree
    /\ \A d \in found : seenLive[d] = liveTags[d]
    /\ \A u \in plan \cup inFlight : u.tags = liveTags[u.device]

\* One cycle is enough: a save that nothing disturbed, of a batch that arrived, on
\* devices with room for what is wanted, leaves an exact mirror.
CyclesSettle ==
    [][( /\ pc = "persist" /\ pc' = "idle" /\ faults' = faults
         /\ InputsAgree /\ inFlight = {}
         /\ \A d \in Device : liveTags[d] = PlannedTags(d)
         /\ \A d \in Device : Cardinality(seenLive[d] \cup wanted[d]) <= TagLimit )
            => InSync']_vars

\* And it is left alone from then on: however many cycles run over an exact mirror, no
\* tag changes, and neither does what makes the mirror exact.
MirrorIsStable ==
    [][(InSync /\ faults' = faults /\ edits' = edits) => InSync' /\ liveTags' = liveTags]_vars

\* Once faults and edits cease, every device carries the tags of its VM that exist
\* in Vision One: whatever failed before, later cycles repair it.
DesiredTagsArrive ==
    <>[](\A m \in SettledMatches :
            (vmTags[m[1]] \cap catalog) \ SlashKeyed \subseteq liveTags[m[2]])

\* The same without the exception: whatever category a tag is in, the devices get it.
EveryTagArrives ==
    <>[](\A m \in SettledMatches : vmTags[m[1]] \cap catalog \subseteq liveTags[m[2]])

\* Once they cease, so do the updates: no diff is computed and sent again in every cycle
\* for ever, whatever tags that nobody wants, and whatever stale entries, faults left.
\* (With room for all tags, one VM to a device and names that split as they were joined.)
UpdatesCease == <>[](inFlight = {})

\* Once they cease, no device keeps a tag the tool put there, in scope for removal,
\* that its VM no longer has.
OrphansLeave ==
    <>[](\A m \in SettledMatches : \A t \in owned[m[2]] \cap liveTags[m[2]] :
            IsEligibleForRemoval(t, allowlist) => t \in vmTags[m[1]])
=============================================================================
