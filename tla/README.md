# VMware to Vision One tag sync: models and proofs

TLA+ models of the program in `src/`, a Node service that copies the tags of
vSphere VMs to the matching devices of Trend Micro Vision One.  TLC checks them
on small instances, TLAPS proves the main safety properties for all instances.
Paths below are relative to `src/src/`; `README.md:n` is the repository's README.

    tlc -config SyncForeign.cfg MCSyncOrchestrator.tla
    tlapm SyncOrchestratorProofs.tla

## The system

| Part | Code | State it keeps | Operations |
|------|------|----------------|------------|
| Sync cycle | `application/SyncOrchestrator.ts` | locals of one `execute()` | fetch in parallel, match, resolve, diff, update, save |
| Tag diff | `domain/service/DiffService.ts` | none | `computeDiffs`, scope of removal |
| Matching | `domain/service/MatchingService.ts` | none | `match`: by host name, address, both; conflict resolution |
| Scheduler | `application/SyncScheduler.ts`, `index.ts` | `running`, timer | timer, SIGHUP, SIGTERM |
| Mapping overrides | `infrastructure/config/MappingOverrideFile.ts` | map VM id -> override | `load`, `reload`, `getOverride` |
| Sync state file | `infrastructure/state/FileSyncStateRepo.ts` | a JSON file, its backup, temporary files | `load`, `save` (backup, temporary file and rename) |
| Dry run | `application/DryRunDecorator.ts` | none | answers 204 without a call |
| Bootstrap | `app.ts` | none | configuration, allowlist, wiring |
| Multi-vCenter gateway | `infrastructure/vmware/MultiVmwareGateway.ts` | none | merges the vCenters, leaves out those that fail |
| VMware gateway | `infrastructure/vmware/VmwareGatewayImpl.ts` | tag and category caches | lists VMs, tags, categories, associations |
| VMware session | `VmwareAuthManager.ts`, `VmwareRestClient.ts` | session token | login, 401 retry, DELETE at the end of a cycle |
| Vision One gateway | `VisionOneGatewayImpl.ts` | none | lists devices and tags, batch update |
| Vision One client | `VisionOneRestClient.ts`, `VisionOnePaginator.ts` | none | 429 retry, timeout, paging |
| Configuration | `infrastructure/config/` | none | schema, file, environment |
| Unmatched report | `infrastructure/logging/UnmatchedReporter.ts` | none | which VMs have no device, and why |
| Logging, tag naming | `infrastructure/logging/`, `TagNamingService.ts` | none | output; tag naming is not reached from the program |

How they interact.  The scheduler calls `execute()` at start and at every
interval, one call at a time.  `execute()` starts four fetches with
`Promise.all`: VMs with tags (which asks every vCenter), devices, custom tags,
and the state file.  From these four snapshots, taken at different moments, it
matches, computes diffs and sends ONE batch, in which each device's tags are
replaced as a whole.  Then it writes what it wanted of every device with a diff
to the state file.  Only the state file outlives a cycle.  SIGHUP reloads the
overrides map while a cycle may be running.  Vision One's console, vCenter and
the administrator's files change at any moment.

What is hard.  The plan rests on stale snapshots; the batch is applied in part,
late, or without its answer; the process may die between the batch and the
state file; errors of one vCenter are swallowed and look like absence; reloads
are asynchronous and overlap with cycles and with each other; a cycle that
failed leaves fetches running, on a session that the parallel calls of a vCenter
share and that vCenter may end at any time; a one-off sync uses the state file of
the service beside it.  `hazards` in `PROJECT.json` lists each at its
line, with the properties that cover it.

What makes each part correct:

- cycle: nothing of others is taken off; the state file knows what the tool put
  there; tags arrive, and tool tags that a VM lost leave, whatever failed before, and
  then the updates cease; a plan misses nothing and does nothing for nothing, one undisturbed cycle makes the
  mirror exact, and later ones leave it alone;
- diff: an applied diff is not computed again; the two forms agree;
- matching: one VM per device; absences elsewhere do not change a name match;
  a VM whose host name a listed device has is not reported as having no device;
- scheduler: cycles do not overlap and always come again;
- overrides: a reload leaves exactly the file's, and cycles after it apply them;
- state file: to its users it is one register, read and replaced whole; a cycle saves
  what it loaded but for the devices it updates; a save that fails leaves nothing behind;
- session: a cycle never meets a session the tool itself ended; an undisturbed cycle
  ends what it opened; whatever vCenter refuses, each call, and so the cycle, ends.

## Modules

| Module | Models |
|--------|--------|
| `DiffService` | `computeSingleDiff` as operators on sets of tag names |
| `SyncOrchestrator` | the cycle, both remote systems, the state file, faults and edits; extends `DiffService` |
| `MatchingService` | `match` as operators on lists of VMs and devices |
| `MatchStep` | overrides, automatic matching of the rest, diagnosis of the unmatched; extends `MatchingService` |
| `Inventory` | the match step from one cycle to the next as VMs, devices and guest details disappear; extends `MatchStep` |
| `StateRegister` | what the state file promises: an atomic register of several processes |
| `StateFile` | the file system calls of `load` and `save`; implements `StateRegister`, which `SyncOrchestrator` uses |
| `VmwareSession` | the token that the parallel calls to one vCenter share, over cycles |
| `SyncScheduler` | timer, overlap guard, SIGHUP, overrides map, stop and start |
| `MC...` | values of the constants for TLC |
| `DiffServiceProofs`, `SyncOrchestratorProofs`, `TagRecordingProofs`, `ConvergenceProofs`, `InventoryProofs`, `SyncSchedulerProofs`, `StateFileProofs`, `VmwareSessionProofs` | theorems; `TagRecordingProofs` and `ConvergenceProofs` extend `SyncOrchestratorProofs` |

### SyncOrchestrator

`external` is the world: `vmTags`, `catalog` (custom tags that exist),
`liveTags`, `inFlight` (a batch sent and not dealt with).  `owned` is auxiliary:
the tags of a device that the tool, and not somebody else, added last.  A tag that the
console took off after the listing, and the batch puts back with the rest of the snapshot,
does not count: the cycle never meant to add it and records nothing of it.
`stateFile` maps a device to `lastSyncedTags`.  `pc` is where `execute()`
stands: `fetch`, then `apply` (diffs computed), `await` (the batch sent) and
`persist`.  Everything else is a local of `execute()`, reset by `CycleOver`.

| Action | Code |
|--------|------|
| `StartCycle` | `execute` up to `Promise.all` |
| `ListVms` | `MultiVmwareGateway.listVms`; a vCenter that fails is left out |
| `ReadVmTags` | `fetchVmsWithTags` and `getTagAssociationsForVms`; a vCenter that fails leaves its VMs without tags |
| `ListDevicePage` | one page of `fetchAll`; devices that move between pages are missed, or listed `twice` with the tags of the later page |
| `ListCustomTags`, `LoadState` | the other fetches, in any order; a state file that cannot be accessed is empty |
| `CycleFails` | a fetch rejects: the catch block |
| `PlanUpdates` | steps 3 to 8: match, resolve, diff, remove and add ids, cut at 20 |
| `SendUpdates` | the call of `updateDeviceTags`; none without updates, none out of a dry run |
| `VisionOneApplies` | external: replaces the tags of each device it does not refuse, perhaps after the cycle has given up |
| `UpdatesAnswered`, `UpdatesFail` | the answer, or a timeout or error of the call |
| `PersistState`, `SaveFails` | `FileSyncStateRepo.save` |
| `Restart` | crash, SIGTERM in mid-cycle, or a restart between cycles; DRY_RUN and the allowlist are read again |
| `TagOrUntagVm`, `ConsoleAdds`, `ConsoleRemoves`, `CreateTag` | others |

Abstractions.  A tag is one value for "category/name", its Vision One id and its
vCenter tag; `SlashKeyed` are the tags the code does not find again once it
splits the name at the first "/".  It looks up another key and value; a tag with those
would have the same "category/name", and two such tags are taken not to exist (the
lookups by name would mix them up anyway).  `Hides` says which tags of a vCenter are lost
because an earlier one has a category of the same name under another id
(vCenters in linked mode share the ids and hide nothing); such a tag becomes
"Unknown/name", which is taken to be no tag of Vision One.  The merge of tags by
category and name (`MultiVmwareGateway.ts:150`) loses no tag more: its second copy
is in a category that is lost anyway.  The caches of `VmwareGatewayImpl` are left
out, because `fetchVmsWithTags` looks the category names up again.
Lists are sets.  Which ids the cut keeps depends on their order: `Truncated` keeps
live ids before added ones and otherwise chooses once for all.  A device listed twice
has ambiguous matches, which are dropped unless they are of an override or
`allowMultipleMatches` is set (`CycleMatches`); with these it gets an update for
each record, of which the later one's is taken to count.  `Matchings` gives
the results matching may have for the VMs and devices listed, so that the cycle is
proved for any matching.  A batch is dealt with before the next one is sent (a
cycle takes longer than a late request).  VMs and devices are not created or
deleted, apart from outages and incomplete listings.

### MatchingService, MatchStep and Inventory

A list is a function from positions to records, so that one id may occur twice
(a device on two pages).  A host name is its first label, whether it has upper
case, and its domain: what the three normalisations tell apart; `PartOf` says which
labels are part of which.  A match is the pair of positions and what matched
("override" for `applyOverrides`, which the code labels as a host name match; nothing
reads the label).  `Inventory` lets the lists shrink: a vCenter that does not
answer, a device gone, guest details that cannot be read (`enrichVmWithGuestInfo`
swallows the error at either of two calls).  `Diagnosis` is the reason in the report,
without its wording.

### SyncScheduler

A Node handler is atomic up to its next `await`; what is in progress across
awaits is state: `phase` of the cycle, its fetches `calls`, those of failed
cycles `strays` (by kind), the calls of `reload()` as records in `reloads`.
`Sighup` clears the map at once and begins a read; `FileRead` is the moment the
content is taken, and `ReadFails` a read that gets nothing of a file that may be good; `ReloadReturns` sets its entries, up to the first invalid one,
over whatever the map holds then.  `Init` and `Start` leave the map empty: `app.ts`
never calls `load()`.  `alone` of a reload, and `settled`, are auxiliary: `settled`
says that a SIGHUP came while no reload was in progress, that its read did not fail, and
that nothing was edited since.  An absent or unparsable file is the empty one: it loads
nothing after the clear.

### StateFile and StateRegister

Each process runs one load or save at a time; `pc` is the call it is at.

| Action | Code |
|--------|------|
| `Access`, `ReadFile` | `load`: `fs.access`, then `fs.readFile` and `JSON.parse` |
| `GiveUp` | the read, the cycle or `mkdir` fails, or the process dies before the save |
| `CallSave` | step 9 of `execute`: the entries loaded, those of the planned devices replaced |
| `SkipBackup`, `BeginCopy`, `EndCopy` | `createBackup`; errors are swallowed, so the copy may be torn |
| `BeginWrite`, `EndWrite`, `Rename` | `writeFile` to the temporary name, then `rename` |
| `SaveFails`, `Unlink` | the catch block of `save` |
| `Crash` | the process dies (`SyncScheduler.stop` exits at once) |

A file under writing is `Torn`.  Assumed: two saves in progress do not read the same
`Date.now()`; what was written before a rename is there after it (the code does not
call `fsync`, so a power loss is not covered).  `StateRegister` is the
abstract specification: `Load` returns the state or the empty one, `Plan` settles the
entries the cycle asks for, and `Save` writes what was loaded with those, and no other,
replaced.  It deliberately allows what the program allows: a save between the load and
the save of somebody else is lost.  `SyncOrchestrator` is the other side: its `LoadState`
is the `Load` of the process `"execute"`, `PlanUpdates` its `Plan` of the entries of the
devices it updates, `PersistState` its `Save`, and every other end of a cycle its `GiveUp`
(`CycleUsesRegister`), so the two models meet in one interface: a save that forgot an
entry it had loaded, or wrote that of a device without an update, would be no step of it.

### VmwareSession

One vCenter.  `token` is the cached token, `live` the sessions vCenter knows, and each
call of a cycle (`own`) or of an `Earlier` one has a place `at`, the token its
request was `sent` with, and the requests it has `left`.

| Action | Code |
|--------|------|
| `Begin`, `Connect`, `ConnectFails` | `execute` and `MultiVmwareGateway.connect`: a login whatever the cache holds; another vCenter may answer when this one does not |
| `Send` | `executeRequest` and `getSessionToken`: log in first when there is no token |
| `LoggedIn`, `LoginFails` | `authenticate`, before a request or before its repetition |
| `Granted`, `Unauthorized`, `RequestFails` | the answer: `requestWithRetry` drops the cached token, logs in and repeats once |
| `Disconnect`, `Disconnected` | the finally block: DELETE of the cached token, which is then forgotten |
| `SessionEnds` | external: the DELETE is served, or vCenter ends a session |

An answer is handled up to the next request in one go: no other handler runs in
between.  The calls are `listVms`, `listCategories` and `listTags`;
`getTagAssociationsForVms`, which follows them, counts as more requests of theirs.
A cycle leaves its calls running when it fails, beside those of the cycles before it:
`Earlier` and `MaxStrays` bound for TLC of how many cycles and how many calls, the proofs hold
for any.  A token may be used again when nobody has it any more.

## Runs

| Run | Checks | Instance |
|-----|--------|----------|
| `SyncForeign` | `TypeOK`, `PlanRemovesOnlyOrphans`, `PlanCompletesMirror`, `UnplannedEntriesKept`, `ForeignTagsStay` | 2 VMs on 2 vCenters sharing the name of 1 device, 3 tags, limit 2, 2 faults of nine kinds, 2 edits of VMs and catalog; 4.4 million states up to exchange of the VMs with their vCenters (`VmSymmetry`) |
| `SyncRecords` | `ToolTagsAreRecorded`, `UpdatesHaveEffect`, `MirrorIsStable`, `OrphansLeave` | the device falls back to the other VM in an outage; a tag with "/" and one out of scope; 2 faults (outage, incomplete or repeated listing, failed fetch, restart), 2 edits, console included; 1.0 million states |
| `SyncArrive` | `DesiredTagsArrive`, `UpdatesCease`, `CyclesSettle`, `CycleUsesRegister` | 2 VMs, 2 devices, a tag created late; 2 faults of nine kinds, 1 edit; 1.4 million states |
| `Inventory` | `OneToOne`, `UniqueHostnameMatches`, `HostnameMatchesSurvive`, `ReportedAbsenceIsReal` | 2 VMs, 2 device records of 1 or 2 devices, some with a name that is no part of the VMs', 6 configurations, 4 sets of overrides |
| `Reloads` | `TypeOK`, `GuardIsExact`, `NoOverlappingCycles`, `CyclesRecur`, `LoneReloadIsExact`, `SettledOverridesApplied` | 5 file contents, 1 edit, 2 SIGHUPs, any read of the file may fail, 1 stop; 0.4 million states |
| `StateFile` | `TypeOK`, `TempsAreAccounted`, `RegisterSpec` | 2 processes, 2 devices, 2 entries, 2 names of temporary files; 0.9 million states |
| `Sessions` | `TypeOK`, `NoSessionTakenAway`, `CleanCyclesEndSessions`, `CallsWindDown`, `CyclesEnd` | 3 tokens, 2 calls of 1 request each, 1 call left running by an earlier cycle; 0.5 million states |
| `FailedUpdate` | finds `ToolTagsAreRecorded` violated | 1 VM, 1 device, 1 refused update |
| `Takeover` | finds `ForeignTagsStay` violated | 1 VM, 1 device that has the VM's tag already, no fault |
| `TagReadOutage` | finds `RemovalsMirrorVmware` violated | 1 VM, 1 outage of the tag reads |
| `SecondVcenter` | finds `DesiredTagsArrive` violated | 2 vCenters with separate ids of the same categories, no fault |
| `SlashCategory` | finds `EveryTagArrives` violated | 1 VM, 1 device, a tag whose category has a "/", no fault |

What the cycle's newer properties say.  `PlanCompletesMirror`: applied to what was read,
the plan leaves no wanted tag out and no recorded orphan in, save for a full device and
for names split at the wrong "/".  `UpdatesHaveEffect`: no update is sent that changes
nothing, with the same exceptions.  `UpdatesCease`: with room for all tags and no such
names, cycles stop sending updates once faults and edits cease; with such a name there is
a diff in every cycle, which is the property's mutant.  `EveryTagArrives` is
`DesiredTagsArrive` without the exception for such names.  `CyclesSettle`: a save
after an undisturbed cycle leaves `MirrorIsExact` (every device has the tags of its VM
and no orphan that is recorded).  `MirrorIsStable`: `InSync`, the exact mirror together
with reads, plans and batches that agree with it, is kept by every step but a fault or
an edit, and no such step changes a tag.

Bounds.  Every property is about one device at a time, and about its relation to
one VM or to two in turn: two VMs on two vCenters are what an outage or an
ambiguity needs.  Three tags let one be foreign, one be wanted and one be
dropped; a limit of 2 makes the cut happen with them (the code's limit is 20, the
theorems hold for any).  Two faults allow one during the recovery from
another; all disturbances are bounded, which is also what "once faults and edits
cease" means in the liveness properties: the number of cycles is not bounded.
`SyncForeign` leaves out console edits and VMware tags on devices beforehand:
with them `ForeignTagsStay` is false (`Takeover`, and the lost update below).
`SyncRecords` leaves out refused updates, lost answers, failed saves and
crashes in mid-cycle: with any of them `ToolTagsAreRecorded` is false
(`FailedUpdate`), and `OrphansLeave` with it, since a forgotten tag stays for
ever; restarts between cycles are in.  An inaccessible state file has the same effect,
and it makes `UnplannedEntriesKept` false, so both runs leave it out; a restart with a
wider scope of removal is left out of `SyncRecords` too.  `SyncArrive` has all but
these restarts.
In `Sessions` three tokens are the one in the cache, one of a request under way and a
new one.  One request a call is enough for TLC: the next request of a call starts as
another call that has not sent yet does, and the proofs hold for any number.  Two earlier
cycles with a call each (`Call = {vms}`, `Earlier = {first, second}`, `MaxStrays = 2`) pass
too; with two calls a cycle they are too many states for a run of a few minutes.  In
`StateFile` two entries let a save change one, and two devices keep another.
`Inventory` ends when nothing is left to unlist, so it does not check deadlock; the other
runs do.

Fairness.  `SyncOrchestrator`: the cycle goes on (`WF(Cycle)`), since the interval
timer starts one again and every await settles: requests time out after 30 s
(`VmwareAuthManager.ts:26`, `VisionOneRestClient.ts:33`), retries are bounded; and
Vision One deals with a batch it accepted (`WF(VisionOneApplies)`).
`SyncScheduler`: timer, cycle steps and file reads.  `VmwareSession`: some call or
some step of the cycle goes on (`WF(CallStep)`, `WF(CycleStep)`), the end of the
fetches only when its own calls are over; vCenter may refuse for ever.  Nothing is assumed of
signals, edits, faults, stops and starts.  Assumed of Vision One: paging ends
(`VisionOnePaginator.ts:39` follows links without a bound).

## What the runs show of the code

Five runs reproduce disagreements with what the repository says; `findings` in
`PROJECT.json` quotes each line.

- `FailedUpdate`: a refused update is saved as done, so a tag due for removal is
  forgotten.  A timeout after Vision One applied the batch, a failed save, a crash
  before it and a dry run before a real one break the same property (add
  `"answer"`, `"save"`, `"crash"`, or `DryRuns = {FALSE, TRUE}` and `"restart"`).
- `Takeover`: a console tag that the VM gains is recorded as the tool's and
  removed when the VM loses it.
- `TagReadOutage`: unreadable tag associations of one vCenter remove the tags of
  all its devices for a cycle.
- `SecondVcenter`: categories are merged by name and looked up by id, so the tags of
  every vCenter but the first are lost when the vCenters do not share ids.
- `SlashCategory`: names are joined with "/" and split again at the first one, so a tag of
  a category with a "/" in its name is never given to a device (nor taken off it), and
  the cycle sends a full update of that device for it for ever.

Seen while modelling, without a run of their own because reading shows them at
once: the default `tagPrefix` `vmware:` (`ConfigSchema.ts:68`) is a prefix of no
"category/name", so nothing is removed by default although `README.md:313` says
so; an allowlist that cannot be read is ignored (`app.ts:99`, `README.md:317`);
SIGHUP drops the configuration it loads (`SyncScheduler.ts:99`,
`README.md:745`); the VM's display name takes part in the host name pass, before
addresses (`MatchingService.ts:121`, while `README.md:820-822` ranks them the other way
round, which is why `UniqueHostnameMatches` speaks of guest host names only); a tag assigned
in the console between the listing and the batch is lost, and one taken off is put back
(`README.md:315`); a VM that lost an ambiguous ADDRESS match is reported with "No matching
device found by hostname or IP" (`UnmatchedReporter.ts:143`), which is why
`ReportedAbsenceIsReal` speaks of host names only.

Overrides: two SIGHUPs around an edit merge both versions of the file, so a deleted
entry stays in force (`MappingOverrideFile.ts:117`), and cycles before the first SIGHUP,
or while a reload awaits its file, see no overrides (`app.ts:75`,
`MappingOverrideFile.ts:128`), and a read that fails once leaves none until the next
SIGHUP (`MappingOverrideFile.ts:48`), while `README.md:387` says they take precedence: hence
the conditions of `LoneReloadIsExact` and `SettledOverridesApplied`.  Fetches that a
failed cycle leaves running go on beside the next cycle, which `SyncScheduler.ts:124`
means to prevent.

Sessions that nothing ends: those of two logins after a double 401, of a stray call
that logs in after `disconnect`, of a token that `connect()` overwrites, of a login
whose answer is lost (`VmwareAuthManager.ts:4-6` promises the clean-up).  vCenter ends
them when they have been idle; `CleanCyclesEndSessions` says when none is left.

## Proofs

All for every value of the constants under the modules' assumptions.

- `SyncOrchestratorProofs`: `TypeCorrect`; `RemovalsAreOrphans`
  (`PlanRemovesOnlyOrphans`); `OtherEntriesKept` (`UnplannedEntriesKept`);
  `ForeignTagsAreKept` (`ForeignTagsStay`).
  `UnplannedEntriesKept` is not inductive by itself: the saved copy is of the state
  as loaded, so the invariant says that what was loaded is still in the file
  (`StateIsCurrent`), in the phases after the load (`Phases`).
  `PlanRemovesOnlyOrphans` needs that a device never exceeds the limit
  (`WithinLimit`) and `SetBetween`, on finite sets: a set of limit size between two sets
  exists, so the cut keeps all live tags (`TruncatedFacts`).
  `ForeignTagsAreKept` assumes `ForeignTagsAreSeparate`: no VMware tag is on a
  device beforehand and the console is not edited.  Then every recorded or
  wanted tag is VMware's (`OnlyVmwareTagsManaged`) and snapshots and batches
  agree with the live foreign tags (`ForeignTagsAgree`), late batches included.
  `CycleIsClient` (`CycleUsesRegister`) maps each action to a step of `StateRegister`
  or to none; it needs `Phases`: a cycle that plans has loaded, and one that saves writes
  what it loaded, with the planned entries replaced.
- `TagRecordingProofs`: `OwnedTagsAreRecorded` (`ToolTagsAreRecorded`) under
  `UpdatesAreSafe`, which names the faults that break it.  The invariant follows a tag
  through a cycle: what the tool put on a device and may have to remove is recorded,
  or it is in the batch under way and in the entries that will be saved.
- `ConvergenceProofs`: what a cycle achieves.  The invariant is `PlanHasSource`: from the
  planning to the end of the cycle, `wanted` and `plan` are what `PlanUpdates` computes
  from the snapshots for some result of matching (`CycleMatches`) and some choice of a VM per device
  (`PlannedFrom`).  Under it an update brings its device to `Goal`, the snapshot without
  its orphans and with what is wanted, unless the limit cuts it (`UpdateReachesGoal`),
  and a device without an update is there already (`NoDiffAtGoal`).  Hence, with no
  assumption but those of the modules, `PlansAreComplete` (`PlanCompletesMirror`) and
  `NoIdleUpdates` (`UpdatesHaveEffect`), under every fault and edit.  `OneCycleSettles` (`CyclesSettle`) assumes `OneMatching`: when
  everything is listed, matching has one result (it is a function of the lists) and it
  gives a device one VM (`MatchingIsFunctional`, below).  `ExactMirrorsStay` (`MirrorIsStable`) assumes `NothingHidden` too:
  vCenters that share categories share their ids; without it the mirror is not stable, as
  `SecondVcenter` shows.  Its invariance needs no history: `InSync` is inductive for the
  steps without fault or edit, read by read, because a plan from an exact mirror changes
  nothing (`PlanFromExact`).
  `OnlyTagOutagesMislead` (`RemovalsMirrorVmware`) turns the finding of `TagReadOutage`
  around: under `TagsAreRead`, that is without that outage, without hidden categories and
  with VM tags that stay, every removal is of a tag a VM of the device lacks, whatever
  else fails.  VM tags must stay only because the property speaks of the present: between
  the read and the batch VMware may always change.
- `DiffServiceProofs`: `SkipIsRedundant`, `FallbackAgreement` (`FallbackAgrees`),
  `AppliedDiffIsGone` (`AppliedOnce`): facts about the diff of one device on any input,
  which need no run; what the runs say of it, they say of whole cycles (`UpdatesHaveEffect`,
  `PlanCompletesMirror`, `UpdatesCease`).  The fallback form is not reached from `execute`.
- `InventoryProofs`: `MatchIsOneToOne`, and from it `MatchingIsFunctional`: with
  `allowMultipleMatches` off and no device named by two overrides, no device is matched to
  two VMs; `UniqueHostnameIsMatched`,
  `HostnameMatchesOutlive`, `AbsencesAreReal`.  `MatchesSplit` separates the matches of
  overrides from those of the rest, which share no id with them; for the rest,
  `HostnameMatchKept` says that a host name match is kept iff no other HOST NAME match
  contradicts it, because the address pass is only given VMs and devices without one.
- `SyncSchedulerProofs`: `TypeCorrect` (what `FileRead` loads is typed because a finite
  set of positions has a last one: `LastPosition`, by minimality in the strict subset
  ordering instead of an induction); `GuardMeansCycle` (`GuardIsExact`: `running` is set
  exactly while a cycle is in progress, so no path leaves the guard behind) and
  `CyclesDoNotOverlap`, `LoneReloadsAreExact` (while a reload is alone, it is the only one and
  the map is empty), `SettledOverridesHold` (while `settled`, the one reload has read
  the file as it is, or the map is what the file loads to; a read that fails ends `settled`).
- `StateFileProofs`: `TypeCorrect`; `FileIsRegister`, the refinement, for any number of
  processes, devices and entries: what a process will rename is exactly what it had
  loaded with the entries it was asked for, because no other save in progress has its temporary file;
  `TempsAccounted`.
- `VmwareSessionProofs`: `TypeCorrect`; `SessionsAreKept`, where `CacheIsOurs` adds that
  the cached token is, except during a disconnect, none the tool asked vCenter to end;
  `CleanCyclesLeaveNone`, where `OneSession` says that in a clean cycle the only live
  session is the cached one; `EveryStepCounts` (`CallsWindDown`), where `Rank` counts down
  with each step of a call, because a request is repeated once.

Only model-checked: liveness (`DesiredTagsArrive`, `UpdatesCease`, `OrphansLeave`, `CyclesRecur`,
`CyclesEnd`), which is out of the prover's reach.  What each of them rests on beside
fairness is proved: one undisturbed cycle is enough and no later one undoes it
(`CyclesSettle`, `MirrorIsStable`) for the arrival of tags; with `ToolTagsAreRecorded`, for
the leaving of orphans; the guard is free whenever no cycle runs (`GuardIsExact`) for the
return of cycles; the calls have less and less to do (`CallsWindDown`) for their end.

## Not modelled, and the plan

What could still be added:

1. An abstract specification of the mirror (tags of others untouched, tool tags
   follow VMware) which `SyncOrchestrator` implements; a module in which `MatchStep` gives
   `SyncOrchestrator` its `Matchings`, so that `MatchingIsFunctional` discharges
   `OneMatching` there.
2. Two processes on one vCenter and one Vision One, not only on one state file.
3. The 429 retries of the Vision One client, if the length of a cycle is to matter.
4. Creation and deletion of VMs and devices.

Left out for good: the files of the unmatched report and the missing-tags CSV (output;
a failure to write the report is in `CycleFails`), logging, parsing of configuration,
`TagNamingService` (only its tests call it), match confidence, `getEntry` (nothing
calls it), and the caches of `VmwareGatewayImpl`, for the reason given above.
