---------------------------- MODULE SyncScheduler ----------------------------
(***************************************************************************)
(* The service process around execute(): the interval timer with its       *)
(* overlap guard, SIGHUP with the reload of the mapping overrides, the     *)
(* stop, and the restart.                                                  *)
(*                                                                         *)
(* Node runs one callback at a time, so a handler is atomic up to its next *)
(* await.  What is in progress across awaits is state: the cycle (phase),  *)
(* its parallel fetches (calls), the fetches a failed cycle leaves running *)
(* (strays), and the reads of the overrides file (reloads).  What a cycle  *)
(* does with the tags is in module SyncOrchestrator.                       *)
(***************************************************************************)
EXTENDS Naturals, Sequences

CONSTANTS
    Target,          \* a device id, or null
    NoTarget,        \* the VM has no override
    Invalid,         \* an entry of the file that validation rejects
    Unread,          \* the content of a file not read yet
    Vm,
    Files,           \* what the overrides file may contain
    MaxEdits, MaxSignals, MaxStops

\* What load() may have got of the file: nothing, when readFile fails.
Contents == Files \cup {<<>>}

\* A file that is absent or not an overrides file is <<>>: no entry of it is loaded.  An
\* entry is a VM id and its target.
ASSUME SchedulerAssumption ==
    /\ NoTarget \notin Target
    /\ Invalid \notin Vm \X Target
    /\ Files \subseteq Seq((Vm \X Target) \cup {Invalid})
    /\ Unread \notin Contents
    /\ MaxEdits \in Nat /\ MaxSignals \in Nat /\ MaxStops \in Nat

VARIABLES
    up,              \* the process runs
    running,         \* SyncScheduler.running
    phase,           \* where execute() stands
    calls, strays,   \* fetches of this cycle, and of cycles that are over
    overrides,       \* MappingOverrideFile.overrides
    reloads,         \* the calls of reload() that have not returned
    applied,         \* the overrides this cycle applied
    settled,         \* auxiliary: the last SIGHUP came after the start, the last edit and
                     \* the end of the reloads before it, and its read has not failed
    file,            \* what the overrides file contains
    edits, signals, stops

cycle == <<running, phase, calls, strays, applied>>
hup   == <<overrides, reloads, settled>>
vars  == <<up, cycle, hup, file, edits, signals, stops>>

Fetch  == {"vms", "devices", "tags", "state"}
Map    == [Vm -> Target \cup {NoTarget}]
Reload == [id : 1..MaxSignals, alone : BOOLEAN, content : Contents \cup {Unread}]

TypeOK ==
    /\ up \in BOOLEAN /\ running \in BOOLEAN
    /\ phase \in {"idle", "connecting", "fetching", "applying"}
    /\ calls \subseteq Fetch /\ strays \subseteq Fetch
    /\ overrides \in Map
    /\ reloads \subseteq Reload
    /\ applied \in Map
    /\ settled \in BOOLEAN
    /\ file \in Files
    /\ edits \in 0..MaxEdits /\ signals \in 0..MaxSignals /\ stops \in 0..MaxStops

Empty == [v \in Vm |-> NoTarget]

-----------------------------------------------------------------------------
(* The overrides file                                                      *)

\* The positions validated before the first invalid entry throws.
Validated(content) ==
    {i \in DOMAIN content : \A j \in 1..i : content[j] # Invalid}

\* Mutant of Loaded: a lookup of a VM the file does not name has no default.
LoadedEntriesOnly(map, content) ==
    [v \in {content[i][1] : i \in Validated(content)} |->
        content[CHOOSE i \in Validated(content) : content[i][1] = v][2]]

\* load: each entry is set as it is validated, over what the map holds.
Loaded(map, content) ==
    [v \in Vm |->
        LET own == {i \in Validated(content) : content[i][1] = v} IN
        IF own = {} THEN map[v]
        ELSE content[CHOOSE i \in own : \A j \in own : j <= i][2]]

-----------------------------------------------------------------------------
(* Start and stop of the process                                           *)

\* bootstrap and start: the first cycle begins at once, and nothing loads the overrides.
Init ==
    /\ up = TRUE
    /\ running = TRUE
    /\ phase = "connecting"
    /\ calls = {} /\ strays = {}
    /\ applied = Empty
    /\ overrides = Empty
    /\ reloads = {}
    /\ settled = FALSE
    /\ file \in Files
    /\ edits = 0 /\ signals = 0 /\ stops = 0

\* SIGTERM, SIGINT or a crash: everything in progress is gone.
Stop ==
    /\ up
    /\ stops < MaxStops
    /\ stops' = stops + 1
    /\ up' = FALSE
    /\ running' = FALSE
    /\ phase' = "idle"
    /\ calls' = {} /\ strays' = {}
    /\ applied' = Empty
    /\ overrides' = Empty
    /\ reloads' = {}
    /\ settled' = FALSE
    /\ UNCHANGED <<file, edits, signals>>

Start ==
    /\ ~up
    /\ up' = TRUE
    /\ running' = TRUE
    /\ phase' = "connecting"
    /\ UNCHANGED <<calls, strays, applied, hup, file, edits, signals, stops>>

-----------------------------------------------------------------------------
(* Cycles                                                                  *)

\* Mutant of Tick: no overlap guard.
TickUnguarded ==
    /\ up
    /\ running' = TRUE
    /\ phase' = "connecting"
    /\ UNCHANGED <<up, calls, strays, applied, hup, file, edits, signals, stops>>

\* The timer fires.  While running it only warns.
Tick ==
    /\ up
    /\ ~running
    /\ running' = TRUE
    /\ phase' = "connecting"
    /\ UNCHANGED <<up, calls, strays, applied, hup, file, edits, signals, stops>>

Connect ==
    /\ phase = "connecting"
    /\ phase' = "fetching"
    /\ calls' = Fetch
    /\ UNCHANGED <<up, running, strays, applied, hup, file, edits, signals, stops>>

FetchReturns ==
    /\ phase = "fetching"
    /\ \E f \in calls : calls' = calls \ {f}
    /\ UNCHANGED <<up, running, phase, strays, applied, hup, file, edits,
                   signals, stops>>

\* Mutant of CycleOver: running is reset only on the way without an error.
CycleOverOnSuccess ==
    /\ running' = (calls # {})
    /\ phase' = "idle"
    /\ calls' = {}
    /\ applied' = Empty

\* execute() has returned or thrown: finally, running is reset.
CycleOver ==
    /\ running' = FALSE
    /\ phase' = "idle"
    /\ calls' = {}
    /\ applied' = Empty

\* The first fetch that is rejected ends the cycle; Promise.all leaves the others running.
FetchFails ==
    /\ phase = "fetching"
    /\ \E f \in calls : strays' = strays \cup (calls \ {f})
    /\ CycleOver
    /\ UNCHANGED <<up, hup, file, edits, signals, stops>>

StrayReturns ==
    /\ \E f \in strays : strays' = strays \ {f}
    /\ UNCHANGED <<up, running, phase, calls, applied, hup, file, edits,
                   signals, stops>>

\* applyOverrides looks every VM up in one go.
ApplyOverrides ==
    /\ phase = "fetching"
    /\ calls = {}
    /\ phase' = "applying"
    /\ applied' = overrides
    /\ UNCHANGED <<up, running, calls, strays, hup, file, edits, signals, stops>>

\* connect() throws, or the rest of the cycle is done or has thrown.
CycleEnds ==
    /\ phase \in {"connecting", "applying"}
    /\ CycleOver
    /\ UNCHANGED <<up, strays, hup, file, edits, signals, stops>>

-----------------------------------------------------------------------------
(* SIGHUP                                                                  *)

\* Mutant of Cleared: reload does not clear the map.
NotCleared == overrides

Cleared == Empty

\* handleSighup: the configuration is loaded and the result dropped, the map is
\* cleared, and the read of the file begins.
Sighup ==
    /\ up
    /\ signals < MaxSignals
    /\ signals' = signals + 1
    /\ settled' = (reloads = {})
    /\ overrides' = Cleared
    /\ reloads' = {[r EXCEPT !.alone = FALSE] : r \in reloads}
                    \cup {[id |-> signals + 1, alone |-> reloads = {}, content |-> Unread]}
    /\ UNCHANGED <<up, cycle, file, edits, stops>>

Gets(r, content) ==
    /\ r.content = Unread
    /\ reloads' = (reloads \ {r}) \cup {[r EXCEPT !.content = content]}

\* readFile: the content as it is at some point before load goes on.
FileRead ==
    /\ \E r \in reloads : Gets(r, file)
    /\ UNCHANGED <<up, cycle, overrides, settled, file, edits, signals, stops>>

\* readFile fails, though the file may be good: its name is missing for a moment while an
\* editor replaces it, or too many files are open.  load() returns no entry, or throws.
ReadFails ==
    /\ \E r \in reloads : Gets(r, <<>>)
    /\ settled' = FALSE
    /\ UNCHANGED <<up, cycle, overrides, file, edits, signals, stops>>

\* load goes on after its await, whatever other calls of it have done meanwhile.
ReloadReturns ==
    /\ \E r \in reloads :
        /\ r.content # Unread
        /\ overrides' = Loaded(overrides, r.content)
        /\ reloads' = reloads \ {r}
    /\ UNCHANGED <<up, cycle, settled, file, edits, signals, stops>>

\* The administrator edits the overrides file.
EditFile ==
    /\ edits < MaxEdits
    /\ edits' = edits + 1
    /\ file' \in Files
    /\ settled' = FALSE
    /\ UNCHANGED <<up, cycle, overrides, reloads, signals, stops>>

-----------------------------------------------------------------------------
CycleStep == Connect \/ FetchReturns \/ FetchFails \/ ApplyOverrides \/ CycleEnds

Next ==
    \/ Tick \/ CycleStep \/ StrayReturns
    \/ Sighup \/ FileRead \/ ReadFails \/ ReloadReturns
    \/ Stop \/ Start \/ EditFile

Spec == Init /\ [][Next]_vars

\* The timer fires again, what a cycle awaits settles (every request has a timeout),
\* and so does a file read.  Signals, edits, stops and starts come from outside.
Fairness == WF_vars(Tick) /\ WF_vars(CycleStep) /\ WF_vars(FileRead \/ ReadFails) /\ WF_vars(ReloadReturns)

FairSpec == Spec /\ Fairness

-----------------------------------------------------------------------------
(* Properties                                                              *)

\* SyncScheduler.running says whether a cycle is in progress, however cycles end: if it
\* stayed set after a failed one, the timer would only warn from then on.
GuardIsExact == running <=> phase # "idle"

\* A cycle in progress is never begun again: the timer waits for its end, and a
\* restart passes through the end of the process.
NoOverlappingCycles ==
    [][(phase \in {"fetching", "applying"}) => phase' # "connecting"]_vars

\* As long as the process runs, another cycle begins, whatever the last one ended with.
CyclesRecur == up ~> (~up \/ phase = "connecting")

\* The overrides after a reload that no other SIGHUP overlaps are those of the file it
\* read, up to the first invalid entry: nothing that was deleted from it survives, and
\* nothing at all does when it could not read the file.
LoneReloadIsExact ==
    [][\A r \in reloads :
         (r.alone /\ reloads' = {} /\ up') => overrides' = Loaded(Empty, r.content)]_vars

\* A cycle that matches when a SIGHUP has had its effect, with a read that succeeded of a
\* file that has not changed since, applies exactly what the file says: no override of an
\* older file, and none short.
SettledOverridesApplied ==
    [][(phase # "applying" /\ phase' = "applying" /\ settled /\ reloads = {})
          => applied' = Loaded(Empty, file)]_vars
=============================================================================
