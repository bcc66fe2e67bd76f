----------------------------- MODULE StateFile -----------------------------
(***************************************************************************)
(* The sync state file as FileSyncStateRepo reads and writes it, for       *)
(* several processes at once: the service, and one-off syncs (--once) run  *)
(* beside it.                                                              *)
(*                                                                         *)
(* A load checks access and then reads.  A save copies the file to its     *)
(* backup, writes a temporary file and renames it over the state file.     *)
(* Every call of the file system is a step of its own and may fail, and a  *)
(* process may die before any of them.  A file being written is Torn until *)
(* its writer is done; a rename is atomic, and a reader reads the file     *)
(* that had the name when it began.                                        *)
(***************************************************************************)
CONSTANTS
    Process, Device, Entry,
    NoEntry,
    Nothing,     \* no state in hand
    Absent,      \* no such file
    Torn,        \* a file that is only partly written
    Stamp        \* the values of Date.now() in the names of temporary files

ASSUME StateFileAssumption ==
    /\ NoEntry \in Entry
    /\ \A s \in [Device -> Entry] : s \notin {Nothing, Absent, Torn}
    /\ Absent # Torn

VARIABLES
    file,        \* the state file
    backup,      \* the .bak file
    temp,        \* the .tmp files, by their stamp
    pc,          \* where the load or the save of each process stands
    held,        \* what its load returned
    next,        \* what its save writes
    stamp,       \* the name of its temporary file
    leftover     \* auxiliary: temporary files of a save that died or could not unlink

vars == <<file, backup, temp, pc, held, next, stamp, leftover>>

State == [Device -> Entry]
Empty == [d \in Device |-> NoEntry]

TypeOK ==
    /\ file \in State \cup {Absent}
    /\ backup \in State \cup {Absent, Torn}
    /\ temp \in [Stamp -> State \cup {Absent, Torn}]
    /\ pc \in [Process -> {"idle", "read", "cycle", "backup", "copy", "write", "written",
                           "rename", "unlink"}]
    /\ held \in [Process -> State \cup {Nothing}]
    /\ next \in [Process -> State \cup {Nothing}]
    /\ stamp \in [Process -> Stamp]
    /\ leftover \subseteq Stamp

Init ==
    /\ file \in State \cup {Absent}
    /\ backup = Absent
    /\ temp = [n \in Stamp |-> Absent]
    /\ pc = [p \in Process |-> "idle"]
    /\ held = [p \in Process |-> Nothing]
    /\ next = [p \in Process |-> Nothing]
    /\ stamp \in [Process -> Stamp]
    /\ leftover = {}

Goto(p, label) == pc' = [pc EXCEPT ![p] = label]

\* The load or the save of p is over, or p is: nothing of it remains in memory.
Done(p) ==
    /\ Goto(p, "idle")
    /\ held' = [held EXCEPT ![p] = Nothing]
    /\ next' = [next EXCEPT ![p] = Nothing]

-----------------------------------------------------------------------------
(* load()                                                                  *)

\* Whatever access() fails for, the state is empty.
Access(p) ==
    /\ pc[p] = "idle"
    /\ \/ file # Absent /\ Goto(p, "read") /\ UNCHANGED held
       \/ Goto(p, "cycle") /\ held' = [held EXCEPT ![p] = Empty]
    /\ UNCHANGED <<file, backup, temp, next, stamp, leftover>>

\* JSON.parse throws on part of a file.
ReadFile(p) ==
    /\ pc[p] = "read"
    /\ IF file = Torn THEN Done(p)
       ELSE Goto(p, "cycle") /\ held' = [held EXCEPT ![p] = file] /\ UNCHANGED next
    /\ UNCHANGED <<file, backup, temp, stamp, leftover>>

\* The read fails, the cycle fails before its save, mkdir fails, or the process dies.
GiveUp(p) ==
    /\ pc[p] \in {"read", "cycle"}
    /\ Done(p)
    /\ UNCHANGED <<file, backup, temp, stamp, leftover>>

-----------------------------------------------------------------------------
(* save()                                                                  *)

\* Mutant of Put: the entries loaded are left out.
PutChangesOnly(s, changed) == changed

Put(s, changed) == [d \in Device |-> IF d \in DOMAIN changed THEN changed[d] ELSE s[d]]

\* Called with the entries loaded, those of the planned devices replaced.
CallSave(p) ==
    /\ pc[p] = "cycle"
    /\ \E devices \in SUBSET Device : \E changed \in [devices -> Entry \ {NoEntry}] :
          next' = [next EXCEPT ![p] = Put(held[p], changed)]
    /\ Goto(p, "backup")
    /\ UNCHANGED <<file, backup, temp, held, stamp, leftover>>

\* No backup: backupOnWrite is off, or the file is not there or not accessible.
SkipBackup(p) ==
    /\ pc[p] = "backup"
    /\ Goto(p, "write")
    /\ UNCHANGED <<file, backup, temp, held, next, stamp, leftover>>

BeginCopy(p) ==
    /\ pc[p] = "backup"
    /\ file # Absent
    /\ backup' = Torn
    /\ Goto(p, "copy")
    /\ UNCHANGED <<file, temp, held, next, stamp, leftover>>

\* A copy that fails half-way is not noticed, and two at once may mix.
EndCopy(p) ==
    /\ pc[p] = "copy"
    /\ backup' \in {file, Torn}
    /\ Goto(p, "write")
    /\ UNCHANGED <<file, temp, held, next, stamp, leftover>>

InSave(p) == pc[p] \in {"written", "rename", "unlink"}

\* Mutant of BeginWrite: the rename does not wait for the writing.
BeginWriteUnawaited(p) ==
    /\ pc[p] = "write"
    /\ \E n \in Stamp :
          /\ \A q \in Process \ {p} : InSave(q) => stamp[q] # n
          /\ stamp' = [stamp EXCEPT ![p] = n]
          /\ temp' = [temp EXCEPT ![n] = Torn]
          /\ leftover' = leftover \ {n}
    /\ Goto(p, "rename")
    /\ UNCHANGED <<file, backup, held, next>>

\* Two saves within one millisecond would share the name: assumed not to happen.
BeginWrite(p) ==
    /\ pc[p] = "write"
    /\ \E n \in Stamp :
          /\ \A q \in Process \ {p} : InSave(q) => stamp[q] # n
          /\ stamp' = [stamp EXCEPT ![p] = n]
          /\ temp' = [temp EXCEPT ![n] = Torn]
          /\ leftover' = leftover \ {n}
    /\ Goto(p, "written")
    /\ UNCHANGED <<file, backup, held, next>>

EndWrite(p) ==
    /\ pc[p] = "written"
    /\ temp' = [temp EXCEPT ![stamp[p]] = next[p]]
    /\ Goto(p, "rename")
    /\ UNCHANGED <<file, backup, held, next, stamp, leftover>>

\* The save has happened.
Rename(p) ==
    /\ pc[p] = "rename"
    /\ file' = temp[stamp[p]]
    /\ temp' = [temp EXCEPT ![stamp[p]] = Absent]
    /\ Done(p)
    /\ UNCHANGED <<backup, stamp, leftover>>

\* Mutant of SaveFails: only a failed write is cleaned up.
SaveFailsAfterWrite(p) ==
    /\ pc[p] \in {"written", "rename"}
    /\ IF pc[p] = "written" THEN Goto(p, "unlink") /\ UNCHANGED <<held, next>> ELSE Done(p)
    /\ UNCHANGED <<file, backup, temp, stamp, leftover>>

\* writeFile or rename throws.
SaveFails(p) ==
    /\ pc[p] \in {"written", "rename"}
    /\ Goto(p, "unlink")
    /\ UNCHANGED <<file, backup, temp, held, next, stamp, leftover>>

\* The clean-up, whose own failure is ignored.
Unlink(p) ==
    /\ pc[p] = "unlink"
    /\ \/ temp' = [temp EXCEPT ![stamp[p]] = Absent] /\ UNCHANGED leftover
       \/ leftover' = leftover \cup {stamp[p]} /\ UNCHANGED temp
    /\ Done(p)
    /\ UNCHANGED <<file, backup, stamp>>

Crash(p) ==
    /\ pc[p] \in {"backup", "copy", "write", "written", "rename", "unlink"}
    /\ Done(p)
    /\ leftover' = IF InSave(p) THEN leftover \cup {stamp[p]} ELSE leftover
    /\ UNCHANGED <<file, backup, temp, stamp>>

-----------------------------------------------------------------------------
Step(p) ==
    \/ Access(p) \/ ReadFile(p) \/ GiveUp(p)
    \/ CallSave(p) \/ SkipBackup(p) \/ BeginCopy(p) \/ EndCopy(p)
    \/ BeginWrite(p) \/ EndWrite(p) \/ Rename(p) \/ SaveFails(p) \/ Unlink(p) \/ Crash(p)

Next == \E p \in Process : Step(p)

Spec == Init /\ [][Next]_vars

-----------------------------------------------------------------------------
\* The entries the save of p was called to replace.
Asked(p) ==
    LET devices == {d \in Device : next[p] # Nothing /\ next[p][d] # held[p][d]}
    IN  [d \in devices |-> next[p][d]]

\* The register the processes share: a load takes effect when the file is read or
\* found to be absent, a save when its temporary file is renamed, and then it writes
\* what it was called with.  No file system call, failure or crash in between shows.
Register == INSTANCE StateRegister WITH
    state <- IF file = Absent THEN Empty ELSE file,
    changes <- [p \in Process |-> Asked(p)]

RegisterSpec == Register!Spec

\* Every temporary file is that of a save in progress, or of one that died or could
\* not clean up: a save that fails leaves nothing behind.
TempsAreAccounted ==
    \A n \in Stamp : temp[n] # Absent =>
        n \in leftover \/ \E p \in Process : InSave(p) /\ stamp[p] = n
=============================================================================
