------------------------ MODULE SyncSchedulerProofs ------------------------
(***************************************************************************)
(* Theorems about the service process, for all contents of the overrides   *)
(* file and any number of edits, signals and stops.                        *)
(***************************************************************************)
EXTENDS SyncScheduler, FiniteSetTheorems, TLAPS

\* The part of TypeOK the argument needs.
ReloadsTyped ==
    reloads \subseteq Reload /\ signals \in 0..MaxSignals /\ file \in Files

LEMMA ReloadsStayTyped == ReloadsTyped /\ [Next]_vars => ReloadsTyped'
<1> SUFFICES ASSUME ReloadsTyped, [Next]_vars PROVE ReloadsTyped'
  OBVIOUS
<1> USE DEF ReloadsTyped, Reload, Contents
<1>1. CASE Sighup
  <2>1. signals + 1 \in 1..MaxSignals /\ signals' \in 0..MaxSignals /\ file' \in Files
    BY <1>1, SchedulerAssumption DEF Sighup
  <2>2. {[r EXCEPT !.alone = FALSE] : r \in reloads} \subseteq Reload
    OBVIOUS
  <2>3. [id |-> signals + 1, alone |-> reloads = {}, content |-> Unread] \in Reload
    BY <2>1
  <2> QED  BY <1>1, <2>1, <2>2, <2>3 DEF Sighup
<1>2. CASE FileRead \/ ReadFails
  BY <1>2 DEF FileRead, ReadFails, Gets
<1>3. CASE ReloadReturns
  BY <1>3 DEF ReloadReturns
<1>4. CASE Stop \/ EditFile
  BY <1>4 DEF Stop, EditFile
<1>5. CASE Tick \/ CycleStep \/ StrayReturns \/ Start \/ UNCHANGED vars
  BY <1>5 DEF Tick, CycleStep, Connect, FetchReturns, FetchFails, ApplyOverrides, CycleEnds,
              StrayReturns, Start, vars, hup
<1> QED  BY <1>1, <1>2, <1>3, <1>4, <1>5 DEF Next

-----------------------------------------------------------------------------
(* Types.  What load returns is typed because the last entry of a VM       *)
(* exists: the positions of its entries are finitely many.                 *)

\* A non-empty set of positions has a last one.
LEMMA LastPosition ==
    ASSUME NEW n \in Nat, NEW own, own \subseteq 1..n, own # {}
    PROVE  \E i \in own : \A j \in own : j <= i
<1> DEFINE From(i) == own \cap (i..n)
           tails == {From(i) : i \in own}
           less == StrictSubsetOrdering(1..n)
<1>1. tails \subseteq SUBSET (1..n) /\ tails # {}
  OBVIOUS
<1>2. PICK least \in tails : \A tail \in tails : ~(<<tail, least>> \in less)
  <2>1. IsFiniteSet(1..n)
    BY FS_Interval
  <2>2. IsWellFoundedOn(less, SUBSET (1..n))
    BY <2>1, FS_StrictSubsetOrderingWellFounded, FS_FiniteSubsetsOfFinite
  <2> HIDE DEF tails, less
  <2> QED  BY <1>1, <2>2, WFMin
<1>3. PICK i \in own : least = From(i)
  OBVIOUS
<1>4. ASSUME NEW j \in own PROVE j <= i
  <2> SUFFICES ASSUME ~(j <= i) PROVE FALSE
    OBVIOUS
  <2>1. i \in 1..n /\ j \in 1..n
    OBVIOUS
  <2>2. From(j) \subseteq From(i) /\ i \in From(i) /\ i \notin From(j)
    BY <2>1
  <2>3. From(j) \in tails /\ From(j) \in SUBSET (1..n) /\ From(i) \in SUBSET (1..n)
    OBVIOUS
  <2> HIDE DEF From, tails
  <2> QED  BY <1>2, <1>3, <2>2, <2>3 DEF StrictSubsetOrdering
<1> QED  BY <1>4

\* What load leaves in the map is a target for every VM, or none.
LEMMA LoadedType ==
    ASSUME NEW map \in Map, NEW content \in Contents
    PROVE  Loaded(map, content) \in Map
<1>1. content \in Seq((Vm \X Target) \cup {Invalid})
  <2>1. CASE content \in Files
    BY <2>1, SchedulerAssumption
  <2>2. CASE content = <<>>
    <3> DEFINE entry == (Vm \X Target) \cup {Invalid}
    <3> HIDE DEF entry
    <3>1. <<>> \in Seq(entry)
      OBVIOUS
    <3> QED  BY <2>2, <3>1 DEF entry
  <2> QED  BY <2>1, <2>2 DEF Contents
<1>2. ASSUME NEW v \in Vm
      PROVE  Loaded(map, content)[v] \in Target \cup {NoTarget}
  <2> DEFINE own == {i \in Validated(content) : content[i][1] = v}
  <2>1. CASE own = {}
    BY <2>1 DEF Loaded, Map
  <2>2. CASE own # {}
    <3>1. own \subseteq 1..Len(content) /\ Len(content) \in Nat
      BY <1>1 DEF Validated
    <3>2. \E i \in own : \A j \in own : j <= i
      <4> HIDE DEF own
      <4> QED  BY <2>2, <3>1, LastPosition
    <3> DEFINE last == CHOOSE i \in own : \A j \in own : j <= i
    <3>3. last \in own
      <4> HIDE DEF own
      <4> QED  BY <3>2
    <3>4. Loaded(map, content)[v] = content[last][2]
      BY <2>2 DEF Loaded
    <3>5. last \in 1..Len(content) /\ content[last] # Invalid
      <4> HIDE DEF last
      <4> QED  BY <3>1, <3>3 DEF Validated
    <3>6. content[last] \in Vm \X Target
      <4> HIDE DEF last
      <4> QED  BY <1>1, <3>5
    <3> HIDE DEF last
    <3> QED  BY <3>4, <3>6
  <2> QED  BY <2>1, <2>2
<1> QED  BY <1>2 DEF Loaded, Map

\* The assumptions on the bounds, without those on what the file contains.
LEMMA Bounds == MaxEdits \in Nat /\ MaxSignals \in Nat /\ MaxStops \in Nat
BY SchedulerAssumption

LEMMA TypeInit == Init => TypeOK
<1> SUFFICES ASSUME Init PROVE TypeOK
  OBVIOUS
<1>1. edits \in 0..MaxEdits /\ signals \in 0..MaxSignals /\ stops \in 0..MaxStops
  BY Bounds DEF Init
<1>2. Empty \in Map
  BY DEF Empty, Map
<1> QED  BY <1>1, <1>2 DEF Init, TypeOK

LEMMA TypeStep == TypeOK /\ [Next]_vars => TypeOK'
<1> SUFFICES ASSUME TypeOK, [Next]_vars PROVE TypeOK'
  OBVIOUS
<1>1. ReloadsTyped'
  BY ReloadsStayTyped DEF TypeOK, ReloadsTyped
<1>2. Empty \in Map
  BY DEF Empty, Map
<1>3. /\ up' \in BOOLEAN /\ running' \in BOOLEAN
      /\ phase' \in {"idle", "connecting", "fetching", "applying"}
      /\ calls' \subseteq Fetch /\ strays' \subseteq Fetch
      /\ applied' \in Map
      /\ settled' \in BOOLEAN
  <2> USE <1>2 DEF TypeOK, cycle, hup
  <2>1. CASE Tick \/ Start
    BY <2>1 DEF Tick, Start
  <2>2. CASE Connect \/ FetchReturns \/ ApplyOverrides
    BY <2>2 DEF Connect, FetchReturns, ApplyOverrides
  <2>3. CASE FetchFails \/ CycleEnds
    BY <2>3 DEF FetchFails, CycleEnds, CycleOver
  <2>4. CASE StrayReturns
    BY <2>4 DEF StrayReturns
  <2>5. CASE Sighup \/ FileRead \/ ReadFails \/ ReloadReturns
    BY <2>5 DEF Sighup, FileRead, ReadFails, ReloadReturns
  <2>6. CASE Stop
    BY <2>6 DEF Stop
  <2>7. CASE EditFile
    BY <2>7 DEF EditFile
  <2>8. CASE UNCHANGED vars
    BY <2>8 DEF vars
  <2> QED
    BY <2>1, <2>2, <2>3, <2>4, <2>5, <2>6, <2>7, <2>8 DEF Next, CycleStep
<1>4. overrides' \in Map
  <2>1. CASE ReloadReturns
    <3>1. PICK r \in reloads : r.content # Unread /\ overrides' = Loaded(overrides, r.content)
      BY <2>1 DEF ReloadReturns
    <3>2. r.content \in Contents /\ overrides \in Map
      BY <3>1 DEF TypeOK, Reload
    <3> QED  BY <3>1, <3>2, LoadedType
  <2>2. CASE Sighup \/ Stop
    BY <2>2, <1>2 DEF Sighup, Cleared, Stop
  <2>3. CASE \/ Tick \/ Start \/ CycleStep \/ StrayReturns
             \/ FileRead \/ ReadFails \/ EditFile \/ UNCHANGED vars
    BY <2>3 DEF TypeOK, Tick, Start, CycleStep, Connect, FetchReturns, FetchFails, ApplyOverrides,
                CycleEnds, StrayReturns, FileRead, ReadFails, EditFile, vars, hup
  <2> QED  BY <2>1, <2>2, <2>3 DEF Next
<1>5. edits' \in 0..MaxEdits /\ stops' \in 0..MaxStops
  <2>1. CASE Stop
    BY <2>1, Bounds DEF Stop, TypeOK
  <2>2. CASE EditFile
    BY <2>2, Bounds DEF EditFile, TypeOK
  <2>3. CASE UNCHANGED <<edits, stops>>
    BY <2>3 DEF TypeOK
  <2> QED
    BY <2>1, <2>2, <2>3 DEF Next, Tick, Start, CycleStep, Connect, FetchReturns, FetchFails,
       ApplyOverrides, CycleEnds, StrayReturns, Sighup, FileRead, ReadFails, ReloadReturns, vars
<1> QED  BY <1>1, <1>3, <1>4, <1>5 DEF TypeOK, ReloadsTyped

\* Every state of the service process is well typed, whatever the overrides file contains.
THEOREM TypeCorrect == Spec => []TypeOK
BY TypeInit, TypeStep, PTL DEF Spec

-----------------------------------------------------------------------------
\* A reload that no other overlaps is the only one, and the map is still as it
\* cleared it: the entries it will set are the only ones.
LoneReloadKeepsMapClear ==
    \A r \in reloads : r.alone => reloads = {r} /\ overrides = Empty

\* The guard of the timer knows of every cycle in progress, and a stopped process has none.
RunningCycleIsGuarded == phase # "idle" => running /\ up

LEMMA GuardKept == RunningCycleIsGuarded /\ [Next]_vars => RunningCycleIsGuarded'
<1> USE DEF RunningCycleIsGuarded
<1> SUFFICES ASSUME RunningCycleIsGuarded, [Next]_vars PROVE RunningCycleIsGuarded'
  OBVIOUS
<1>1. CASE Tick
  BY <1>1 DEF Tick
<1>2. CASE CycleStep
  BY <1>2 DEF CycleStep, Connect, FetchReturns, FetchFails, ApplyOverrides, CycleEnds, CycleOver
<1>3. CASE StrayReturns
  BY <1>3 DEF StrayReturns
<1>4. CASE Sighup \/ FileRead \/ ReadFails \/ ReloadReturns \/ EditFile \/ UNCHANGED vars
  BY <1>4 DEF Sighup, FileRead, ReadFails, ReloadReturns, EditFile, vars, cycle
<1>5. CASE Stop \/ Start
  BY <1>5 DEF Stop, Start
<1> QED  BY <1>1, <1>2, <1>3, <1>4, <1>5 DEF Next

\* No cycle is begun while one is in progress.
THEOREM CyclesDoNotOverlap == Spec => NoOverlappingCycles
<1>1. Init => RunningCycleIsGuarded
  BY DEF Init, RunningCycleIsGuarded
<1>2. RunningCycleIsGuarded /\ [Next]_vars =>
        [(phase \in {"fetching", "applying"}) => phase' # "connecting"]_vars
  <2> SUFFICES ASSUME RunningCycleIsGuarded, Next, phase \in {"fetching", "applying"},
                      phase' = "connecting"
               PROVE  FALSE
    BY DEF vars
  <2>1. CASE Tick
    BY <2>1 DEF Tick, RunningCycleIsGuarded
  <2>2. CASE CycleStep
    BY <2>2 DEF CycleStep, Connect, FetchReturns, FetchFails, ApplyOverrides, CycleEnds, CycleOver
  <2>3. CASE StrayReturns
    BY <2>3 DEF StrayReturns
  <2>4. CASE Sighup \/ FileRead \/ ReadFails \/ ReloadReturns \/ EditFile
    BY <2>4 DEF Sighup, FileRead, ReadFails, ReloadReturns, EditFile, cycle
  <2>5. CASE Stop \/ Start
    BY <2>5 DEF Stop, Start, RunningCycleIsGuarded
  <2> QED  BY <2>1, <2>2, <2>3, <2>4, <2>5 DEF Next
<1> QED  BY <1>1, <1>2, GuardKept, PTL DEF Spec, NoOverlappingCycles

\* The guard is up exactly while a cycle is in progress: it never lets the timer begin a
\* second one, and never stays up to block the timer for good.
THEOREM GuardMeansCycle == Spec => []GuardIsExact
<1>1. Init => GuardIsExact
  BY DEF Init, GuardIsExact
<1>2. GuardIsExact /\ [Next]_vars => GuardIsExact'
  <2> USE DEF GuardIsExact
  <2> SUFFICES ASSUME GuardIsExact, [Next]_vars PROVE GuardIsExact'
    OBVIOUS
  <2>1. CASE Tick \/ Start \/ Stop
    BY <2>1 DEF Tick, Start, Stop
  <2>2. CASE CycleStep
    BY <2>2 DEF CycleStep, Connect, FetchReturns, FetchFails, ApplyOverrides, CycleEnds, CycleOver
  <2>3. CASE \/ StrayReturns \/ Sighup \/ FileRead \/ ReadFails \/ ReloadReturns \/ EditFile
             \/ UNCHANGED vars
    BY <2>3 DEF StrayReturns, Sighup, FileRead, ReadFails, ReloadReturns, EditFile, vars, cycle
  <2> QED  BY <2>1, <2>2, <2>3 DEF Next
<1> QED  BY <1>1, <1>2, PTL DEF Spec

LEMMA MapStaysClear ==
    ReloadsTyped /\ LoneReloadKeepsMapClear /\ [Next]_vars => LoneReloadKeepsMapClear'
<1> SUFFICES ASSUME ReloadsTyped, LoneReloadKeepsMapClear, [Next]_vars PROVE LoneReloadKeepsMapClear'
  OBVIOUS
<1> USE DEF LoneReloadKeepsMapClear, ReloadsTyped, Reload
<1>1. CASE Sighup
  <2> DEFINE old == {[r EXCEPT !.alone = FALSE] : r \in reloads}
             new == [id |-> signals + 1, alone |-> reloads = {}, content |-> Unread]
  <2>1. \A r \in old : ~r.alone
    OBVIOUS
  <2>2. new.alone => old = {}
    OBVIOUS
  <2>3. reloads' = old \cup {new} /\ overrides' = Empty
    BY <1>1 DEF Sighup, Cleared
  <2> HIDE DEF old, new
  <2> QED  BY <2>1, <2>2, <2>3 DEF Empty
<1>2. CASE FileRead \/ ReadFails
  <2>1. PICK r \in reloads, got \in Contents : Gets(r, got)
    BY <1>2 DEF FileRead, ReadFails, Contents
  <2> DEFINE read == [r EXCEPT !.content = got]
  <2>2. read.alone = r.alone
    OBVIOUS
  <2>3. overrides' = overrides
    BY <1>2 DEF FileRead, ReadFails
  <2> HIDE DEF read
  <2>4. reloads' = (reloads \ {r}) \cup {read}
    BY <2>1 DEF read, Gets
  <2> QED  BY <2>2, <2>3, <2>4 DEF Empty
<1>3. CASE ReloadReturns
  BY <1>3 DEF ReloadReturns
<1>4. CASE Stop
  BY <1>4 DEF Stop
<1>5. CASE UNCHANGED <<reloads, overrides>>
  BY <1>5 DEF Empty
<1>6. CASE Tick \/ CycleStep \/ StrayReturns \/ Start \/ EditFile \/ UNCHANGED vars
  <2>1. UNCHANGED <<reloads, overrides>>
    BY <1>6 DEF Tick, CycleStep, Connect, FetchReturns, FetchFails, ApplyOverrides, CycleEnds,
                StrayReturns, Start, EditFile, vars, hup
  <2> QED  BY <2>1, <1>5
<1> QED  BY <1>1, <1>2, <1>3, <1>4, <1>6 DEF Next

\* A reload on its own leaves exactly the entries of the file it read.
THEOREM LoneReloadsAreExact == Spec => LoneReloadIsExact
<1>1. Init => ReloadsTyped /\ LoneReloadKeepsMapClear
  BY SchedulerAssumption DEF Init, ReloadsTyped, LoneReloadKeepsMapClear
<1>2. LoneReloadKeepsMapClear /\ [Next]_vars =>
        [\A r \in reloads :
           (r.alone /\ reloads' = {} /\ up') => overrides' = Loaded(Empty, r.content)]_vars
  <2> SUFFICES ASSUME LoneReloadKeepsMapClear, Next, NEW r \in reloads, r.alone,
                      reloads' = {}, up'
               PROVE  overrides' = Loaded(Empty, r.content)
    BY DEF vars
  <2>1. reloads = {r} /\ overrides = Empty
    BY DEF LoneReloadKeepsMapClear
  <2>2. CASE ReloadReturns
    BY <2>1, <2>2 DEF ReloadReturns
  <2>3. CASE Sighup \/ FileRead \/ ReadFails \/ Stop
    BY <2>3 DEF Sighup, FileRead, ReadFails, Gets, Stop
  <2>4. CASE Tick \/ CycleStep \/ StrayReturns \/ Start \/ EditFile
    BY <2>4 DEF Tick, CycleStep, Connect, FetchReturns, FetchFails, ApplyOverrides, CycleEnds,
                StrayReturns, Start, EditFile, hup
  <2> QED  BY <2>2, <2>3, <2>4 DEF Next
<1> QED  BY <1>1, <1>2, ReloadsStayTyped, MapStaysClear, PTL DEF Spec, LoneReloadIsExact

-----------------------------------------------------------------------------
\* After a SIGHUP that found no reload in progress, and no edit since: its reload is the
\* only one, what it has read is the file as it is, and once it is over so is the map.
SettlesOnFile ==
    settled =>
        \/ reloads = {} /\ overrides = Loaded(Empty, file)
        \/ \E r \in reloads : /\ reloads = {r} /\ overrides = Empty
                              /\ r.content \in {Unread, file}

LEMMA SettlingKept == ReloadsTyped /\ SettlesOnFile /\ [Next]_vars => SettlesOnFile'
<1> SUFFICES ASSUME ReloadsTyped, SettlesOnFile, [Next]_vars, settled'
             PROVE  \/ reloads' = {} /\ overrides' = Loaded(Empty, file)'
                    \/ \E r \in reloads' : /\ reloads' = {r} /\ overrides' = Empty
                                           /\ r.content \in {Unread, file'}
  BY DEF SettlesOnFile, Empty
<1> USE DEF SettlesOnFile
<1>1. CASE Sighup
  <2> DEFINE new == [id |-> signals + 1, alone |-> TRUE, content |-> Unread]
  <2>1. reloads = {} /\ reloads' = {new} /\ overrides' = Empty
    BY <1>1 DEF Sighup, Cleared
  <2>2. new.content = Unread
    OBVIOUS
  <2> HIDE DEF new
  <2> QED  BY <2>1, <2>2
<1>2. CASE FileRead
  <2>1. PICK r \in reloads : /\ r.content = Unread
                             /\ reloads' = (reloads \ {r}) \cup {[r EXCEPT !.content = file]}
    BY <1>2 DEF FileRead, Gets
  <2> DEFINE read == [r EXCEPT !.content = file]
  <2>2. reloads = {r} /\ overrides = Empty /\ UNCHANGED <<overrides, file>>
    BY <1>2, <2>1 DEF FileRead
  <2>3. read.content = file
    BY <2>1 DEF ReloadsTyped, Reload
  <2>4. reloads' = {read}
    BY <2>1, <2>2
  <2> HIDE DEF read
  <2> QED  BY <2>2, <2>3, <2>4
<1>3. CASE ReloadReturns
  <2>1. PICK r \in reloads : /\ r.content # Unread
                             /\ overrides' = Loaded(overrides, r.content)
                             /\ reloads' = reloads \ {r}
    BY <1>3 DEF ReloadReturns
  <2>2. reloads = {r} /\ overrides = Empty /\ r.content = file /\ file' = file
    BY <1>3, <2>1 DEF ReloadReturns
  <2>3. Loaded(Empty, file)' = Loaded(Empty, file)
    BY <2>2 DEF Loaded, Validated, Empty
  <2> QED  BY <2>1, <2>2, <2>3
<1>4. CASE Stop \/ EditFile \/ ReadFails
  BY <1>4 DEF Stop, EditFile, ReadFails
<1>5. CASE Tick \/ CycleStep \/ StrayReturns \/ Start \/ UNCHANGED vars
  <2>1. UNCHANGED <<reloads, overrides, file, settled>>
    BY <1>5 DEF Tick, CycleStep, Connect, FetchReturns, FetchFails, ApplyOverrides, CycleEnds,
                StrayReturns, Start, vars, hup
  <2>2. Loaded(Empty, file)' = Loaded(Empty, file)
    BY <2>1 DEF Loaded, Validated, Empty
  <2> QED  BY <2>1, <2>2
<1> QED  BY <1>1, <1>2, <1>3, <1>4, <1>5 DEF Next

\* What a SIGHUP on its own has loaded is what cycles apply, until the next edit.
THEOREM SettledOverridesHold == Spec => SettledOverridesApplied
<1>1. Init => ReloadsTyped /\ SettlesOnFile
  BY SchedulerAssumption DEF Init, ReloadsTyped, SettlesOnFile
<1>2. SettlesOnFile /\ [Next]_vars =>
        [(phase # "applying" /\ phase' = "applying" /\ settled /\ reloads = {})
            => applied' = Loaded(Empty, file)]_vars
  <2> SUFFICES ASSUME SettlesOnFile, Next, phase # "applying", phase' = "applying",
                      settled, reloads = {}
               PROVE  applied' = Loaded(Empty, file)
    BY DEF vars
  <2>1. applied' = overrides
    BY DEF Next, Tick, CycleStep, Connect, FetchReturns, FetchFails, ApplyOverrides, CycleEnds,
           CycleOver, StrayReturns, Sighup, FileRead, ReadFails, ReloadReturns, Stop, Start, EditFile, cycle
  <2> QED  BY <2>1 DEF SettlesOnFile
<1> QED  BY <1>1, <1>2, ReloadsStayTyped, SettlingKept, PTL DEF Spec, SettledOverridesApplied
=============================================================================
