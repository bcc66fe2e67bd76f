-------------------------- MODULE StateFileProofs --------------------------
(***************************************************************************)
(* The state file implements the register of StateRegister, for any number *)
(* of processes, devices and entries.                                      *)
(***************************************************************************)
EXTENDS StateFile, TLAPS

Saving == {"backup", "copy", "write", "written", "rename", "unlink"}

\* What processes have in memory fits where they stand.
InHand ==
    \A p \in Process :
        /\ held[p] = Nothing <=> pc[p] \in {"idle", "read"}
        /\ pc[p] = "read" => file # Absent
        /\ next[p] = Nothing <=> pc[p] \notin Saving

\* A temporary file that is about to be renamed is whole, and nobody else's.
OwnTemp ==
    /\ \A p \in Process : pc[p] = "rename" => temp[stamp[p]] = next[p]
    /\ \A p, q \in Process : (p # q /\ InSave(p) /\ InSave(q)) => stamp[p] # stamp[q]

Inv == TypeOK /\ InHand /\ OwnTemp

-----------------------------------------------------------------------------
LEMMA PutType ==
    ASSUME NEW s \in State, NEW devices \in SUBSET Device, NEW changed \in [devices -> Entry]
    PROVE  Put(s, changed) \in State
BY DEF Put, State

LEMMA NotStates == /\ Nothing \notin State /\ Absent \notin State /\ Torn \notin State
                   /\ Empty \in State
BY StateFileAssumption DEF State, Empty

\* A process with a state in hand for a save has a whole one.
LEMMA NextIsState ==
    ASSUME Inv, NEW p \in Process, pc[p] \in Saving
    PROVE  next[p] \in State
BY DEF Inv, InHand, TypeOK

\* A save is called with a whole state.
LEMMA CalledWith ==
    ASSUME Inv, NEW p \in Process, CallSave(p)
    PROVE  \E saved \in State : next' = [next EXCEPT ![p] = saved]
<1>1. held[p] \in State  BY DEF CallSave, Inv, InHand, TypeOK
<1>2. PICK devices \in SUBSET Device : \E changed \in [devices -> Entry \ {NoEntry}] :
        next' = [next EXCEPT ![p] = Put(held[p], changed)]
  BY DEF CallSave
<1>3. PICK changed \in [devices -> Entry] : next' = [next EXCEPT ![p] = Put(held[p], changed)]
  BY <1>2
<1>4. Put(held[p], changed) \in State  BY <1>1, PutType
<1> QED  BY <1>3, <1>4

LEMMA InvInit == Init => Inv
<1> SUFFICES ASSUME Init PROVE Inv
  OBVIOUS
<1>1. TypeOK  BY DEF Init, TypeOK
<1>2. InHand  BY DEF Init, InHand, Saving
<1>3. OwnTemp  BY DEF Init, OwnTemp, InSave
<1> QED  BY <1>1, <1>2, <1>3 DEF Inv

\* Steps that leave the temporary files alone, and enter no save.
LEMMA TempsLeft ==
    ASSUME Inv, NEW p \in Process,
           UNCHANGED <<temp, stamp>>,
           \A q \in Process \ {p} : pc'[q] = pc[q] /\ next'[q] = next[q],
           pc'[p] = "rename" => pc[p] = "rename" /\ next'[p] = next[p],
           InSave(p)' => InSave(p)
    PROVE  OwnTemp'
BY DEF Inv, OwnTemp, InSave

\* What a process has in memory is its own.
LEMMA OthersInHand ==
    ASSUME Inv, NEW p \in Process,
           \A q \in Process \ {p} : pc'[q] = pc[q] /\ held'[q] = held[q] /\ next'[q] = next[q],
           file # Absent => file' # Absent,
           pc'[p] = "read" => file' # Absent,
           held'[p] = Nothing <=> pc'[p] \in {"idle", "read"},
           next'[p] = Nothing <=> pc'[p] \notin Saving
    PROVE  InHand'
<1> SUFFICES ASSUME NEW q \in Process
             PROVE  /\ held'[q] = Nothing <=> pc'[q] \in {"idle", "read"}
                    /\ pc'[q] = "read" => file' # Absent
                    /\ next'[q] = Nothing <=> pc'[q] \notin Saving
  BY DEF InHand
<1>1. CASE q # p  BY <1>1 DEF Inv, InHand
<1>2. CASE q = p  BY <1>2 DEF Inv, InHand
<1> QED  BY <1>1, <1>2

LEMMA DoneFacts ==
    ASSUME TypeOK, NEW p \in Process, Done(p)
    PROVE  /\ pc' = [pc EXCEPT ![p] = "idle"] /\ pc'[p] = "idle"
           /\ held'[p] = Nothing /\ next'[p] = Nothing
           /\ \A q \in Process \ {p} : pc'[q] = pc[q] /\ held'[q] = held[q] /\ next'[q] = next[q]
           /\ held' \in [Process -> State \cup {Nothing}]
           /\ next' \in [Process -> State \cup {Nothing}]
           /\ held' = [held EXCEPT ![p] = Nothing] /\ next' = [next EXCEPT ![p] = Nothing]
BY DEF TypeOK, Done, Goto

\* A step that ends the load or the save of p.
LEMMA DoneKeeps ==
    ASSUME Inv, NEW p \in Process, Done(p), stamp' = stamp,
           file # Absent => file' # Absent,
           \A n \in Stamp : temp'[n] = temp[n] \/ (InSave(p) /\ n = stamp[p])
    PROVE  InHand' /\ OwnTemp'
<1>0. TypeOK  BY DEF Inv
<1>1. pc'[p] = "idle" /\ held'[p] = Nothing /\ next'[p] = Nothing
      /\ \A q \in Process \ {p} : pc'[q] = pc[q] /\ held'[q] = held[q] /\ next'[q] = next[q]
  BY <1>0, DoneFacts
<1>2. InHand'  BY <1>1, OthersInHand DEF Saving
<1>3. OwnTemp'
  <2>1. \A q \in Process : InSave(q)' => InSave(q) /\ q # p /\ pc'[q] = pc[q] /\ next'[q] = next[q]
    BY <1>1 DEF InSave
  <2>2. \A q \in Process : (InSave(q) /\ q # p) => temp'[stamp[q]] = temp[stamp[q]]
    BY <1>0 DEF Inv, OwnTemp, TypeOK
  <2>3. \A q \in Process : pc'[q] = "rename" => temp'[stamp[q]] = next'[q]
    BY <2>1, <2>2 DEF Inv, OwnTemp, InSave
  <2> QED  BY <2>1, <2>3 DEF Inv, OwnTemp
<1> QED  BY <1>2, <1>3

\* A step within a save that leaves what is in hand.
LEMMA SavingKeeps ==
    ASSUME Inv, NEW p \in Process, UNCHANGED <<file, held, next>>,
           NEW label \in Saving, Goto(p, label), pc[p] \in Saving
    PROVE  InHand' /\ pc'[p] = label /\ \A q \in Process \ {p} : pc'[q] = pc[q]
<1>1. pc'[p] = label /\ \A q \in Process \ {p} : pc'[q] = pc[q]
  BY DEF Inv, TypeOK, Goto
<1>2. held[p] # Nothing /\ next[p] # Nothing /\ label \notin {"idle", "read"}
  BY DEF Inv, InHand, Saving
<1> QED  BY <1>1, <1>2, OthersInHand

LEMMA TypeStep == Inv /\ [Next]_vars => TypeOK'
<1> SUFFICES ASSUME Inv, [Next]_vars PROVE TypeOK'
  OBVIOUS
<1> USE DEF Goto
<1>0. TypeOK  BY DEF Inv
<1>1. CASE UNCHANGED vars  BY <1>0, <1>1 DEF vars, TypeOK
<1>2. ASSUME NEW p \in Process, Access(p) PROVE TypeOK'
  BY <1>0, <1>2, NotStates DEF Access, TypeOK
<1>3. ASSUME NEW p \in Process, ReadFile(p) PROVE TypeOK'
  <2>1. file \in State
    BY <1>0, <1>3, NotStates, StateFileAssumption DEF ReadFile, TypeOK, Inv, InHand
  <2>2. file # Torn  BY <2>1, NotStates
  <2> QED  BY <1>0, <1>3, <2>1, <2>2 DEF ReadFile, TypeOK
<1>4. ASSUME NEW p \in Process, GiveUp(p) PROVE TypeOK'
  BY <1>0, <1>4, DoneFacts DEF GiveUp, TypeOK, Done
<1>5. ASSUME NEW p \in Process, CallSave(p) PROVE TypeOK'
  <2>1. PICK saved \in State : next' = [next EXCEPT ![p] = saved]
    BY <1>5, CalledWith
  <2> QED  BY <1>0, <1>5, <2>1 DEF CallSave, TypeOK
<1>6. ASSUME NEW p \in Process, SkipBackup(p) \/ BeginCopy(p) PROVE TypeOK'
  BY <1>0, <1>6 DEF SkipBackup, BeginCopy, TypeOK
<1>7. ASSUME NEW p \in Process, EndCopy(p) PROVE TypeOK'
  BY <1>0, <1>7 DEF EndCopy, TypeOK
<1>8. ASSUME NEW p \in Process, BeginWrite(p) PROVE TypeOK'
  BY <1>0, <1>8 DEF BeginWrite, TypeOK
<1>9. ASSUME NEW p \in Process, EndWrite(p) PROVE TypeOK'
  <2>1. next[p] \in State  BY <1>9, NextIsState DEF EndWrite, Saving
  <2> QED  BY <1>0, <1>9, <2>1 DEF EndWrite, TypeOK
<1>10. ASSUME NEW p \in Process, Rename(p) PROVE TypeOK'
  <2>1. temp[stamp[p]] \in State
    BY <1>10, NextIsState DEF Rename, Saving, Inv, OwnTemp
  <2> QED  BY <1>0, <1>10, <2>1 DEF Rename, TypeOK, Done
<1>11. ASSUME NEW p \in Process, SaveFails(p) PROVE TypeOK'
  BY <1>0, <1>11 DEF SaveFails, TypeOK
<1>12. ASSUME NEW p \in Process, Unlink(p) PROVE TypeOK'
  BY <1>0, <1>12 DEF Unlink, TypeOK, Done
<1>13. ASSUME NEW p \in Process, Crash(p) PROVE TypeOK'
  BY <1>0, <1>13 DEF Crash, TypeOK, Done
<1> QED
  BY <1>1, <1>2, <1>3, <1>4, <1>5, <1>6, <1>7, <1>8, <1>9, <1>10, <1>11, <1>12, <1>13
  DEF Next, Step

-----------------------------------------------------------------------------
\* Every step of a process keeps what it has in memory in order.
LEMMA MemoryStep == Inv /\ [Next]_vars => InHand' /\ OwnTemp'
<1> SUFFICES ASSUME Inv, [Next]_vars PROVE InHand' /\ OwnTemp'
  OBVIOUS
<1>0. TypeOK  BY DEF Inv
<1>1. CASE UNCHANGED vars
  <2>1. UNCHANGED <<pc, held, next, file>>  BY <1>1 DEF vars
  <2>2. InHand'
    <3> SUFFICES ASSUME NEW q \in Process
                 PROVE  /\ held'[q] = Nothing <=> pc'[q] \in {"idle", "read"}
                        /\ pc'[q] = "read" => file' # Absent
                        /\ next'[q] = Nothing <=> pc'[q] \notin Saving
      BY DEF InHand
    <3> QED  BY <2>1 DEF Inv, InHand
  <2>3. OwnTemp'  BY <1>1 DEF vars, Inv, OwnTemp, InSave
  <2> QED  BY <2>2, <2>3
<1>2. ASSUME NEW p \in Process, Access(p) PROVE InHand' /\ OwnTemp'
  <2>1. pc'[p] \in {"read", "cycle"} /\ \A q \in Process \ {p} : pc'[q] = pc[q] /\ held'[q] = held[q]
    BY <1>0, <1>2 DEF Access, Goto, TypeOK
  <2>2. /\ pc'[p] = "read" => held'[p] = held[p] /\ held[p] = Nothing /\ file # Absent
        /\ pc'[p] = "cycle" => held'[p] = Empty /\ Empty # Nothing
    BY <1>0, <1>2, NotStates DEF Access, Goto, TypeOK, Inv, InHand
  <2>3. UNCHANGED <<file, temp, stamp, next>> /\ next[p] = Nothing
    BY <1>2 DEF Access, Inv, InHand, Saving
  <2>4. InHand'  BY <2>1, <2>2, <2>3, OthersInHand DEF Saving
  <2>5. OwnTemp'  BY <2>1, <2>3, TempsLeft DEF InSave
  <2> QED  BY <2>4, <2>5
<1>3. ASSUME NEW p \in Process, ReadFile(p) PROVE InHand' /\ OwnTemp'
  <2>1. file \in State /\ file # Torn /\ file # Nothing
    BY <1>0, <1>3, NotStates DEF ReadFile, TypeOK, Inv, InHand
  <2>2. /\ pc'[p] = "cycle" /\ held'[p] = file
        /\ \A q \in Process \ {p} : pc'[q] = pc[q] /\ held'[q] = held[q]
        /\ UNCHANGED <<file, temp, stamp, next>> /\ next[p] = Nothing
    BY <1>0, <1>3, <2>1 DEF ReadFile, Goto, TypeOK, Inv, InHand, Saving
  <2>3. InHand'  BY <2>1, <2>2, OthersInHand DEF Saving
  <2>4. OwnTemp'  BY <2>2, TempsLeft DEF InSave
  <2> QED  BY <2>3, <2>4
<1>4. ASSUME NEW p \in Process, GiveUp(p) \/ Crash(p) PROVE InHand' /\ OwnTemp'
  <2>1. Done(p) /\ UNCHANGED <<file, temp, stamp>>
    BY <1>4 DEF GiveUp, Crash
  <2> QED  BY <2>1, DoneKeeps
<1>5. ASSUME NEW p \in Process, CallSave(p) PROVE InHand' /\ OwnTemp'
  <2>1. PICK saved \in State : next' = [next EXCEPT ![p] = saved]
    BY <1>5, CalledWith
  <2>2. /\ pc'[p] = "backup" /\ UNCHANGED <<file, temp, stamp, held>>
        /\ \A q \in Process \ {p} : pc'[q] = pc[q] /\ next'[q] = next[q]
        /\ next'[p] # Nothing /\ held[p] # Nothing
    BY <1>0, <1>5, <2>1, NotStates DEF CallSave, Goto, TypeOK, Inv, InHand
  <2>3. InHand'  BY <2>2, OthersInHand DEF Saving
  <2>4. OwnTemp'  BY <2>2, TempsLeft DEF InSave
  <2> QED  BY <2>3, <2>4
<1>6. ASSUME NEW p \in Process, SkipBackup(p) \/ BeginCopy(p) \/ EndCopy(p) PROVE InHand' /\ OwnTemp'
  <2>1. /\ UNCHANGED <<file, temp, stamp, held, next>> /\ pc[p] \in {"backup", "copy"}
        /\ \E label \in {"copy", "write"} : Goto(p, label)
    BY <1>6 DEF SkipBackup, BeginCopy, EndCopy
  <2>2. PICK label \in {"copy", "write"} : Goto(p, label)
    BY <2>1
  <2>3. label \in Saving /\ pc[p] \in Saving
    BY <2>1 DEF Saving
  <2>4. InHand' /\ pc'[p] = label /\ \A q \in Process \ {p} : pc'[q] = pc[q]
    BY <2>1, <2>2, <2>3, SavingKeeps
  <2>5. OwnTemp'  BY <2>1, <2>4, TempsLeft DEF InSave
  <2> QED  BY <2>4, <2>5
<1>7. ASSUME NEW p \in Process, BeginWrite(p) PROVE InHand' /\ OwnTemp'
  <2>1. InHand' /\ pc'[p] = "written" /\ \A q \in Process \ {p} : pc'[q] = pc[q]
    BY <1>7, SavingKeeps DEF BeginWrite, Saving
  <2>2. PICK n \in Stamp :
          /\ \A q \in Process \ {p} : InSave(q) => stamp[q] # n
          /\ stamp' = [stamp EXCEPT ![p] = n]
          /\ temp' = [temp EXCEPT ![n] = Torn]
    BY <1>7 DEF BeginWrite
  <2>3. /\ stamp'[p] = n
        /\ \A q \in Process \ {p} : stamp'[q] = stamp[q] /\ (InSave(q) => temp'[stamp[q]] = temp[stamp[q]])
    BY <1>0, <2>2 DEF TypeOK
  <2>4. \A q \in Process : InSave(q)' => q = p \/ InSave(q)
    BY <2>1 DEF InSave
  <2>5. \A q \in Process : pc'[q] = "rename" => temp'[stamp'[q]] = next'[q]
    BY <1>7, <2>1, <2>3 DEF BeginWrite, Inv, OwnTemp, InSave
  <2>6. \A q, r \in Process : (q # r /\ InSave(q)' /\ InSave(r)') => stamp'[q] # stamp'[r]
    BY <2>2, <2>3, <2>4 DEF Inv, OwnTemp
  <2>7. OwnTemp'  BY <2>5, <2>6 DEF OwnTemp
  <2> QED  BY <2>1, <2>7
<1>8. ASSUME NEW p \in Process, EndWrite(p) PROVE InHand' /\ OwnTemp'
  <2>1. InHand' /\ pc'[p] = "rename" /\ \A q \in Process \ {p} : pc'[q] = pc[q]
    BY <1>8, SavingKeeps DEF EndWrite, Saving
  <2>2. \A q \in Process : InSave(q)' => InSave(q)
    BY <1>8, <2>1 DEF InSave, EndWrite
  <2>3. temp'[stamp[p]] = next[p] /\ \A n \in Stamp \ {stamp[p]} : temp'[n] = temp[n]
    BY <1>0, <1>8 DEF EndWrite, TypeOK
  <2>4. \A q \in Process \ {p} : InSave(q) => stamp[q] # stamp[p]
    BY <1>8 DEF EndWrite, InSave, Inv, OwnTemp
  <2>5. \A q \in Process : pc'[q] = "rename" => temp'[stamp'[q]] = next'[q]
    BY <1>0, <1>8, <2>1, <2>3, <2>4 DEF EndWrite, Inv, OwnTemp, InSave, TypeOK
  <2>6. \A q, r \in Process : (q # r /\ InSave(q)' /\ InSave(r)') => stamp'[q] # stamp'[r]
    BY <1>8, <2>2 DEF EndWrite, Inv, OwnTemp
  <2>7. OwnTemp'  BY <2>5, <2>6 DEF OwnTemp
  <2> QED  BY <2>1, <2>7
<1>9. ASSUME NEW p \in Process, Rename(p) PROVE InHand' /\ OwnTemp'
  <2>1. temp[stamp[p]] \in State
    BY <1>9, NextIsState DEF Rename, Saving, Inv, OwnTemp
  <2>2. Done(p) /\ stamp' = stamp /\ file' # Absent
    BY <1>9, <2>1, NotStates DEF Rename
  <2>3. \A n \in Stamp : temp'[n] = temp[n] \/ (InSave(p) /\ n = stamp[p])
    BY <1>0, <1>9 DEF Rename, InSave, TypeOK
  <2> QED  BY <2>2, <2>3, DoneKeeps
<1>10. ASSUME NEW p \in Process, SaveFails(p) PROVE InHand' /\ OwnTemp'
  <2>1. InHand' /\ pc'[p] = "unlink" /\ \A q \in Process \ {p} : pc'[q] = pc[q]
    BY <1>10, SavingKeeps DEF SaveFails, Saving
  <2>2. OwnTemp'  BY <1>10, <2>1, TempsLeft DEF SaveFails, InSave
  <2> QED  BY <2>1, <2>2
<1>11. ASSUME NEW p \in Process, Unlink(p) PROVE InHand' /\ OwnTemp'
  <2>1. Done(p) /\ stamp' = stamp /\ file' = file  BY <1>11 DEF Unlink
  <2>2. \A n \in Stamp : temp'[n] = temp[n] \/ (InSave(p) /\ n = stamp[p])
    BY <1>0, <1>11 DEF Unlink, InSave, TypeOK
  <2> QED  BY <2>1, <2>2, DoneKeeps
<1> QED
  BY <1>1, <1>2, <1>3, <1>4, <1>5, <1>6, <1>7, <1>8, <1>9, <1>10, <1>11
  DEF Next, Step

LEMMA InvStep == Inv /\ [Next]_vars => Inv'
BY TypeStep, MemoryStep DEF Inv

\* Every variable of the state file and of its processes keeps its type; the state file
\* itself is never torn.
THEOREM TypeCorrect == Spec => []TypeOK
<1>1. Inv => TypeOK  BY DEF Inv
<1> QED  BY <1>1, InvInit, InvStep, PTL DEF Spec

-----------------------------------------------------------------------------
\* The state of the register, as the files and the processes hold it.
Saved == IF file = Absent THEN Empty ELSE file
AllAsked == [p \in Process |-> Asked(p)]
mapped == <<Saved, held, AllAsked>>

\* What a save is called with is what was loaded, with the entries it asks for replaced.
LEMMA AskedIsNext ==
    ASSUME Inv, NEW p \in Process, pc[p] \in Saving
    PROVE  next[p] = Register!Put(held[p], AllAsked[p])
<1>1. next[p] \in State /\ held[p] \in State /\ next[p] # Nothing
  BY NextIsState, NotStates DEF Inv, InHand, TypeOK, Saving
<1>2. /\ DOMAIN Asked(p) = {d \in Device : next[p][d] # held[p][d]}
      /\ \A d \in DOMAIN Asked(p) : Asked(p)[d] = next[p][d]
  BY <1>1 DEF Asked
<1>3. \A d \in Device : next[p][d] = IF d \in DOMAIN Asked(p) THEN Asked(p)[d] ELSE held[p][d]
  BY <1>2
<1> QED  BY <1>1, <1>3 DEF Register!Put, AllAsked, State

\* A process that is not in a save asks for nothing.
LEMMA NothingAsked ==
    ASSUME NEW p \in Process, next[p] = Nothing
    PROVE  AllAsked[p] = Register!NoChange
BY DEF AllAsked, Asked, Register!NoChange

\* Nothing that the mapping reads changes.
LEMMA MappedLeft ==
    ASSUME UNCHANGED <<file, held, next>>
    PROVE  UNCHANGED mapped
BY DEF mapped, Saved, AllAsked, Asked, Empty

\* The load or the save of p is over: what it held and asked for is gone.
LEMMA DoneLeaves ==
    ASSUME Inv, NEW p \in Process, Done(p), held[p] # Nothing
    PROVE  Register!Leave(p)
<1>1. held' = [held EXCEPT ![p] = Nothing] /\ next' = [next EXCEPT ![p] = Nothing]
  BY DoneFacts DEF Inv
<1>2. \A q \in Process \ {p} : held'[q] = held[q] /\ next'[q] = next[q]
  BY DoneFacts DEF Inv
<1>3. next'[p] = Nothing  BY DoneFacts DEF Inv
<1>4. \A q \in Process \ {p} : Asked(q)' = Asked(q)  BY <1>2 DEF Asked
<1>5. Asked(p)' = Register!NoChange  BY <1>3 DEF Asked, Register!NoChange
<1>6. AllAsked' = [AllAsked EXCEPT ![p] = Register!NoChange]  BY <1>4, <1>5 DEF AllAsked
<1> QED  BY <1>1, <1>6 DEF Register!Leave, AllAsked

\* A save is called: the process asks for the entries that differ from those it loaded.
LEMMA CallPlans ==
    ASSUME Inv, NEW p \in Process, CallSave(p)
    PROVE  Register!Plan(p)
<1>1. PICK saved \in State : next' = [next EXCEPT ![p] = saved]  BY CalledWith
<1>2. held[p] # Nothing /\ next[p] = Nothing /\ UNCHANGED <<file, held>>
  BY DEF CallSave, Inv, InHand, Saving
<1>3. next'[p] = saved /\ \A q \in Process \ {p} : next'[q] = next[q]
  BY <1>1 DEF Inv, TypeOK
<1>4. \A q \in Process \ {p} : Asked(q)' = Asked(q)  BY <1>2, <1>3 DEF Asked
<1>5. AllAsked' = [AllAsked EXCEPT ![p] = Asked(p)']  BY <1>4 DEF AllAsked
<1>6. \E devices \in SUBSET Device : Asked(p)' \in [devices -> Entry]
  <2> DEFINE devices == {d \in Device : saved # Nothing /\ saved[d] # held[p][d]}
  <2>1. Asked(p)' = [d \in devices |-> saved[d]]  BY <1>2, <1>3 DEF Asked
  <2>2. \A d \in devices : saved[d] \in Entry  BY DEF State
  <2>3. Asked(p)' \in [devices -> Entry]  BY <2>1, <2>2
  <2> QED  BY <2>3
<1>7. AllAsked[p] = Register!NoChange  BY <1>2, NothingAsked
<1>8. Saved' = Saved  BY <1>2 DEF Saved, Empty
<1> QED  BY <1>2, <1>5, <1>6, <1>7, <1>8 DEF Register!Plan, AllAsked, Saved

\* Each step of the file system is a step of the register, or does not show.
LEMMA StepRefines == Inv /\ [Next]_vars => [Register!Next]_mapped
<1> SUFFICES ASSUME Inv, [Next]_vars PROVE Register!Next \/ UNCHANGED mapped
  OBVIOUS
<1>0. TypeOK  BY DEF Inv
<1>1. CASE UNCHANGED vars  BY <1>1, MappedLeft DEF vars
<1>2. ASSUME NEW p \in Process,
             \/ SkipBackup(p) \/ BeginCopy(p) \/ EndCopy(p)
             \/ BeginWrite(p) \/ EndWrite(p) \/ SaveFails(p)
      PROVE  UNCHANGED mapped
  BY <1>2, MappedLeft DEF SkipBackup, BeginCopy, EndCopy, BeginWrite, EndWrite, SaveFails
<1>3. ASSUME NEW p \in Process, Access(p) PROVE Register!Load(p) \/ UNCHANGED mapped
  <2>1. file' = file /\ next' = next /\ held[p] = Nothing /\ next[p] = Nothing
    BY <1>3 DEF Access, Inv, InHand, Saving
  <2>2. CASE held' = held  BY <2>1, <2>2, MappedLeft
  <2>3. CASE held' = [held EXCEPT ![p] = Empty]
    <3>1. AllAsked' = AllAsked
      BY <2>1, <2>3, <1>0 DEF AllAsked, Asked, TypeOK
    <3>2. Register!Empty = Empty  BY DEF Register!Empty, Empty
    <3> QED  BY <2>1, <2>3, <3>1, <3>2 DEF Register!Load, Saved, Empty, AllAsked
  <2> QED  BY <1>3, <2>2, <2>3 DEF Access
<1>4. ASSUME NEW p \in Process, ReadFile(p) PROVE Register!Load(p)
  <2>1. file # Torn /\ file # Absent
    BY <1>0, <1>4, NotStates DEF ReadFile, TypeOK, Inv, InHand
  <2>2. /\ file' = file /\ next' = next /\ held[p] = Nothing /\ next[p] = Nothing
        /\ held' = [held EXCEPT ![p] = file]
    BY <1>4, <2>1 DEF ReadFile, Inv, InHand, Saving
  <2>3. AllAsked' = AllAsked
    BY <2>2, <1>0 DEF AllAsked, Asked, TypeOK
  <2> QED  BY <2>1, <2>2, <2>3 DEF Register!Load, AllAsked
<1>5. ASSUME NEW p \in Process, GiveUp(p) \/ Crash(p) \/ Unlink(p)
      PROVE  Register!GiveUp(p) \/ UNCHANGED mapped
  <2>1. file' = file /\ Done(p)
    BY <1>5 DEF GiveUp, Crash, Unlink
  <2>2. CASE held[p] = Nothing
    <3>1. next[p] = Nothing  BY <2>2 DEF Inv, InHand, Saving
    <3>2. held' = held /\ next' = next  BY <1>0, <2>1, <2>2, <3>1, DoneFacts DEF TypeOK
    <3> QED  BY <2>1, <3>2, MappedLeft
  <2>3. CASE held[p] # Nothing
    <3>1. Saved' = Saved  BY <2>1 DEF Saved, Empty
    <3> QED  BY <2>1, <2>3, <3>1, DoneLeaves DEF Register!GiveUp, Saved
  <2> QED  BY <2>2, <2>3
<1>6. ASSUME NEW p \in Process, Rename(p) PROVE Register!Save(p)
  <2>1. file' = next[p] /\ held[p] # Nothing /\ Done(p)
    BY <1>6 DEF Rename, Inv, InHand, OwnTemp
  <2>2. next[p] \in State  BY <1>6, NextIsState DEF Rename, Saving
  <2>3. file' # Absent  BY <2>1, <2>2, NotStates
  <2>4. file' = Register!Put(held[p], AllAsked[p])
    BY <1>6, <2>1, AskedIsNext DEF Rename, Saving
  <2> QED  BY <2>1, <2>3, <2>4, DoneLeaves DEF Register!Save, AllAsked
<1>7. ASSUME NEW p \in Process, CallSave(p) PROVE Register!Plan(p)
  BY <1>7, CallPlans
<1> QED
  BY <1>1, <1>2, <1>3, <1>4, <1>5, <1>6, <1>7 DEF Next, Step, Register!Next

\* Whatever fails or crashes, and however the processes interleave, a load returns the whole
\* of one saved state, or the empty one, and a save writes at one moment the whole of what it
\* was called with: what was loaded, with the entries it asks for, and no other, replaced.
THEOREM FileIsRegister == Spec => RegisterSpec
<1>1. Init => Register!Init
  <2> SUFFICES ASSUME Init PROVE Register!Init
    OBVIOUS
  <2>1. AllAsked = [p \in Process |-> Register!NoChange]
    BY NothingAsked DEF Init, AllAsked
  <2> QED  BY <2>1, NotStates DEF Init, Register!Init, Register!State, State, Empty, AllAsked
<1>2. UNCHANGED mapped <=> UNCHANGED Register!vars
  BY DEF mapped, Register!vars, Saved, AllAsked
<1>3. Inv /\ [Next]_vars => [Register!Next]_(Register!vars)
  BY StepRefines, <1>2
<1> QED  BY <1>1, <1>3, InvInit, InvStep, PTL DEF Spec, RegisterSpec, Register!Spec

-----------------------------------------------------------------------------
\* A step of p that leaves the temporary files alone, and the save p is in if any.
LEMMA AccountsLeft ==
    ASSUME TempsAreAccounted, NEW p \in Process, UNCHANGED <<temp, stamp, leftover>>,
           \A q \in Process \ {p} : pc'[q] = pc[q], InSave(p) => InSave(p)'
    PROVE  TempsAreAccounted'
BY DEF TempsAreAccounted, InSave

LEMMA AccountsStep == TypeOK /\ TempsAreAccounted /\ [Next]_vars => TempsAreAccounted'
<1> SUFFICES ASSUME TypeOK, TempsAreAccounted, [Next]_vars PROVE TempsAreAccounted'
  OBVIOUS
<1>1. CASE UNCHANGED vars
  BY <1>1 DEF vars, TempsAreAccounted, InSave
<1>2. ASSUME NEW p \in Process,
             \/ Access(p) \/ ReadFile(p) \/ GiveUp(p) \/ CallSave(p)
             \/ SkipBackup(p) \/ BeginCopy(p) \/ EndCopy(p)
      PROVE  TempsAreAccounted'
  <2>1. UNCHANGED <<temp, stamp, leftover>> /\ ~InSave(p)
    BY <1>2 DEF Access, ReadFile, GiveUp, CallSave, SkipBackup, BeginCopy, EndCopy, InSave
  <2>2. \A q \in Process \ {p} : pc'[q] = pc[q]
    BY <1>2 DEF Access, ReadFile, GiveUp, CallSave, SkipBackup, BeginCopy, EndCopy, Goto, Done, TypeOK
  <2> QED  BY <2>1, <2>2, AccountsLeft
<1>3. ASSUME NEW p \in Process, SaveFails(p) PROVE TempsAreAccounted'
  <2>1. InSave(p)' /\ \A q \in Process \ {p} : pc'[q] = pc[q]
    BY <1>3 DEF SaveFails, Goto, TypeOK, InSave
  <2> QED  BY <1>3, <2>1, AccountsLeft DEF SaveFails
<1>4. ASSUME NEW p \in Process, BeginWrite(p) PROVE TempsAreAccounted'
  <2>1. InSave(p)' /\ ~InSave(p) /\ \A q \in Process \ {p} : pc'[q] = pc[q] /\ stamp'[q] = stamp[q]
    BY <1>4 DEF BeginWrite, Goto, TypeOK, InSave
  <2>2. PICK n \in Stamp : /\ stamp' = [stamp EXCEPT ![p] = n]
                           /\ temp' = [temp EXCEPT ![n] = Torn]
                           /\ leftover' = leftover \ {n}
    BY <1>4 DEF BeginWrite
  <2>3. stamp'[p] = n /\ \A m \in Stamp \ {n} : temp'[m] = temp[m]
    BY <2>2 DEF TypeOK
  <2>4. \A q \in Process : InSave(q) => InSave(q)' /\ stamp'[q] = stamp[q]
    BY <2>1 DEF InSave
  <2> QED  BY <2>1, <2>2, <2>3, <2>4 DEF TempsAreAccounted
<1>5. ASSUME NEW p \in Process, EndWrite(p) PROVE TempsAreAccounted'
  <2>1. InSave(p)' /\ InSave(p) /\ \A q \in Process \ {p} : pc'[q] = pc[q]
    BY <1>5 DEF EndWrite, Goto, TypeOK, InSave
  <2>2. \A q \in Process : InSave(q) => InSave(q)'
    BY <2>1 DEF InSave
  <2>3. UNCHANGED <<stamp, leftover>> /\ \A m \in Stamp \ {stamp[p]} : temp'[m] = temp[m]
    BY <1>5 DEF EndWrite, TypeOK
  <2> QED  BY <2>1, <2>2, <2>3 DEF TempsAreAccounted
<1>6. ASSUME NEW p \in Process, Rename(p) \/ Unlink(p) \/ Crash(p) PROVE TempsAreAccounted'
  <2>1. stamp' = stamp /\ \A q \in Process \ {p} : pc'[q] = pc[q]
    BY <1>6 DEF Rename, Unlink, Crash, Done, Goto, TypeOK
  <2>2. leftover \subseteq leftover'
    BY <1>6 DEF Rename, Unlink, Crash
  <2>3. InSave(p) => temp'[stamp[p]] = Absent \/ stamp[p] \in leftover'
    BY <1>6 DEF Rename, Unlink, Crash, InSave, TypeOK
  <2>4. \A m \in Stamp : temp'[m] = temp[m] \/ temp'[m] = Absent
    BY <1>6 DEF Rename, Unlink, Crash, TypeOK
  <2>5. \A q \in Process \ {p} : InSave(q) => InSave(q)'
    BY <2>1 DEF InSave
  <2> QED  BY <2>1, <2>2, <2>3, <2>4, <2>5 DEF TempsAreAccounted
<1> QED
  BY <1>1, <1>2, <1>3, <1>4, <1>5, <1>6 DEF Next, Step

\* A temporary file outlives its save only when the process died or the unlink failed.
THEOREM TempsAccounted == Spec => []TempsAreAccounted
<1>1. Init => TempsAreAccounted  BY DEF Init, TempsAreAccounted
<1>2. Inv => TypeOK  BY DEF Inv
<1> QED  BY <1>1, <1>2, InvInit, InvStep, AccountsStep, PTL DEF Spec
=============================================================================
