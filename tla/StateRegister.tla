--------------------------- MODULE StateRegister ---------------------------
(***************************************************************************)
(* What FileSyncStateRepo promises to the processes that share a sync      *)
(* state file: one register, which a load reads and a save replaces, each  *)
(* whole and at one moment, whatever crashes or fails in between.          *)
(*                                                                         *)
(* It does not promise that nobody saved between a load and the save of    *)
(* the same cycle: that save then drops what the other one saved.          *)
(***************************************************************************)
CONSTANTS
    Process, Device, Entry, NoEntry,
    Nothing     \* a process that has not loaded

State == [Device -> Entry]
Empty == [d \in Device |-> NoEntry]

VARIABLES
    state,     \* the saved state
    held,      \* what each process loaded for the cycle it is in
    changes    \* the entries its cycle replaces, of the devices it planned an update of

vars == <<state, held, changes>>

NoChange == [d \in {} |-> NoEntry]

Init ==
    /\ state \in State
    /\ held = [p \in Process |-> Nothing]
    /\ changes = [p \in Process |-> NoChange]

\* The entries s with those of the devices in changed replaced.
Put(s, changed) == [d \in Device |-> IF d \in DOMAIN changed THEN changed[d] ELSE s[d]]

\* A load may also find nothing: a file that cannot be accessed counts as absent.
Load(p) ==
    /\ held[p] = Nothing
    /\ held' \in {[held EXCEPT ![p] = state], [held EXCEPT ![p] = Empty]}
    /\ UNCHANGED <<state, changes>>

\* The cycle settles, once, what it asks to save.
Plan(p) ==
    /\ held[p] # Nothing
    /\ changes[p] = NoChange
    /\ \E devices \in SUBSET Device : \E changed \in [devices -> Entry] :
          changes' = [changes EXCEPT ![p] = changed]
    /\ UNCHANGED <<state, held>>

\* The cycle is over, and what it held with it.
Leave(p) ==
    /\ held[p] # Nothing
    /\ held' = [held EXCEPT ![p] = Nothing]
    /\ changes' = [changes EXCEPT ![p] = NoChange]

\* What was loaded is written, with the entries asked for, and no other, replaced.
Save(p) == Leave(p) /\ state' = Put(held[p], changes[p])

\* The cycle fails, or its process dies: nothing is saved.
GiveUp(p) == Leave(p) /\ UNCHANGED state

Next == \E p \in Process : Load(p) \/ Plan(p) \/ Save(p) \/ GiveUp(p)

Spec == Init /\ [][Next]_vars
=============================================================================
