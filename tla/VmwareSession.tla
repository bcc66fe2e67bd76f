--------------------------- MODULE VmwareSession ---------------------------
(***************************************************************************)
(* The session with one vCenter that the parallel calls of a sync cycle    *)
(* share: VmwareAuthManager caches its token, VmwareRestClient logs in     *)
(* again after a 401 and sends the request a second time, and every cycle  *)
(* begins with a login and ends with a DELETE of the session.              *)
(*                                                                         *)
(* An answer is handled up to the next request in one go.  What is in      *)
(* between is open: other calls of the cycle, the calls a failed cycle     *)
(* left running, and vCenter, which may end any session at any time.       *)
(***************************************************************************)
EXTENDS Naturals, FiniteSets

CONSTANTS
    Session,     \* the tokens of vCenter; one is used again when nobody has it any more
    NoSession,   \* no token
    Call,        \* the calls of a cycle: listVms, listCategories, listTags
    Requests,    \* the requests of a call, those of getTagAssociationsForVms included
    Earlier,     \* bound: the earlier cycles that have calls running at the same time
    MaxStrays    \* bound: the calls still running when a cycle begins

ASSUME SessionAssumption ==
    /\ NoSession \notin Session
    /\ Requests \in Nat \ {0} /\ MaxStrays \in Nat
    /\ "own" \notin Earlier

\* Whose calls: of the last cycle that began, and those that earlier ones left running.
Owner == {"own"} \cup Earlier

VARIABLES
    token,       \* VmwareAuthManager.sessionToken
    phase,       \* where execute() stands with the gateway
    at,          \* where each call stands
    sent,        \* the token its request was sent with
    left,        \* the requests it has still to make
    live,        \* the sessions vCenter knows
    deletes,     \* the sessions that vCenter was asked to end, whether it has or not
    clean        \* auxiliary: see CleanCyclesEndSessions

requests == <<at, sent, left>>
vars     == <<token, phase, requests, live, deletes, clean>>

TypeOK ==
    /\ token \in Session \cup {NoSession}
    /\ phase \in {"idle", "connecting", "fetching", "ending", "disconnecting"}
    /\ at \in [Owner -> [Call -> {"over", "ready", "login", "sent", "relogin", "resent"}]]
    /\ sent \in [Owner -> [Call -> Session \cup {NoSession}]]
    /\ left \in [Owner -> [Call -> 0..Requests]]
    /\ live \subseteq Session /\ deletes \subseteq Session
    /\ clean \in BOOLEAN

AllOver == [k \in Call |-> "over"]
NoToken == [k \in Call |-> NoSession]
NoneLeft == [k \in Call |-> 0]

Init ==
    /\ token = NoSession
    /\ phase = "idle"
    /\ at = [o \in Owner |-> AllOver]
    /\ sent = [o \in Owner |-> NoToken]
    /\ left = [o \in Owner |-> NoneLeft]
    /\ live = {} /\ deletes = {}
    /\ clean = FALSE

\* A token that nobody has: not vCenter, not the cache, not a request on its way.
IsFresh(s) ==
    /\ s \notin live \cup {token}
    /\ \A o \in Owner, k \in Call : sent[o][k] # s

\* vCenter opens the session s.
Open(s) ==
    /\ IsFresh(s)
    /\ live' = live \cup {s}
    /\ deletes' = deletes \ {s}

\* authenticate() throws, and vCenter may have opened a session whose token is lost.
LoginLost ==
    /\ \/ \E s \in Session : Open(s)
       \/ UNCHANGED <<live, deletes>>
    /\ clean' = FALSE

-----------------------------------------------------------------------------
(* The cycle: connect() and disconnect() of the gateway                    *)

Running(o) == {k \in Call : at[o][k] # "over"}

\* Nothing waits for the calls of the cycle before, nor for those of the cycles before it:
\* they go on beside the calls of this one.
Begin ==
    /\ phase = "idle"
    /\ phase' = "connecting"
    /\ Cardinality({p \in Owner \X Call : at[p[1]][p[2]] # "over"}) <= MaxStrays
    /\ \/ Running("own") = {} /\ UNCHANGED requests
       \/ \E e \in Earlier :
            /\ Running("own") # {} /\ Running(e) = {}
            /\ at' = [at EXCEPT !["own"] = AllOver, ![e] = at["own"]]
            /\ sent' = [sent EXCEPT !["own"] = NoToken, ![e] = sent["own"]]
            /\ left' = [left EXCEPT !["own"] = NoneLeft, ![e] = left["own"]]
    /\ clean' = (live = {} /\ \A o \in Owner : Running(o) = {})
    /\ UNCHANGED <<token, live, deletes>>

CallsBegin ==
    /\ phase' = "fetching"
    /\ at' = [at EXCEPT !["own"] = [k \in Call |-> "ready"]]
    /\ left' = [left EXCEPT !["own"] = [k \in Call |-> Requests]]
    /\ UNCHANGED sent

\* connect() logs in, whatever the cache holds.
Connect ==
    /\ phase = "connecting"
    /\ \E s \in Session : Open(s) /\ token' = s
    /\ CallsBegin
    /\ UNCHANGED clean

\* The cycle goes on when another vCenter answers; its calls then log in themselves.
ConnectFails ==
    /\ phase = "connecting"
    /\ LoginLost
    /\ \/ CallsBegin
       \/ phase' = "ending" /\ UNCHANGED requests
    /\ UNCHANGED token

\* Mutant of EndSession: the token is dropped and the session left to vCenter.
EndSessionLocally ==
    /\ phase' = "idle" /\ token' = NoSession
    /\ UNCHANGED deletes

\* disconnect(): nothing to do without a token, else the DELETE is sent.
EndSession ==
    IF token = NoSession
    THEN phase' = "idle" /\ UNCHANGED <<token, deletes>>
    ELSE /\ phase' = "disconnecting"
         /\ deletes' = deletes \cup {token}
         /\ UNCHANGED token

\* finally: the cycle is done, or connect() failed for every vCenter, or a call of Vision
\* One or of the state file failed.  The last leaves the calls of vCenter running.
Disconnect ==
    /\ phase \in {"fetching", "ending"}
    /\ EndSession
    /\ clean' = (clean /\ Running("own") = {})
    /\ UNCHANGED <<requests, live>>

\* Mutant of Forgotten: the token is dropped only when vCenter has answered.
ForgottenOnAnswer(answered) == IF answered THEN NoSession ELSE token

Forgotten(answered) == NoSession

\* The DELETE has been answered, or it has failed: that is ignored, and vCenter may
\* still serve it.
Disconnected ==
    /\ phase = "disconnecting"
    /\ phase' = "idle"
    /\ token' = Forgotten(token \notin live)
    /\ clean' = (clean /\ token \notin live)
    /\ UNCHANGED <<requests, live, deletes>>

-----------------------------------------------------------------------------
(* vCenter                                                                 *)

\* A DELETE is served, when the tool no longer waits for it perhaps.  Or the session was
\* idle for long, an administrator ends it, or vCenter starts again.
SessionEnds ==
    /\ \E s \in live : live' = live \ {s}
    /\ UNCHANGED <<token, phase, requests, deletes, clean>>

-----------------------------------------------------------------------------
(* The requests of a call                                                  *)

\* Mutant of GoOn: the end of the list is not seen.
GoOnAlways(o, k) ==
    /\ at' = [at EXCEPT ![o][k] = "ready"]
    /\ left' = [left EXCEPT ![o][k] = @ - 1]
    /\ sent' = [sent EXCEPT ![o][k] = NoSession]

\* The call goes on with its next request, if it has one.
GoOn(o, k) ==
    /\ at' = [at EXCEPT ![o][k] = IF left[o][k] = 1 THEN "over" ELSE "ready"]
    /\ left' = [left EXCEPT ![o][k] = @ - 1]
    /\ sent' = [sent EXCEPT ![o][k] = NoSession]

\* An error ends the call, or it is swallowed as those of the guest details are.
GoOnOrEnd(o, k) ==
    \/ GoOn(o, k)
    \/ /\ at' = [at EXCEPT ![o][k] = "over"]
       /\ left' = [left EXCEPT ![o][k] = 0]
       /\ sent' = [sent EXCEPT ![o][k] = NoSession]

\* getSessionToken
Send(o, k) ==
    /\ at[o][k] = "ready"
    /\ at' = [at EXCEPT ![o][k] = IF token = NoSession THEN "login" ELSE "sent"]
    /\ sent' = [sent EXCEPT ![o][k] = token]
    /\ UNCHANGED <<token, phase, left, live, deletes, clean>>

\* authenticate() returns, and the request is sent, or sent again.
LoggedIn(o, k) ==
    /\ at[o][k] \in {"login", "relogin"}
    /\ \E s \in Session :
          /\ Open(s)
          /\ token' = s
          /\ sent' = [sent EXCEPT ![o][k] = s]
    /\ at' = [at EXCEPT ![o][k] = IF @ = "login" THEN "sent" ELSE "resent"]
    /\ UNCHANGED <<phase, left, clean>>

LoginFails(o, k) ==
    /\ at[o][k] \in {"login", "relogin"}
    /\ LoginLost
    /\ GoOnOrEnd(o, k)
    /\ UNCHANGED <<token, phase>>

Granted(o, k) ==
    /\ at[o][k] \in {"sent", "resent"}
    /\ sent[o][k] \in live
    /\ GoOn(o, k)
    /\ UNCHANGED <<token, phase, live, deletes, clean>>

\* Mutant of MayRetry: as long as vCenter refuses.
MayRetryAlways(label) == TRUE

\* A request is sent again once.
MayRetry(label) == label = "sent"

\* 401: the token in the cache is dropped, whosever it is by now, and a new one asked for.
Unauthorized(o, k) ==
    /\ at[o][k] \in {"sent", "resent"} /\ MayRetry(at[o][k])
    /\ sent[o][k] \notin live
    /\ token' = NoSession
    /\ at' = [at EXCEPT ![o][k] = "relogin"]
    /\ sent' = [sent EXCEPT ![o][k] = NoSession]
    /\ clean' = FALSE
    /\ UNCHANGED <<phase, left, live, deletes>>

\* A second 401, another error, or no answer.
RequestFails(o, k) ==
    /\ at[o][k] \in {"sent", "resent"}
    /\ GoOnOrEnd(o, k)
    /\ clean' = FALSE
    /\ UNCHANGED <<token, phase, live, deletes>>

-----------------------------------------------------------------------------
CallStep ==
    \E o \in Owner, k \in Call :
        \/ Send(o, k) \/ LoggedIn(o, k) \/ LoginFails(o, k)
        \/ Granted(o, k) \/ Unauthorized(o, k) \/ RequestFails(o, k)

Next ==
    \/ Begin \/ Connect \/ ConnectFails \/ Disconnect \/ Disconnected
    \/ SessionEnds \/ CallStep

Spec == Init /\ [][Next]_vars

CycleStep ==
    \/ Connect \/ ConnectFails \/ Disconnected
    \/ Disconnect /\ Running("own") = {}

\* Every request has a timeout, and a cycle ends when its calls are over.
Fairness == WF_vars(CallStep) /\ WF_vars(CycleStep)

FairSpec == Spec /\ Fairness

-----------------------------------------------------------------------------
(* Properties                                                              *)

\* A request of a cycle that fetches is never sent with a session the tool itself asked
\* vCenter to end: neither the DELETE of an earlier cycle, however late, nor a call that
\* cycle left running makes it a 401.
NoSessionTakenAway ==
    phase = "fetching" =>
        \A k \in Call : at["own"][k] \in {"sent", "resent"} => sent["own"][k] \notin deletes

\* When the tool has no session and no call running and a cycle goes by in which nothing
\* fails, is refused, or is left running, it leaves no session behind.
CleanCyclesEndSessions == (phase = "idle" /\ clean) => live = {}

\* What a call has still to do at most: every request is sent, and sent again, once.
Rank(o, k) ==
    6 * left[o][k] +
        CASE at[o][k] = "over"    -> 0
          [] at[o][k] = "resent"  -> 1
          [] at[o][k] = "relogin" -> 2
          [] at[o][k] = "sent"    -> 3
          [] at[o][k] = "login"   -> 4
          [] at[o][k] = "ready"   -> 5

\* While a cycle stands where it is, each step of a call, an answer of vCenter as much as a
\* login beside those of the others, brings that call nearer to its end and moves no other:
\* neither a session that is ended again and again nor a call that drops the token of
\* another keeps a call at its requests for ever.
CallsWindDown ==
    [][phase' = phase /\ ~UNCHANGED requests =>
          \E o \in Owner, k \in Call :
             /\ Rank(o, k)' < Rank(o, k)
             /\ \A p \in Owner, c \in Call : <<p, c>> # <<o, k>> => Rank(p, c)' = Rank(p, c)]_vars

\* A cycle ends whatever vCenter refuses, and however often: its calls give up.
CyclesEnd == phase # "idle" ~> phase = "idle"
=============================================================================
