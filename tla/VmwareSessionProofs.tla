------------------------ MODULE VmwareSessionProofs ------------------------
(***************************************************************************)
(* The session a cycle uses is its own, and its calls come to an end, for  *)
(* any number of calls, requests and tokens.                               *)
(***************************************************************************)
EXTENDS VmwareSession, TLAPS

Labels == {"over", "ready", "login", "sent", "relogin", "resent"}

\* A call that is running has a request to make.
CountsFit == \A o \in Owner, k \in Call : at[o][k] # "over" => left[o][k] \in 1..Requests

\* The cache holds no session vCenter was asked to end, but for the time of the DELETE.
CacheIsOurs ==
    /\ phase # "disconnecting" => token \notin deletes
    /\ NoSessionTakenAway

\* As long as the cycle is clean, its session is the only one there is, and every
\* request is sent with it.
OneSession ==
    clean =>
        /\ phase # "ending"
        /\ phase \in {"idle", "connecting"} => live = {}
        /\ phase \in {"fetching", "disconnecting"} => token \in Session /\ live \subseteq {token}
        /\ \A e \in Earlier, k \in Call : at[e][k] = "over"
        /\ phase # "fetching" => \A k \in Call : at["own"][k] = "over"
        /\ \A k \in Call : at["own"][k] \in {"over", "ready", "sent"}

TypeInv == TypeOK /\ CountsFit

LEMMA OwnerFacts == "own" \in Owner /\ Earlier = Owner \ {"own"}
BY SessionAssumption DEF Owner

-----------------------------------------------------------------------------
\* The label, the token and the count a step of a call leaves it with.
LEMMA StepOfCall ==
    ASSUME TypeInv, NEW o \in Owner, NEW k \in Call,
           \/ Send(o, k) \/ LoggedIn(o, k) \/ LoginFails(o, k)
           \/ Granted(o, k) \/ Unauthorized(o, k) \/ RequestFails(o, k)
    PROVE  \E label \in Labels, s \in Session \cup {NoSession}, n \in 0..Requests :
              /\ at' = [at EXCEPT ![o][k] = label]
              /\ sent' = [sent EXCEPT ![o][k] = s]
              /\ left' = [left EXCEPT ![o][k] = n]
              /\ label # "over" => n # 0
<1> USE DEF TypeInv, TypeOK, Labels
<1> DEFINE Goal(label, s, n) ==
             /\ at' = [at EXCEPT ![o][k] = label]
             /\ sent' = [sent EXCEPT ![o][k] = s]
             /\ left' = [left EXCEPT ![o][k] = n]
             /\ label # "over" => n # 0
<1>0. /\ at[o][k] \in Labels /\ sent[o][k] \in Session \cup {NoSession}
      /\ left[o][k] \in 0..Requests /\ Requests \in Nat \ {0}
      /\ at[o][k] # "over" => left[o][k] # 0
  BY SessionAssumption DEF CountsFit
<1>1. left = [left EXCEPT ![o][k] = left[o][k]]
  OBVIOUS
<1>2. CASE Send(o, k)
  <2>1. Goal(IF token = NoSession THEN "login" ELSE "sent", token, left[o][k])
    BY <1>0, <1>1, <1>2 DEF Send
  <2> QED  BY <1>0, <2>1
<1>3. CASE LoggedIn(o, k)
  <2>1. PICK s \in Session : sent' = [sent EXCEPT ![o][k] = s]
    BY <1>3 DEF LoggedIn
  <2>2. Goal(IF at[o][k] = "login" THEN "sent" ELSE "resent", s, left[o][k])
    BY <1>0, <1>1, <1>3, <2>1 DEF LoggedIn
  <2> QED  BY <1>0, <2>2
<1>4. CASE Unauthorized(o, k)
  <2>1. Goal("relogin", NoSession, left[o][k])
    BY <1>0, <1>1, <1>4 DEF Unauthorized
  <2> QED  BY <1>0, <2>1
<1>5. CASE LoginFails(o, k) \/ Granted(o, k) \/ RequestFails(o, k)
  <2>1. GoOnOrEnd(o, k) /\ left[o][k] \in 1..Requests
    BY <1>0, <1>5 DEF LoginFails, Granted, RequestFails, GoOnOrEnd
  <2>2. CASE GoOn(o, k)
    <3>1. Goal(IF left[o][k] = 1 THEN "over" ELSE "ready", NoSession, left[o][k] - 1)
      BY <2>1, <2>2 DEF GoOn
    <3>2. left[o][k] - 1 \in 0..Requests
      BY <2>1, <1>0
    <3> QED  BY <3>1, <3>2
  <2>3. CASE ~GoOn(o, k)
    <3>1. Goal("over", NoSession, 0)
      BY <2>1, <2>3 DEF GoOnOrEnd
    <3>2. 0 \in 0..Requests /\ "over" \in Labels
      BY <1>0
    <3> QED  BY <3>1, <3>2
  <2> QED  BY <2>2, <2>3
<1> QED  BY <1>2, <1>3, <1>4, <1>5

\* The calls keep their types whatever one of them does.
LEMMA CallTypes ==
    ASSUME TypeInv, NEW o \in Owner, NEW k \in Call,
           \/ Send(o, k) \/ LoggedIn(o, k) \/ LoginFails(o, k)
           \/ Granted(o, k) \/ Unauthorized(o, k) \/ RequestFails(o, k)
    PROVE  /\ at' \in [Owner -> [Call -> Labels]]
           /\ sent' \in [Owner -> [Call -> Session \cup {NoSession}]]
           /\ left' \in [Owner -> [Call -> 0..Requests]]
           /\ CountsFit'
           /\ \A p \in Owner, c \in Call : <<p, c>> # <<o, k>> =>
                at'[p][c] = at[p][c] /\ sent'[p][c] = sent[p][c] /\ left'[p][c] = left[p][c]
<1>1. PICK label \in Labels, s \in Session \cup {NoSession}, n \in 0..Requests :
        /\ at' = [at EXCEPT ![o][k] = label]
        /\ sent' = [sent EXCEPT ![o][k] = s]
        /\ left' = [left EXCEPT ![o][k] = n]
        /\ label # "over" => n # 0
  BY StepOfCall
<1>2. /\ at' \in [Owner -> [Call -> Labels]]
      /\ sent' \in [Owner -> [Call -> Session \cup {NoSession}]]
      /\ left' \in [Owner -> [Call -> 0..Requests]]
      /\ at'[o][k] = label /\ left'[o][k] = n
      /\ \A p \in Owner, c \in Call : <<p, c>> # <<o, k>> =>
           at'[p][c] = at[p][c] /\ sent'[p][c] = sent[p][c] /\ left'[p][c] = left[p][c]
  BY <1>1 DEF TypeInv, TypeOK, Labels
<1>3. n \in 1..Requests \/ n = 0
  BY SessionAssumption
<1>4. ASSUME NEW p \in Owner, NEW c \in Call, at'[p][c] # "over"
      PROVE  left'[p][c] \in 1..Requests
  <2>1. CASE p = o /\ c = k
    BY <1>1, <1>2, <1>3, <1>4, <2>1
  <2>2. CASE <<p, c>> # <<o, k>>
    BY <1>2, <1>4, <2>2 DEF CountsFit, TypeInv
  <2> QED  BY <2>1, <2>2
<1> QED  BY <1>2, <1>4 DEF CountsFit

LEMMA TypeInit == Init => TypeInv
<1> SUFFICES ASSUME Init PROVE TypeInv
  OBVIOUS
<1>1. 0 \in 0..Requests
  BY SessionAssumption
<1>2. at \in [Owner -> [Call -> Labels]]
  BY DEF Init, AllOver, Labels
<1>3. sent \in [Owner -> [Call -> Session \cup {NoSession}]]
  BY DEF Init, NoToken
<1>4. left \in [Owner -> [Call -> 0..Requests]]
  BY <1>1 DEF Init, NoneLeft
<1>5. CountsFit
  BY DEF Init, CountsFit, AllOver
<1> QED  BY <1>2, <1>3, <1>4, <1>5 DEF Init, TypeInv, TypeOK, Labels

LEMMA CallsBeginTypes ==
    ASSUME TypeInv, CallsBegin
    PROVE  /\ at' \in [Owner -> [Call -> Labels]] /\ sent' = sent
           /\ left' \in [Owner -> [Call -> 0..Requests]]
           /\ phase' = "fetching" /\ CountsFit'
           /\ \A k \in Call : at'["own"][k] = "ready"
           /\ \A e \in Earlier, k \in Call : at'[e][k] = at[e][k]
<1>1. Requests \in 0..Requests /\ Requests \in 1..Requests
  BY SessionAssumption
<1>2. /\ at' = [at EXCEPT !["own"] = [k \in Call |-> "ready"]]
      /\ left' = [left EXCEPT !["own"] = [k \in Call |-> Requests]]
      /\ sent' = sent /\ phase' = "fetching"
  BY DEF CallsBegin
<1>3. at' \in [Owner -> [Call -> Labels]] /\ left' \in [Owner -> [Call -> 0..Requests]]
  BY <1>1, <1>2 DEF TypeInv, TypeOK, Labels, Owner
<1>4. /\ \A k \in Call : at'["own"][k] = "ready" /\ left'["own"][k] = Requests
      /\ \A e \in Earlier, k \in Call : at'[e][k] = at[e][k] /\ left'[e][k] = left[e][k]
  BY <1>2, SessionAssumption DEF TypeInv, TypeOK, Owner
<1>5. CountsFit'
  BY <1>1, <1>4 DEF CountsFit, TypeInv, Owner
<1> QED  BY <1>2, <1>3, <1>4, <1>5

LEMMA TypeStep == TypeInv /\ [Next]_vars => TypeInv'
<1> SUFFICES ASSUME TypeInv, [Next]_vars PROVE TypeInv'
  OBVIOUS
<1> USE DEF TypeInv
<1>0. TypeOK /\ CountsFit /\ NoSession \notin Session
  BY SessionAssumption
<1>1. CASE Begin
  <2>1. CASE UNCHANGED requests
    BY <1>0, <1>1, <2>1 DEF Begin, TypeOK, requests, CountsFit
  <2>2. CASE ~UNCHANGED requests
    <3>1. PICK e \in Earlier :
            /\ at' = [at EXCEPT !["own"] = AllOver, ![e] = at["own"]]
            /\ sent' = [sent EXCEPT !["own"] = NoToken, ![e] = sent["own"]]
            /\ left' = [left EXCEPT !["own"] = NoneLeft, ![e] = left["own"]]
      BY <1>1, <2>2 DEF Begin
    <3>2. "own" \in Owner /\ e \in Owner /\ 0 \in 0..Requests
      BY SessionAssumption DEF Owner
    <3>3. /\ AllOver \in [Call -> Labels] /\ NoToken \in [Call -> Session \cup {NoSession}]
          /\ NoneLeft \in [Call -> 0..Requests]
      BY <3>2 DEF AllOver, NoToken, NoneLeft, Labels
    <3>4. /\ at' \in [Owner -> [Call -> Labels]]
          /\ sent' \in [Owner -> [Call -> Session \cup {NoSession}]]
          /\ left' \in [Owner -> [Call -> 0..Requests]]
      BY <1>0, <3>1, <3>2, <3>3 DEF TypeOK, Labels
    <3>5. ASSUME NEW o \in Owner, NEW k \in Call, at'[o][k] # "over"
          PROVE  left'[o][k] \in 1..Requests
      <4>1. o # "own"
        BY <1>0, <3>1, <3>2, <3>5, SessionAssumption DEF TypeOK, AllOver
      <4>2. \/ at'[o] = at[o] /\ left'[o] = left[o]
            \/ at'[o] = at["own"] /\ left'[o] = left["own"]
        BY <1>0, <3>1, <3>2, <4>1 DEF TypeOK
      <4> QED  BY <1>0, <3>2, <3>5, <4>2 DEF CountsFit
    <3> QED  BY <1>0, <1>1, <3>4, <3>5 DEF Begin, TypeOK, CountsFit, Labels
  <2> QED  BY <2>1, <2>2
<1>2. CASE Connect
  BY <1>0, <1>2, CallsBeginTypes DEF Connect, Open, TypeOK, Labels
<1>3. CASE ConnectFails
  <2>1. token' = token /\ live' \subseteq Session /\ deletes' \subseteq Session /\ clean' = FALSE
    BY <1>0, <1>3 DEF ConnectFails, LoginLost, Open, TypeOK
  <2>2. CASE CallsBegin
    BY <1>0, <2>1, <2>2, CallsBeginTypes DEF TypeOK, Labels
  <2>3. CASE ~CallsBegin
    BY <1>0, <1>3, <2>1, <2>3 DEF ConnectFails, TypeOK, requests, CountsFit
  <2> QED  BY <2>2, <2>3
<1>4. CASE Disconnect \/ Disconnected
  BY <1>0, <1>4 DEF Disconnect, Disconnected, EndSession, Forgotten, TypeOK, requests, CountsFit
<1>5. CASE SessionEnds
  BY <1>0, <1>5 DEF SessionEnds, TypeOK, requests, CountsFit
<1>6. CASE CallStep
  <2>1. PICK o \in Owner, k \in Call :
          \/ Send(o, k) \/ LoggedIn(o, k) \/ LoginFails(o, k)
          \/ Granted(o, k) \/ Unauthorized(o, k) \/ RequestFails(o, k)
    BY <1>6 DEF CallStep
  <2>2. /\ at' \in [Owner -> [Call -> Labels]]
        /\ sent' \in [Owner -> [Call -> Session \cup {NoSession}]]
        /\ left' \in [Owner -> [Call -> 0..Requests]]
        /\ CountsFit'
    BY <2>1, CallTypes
  <2>3. /\ token' \in Session \cup {NoSession} /\ phase' = phase
        /\ live' \subseteq Session /\ deletes' \subseteq Session /\ clean' \in BOOLEAN
    BY <1>0, <2>1 DEF Send, LoggedIn, LoginFails, LoginLost, Open, Granted, Unauthorized,
                      RequestFails, TypeOK
  <2> QED  BY <1>0, <2>2, <2>3 DEF TypeOK, Labels
<1>7. CASE UNCHANGED vars
  BY <1>0, <1>7 DEF vars, requests, TypeOK, CountsFit
<1> QED  BY <1>1, <1>2, <1>3, <1>4, <1>5, <1>6, <1>7 DEF Next

\* Every variable of the session and of the calls keeps its type: a call counts its
\* requests down to nothing and no further.
THEOREM TypeCorrect == Spec => []TypeOK
<1>1. TypeInv => TypeOK  BY DEF TypeInv
<1> QED  BY <1>1, TypeInit, TypeStep, PTL DEF Spec

-----------------------------------------------------------------------------
\* What a step of a call does to the sessions: a new one is nobody else's.
LEMMA CallSessions ==
    ASSUME TypeInv, NEW o \in Owner, NEW k \in Call,
           \/ Send(o, k) \/ LoggedIn(o, k) \/ LoginFails(o, k)
           \/ Granted(o, k) \/ Unauthorized(o, k) \/ RequestFails(o, k)
    PROVE  /\ phase' = phase
           /\ deletes' \subseteq deletes
           /\ token' \in {token, NoSession} \/ token' \notin deletes'
           /\ at'[o][k] \in {"sent", "resent"} => sent'[o][k] = token' /\ token' # NoSession
<1> USE DEF TypeInv, TypeOK
<1>1. CASE Send(o, k)
  BY <1>1 DEF Send
<1>2. CASE LoggedIn(o, k)
  BY <1>2, SessionAssumption DEF LoggedIn, Open
<1>3. CASE Unauthorized(o, k)
  BY <1>3 DEF Unauthorized
<1>4. CASE LoginFails(o, k) \/ Granted(o, k) \/ RequestFails(o, k)
  <2>1. GoOnOrEnd(o, k)
    BY <1>4 DEF LoginFails, Granted, RequestFails, GoOnOrEnd
  <2>2. at'[o][k] \in {"over", "ready"}
    BY <2>1 DEF GoOnOrEnd, GoOn
  <2> QED  BY <1>4, <2>2 DEF LoginFails, LoginLost, Open, Granted, RequestFails
<1> QED  BY <1>1, <1>2, <1>3, <1>4

LEMMA CacheStep == TypeInv /\ CacheIsOurs /\ [Next]_vars => CacheIsOurs'
<1> SUFFICES ASSUME TypeInv, CacheIsOurs, [Next]_vars PROVE CacheIsOurs'
  OBVIOUS
<1> USE DEF CacheIsOurs, NoSessionTakenAway
<1>0. NoSession \notin deletes
  BY SessionAssumption DEF TypeInv, TypeOK
<1>1. CASE Begin
  BY <1>1 DEF Begin
<1>2. CASE Connect
  <2>1. token' \notin deletes' /\ CallsBegin
    BY <1>2 DEF Connect, Open
  <2> QED  BY <2>1, CallsBeginTypes
<1>3. CASE ConnectFails
  <2>1. token' \notin deletes'
    BY <1>3 DEF ConnectFails, LoginLost, Open
  <2>2. CASE CallsBegin
    BY <2>1, <2>2, CallsBeginTypes
  <2>3. CASE ~CallsBegin
    BY <1>3, <2>1, <2>3 DEF ConnectFails
  <2> QED  BY <2>2, <2>3
<1>4. CASE Disconnect \/ Disconnected
  BY <1>0, <1>4 DEF Disconnect, Disconnected, EndSession, Forgotten
<1>5. CASE SessionEnds \/ UNCHANGED vars
  BY <1>5 DEF SessionEnds, vars, requests
<1>6. CASE CallStep
  <2>1. PICK o \in Owner, k \in Call :
          \/ Send(o, k) \/ LoggedIn(o, k) \/ LoginFails(o, k)
          \/ Granted(o, k) \/ Unauthorized(o, k) \/ RequestFails(o, k)
    BY <1>6 DEF CallStep
  <2>2. /\ phase' = phase /\ deletes' \subseteq deletes
        /\ token' \in {token, NoSession} \/ token' \notin deletes'
        /\ at'[o][k] \in {"sent", "resent"} => sent'[o][k] = token'
    BY <2>1, CallSessions
  <2>3. phase # "disconnecting" => token' \notin deletes'
    BY <1>0, <2>2
  <2>4. ASSUME NEW c \in Call, phase = "fetching", at'["own"][c] \in {"sent", "resent"}
        PROVE  sent'["own"][c] \notin deletes'
    <3>1. CASE <<"own", c>> = <<o, k>>
      BY <2>2, <2>3, <2>4, <3>1
    <3>2. CASE <<"own", c>> # <<o, k>>
      <4>1. at'["own"][c] = at["own"][c] /\ sent'["own"][c] = sent["own"][c]
        BY <2>1, <3>2, CallTypes, OwnerFacts
      <4> QED  BY <2>2, <2>4, <4>1
    <3> QED  BY <3>1, <3>2
  <2> QED  BY <2>2, <2>3, <2>4
<1> QED  BY <1>1, <1>2, <1>3, <1>4, <1>5, <1>6 DEF Next

\* No request of a cycle meets a 401 because of the clean-up of another cycle.
THEOREM SessionsAreKept == Spec => []NoSessionTakenAway
<1>1. Init => CacheIsOurs
  BY DEF Init, CacheIsOurs, NoSessionTakenAway
<1>2. CacheIsOurs => NoSessionTakenAway
  BY DEF CacheIsOurs
<1> QED  BY <1>1, <1>2, TypeInit, TypeStep, CacheStep, PTL DEF Spec

-----------------------------------------------------------------------------
LEMMA OneSessionStep == TypeInv /\ OneSession /\ [Next]_vars => OneSession'
<1> SUFFICES ASSUME TypeInv, OneSession, [Next]_vars, clean'
             PROVE  /\ phase' # "ending"
                    /\ phase' \in {"idle", "connecting"} => live' = {}
                    /\ phase' \in {"fetching", "disconnecting"} =>
                         token' \in Session /\ live' \subseteq {token'}
                    /\ \A e \in Earlier, k \in Call : at'[e][k] = "over"
                    /\ phase' # "fetching" => \A k \in Call : at'["own"][k] = "over"
                    /\ \A k \in Call : at'["own"][k] \in {"over", "ready", "sent"}
  BY DEF OneSession
<1> USE DEF OneSession
<1>0. TypeOK  BY DEF TypeInv
<1>1. CASE Begin
  <2>1. live = {} /\ live' = live /\ phase' = "connecting"
        /\ \A o \in Owner, k \in Call : at[o][k] = "over"
    BY <1>1 DEF Begin, Running
  <2>2. UNCHANGED requests
    <3>1. Running("own") = {}
      BY <2>1, OwnerFacts DEF Running
    <3> QED  BY <1>1, <3>1 DEF Begin
  <2>3. \A o \in Owner, k \in Call : at'[o][k] = "over"
    BY <2>1, <2>2 DEF requests
  <2> QED  BY <2>1, <2>3, OwnerFacts
<1>2. CASE Connect
  <2>1. clean /\ phase = "connecting"
    BY <1>2 DEF Connect
  <2>2. token' \in Session /\ live' = {token'} /\ CallsBegin
    BY <1>2, <2>1 DEF Connect, Open
  <2> QED  BY <2>1, <2>2, CallsBeginTypes
<1>3. CASE ConnectFails
  BY <1>3 DEF ConnectFails, LoginLost
<1>4. CASE Disconnect
  <2>1. clean /\ Running("own") = {} /\ phase = "fetching" /\ UNCHANGED <<at, live>>
    BY <1>4 DEF Disconnect, requests
  <2>2. \A k \in Call : at["own"][k] = "over"
    BY <2>1 DEF Running
  <2>3. token # NoSession
    BY <2>1, SessionAssumption
  <2>4. phase' = "disconnecting" /\ token' = token
    BY <1>4, <2>3 DEF Disconnect, EndSession
  <2> QED  BY <2>1, <2>2, <2>4
<1>5. CASE Disconnected
  BY <1>5 DEF Disconnected, requests
<1>6. CASE SessionEnds \/ UNCHANGED vars
  <2>1. UNCHANGED <<token, phase, at, clean>> /\ live' \subseteq live
    BY <1>6 DEF SessionEnds, vars, requests
  <2> QED  BY <2>1
<1>7. CASE CallStep
  <2>1. PICK o \in Owner, k \in Call :
          \/ Send(o, k) \/ LoggedIn(o, k) \/ LoginFails(o, k)
          \/ Granted(o, k) \/ Unauthorized(o, k) \/ RequestFails(o, k)
    BY <1>7 DEF CallStep
  <2>2. ~(LoginFails(o, k) \/ Unauthorized(o, k) \/ RequestFails(o, k)) /\ clean
    BY <2>1 DEF LoginFails, LoginLost, Unauthorized, RequestFails, Send, LoggedIn, Granted
  <2>3. at[o][k] # "over"
    BY <2>1, <2>2 DEF Send, LoggedIn, Granted
  <2>4. o = "own" /\ phase = "fetching" /\ at[o][k] \in {"ready", "sent"} /\ token # NoSession
    BY <2>2, <2>3, OwnerFacts, SessionAssumption
  <2>5. ~LoggedIn(o, k)
    BY <2>4 DEF LoggedIn
  <2>6. UNCHANGED <<token, phase, live>> /\ at'[o][k] \in {"over", "ready", "sent"}
    BY <1>0, <2>1, <2>2, <2>4, <2>5 DEF Send, Granted, GoOn, TypeOK
  <2>7. \A p \in Owner, c \in Call : <<p, c>> # <<o, k>> => at'[p][c] = at[p][c]
    BY <2>1, CallTypes
  <2>8. /\ \A c \in Call : at'["own"][c] \in {"over", "ready", "sent"}
        /\ \A e \in Earlier, c \in Call : at'[e][c] = "over"
    BY <2>2, <2>4, <2>6, <2>7, OwnerFacts
  <2> QED  BY <2>2, <2>4, <2>6, <2>8
<1> QED  BY <1>1, <1>2, <1>3, <1>4, <1>5, <1>6, <1>7 DEF Next

\* An undisturbed cycle ends every session it opened.
THEOREM CleanCyclesLeaveNone == Spec => []CleanCyclesEndSessions
<1>1. Init => OneSession
  BY DEF Init, OneSession
<1>2. OneSession => CleanCyclesEndSessions
  BY DEF OneSession, CleanCyclesEndSessions
<1> QED  BY <1>1, <1>2, TypeInit, TypeStep, OneSessionStep, PTL DEF Spec

-----------------------------------------------------------------------------
\* What the label of a call weighs against its next request.
LEMMA RankOf ==
    ASSUME NEW o \in Owner, NEW k \in Call, left[o][k] \in Nat
    PROVE  /\ at[o][k] = "over" => Rank(o, k) = 6 * left[o][k]
           /\ at[o][k] = "resent" => Rank(o, k) = 6 * left[o][k] + 1
           /\ at[o][k] = "relogin" => Rank(o, k) = 6 * left[o][k] + 2
           /\ at[o][k] = "sent" => Rank(o, k) = 6 * left[o][k] + 3
           /\ at[o][k] = "login" => Rank(o, k) = 6 * left[o][k] + 4
           /\ at[o][k] = "ready" => Rank(o, k) = 6 * left[o][k] + 5
BY DEF Rank

\* The same of the next state.
LEMMA RankOfNext ==
    ASSUME NEW o \in Owner, NEW k \in Call, left'[o][k] \in Nat
    PROVE  /\ at'[o][k] = "over" => Rank(o, k)' = 6 * left'[o][k]
           /\ at'[o][k] = "resent" => Rank(o, k)' = 6 * left'[o][k] + 1
           /\ at'[o][k] = "relogin" => Rank(o, k)' = 6 * left'[o][k] + 2
           /\ at'[o][k] = "sent" => Rank(o, k)' = 6 * left'[o][k] + 3
           /\ at'[o][k] = "login" => Rank(o, k)' = 6 * left'[o][k] + 4
           /\ at'[o][k] = "ready" => Rank(o, k)' = 6 * left'[o][k] + 5
BY DEF Rank

\* Whatever a call meets with, it has less to do than before.
LEMMA CallDescends ==
    ASSUME TypeInv, NEW o \in Owner, NEW k \in Call,
           \/ Send(o, k) \/ LoggedIn(o, k) \/ LoginFails(o, k)
           \/ Granted(o, k) \/ Unauthorized(o, k) \/ RequestFails(o, k)
    PROVE  Rank(o, k)' < Rank(o, k)
<1> USE DEF TypeInv, TypeOK
<1>0. /\ left[o][k] \in Nat /\ left'[o][k] \in Nat /\ Requests \in Nat
      /\ at[o][k] # "over" => left[o][k] \in 1..Requests
  BY SessionAssumption, CallTypes DEF CountsFit
<1>1. CASE Send(o, k)
  <2>1. left'[o][k] = left[o][k] /\ at[o][k] = "ready" /\ at'[o][k] \in {"login", "sent"}
    BY <1>1 DEF Send
  <2> QED  BY <1>0, <2>1, RankOf, RankOfNext
<1>2. CASE LoggedIn(o, k)
  <2>1. /\ left'[o][k] = left[o][k]
        /\ \/ at[o][k] = "login" /\ at'[o][k] = "sent"
           \/ at[o][k] = "relogin" /\ at'[o][k] = "resent"
    BY <1>2 DEF LoggedIn
  <2> QED  BY <1>0, <2>1, RankOf, RankOfNext
<1>3. CASE Unauthorized(o, k)
  <2>1. left'[o][k] = left[o][k] /\ at[o][k] = "sent" /\ at'[o][k] = "relogin"
    BY <1>3 DEF Unauthorized, MayRetry
  <2> QED  BY <1>0, <2>1, RankOf, RankOfNext
<1>4. CASE LoginFails(o, k) \/ Granted(o, k) \/ RequestFails(o, k)
  <2>1. GoOnOrEnd(o, k) /\ at[o][k] \in {"sent", "resent", "login", "relogin"}
    BY <1>4 DEF LoginFails, Granted, RequestFails, GoOnOrEnd
  <2>2. \/ at'[o][k] \in {"over", "ready"} /\ left'[o][k] = left[o][k] - 1
        \/ at'[o][k] = "over" /\ left'[o][k] = 0
    BY <1>0, <2>1 DEF GoOnOrEnd, GoOn
  <2>3. Rank(o, k) > 6 * left[o][k] /\ left[o][k] > 0
    BY <1>0, <2>1, RankOf
  <2>4. Rank(o, k)' =< 6 * (left[o][k] - 1) + 5
    BY <1>0, <2>2, <2>3, RankOfNext
  <2>5. Rank(o, k) \in Nat /\ Rank(o, k)' \in Nat
    BY <1>0, <2>1, <2>2, <2>3, RankOf, RankOfNext
  <2> QED  BY <1>0, <2>3, <2>4, <2>5
<1> QED  BY <1>1, <1>2, <1>3, <1>4

\* The steps that leave the cycle where it is and touch a call are the calls' own.
LEMMA StandingSteps ==
    ASSUME Next, phase' = phase, ~UNCHANGED requests
    PROVE  CallStep
<1>1. ~Begin /\ ~Connect /\ ~ConnectFails
  BY DEF Begin, Connect, ConnectFails, CallsBegin, requests
<1>2. ~Disconnect /\ ~Disconnected
  BY DEF Disconnect, Disconnected, requests
<1>3. ~SessionEnds
  BY DEF SessionEnds
<1> QED  BY <1>1, <1>2, <1>3 DEF Next

\* No call is kept at its requests for ever, whatever vCenter refuses and whatever the other
\* calls do to the token they share: the part of CyclesEnd that needs no fairness.
THEOREM EveryStepCounts == Spec => CallsWindDown
<1> DEFINE WindsDown ==
      phase' = phase /\ ~UNCHANGED requests =>
          \E o \in Owner, k \in Call :
             /\ Rank(o, k)' < Rank(o, k)
             /\ \A p \in Owner, c \in Call : <<p, c>> # <<o, k>> => Rank(p, c)' = Rank(p, c)
<1>1. TypeInv /\ [Next]_vars => [WindsDown]_vars
  <2> SUFFICES ASSUME TypeInv, Next, phase' = phase, ~UNCHANGED requests
               PROVE  \E o \in Owner, k \in Call :
                        /\ Rank(o, k)' < Rank(o, k)
                        /\ \A p \in Owner, c \in Call :
                             <<p, c>> # <<o, k>> => Rank(p, c)' = Rank(p, c)
    OBVIOUS
  <2>1. CallStep
    BY StandingSteps
  <2>2. PICK o \in Owner, k \in Call :
          \/ Send(o, k) \/ LoggedIn(o, k) \/ LoginFails(o, k)
          \/ Granted(o, k) \/ Unauthorized(o, k) \/ RequestFails(o, k)
    BY <2>1 DEF CallStep
  <2>3. Rank(o, k)' < Rank(o, k)
    BY <2>2, CallDescends
  <2>4. \A p \in Owner, c \in Call : <<p, c>> # <<o, k>> =>
          at'[p][c] = at[p][c] /\ left'[p][c] = left[p][c]
    BY <2>2, CallTypes
  <2>5. \A p \in Owner, c \in Call : <<p, c>> # <<o, k>> => Rank(p, c)' = Rank(p, c)
    BY <2>4 DEF Rank
  <2> QED  BY <2>3, <2>5
<1> QED  BY <1>1, TypeInit, TypeStep, PTL DEF Spec, CallsWindDown
=============================================================================
