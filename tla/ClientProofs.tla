---------------------------- MODULE ClientProofs ----------------------------
(***************************************************************************)
(* Theorems about AgentClient, for any requests and any number of          *)
(* connections and events.                                                 *)
(*                                                                         *)
(* That the table of pending responses holds those who wait rests on the   *)
(* order in which each helper registers and sends; that a lost connection  *)
(* fails them, on no message being sent once the loop that would read its  *)
(* reply has ended; and that a reply is taken for the attempt it answers,  *)
(* on there being one reply at most under way for a request.               *)
(***************************************************************************)
EXTENDS AgentClient, SequenceTheorems, TLAPS

Calls == [at : {"new", "gate", "sending", "waiting", "creating",
                "answered", "failed"},
          conn : Connections \cup {0}, sent : BOOLEAN,
          attempt : 0..2, result : {"none", "ok", "error", "lost"},
          answer : 0..2, within : Connections \cup {0}]

\* The n-th message that the loop of c has still to read replies to r.
IsReply(c, n, r) ==
    /\ n \in 1..Len(inbox[c])
    /\ inbox[c][n].type = "response"
    /\ inbox[c][n].request = r

CallFits(r) ==
    /\ call[r].at \in {"new", "gate"}
          => call[r].attempt = 0 /\ call[r].result = "none"
    /\ call[r].at = "new" => call[r].within = 0
    /\ call[r].at = "creating"
          => call[r].attempt = 1 /\ call[r].result = "error"
    /\ call[r].at \in {"sending", "waiting"}
          => call[r].attempt \in 1..2 /\ call[r].conn \in Connections
    /\ call[r].at = "sending" /\ KindOf[r] \notin RegisterFirst
          => call[r].result = "none"

\* A handler makes one request at a time.
CallsFit ==
    /\ \A r \in Requests : CallFits(r)
    /\ \A q, r \in Requests :
          call[q].within = call[r].within /\ call[q].within # 0 => q = r

\* A loop does not end while its websocket is open, but for a close.
LoopsFit ==
    \A c \in Connections :
        loop[c] = "ended" => line[c] # "open" \/ closing = c

\* LossFailsWaiters, already for a send that is under way.
WaitersFit ==
    \A r \in pending :
        /\ KindOf[r] \in RegisterFirst
        /\ call[r].at = "waiting" \/ call[r].sent
        /\ loop[call[r].conn] = "ended"
        => line[call[r].conn] = "closed" \/ closing = call[r].conn

\* One reply to r at most is to be given or to be read, to its present
\* attempt, and then it has been given none; what it was given was a reply.
ReplyFits(r) ==
    /\ \A q \in asked : q[1] = r =>
          /\ q[2] = call[r].attempt
          /\ call[r].result \in {"none", "lost"}
          /\ \A p \in asked : p[1] = r => p = q
          /\ \A c \in Connections, n \in Nat : ~IsReply(c, n, r)
    /\ \A c \in Connections, n \in Nat : IsReply(c, n, r) =>
          /\ inbox[c][n].attempt = call[r].attempt
          /\ call[r].result \in {"none", "lost"}
          /\ r \in replied
          /\ \A d \in Connections, k \in Nat :
                IsReply(d, k, r) => d = c /\ k = n
    /\ call[r].result \in {"ok", "error"} => r \in replied

RepliesFit == \A r \in Requests : ~Ended(r) => ReplyFits(r)

ClientInv ==
    /\ TypeOK
    /\ CallsFit
    /\ LoopsFit
    /\ WaitersFit
    /\ RepliesFit
    /\ PendingIsUnderway
    /\ AnswersMatchAttempt

-----------------------------------------------------------------------------
(***************************************************************************)
(* The state, part by part.                                                *)
(***************************************************************************)
LinkInv ==
    /\ ws \in Connections \cup {0}
    /\ closing \in {0, ws}
    /\ line \in [Connections -> {"unused", "open", "lost", "closed"}]
    /\ loop \in [Connections -> {"none", "receiving", "emitting", "ended"}]
    /\ wcp \in [Connections -> {"none", "hello", "offered", "validating",
                                "told", "accepted", "refused"}]
    /\ complete \in BOOLEAN
    /\ events \in 0..MaxEvents
    /\ LoopsFit

CallInv ==
    /\ pending \subseteq Requests
    /\ call \in [Requests -> Calls]
    /\ CallsFit
    /\ PendingIsUnderway

MailInv ==
    /\ inbox \in [Connections -> Seq(Messages)]
    /\ asked \subseteq Requests \X (1..2) \X Connections
    /\ replied \subseteq Requests
    /\ RepliesFit
    /\ AnswersMatchAttempt

LEMMA ClientInvParts ==
    ClientInv <=> LinkInv /\ CallInv /\ MailInv /\ WaitersFit
  BY DEF ClientInv, LinkInv, CallInv, MailInv, TypeOK, Calls

LEMMA ClientInit == Init => ClientInv
<1> SUFFICES ASSUME Init PROVE LinkInv /\ CallInv /\ MailInv /\ WaitersFit
  BY ClientInvParts
<1>1. LinkInv
  <2>1. LoopsFit
    BY DEF Init, LoopsFit
  <2>2. events \in 0..MaxEvents
    BY BoundsAreNat DEF Init
  <2> QED
    BY <2>1, <2>2 DEF Init, LinkInv
<1>2. CallInv
  <2>1. call \in [Requests -> Calls]
    BY DEF Init, NoCall, Calls
  <2>2. \A r \in Requests : call[r] = NoCall
    BY DEF Init
  <2>3. CallsFit
    BY <2>2 DEF CallsFit, CallFits, NoCall
  <2>4. PendingIsUnderway /\ pending \subseteq Requests
    BY <2>2 DEF Init, PendingIsUnderway, NoCall
  <2> QED
    BY <2>1, <2>3, <2>4 DEF CallInv
<1>3. MailInv
  <2>1. inbox \in [Connections -> Seq(Messages)]
    <3>1. <<>> \in Seq(Messages)
      OBVIOUS
    <3> QED
      BY <3>1 DEF Init
  <2>2. \A r \in Requests, c \in Connections, n \in Nat : ~IsReply(c, n, r)
    BY DEF Init, IsReply
  <2>3. RepliesFit
    BY <2>2 DEF Init, RepliesFit, ReplyFits, NoCall
  <2>4. AnswersMatchAttempt
    BY DEF Init, AnswersMatchAttempt, NoCall
  <2> QED
    BY <2>1, <2>3, <2>4 DEF Init, MailInv
<1>4. WaitersFit
  BY DEF Init, WaitersFit
<1> QED
  BY <1>1, <1>2, <1>3, <1>4

-----------------------------------------------------------------------------
(***************************************************************************)
(* The steps of a caller.                                                  *)
(***************************************************************************)
OthersStay(r) == \A q \in Requests \ {r} : call'[q] = call[q]

ToGate(r) ==
    /\ call[r].at = "new" /\ call'[r].at = "gate"
    /\ call'[r].attempt = 0 /\ call'[r].result = "none"
    /\ pending' = pending /\ asked' = asked

ToSend(r) ==
    /\ call[r].at \in {"new", "gate", "creating"}
    /\ ws # 0
    /\ call'[r].at = "sending" /\ call'[r].conn = ws
    /\ call'[r].sent = (line[ws] = "open")
    /\ call'[r].attempt = call[r].attempt + 1 /\ call'[r].result = "none"
    /\ pending' = IF KindOf[r] \in RegisterFirst
                  THEN pending \cup {r} ELSE pending
    /\ asked' = IF line[ws] = "open"
                THEN asked \cup {<<r, call[r].attempt + 1, ws>>} ELSE asked

ToWait(r) ==
    /\ call[r].at = "sending" /\ call[r].sent
    /\ call'[r] = [call[r] EXCEPT !.at = "waiting"]
    /\ pending' = IF KindOf[r] \in RegisterFirst
                  THEN pending ELSE pending \cup {r}
    /\ asked' = asked

ToCreate(r) ==
    /\ call[r].at = "waiting"
    /\ call[r].result = "error" /\ call[r].attempt = 1
    /\ call'[r] = [call[r] EXCEPT !.at = "creating"]
    /\ pending' = pending /\ asked' = asked

ToEnd(r) ==
    /\ call[r].at \in {"gate", "sending", "waiting", "creating"}
    /\ \/ call'[r] = End("failed")
       \/ /\ call'[r] = End("answered")
          /\ call[r].result \in {"ok", "error"}
    /\ pending' = pending \ {r}
    /\ asked' = asked

LEMMA EndIsCall ==
    \A how \in {"answered", "failed"} :
        /\ End(how) \in Calls /\ End(how).at = how
        /\ End(how).result = "none" /\ End(how).within = 0
<1>1. NoCall \in Calls /\ NoCall.result = "none" /\ NoCall.within = 0
  BY DEF NoCall, Calls
<1> SUFFICES ASSUME NEW how \in {"answered", "failed"}
             PROVE  /\ End(how) \in Calls /\ End(how).at = how
                    /\ End(how).result = "none" /\ End(how).within = 0
  OBVIOUS
<1> QED
  BY <1>1 DEF End, Calls

LEMMA SendResult ==
    ASSUME LinkInv, CallInv, NEW r \in Requests, NEW state \in Calls,
           call[r].at \in {"new", "gate", "creating"},
           state.attempt = call[r].attempt,
           Send(r, state)
    PROVE  /\ call' \in [Requests -> Calls]
           /\ OthersStay(r)
           /\ ws = 0 => call'[r] = End("failed") /\ UNCHANGED <<pending, asked>>
           /\ ws # 0 => ToSend(r) /\ call'[r].within = state.within
<1>1. /\ call \in [Requests -> Calls] /\ ws \in Connections \cup {0}
      /\ line \in [Connections -> {"unused", "open", "lost", "closed"}]
  BY DEF CallInv, LinkInv
<1>2. call[r].attempt \in 0..1
  BY DEF CallInv, CallsFit, CallFits
<1>3. CASE ws = 0
  BY <1>1, <1>3, EndIsCall DEF Send, OthersStay
<1>4. CASE ws # 0
  <2> DEFINE new == [state EXCEPT !.at = "sending", !.conn = ws,
                                  !.sent = line[ws] = "open",
                                  !.attempt = @ + 1, !.result = "none"]
  <2>1. call' = [call EXCEPT ![r] = new]
    BY <1>4 DEF Send
  <2>2. /\ new.at = "sending" /\ new.conn = ws /\ new.result = "none"
        /\ new.attempt = state.attempt + 1 /\ new.within = state.within
    BY DEF Calls
  <2>3. new.sent = (line[ws] = "open")
    BY Zenon DEF Calls
  <2>4. new \in Calls
    <3>1. state.attempt + 1 \in 0..2 /\ (line[ws] = "open") \in BOOLEAN
      BY <1>2
    <3> QED
      BY <1>1, <3>1 DEF Calls
  <2>5. /\ pending' = IF KindOf[r] \in RegisterFirst
                      THEN pending \cup {r} ELSE pending
        /\ asked' = IF line[ws] = "open"
                    THEN asked \cup {<<r, call[r].attempt + 1, ws>>} ELSE asked
    BY <1>4 DEF Send
  <2> HIDE DEF new
  <2>6. call'[r] = new /\ call' \in [Requests -> Calls] /\ OthersStay(r)
    BY <1>1, <2>1, <2>4 DEF OthersStay
  <2>7. ToSend(r)
    BY <1>4, <2>2, <2>3, <2>5, <2>6 DEF ToSend
  <2> QED
    BY <1>4, <2>2, <2>6, <2>7
<1> QED
  BY <1>3, <1>4

\* Every step of a caller is one of these.
LEMMA CallerResult ==
    ASSUME LinkInv, CallInv, NEW r \in Requests,
           (\E c \in Connections \cup {0} : Start(r, c)) \/ Caller(r)
    PROVE  /\ call' \in [Requests -> Calls]
           /\ OthersStay(r)
           /\ ToGate(r) \/ ToSend(r) \/ ToWait(r) \/ ToCreate(r) \/ ToEnd(r)
           /\ \/ call'[r].within \in {0, call[r].within}
              \/ \A q \in Requests : call[q].within # call'[r].within
<1>1. call \in [Requests -> Calls] /\ call[r] \in Calls
  BY DEF CallInv
<1>2. CallFits(r)
  BY DEF CallInv, CallsFit
<1>3. r \notin pending \/ call[r].at \in {"sending", "waiting"}
  BY DEF CallInv, PendingIsUnderway
<1>4. ASSUME NEW how \in {"answered", "failed"},
             call' = [call EXCEPT ![r] = End(how)]
      PROVE  /\ call' \in [Requests -> Calls] /\ OthersStay(r)
             /\ call'[r] = End(how) /\ call'[r].within = 0
  BY <1>1, <1>4, EndIsCall DEF OthersStay
<1>5. ASSUME NEW at \in {"waiting", "creating"},
             call' = [call EXCEPT ![r].at = at]
      PROVE  /\ call' \in [Requests -> Calls] /\ OthersStay(r)
             /\ call'[r] = [call[r] EXCEPT !.at = at]
             /\ call'[r].within = call[r].within
  <2>1. call' = [call EXCEPT ![r] = [@ EXCEPT !.at = at]]
    BY <1>5
  <2>2. call'[r] = [call[r] EXCEPT !.at = at]
    BY <1>1, <2>1
  <2>3. call'[r] \in Calls /\ call'[r].within = call[r].within
    BY <1>1, <2>2 DEF Calls
  <2> QED
    BY <1>1, <2>1, <2>2, <2>3 DEF OthersStay
<1>6. ASSUME NEW c \in Connections \cup {0}, Start(r, c)
      PROVE  /\ call' \in [Requests -> Calls] /\ OthersStay(r)
             /\ ToGate(r) \/ ToSend(r)
             /\ \/ call'[r].within = 0
                \/ \A q \in Requests : call[q].within # call'[r].within
  <2> DEFINE state == [NoCall EXCEPT !.within = c]
  <2>1. /\ state \in Calls /\ state.within = c /\ state.at = "new"
        /\ state.attempt = 0 /\ state.result = "none"
    <3>1. /\ NoCall \in Calls /\ NoCall.at = "new"
          /\ NoCall.attempt = 0 /\ NoCall.result = "none"
      BY DEF NoCall, Calls
    <3> QED
      BY <3>1 DEF Calls
  <2>2. call[r].at = "new" /\ ws # 0
        /\ (c # 0 => \A q \in Requests : call[q].within # c)
    BY <1>6 DEF Start
  <2>3. call[r].attempt = 0
    BY <1>2, <2>2 DEF CallFits
  <2>4. CASE KindOf[r] \in Gated /\ ~complete
    <3>1. /\ call' = [call EXCEPT ![r] = [state EXCEPT !.at = "gate"]]
          /\ pending' = pending /\ asked' = asked
      BY <1>6, <2>4 DEF Start
    <3> HIDE DEF state
    <3>2. call'[r] = [state EXCEPT !.at = "gate"]
      BY <1>1, <3>1
    <3>3. /\ call'[r] \in Calls /\ call'[r].at = "gate"
          /\ call'[r].attempt = 0 /\ call'[r].result = "none"
          /\ call'[r].within = c
      BY <2>1, <3>2 DEF Calls
    <3>4. call' \in [Requests -> Calls] /\ OthersStay(r)
      BY <1>1, <3>1, <3>2, <3>3 DEF OthersStay
    <3>5. ToGate(r)
      BY <2>2, <3>1, <3>3 DEF ToGate
    <3> QED
      BY <2>2, <3>3, <3>4, <3>5
  <2>5. CASE ~(KindOf[r] \in Gated /\ ~complete)
    <3>1. Send(r, state)
      BY <1>6, <2>5 DEF Start
    <3> HIDE DEF state
    <3> QED
      BY <2>1, <2>2, <2>3, <3>1, SendResult
  <2> QED
    BY <2>4, <2>5
<1>7. ASSUME call[r].at \in {"gate", "creating"},
             \/ Send(r, call[r])
             \/ /\ call' = [call EXCEPT ![r] = End("failed")]
                /\ UNCHANGED <<pending, asked>>
      PROVE  /\ call' \in [Requests -> Calls] /\ OthersStay(r)
             /\ ToSend(r) \/ ToEnd(r)
             /\ call'[r].within \in {0, call[r].within}
  <2>1. pending = pending \ {r}
    BY <1>3, <1>7
  <2>2. CASE Send(r, call[r])
    <3>1. /\ call' \in [Requests -> Calls] /\ OthersStay(r)
          /\ ws = 0 => call'[r] = End("failed") /\ UNCHANGED <<pending, asked>>
          /\ ws # 0 => ToSend(r) /\ call'[r].within = call[r].within
      BY <1>1, <1>7, <2>2, SendResult
    <3> QED
      BY <1>7, <2>1, <3>1, EndIsCall DEF ToEnd
  <2>3. CASE /\ call' = [call EXCEPT ![r] = End("failed")]
             /\ UNCHANGED <<pending, asked>>
    BY <1>4, <1>7, <2>1, <2>3 DEF ToEnd
  <2> QED
    BY <1>7, <2>2, <2>3
<1>8. CASE PassGate(r) \/ Created(r)
  <2>1. /\ call[r].at \in {"gate", "creating"}
        /\ \/ Send(r, call[r])
           \/ /\ call' = [call EXCEPT ![r] = End("failed")]
              /\ UNCHANGED <<pending, asked>>
    BY <1>8 DEF PassGate, Created
  <2> QED
    BY <1>7, <2>1
<1>9. CASE SendReturns(r)
  <2>1. call[r].at = "sending" /\ asked' = asked
    BY <1>9 DEF SendReturns, agentVars
  <2>2. CASE /\ call[r].sent /\ call' = [call EXCEPT ![r].at = "waiting"]
             /\ pending' = pending \cup IF KindOf[r] \in RegisterFirst
                                        THEN {} ELSE {r}
    BY <1>5, <2>1, <2>2 DEF ToWait
  <2>3. CASE /\ call' = [call EXCEPT ![r] = End("failed")]
             /\ pending' = pending \ {r}
    BY <1>4, <2>1, <2>3 DEF ToEnd
  <2> QED
    BY <1>9, <2>2, <2>3 DEF SendReturns
<1>10. CASE Resume(r)
  <2>1. /\ call[r].at = "waiting" /\ call[r].result # "none"
        /\ asked' = asked /\ pending' = pending
    BY <1>10 DEF Resume, agentVars
  <2>2. pending = pending \ {r}
    BY <2>1 DEF CallInv, PendingIsUnderway
  <2>3. CASE call' = [call EXCEPT ![r] =
                        End(IF call[r].result = "lost" THEN "failed"
                            ELSE "answered")]
    <3>1. CASE call[r].result = "lost"
      BY <1>4, <2>1, <2>2, <2>3, <3>1 DEF ToEnd
    <3>2. CASE call[r].result # "lost"
      <4>1. call[r].result \in {"ok", "error"}
        BY <1>1, <2>1, <3>2 DEF Calls
      <4> QED
        BY <1>4, <2>1, <2>2, <2>3, <3>2, <4>1 DEF ToEnd
    <3> QED
      BY <3>1, <3>2
  <2>4. CASE /\ call[r].result = "error" /\ call[r].attempt = 1
             /\ call' = [call EXCEPT ![r].at = "creating"]
    BY <1>5, <2>1, <2>4 DEF ToCreate
  <2> QED
    BY <1>10, <2>3, <2>4 DEF Resume
<1>11. CASE Timeout(r)
  BY <1>4, <1>11 DEF Timeout, ToEnd, agentVars
<1> QED
  BY <1>6, <1>8, <1>9, <1>10, <1>11 DEF Caller

LEMMA CallerFrame ==
    ASSUME NEW r \in Requests,
           (\E c \in Connections \cup {0} : Start(r, c)) \/ Caller(r)
    PROVE  UNCHANGED <<ws, line, loop, inbox, closing, wcp, complete, replied,
                       events>>
  BY DEF Start, Caller, PassGate, SendReturns, Resume, Timeout, Created,
     agentVars, handshakeVars

-----------------------------------------------------------------------------
(***************************************************************************)
(* The steps that end or answer requests.                                  *)
(***************************************************************************)

\* Each request in the table is lost; those of a handler that is cancelled
\* end; the others stay.
AllLost ==
    /\ pending' = {}
    /\ asked' = asked
    /\ call' \in [Requests -> Calls]
    /\ \A q \in Requests :
          \/ q \notin pending /\ call'[q] = call[q]
          \/ q \in pending /\ call'[q] = [call[q] EXCEPT !.result = "lost"]
          \/ /\ ws # 0 /\ call[q].within = ws
             /\ ~Ended(q) /\ call'[q] = End("failed")

LEMMA LostIsCall ==
    ASSUME CallInv, NEW q \in Requests
    PROVE  [call[q] EXCEPT !.result = "lost"] \in Calls
<1>1. call[q] \in Calls
  BY DEF CallInv
<1> QED
  BY <1>1 DEF Calls

LEMMA LossResult ==
    ASSUME LinkInv, CallInv, (\E c \in Connections : LoopEnds(c)) \/ StartClose
    PROVE  AllLost \/ UNCHANGED <<pending, call, asked>>
<1>1. call \in [Requests -> Calls] /\ \A q \in Requests : call[q] \in Calls
  BY DEF CallInv
<1>2. asked' = asked
  BY DEF LoopEnds, StartClose, agentVars
<1>3. CASE \E c \in Connections : LoopEnds(c)
  <2>1. pending' = {} /\ call' = FailAll
    BY <1>3 DEF LoopEnds
  <2>2. ASSUME NEW q \in Requests
        PROVE  /\ call'[q] \in Calls
               /\ \/ q \notin pending /\ call'[q] = call[q]
                  \/ /\ q \in pending
                     /\ call'[q] = [call[q] EXCEPT !.result = "lost"]
    BY <1>1, <2>1, LostIsCall DEF FailAll
  <2>3. call' \in [Requests -> Calls]
    BY <2>1, <2>2 DEF FailAll
  <2> QED
    BY <1>2, <2>1, <2>2, <2>3 DEF AllLost
<1>4. CASE StartClose /\ loop[ws] # "ended"
  <2>1. /\ ws # 0 /\ pending' = {}
        /\ call' = [r \in Requests |->
                       IF call[r].within = ws /\ ~Ended(r)
                       THEN End("failed") ELSE FailAll[r]]
    BY <1>4 DEF StartClose
  <2>2. ASSUME NEW q \in Requests
        PROVE  /\ call'[q] \in Calls
               /\ \/ q \notin pending /\ call'[q] = call[q]
                  \/ /\ q \in pending
                     /\ call'[q] = [call[q] EXCEPT !.result = "lost"]
                  \/ /\ ws # 0 /\ call[q].within = ws
                     /\ ~Ended(q) /\ call'[q] = End("failed")
    <3>1. CASE call[q].within = ws /\ ~Ended(q)
      BY <2>1, <3>1, EndIsCall
    <3>2. CASE ~(call[q].within = ws /\ ~Ended(q))
      <4>1. call'[q] = FailAll[q]
        BY <2>1, <3>2
      <4> QED
        BY <1>1, <4>1, LostIsCall DEF FailAll
    <3> QED
      BY <3>1, <3>2
  <2>3. call' \in [Requests -> Calls]
    BY <2>1, <2>2
  <2> QED
    BY <1>2, <2>1, <2>2, <2>3 DEF AllLost
<1>5. CASE StartClose /\ loop[ws] = "ended"
  BY <1>2, <1>5 DEF StartClose
<1> QED
  BY <1>3, <1>4, <1>5

\* The loop reads a message; m replies to r, which was in the table.
Resolved(r, m) ==
    /\ r \in pending /\ pending' = pending \ {r}
    /\ call' \in [Requests -> Calls] /\ OthersStay(r)
    /\ call'[r].result \in {"ok", "error"} /\ call'[r].answer = m.attempt
    /\ call'[r].at = call[r].at /\ call'[r].conn = call[r].conn
    /\ call'[r].sent = call[r].sent /\ call'[r].attempt = call[r].attempt
    /\ call'[r].within = call[r].within

LEMMA HeadOfInbox ==
    ASSUME MailInv, NEW c \in Connections, inbox[c] # <<>>
    PROVE  /\ Head(inbox[c]) \in Messages /\ Head(inbox[c]) = inbox[c][1]
           /\ 1 \in 1..Len(inbox[c])
           /\ Tail(inbox[c]) \in Seq(Messages)
<1>1. inbox[c] \in Seq(Messages)
  BY DEF MailInv
<1> QED
  BY <1>1

LEMMA ReceiveResult ==
    ASSUME CallInv, MailInv, NEW c \in Connections, Receive(c)
    PROVE  LET m == Head(inbox[c])
           IN  \/ UNCHANGED <<pending, call>>
               \/ /\ IsReply(c, 1, m.request) /\ m.request \in Requests
                  /\ Resolved(m.request, m)
<1> DEFINE m == Head(inbox[c])
<1>1. m \in Messages /\ m = inbox[c][1] /\ 1 \in 1..Len(inbox[c])
  BY HeadOfInbox DEF Receive
<1>2. \/ UNCHANGED <<pending, call>>
      \/ m.type = "response" /\ Resolve(m)
  BY DEF Receive
<1> HIDE DEF m
<1>3. CASE m.type = "response" /\ Resolve(m)
  <2>1. PICK r \in Requests : r = m.request
    BY <1>1, <1>3 DEF Messages
  <2>2. m.attempt \in 1..2
    BY <1>1, <1>3 DEF Messages
  <2>3. IsReply(c, 1, r)
    BY <1>1, <1>3, <2>1 DEF IsReply
  <2>4. call \in [Requests -> Calls] /\ call[r] \in Calls
    BY DEF CallInv
  <2>5. CASE r \notin pending
    BY <1>3, <2>1, <2>5 DEF Resolve
  <2>6. CASE r \in pending
    <3> DEFINE how == IF m.ok THEN "ok" ELSE "error"
    <3>3. how \in {"ok", "error"}
      OBVIOUS
    <3> DEFINE new == [call[r] EXCEPT !.result = how, !.answer = m.attempt]
    <3>1. pending' = pending \ {r}
      BY <1>3, <2>1 DEF Resolve
    <3>2. call' = [call EXCEPT ![r].result = how, ![r].answer = m.attempt]
      BY <1>3, <2>1, <2>6, Zenon DEF Resolve
    <3> HIDE DEF how
    <3>4. call' = [call EXCEPT ![r] = new] /\ call'[r] = new
      BY <2>4, <3>2
    <3>5. /\ new \in Calls /\ new.result = how /\ new.answer = m.attempt
          /\ new.at = call[r].at /\ new.conn = call[r].conn
          /\ new.attempt = call[r].attempt /\ new.within = call[r].within
      <4>1. PICK n \in 0..2 : n = m.attempt
        BY <2>2
      <4>2. PICK h \in {"ok", "error"} : h = how
        BY <3>3
      <4>3. new = [call[r] EXCEPT !.result = h, !.answer = n]
        BY <4>1, <4>2
      <4> HIDE DEF new
      <4>4. /\ new \in Calls /\ new.result = h /\ new.answer = n
            /\ new.at = call[r].at /\ new.conn = call[r].conn
            /\ new.attempt = call[r].attempt /\ new.within = call[r].within
        BY <2>4, <4>3 DEF Calls
      <4> QED
        BY <4>1, <4>2, <4>4
    <3>6. new.sent = call[r].sent
      BY <2>4, Zenon DEF Calls
    <3> HIDE DEF new
    <3>7. call' \in [Requests -> Calls] /\ OthersStay(r)
      BY <2>4, <3>4, <3>5 DEF OthersStay
    <3>8. Resolved(r, m)
      BY <2>6, <3>1, <3>3, <3>4, <3>5, <3>6, <3>7 DEF Resolved
    <3> QED
      BY <2>1, <2>3, <3>8 DEF m
  <2> QED
    BY <2>5, <2>6 DEF m
<1> QED
  BY <1>2, <1>3

-----------------------------------------------------------------------------
(***************************************************************************)
(* The callers and the table of those who wait.                            *)
(***************************************************************************)
Underway(r) ==
    /\ call[r].result = "none"
    /\ \/ call[r].at = "waiting"
       \/ call[r].at = "sending" /\ KindOf[r] \in RegisterFirst

LEMMA OneCallChanges ==
    ASSUME CallInv, NEW r \in Requests,
           call' \in [Requests -> Calls], OthersStay(r),
           CallFits(r)', pending' \subseteq pending \cup {r},
           pending \subseteq pending' \cup {r},
           r \in pending' <=> Underway(r)',
           \/ call'[r].within \in {0, call[r].within}
           \/ \A q \in Requests : call[q].within # call'[r].within
    PROVE  CallInv'
<1>1. \A q \in Requests \ {r} : CallFits(q)'
  BY DEF OthersStay, CallInv, CallsFit, CallFits
<1>2. \A p, q \in Requests :
         call'[p].within = call'[q].within /\ call'[p].within # 0 => p = q
  BY DEF OthersStay, CallInv, CallsFit
<1>3. CallsFit'
  BY <1>1, <1>2 DEF CallsFit
<1>4. \A q \in Requests : q \in pending' <=> Underway(q)'
  BY DEF OthersStay, CallInv, PendingIsUnderway, Underway
<1>5. PendingIsUnderway'
  BY <1>4 DEF PendingIsUnderway, Underway
<1> QED
  BY <1>3, <1>5 DEF CallInv

LEMMA CallerKeepsCalls ==
    ASSUME LinkInv, CallInv, NEW r \in Requests,
           (\E c \in Connections \cup {0} : Start(r, c)) \/ Caller(r)
    PROVE  CallInv'
<1>1. CallFits(r) /\ call[r] \in Calls /\ (r \in pending <=> Underway(r))
  BY DEF CallInv, CallsFit, PendingIsUnderway, Underway
<1>2. ws \in Connections \cup {0}
  BY DEF LinkInv
<1>3. CASE ToGate(r)
  <2>1. CallFits(r)' /\ (r \in pending' <=> Underway(r)')
    BY <1>1, <1>3 DEF ToGate, CallFits, Underway
  <2> QED
    BY <1>3, <2>1, CallerResult, OneCallChanges DEF ToGate
<1>4. CASE ToSend(r)
  <2>1. call[r].attempt \in 0..1
    BY <1>1, <1>4 DEF ToSend, CallFits
  <2>2. CallFits(r)'
    BY <1>2, <1>4, <2>1 DEF ToSend, CallFits
  <2>3. r \in pending' <=> Underway(r)'
    BY <1>1, <1>4 DEF ToSend, Underway
  <2> QED
    BY <1>4, <2>2, <2>3, CallerResult, OneCallChanges DEF ToSend
<1>5. CASE ToWait(r)
  <2>1. /\ call'[r].at = "waiting" /\ call'[r].result = call[r].result
        /\ call'[r].attempt = call[r].attempt /\ call'[r].conn = call[r].conn
    BY <1>1, <1>5 DEF ToWait, Calls
  <2>2. CallFits(r)' /\ (r \in pending' <=> Underway(r)')
    BY <1>1, <1>5, <2>1 DEF ToWait, CallFits, Underway
  <2> QED
    BY <1>5, <2>2, CallerResult, OneCallChanges DEF ToWait
<1>6. CASE ToCreate(r)
  <2>1. /\ call'[r].at = "creating" /\ call'[r].result = "error"
        /\ call'[r].attempt = 1
    BY <1>1, <1>6 DEF ToCreate, Calls
  <2>2. CallFits(r)' /\ (r \in pending' <=> Underway(r)')
    BY <1>1, <1>6, <2>1 DEF ToCreate, CallFits, Underway
  <2> QED
    BY <1>6, <2>2, CallerResult, OneCallChanges DEF ToCreate
<1>7. CASE ToEnd(r)
  <2>1. call'[r].at \in {"answered", "failed"}
    BY <1>7, EndIsCall DEF ToEnd
  <2>2. CallFits(r)' /\ (r \in pending' <=> Underway(r)')
    BY <1>7, <2>1 DEF ToEnd, CallFits, Underway
  <2> QED
    BY <1>7, <2>2, CallerResult, OneCallChanges DEF ToEnd
<1> QED
  BY <1>3, <1>4, <1>5, <1>6, <1>7, CallerResult

LEMMA ReceiveKeepsCalls ==
    ASSUME CallInv, MailInv, NEW c \in Connections, Receive(c)
    PROVE  CallInv'
<1>1. CASE UNCHANGED <<pending, call>>
  BY <1>1 DEF CallInv, CallsFit, CallFits, PendingIsUnderway
<1>2. ASSUME NEW r \in Requests, NEW m, Resolved(r, m)
      PROVE  CallInv'
  <2>1. /\ CallFits(r) /\ call[r].at \in {"sending", "waiting"}
        /\ call[r].at = "sending" => KindOf[r] \in RegisterFirst
    BY <1>2 DEF CallInv, CallsFit, PendingIsUnderway, Resolved
  <2>2. CallFits(r)' /\ r \notin pending' /\ ~Underway(r)'
    BY <1>2, <2>1 DEF CallFits, Underway, Resolved
  <2> QED
    BY <1>2, <2>2, OneCallChanges DEF Resolved
<1> QED
  BY <1>1, <1>2, ReceiveResult

LEMMA LossKeepsCalls ==
    ASSUME CallInv, AllLost
    PROVE  CallInv'
<1>1. ASSUME NEW q \in Requests
      PROVE  /\ CallFits(q)' /\ ~Underway(q)'
             /\ call'[q].within \in {0, call[q].within}
  <2>1. CallFits(q) /\ call[q] \in Calls /\ (q \in pending <=> Underway(q))
    BY DEF CallInv, CallsFit, PendingIsUnderway, Underway
  <2>2. CASE q \notin pending /\ call'[q] = call[q]
    BY <2>1, <2>2 DEF CallFits, Underway
  <2>3. CASE q \in pending /\ call'[q] = [call[q] EXCEPT !.result = "lost"]
    <3>1. /\ call'[q].result = "lost" /\ call'[q].at = call[q].at
          /\ call'[q].attempt = call[q].attempt
          /\ call'[q].conn = call[q].conn /\ call'[q].within = call[q].within
      BY <2>1, <2>3 DEF Calls
    <3> QED
      BY <2>1, <2>3, <3>1 DEF CallFits, Underway
  <2>4. CASE call'[q] = End("failed")
    BY <2>4, EndIsCall DEF CallFits, Underway
  <2> QED
    BY <2>2, <2>3, <2>4 DEF AllLost
<1>2. CallsFit'
  <2>1. \A p, q \in Requests :
           call'[p].within = call'[q].within /\ call'[p].within # 0 => p = q
    BY <1>1 DEF CallInv, CallsFit
  <2> QED
    BY <1>1, <2>1 DEF CallsFit
<1>3. PendingIsUnderway'
  BY <1>1 DEF AllLost, PendingIsUnderway, Underway
<1> QED
  BY <1>2, <1>3 DEF CallInv, AllLost

LEMMA CallsKept ==
    ASSUME ClientInv, [Next]_vars
    PROVE  CallInv'
<1> USE ClientInvParts
<1>1. ASSUME NEW r \in Requests,
             (\E c \in Connections \cup {0} : Start(r, c)) \/ Caller(r)
      PROVE  CallInv'
  BY <1>1, CallerKeepsCalls
<1>2. ASSUME NEW c \in Connections, Receive(c)
      PROVE  CallInv'
  BY <1>2, ReceiveKeepsCalls
<1>3. CASE UNCHANGED <<pending, call>>
  BY <1>3 DEF CallInv, CallsFit, CallFits, PendingIsUnderway
<1>4. CASE (\E c \in Connections : LoopEnds(c)) \/ StartClose
  BY <1>3, <1>4, LossResult, LossKeepsCalls
<1>5. CASE UNCHANGED vars
  BY <1>3, <1>5 DEF vars
<1>6. CASE FinishClose
  BY <1>3, <1>6 DEF FinishClose
<1>7. ASSUME NEW c \in Connections,
             \/ Connect(c) \/ Emitted(c) \/ AgentHandshake(c)
             \/ AgentEvent(c) \/ Lose(c)
      PROVE  CallInv'
  BY <1>3, <1>7
  DEF Connect, Emitted, AgentHandshake, AgentEvent, Lose
<1>8. ASSUME NEW r \in Requests, NEW n \in 1..2, NEW c \in Connections,
             NEW ok \in BOOLEAN, AgentReply(r, n, c, ok)
      PROVE  CallInv'
  BY <1>3, <1>8 DEF AgentReply
<1> QED
  BY <1>1, <1>2, <1>4, <1>5, <1>6, <1>7, <1>8 DEF Next, ReceiveLoop

-----------------------------------------------------------------------------
(***************************************************************************)
(* The connections.                                                        *)
(***************************************************************************)
LEMMA ConnectionNumbers == 0 \notin Connections /\ Connections \subseteq Nat
  BY BoundsAreNat DEF Connections

LEMMA LinkKept ==
    ASSUME ClientInv, [Next]_vars
    PROVE  LinkInv'
<1>1. LinkInv
  BY ClientInvParts
<1>2. CASE UNCHANGED <<ws, closing, line, loop, wcp, complete, events>>
  BY <1>1, <1>2 DEF LinkInv, LoopsFit
<1>3. CASE UNCHANGED vars
  BY <1>2, <1>3 DEF vars, handshakeVars, agentVars
<1>4. ASSUME NEW r \in Requests,
             (\E c \in Connections \cup {0} : Start(r, c)) \/ Caller(r)
      PROVE  LinkInv'
  BY <1>2, <1>4, CallerFrame
<1>5. ASSUME NEW r \in Requests, NEW n \in 1..2, NEW c \in Connections,
             NEW ok \in BOOLEAN, AgentReply(r, n, c, ok)
      PROVE  LinkInv'
  BY <1>2, <1>5 DEF AgentReply, handshakeVars
<1>6. CASE StartClose
  BY <1>1, <1>6, ConnectionNumbers
  DEF StartClose, LinkInv, LoopsFit, handshakeVars, agentVars
<1>7. CASE FinishClose
  BY <1>1, <1>7, ConnectionNumbers
  DEF FinishClose, LinkInv, LoopsFit, handshakeVars
<1>8. ASSUME NEW c \in Connections, Connect(c)
      PROVE  LinkInv'
  <2>1. LoopsFit'
    BY <1>1, <1>8, ConnectionNumbers DEF Connect, LinkInv, LoopsFit
  <2>2. wcp' \in [Connections -> {"none", "hello", "offered", "validating",
                                  "told", "accepted", "refused"}]
    BY <1>8 DEF Connect
  <2> QED
    BY <1>1, <1>8, <2>1, <2>2 DEF Connect, LinkInv, agentVars
<1>9. ASSUME NEW c \in Connections, LoopEnds(c) \/ Emitted(c)
      PROVE  LinkInv'
  BY <1>1, <1>9
  DEF LoopEnds, Emitted, LinkInv, LoopsFit, handshakeVars, agentVars
<1>10. ASSUME NEW c \in Connections, Receive(c)
      PROVE  LinkInv'
  <2> DEFINE type == Head(inbox[c]).type
  <2>1. CASE /\ HandshakeMessage(c, type)
             /\ UNCHANGED <<loop, pending, call>>
    <3>1. PICK state \in {"validating", "accepted", "refused"} :
             wcp' = [wcp EXCEPT ![c] = state]
      BY <2>1 DEF HandshakeMessage
    <3>2. complete' \in BOOLEAN
      BY <2>1 DEF HandshakeMessage
    <3> QED
      BY <1>1, <1>10, <2>1, <3>1, <3>2
      DEF Receive, LinkInv, LoopsFit, agentVars
  <2>2. CASE /\ loop' = [loop EXCEPT ![c] = "emitting"]
             /\ UNCHANGED <<handshakeVars, pending, call>>
    BY <1>1, <1>10, <2>2
    DEF Receive, LinkInv, LoopsFit, agentVars, handshakeVars
  <2>3. CASE UNCHANGED <<loop, handshakeVars>>
    BY <1>1, <1>10, <2>3
    DEF Receive, LinkInv, LoopsFit, agentVars, handshakeVars
  <2> QED
    BY <1>10, <2>1, <2>2, <2>3 DEF Receive
<1>11. ASSUME NEW c \in Connections,
              AgentHandshake(c) \/ AgentEvent(c) \/ Lose(c)
      PROVE  LinkInv'
  <2>1. CASE AgentHandshake(c)
    BY <1>1, <2>1 DEF AgentHandshake, LinkInv, LoopsFit, agentVars
  <2>2. CASE AgentEvent(c)
    BY <1>1, <2>2, BoundsAreNat
    DEF AgentEvent, LinkInv, LoopsFit, handshakeVars
  <2>3. CASE Lose(c)
    BY <1>1, <2>3 DEF Lose, LinkInv, LoopsFit, handshakeVars
  <2> QED
    BY <1>11, <2>1, <2>2, <2>3
<1> QED
  BY <1>3, <1>4, <1>5, <1>6, <1>7, <1>8, <1>9, <1>10, <1>11
  DEF Next, ReceiveLoop

\* What WaitersFit says of one request.
WaiterFits(r) ==
    /\ KindOf[r] \in RegisterFirst
    /\ call[r].at = "waiting" \/ call[r].sent
    /\ loop[call[r].conn] = "ended"
    => line[call[r].conn] = "closed" \/ closing = call[r].conn

LEMMA WaitersKept ==
    ASSUME ClientInv, [Next]_vars
    PROVE  WaitersFit'
<1>1. LinkInv /\ CallInv /\ MailInv /\ WaitersFit
  BY ClientInvParts
<1>2. \A r \in pending : /\ r \in Requests /\ WaiterFits(r)
                         /\ call[r].conn \in Connections
                         /\ call[r].at \in {"sending", "waiting"}
                         /\ call[r].result = "none"
  BY <1>1 DEF CallInv, CallsFit, CallFits, PendingIsUnderway, WaitersFit,
              WaiterFits
<1> SUFFICES ASSUME NEW r \in pending' PROVE WaiterFits(r)'
  BY DEF WaitersFit, WaiterFits
<1>3. CASE UNCHANGED <<line, loop, closing, pending, call>>
  BY <1>2, <1>3 DEF WaiterFits
<1>4. CASE UNCHANGED vars
  BY <1>3, <1>4 DEF vars
<1>5. ASSUME NEW q \in Requests,
             (\E c \in Connections \cup {0} : Start(q, c)) \/ Caller(q)
      PROVE  WaiterFits(r)'
  <2>1. UNCHANGED <<line, loop, closing>>
    BY <1>5, CallerFrame
  <2>2. /\ OthersStay(q)
        /\ ToGate(q) \/ ToSend(q) \/ ToWait(q) \/ ToCreate(q) \/ ToEnd(q)
    BY <1>1, <1>5, CallerResult
  <2>3. CASE r # q
    <3>1. r \in pending
      BY <2>2, <2>3 DEF ToGate, ToSend, ToWait, ToCreate, ToEnd
    <3> QED
      BY <1>2, <2>1, <2>2, <2>3, <3>1 DEF WaiterFits, OthersStay
  <2>4. CASE r = q /\ ToSend(q)
    BY <1>1, <2>1, <2>4 DEF WaiterFits, ToSend, LinkInv, LoopsFit
  <2>5. CASE r = q /\ ToWait(q)
    <3>1. call[q] \in Calls
      BY <1>1 DEF CallInv
    <3>2. call'[q].conn = call[q].conn
      BY <2>5, <3>1 DEF ToWait, Calls
    <3>3. KindOf[q] \in RegisterFirst => q \in pending /\ call[q].sent
      BY <2>5 DEF ToWait
    <3> QED
      BY <1>2, <2>1, <2>5, <3>2, <3>3 DEF WaiterFits
  <2>6. CASE r = q /\ (ToGate(q) \/ ToCreate(q) \/ ToEnd(q))
    BY <1>2, <2>6 DEF ToGate, ToCreate, ToEnd
  <2> QED
    BY <2>2, <2>3, <2>4, <2>5, <2>6
<1>6. CASE \E c \in Connections : LoopEnds(c)
  BY <1>6 DEF LoopEnds
<1>7. CASE StartClose
  <2>1. CASE loop[ws] # "ended"
    BY <1>7, <2>1 DEF StartClose
  <2>2. CASE loop[ws] = "ended"
    BY <1>1, <1>2, <1>7, <2>2, ConnectionNumbers
    DEF StartClose, WaiterFits, LinkInv
  <2> QED
    BY <2>1, <2>2
<1>8. CASE FinishClose
  BY <1>1, <1>2, <1>8 DEF FinishClose, WaiterFits, LinkInv
<1>9. ASSUME NEW c \in Connections, Connect(c)
      PROVE  WaiterFits(r)'
  BY <1>1, <1>2, <1>9, ConnectionNumbers DEF Connect, WaiterFits, LinkInv
<1>10. ASSUME NEW c \in Connections, Lose(c)
       PROVE  WaiterFits(r)'
  BY <1>1, <1>2, <1>10 DEF Lose, WaiterFits, LinkInv
<1>11. ASSUME NEW c \in Connections, Emitted(c)
       PROVE  WaiterFits(r)'
  BY <1>1, <1>2, <1>11 DEF Emitted, WaiterFits, LinkInv
<1>12. ASSUME NEW c \in Connections, AgentHandshake(c) \/ AgentEvent(c)
       PROVE  WaiterFits(r)'
  BY <1>3, <1>12 DEF AgentHandshake, AgentEvent
<1>13. ASSUME NEW q \in Requests, NEW n \in 1..2, NEW c \in Connections,
              NEW ok \in BOOLEAN, AgentReply(q, n, c, ok)
       PROVE  WaiterFits(r)'
  BY <1>3, <1>13 DEF AgentReply
<1>14. ASSUME NEW c \in Connections, Receive(c)
       PROVE  WaiterFits(r)'
  <2>1. /\ UNCHANGED <<line, closing>>
        /\ loop' \in {loop, [loop EXCEPT ![c] = "emitting"]}
    BY <1>14 DEF Receive
  <2>2. r \in pending /\ call'[r] = call[r]
    BY <1>1, <1>14, ReceiveResult DEF Resolved, OthersStay, CallInv
  <2> QED
    BY <1>1, <1>2, <2>1, <2>2 DEF WaiterFits, LinkInv
<1> QED
  BY <1>4, <1>5, <1>6, <1>7, <1>8, <1>9, <1>10, <1>11, <1>12, <1>13, <1>14
  DEF Next, ReceiveLoop

-----------------------------------------------------------------------------
(***************************************************************************)
(* The replies under way.                                                  *)
(***************************************************************************)

\* Every reply to r in c's inbox was there before, d places further back, and
\* those in the other inboxes where they are.
RepliesStay(r, c, d) ==
    \A b \in Connections, n \in Nat :
        IsReply(b, n, r)' =>
            IF b = c
            THEN IsReply(b, n + d, r) /\ inbox'[b][n] = inbox[b][n + d]
            ELSE IsReply(b, n, r) /\ inbox'[b][n] = inbox[b][n]

LEMMA ReplyKept ==
    ASSUME NEW r \in Requests, NEW c, NEW d \in Nat,
           ReplyFits(r), RepliesStay(r, c, d),
           call'[r].attempt = call[r].attempt,
           call'[r].result \in {call[r].result, "lost"},
           \A q \in asked' : q[1] = r => q \in asked,
           r \in replied => r \in replied'
    PROVE  ReplyFits(r)'
<1> DEFINE at(b, n) == IF b = c THEN n + d ELSE n
<1>1. \A b \in Connections, n \in Nat :
         /\ at(b, n) \in Nat
         /\ IsReply(b, n, r)' => /\ IsReply(b, at(b, n), r)
                                 /\ inbox'[b][n] = inbox[b][at(b, n)]
  BY DEF RepliesStay
<1>2. \A b \in Connections, n, k \in Nat : at(b, n) = at(b, k) => n = k
  OBVIOUS
<1> HIDE DEF at
<1>3. ASSUME NEW q \in asked', q[1] = r
      PROVE  /\ q[2] = call'[r].attempt
             /\ call'[r].result \in {"none", "lost"}
             /\ \A p \in asked' : p[1] = r => p = q
             /\ \A b \in Connections, n \in Nat : ~IsReply(b, n, r)'
  BY <1>1, <1>3 DEF ReplyFits
<1>4. ASSUME NEW b \in Connections, NEW n \in Nat, IsReply(b, n, r)'
      PROVE  /\ inbox'[b][n].attempt = call'[r].attempt
             /\ call'[r].result \in {"none", "lost"}
             /\ r \in replied'
             /\ \A e \in Connections, k \in Nat :
                   IsReply(e, k, r)' => e = b /\ k = n
  <2>1. IsReply(b, at(b, n), r) /\ inbox'[b][n] = inbox[b][at(b, n)]
    BY <1>1, <1>4
  <2>2. /\ inbox[b][at(b, n)].attempt = call[r].attempt
        /\ call[r].result \in {"none", "lost"} /\ r \in replied
        /\ \A e \in Connections, k \in Nat :
              IsReply(e, k, r) => e = b /\ k = at(b, n)
    BY <1>1, <2>1 DEF ReplyFits
  <2>3. ASSUME NEW e \in Connections, NEW k \in Nat, IsReply(e, k, r)'
        PROVE  e = b /\ k = n
    <3>1. IsReply(e, at(e, k), r) /\ at(e, k) \in Nat
      BY <1>1, <2>3
    <3>2. e = b /\ at(e, k) = at(b, n)
      BY <2>2, <3>1
    <3> QED
      BY <1>2, <3>2
  <2> QED
    BY <2>1, <2>2, <2>3
<1>5. call'[r].result \in {"ok", "error"} => r \in replied'
  BY DEF ReplyFits
<1> QED
  BY <1>3, <1>4, <1>5 DEF ReplyFits

LEMMA AppendedToInbox ==
    ASSUME MailInv, NEW c \in Connections, NEW m \in Messages, Arrives(c, m)
    PROVE  /\ inbox' \in [Connections -> Seq(Messages)]
           /\ \A b \in Connections \ {c} : inbox'[b] = inbox[b]
           /\ Len(inbox'[c]) = Len(inbox[c]) + 1
           /\ inbox'[c][Len(inbox[c]) + 1] = m
           /\ \A n \in 1..Len(inbox[c]) : inbox'[c][n] = inbox[c][n]
<1>1. inbox \in [Connections -> Seq(Messages)] /\ inbox[c] \in Seq(Messages)
  BY DEF MailInv
<1>2. inbox' = [inbox EXCEPT ![c] = Append(inbox[c], m)]
  BY DEF Arrives
<1>3. inbox'[c] = Append(inbox[c], m) /\ Append(inbox[c], m) \in Seq(Messages)
  BY <1>1, <1>2
<1>4. inbox' \in [Connections -> Seq(Messages)]
  BY <1>1, <1>2, <1>3
<1> QED
  BY <1>1, <1>2, <1>3, <1>4

LEMMA AppendKeepsReplies ==
    ASSUME MailInv, NEW c \in Connections, NEW m \in Messages, Arrives(c, m),
           NEW r, m.type = "response" => m.request # r
    PROVE  RepliesStay(r, c, 0)
<1>1. /\ \A b \in Connections \ {c} : inbox'[b] = inbox[b]
      /\ Len(inbox'[c]) = Len(inbox[c]) + 1
      /\ inbox'[c][Len(inbox[c]) + 1] = m
      /\ \A n \in 1..Len(inbox[c]) : inbox'[c][n] = inbox[c][n]
      /\ Len(inbox[c]) \in Nat
  BY AppendedToInbox DEF MailInv
<1> SUFFICES ASSUME NEW b \in Connections, NEW n \in Nat, IsReply(b, n, r)'
             PROVE  IsReply(b, n, r) /\ inbox'[b][n] = inbox[b][n]
  BY DEF RepliesStay
<1>2. CASE b # c
  BY <1>1, <1>2 DEF IsReply
<1>3. CASE b = c
  <2>1. n \in 1..Len(inbox[c]) + 1 /\ n # Len(inbox[c]) + 1
    BY <1>1, <1>3 DEF IsReply
  <2>2. n \in 1..Len(inbox[c])
    BY <1>1, <2>1
  <2> QED
    BY <1>1, <1>3, <2>2 DEF IsReply
<1> QED
  BY <1>2, <1>3

LEMMA TailKeepsReplies ==
    ASSUME MailInv, NEW c \in Connections, inbox[c] # <<>>,
           inbox' = [inbox EXCEPT ![c] = Tail(@)], NEW r
    PROVE  RepliesStay(r, c, 1) /\ inbox' \in [Connections -> Seq(Messages)]
<1>1. inbox \in [Connections -> Seq(Messages)] /\ inbox[c] \in Seq(Messages)
  BY DEF MailInv
<1>2. /\ Len(Tail(inbox[c])) = Len(inbox[c]) - 1 /\ Len(inbox[c]) \in Nat
      /\ Tail(inbox[c]) \in Seq(Messages)
      /\ \A n \in 1..Len(inbox[c]) - 1 : Tail(inbox[c])[n] = inbox[c][n + 1]
  BY <1>1
<1>3. /\ inbox'[c] = Tail(inbox[c])
      /\ \A b \in Connections \ {c} : inbox'[b] = inbox[b]
  BY <1>1
<1>4. ASSUME NEW b \in Connections, NEW n \in Nat, IsReply(b, n, r)', b # c
      PROVE  IsReply(b, n, r) /\ inbox'[b][n] = inbox[b][n]
  BY <1>3, <1>4 DEF IsReply
<1>5. ASSUME NEW n \in Nat, IsReply(c, n, r)'
      PROVE  IsReply(c, n + 1, r) /\ inbox'[c][n] = inbox[c][n + 1]
  <2>1. n \in 1..Len(inbox[c]) - 1
    BY <1>2, <1>3, <1>5 DEF IsReply
  <2>2. n + 1 \in 1..Len(inbox[c]) /\ inbox'[c][n] = inbox[c][n + 1]
    <3>1. n + 1 \in 1..Len(inbox[c])
      BY <1>2, <2>1
    <3>2. Tail(inbox[c])[n] = inbox[c][n + 1]
      BY <1>2, <2>1, Zenon
    <3> QED
      BY <1>3, <3>1, <3>2, Zenon
  <2>3. inbox'[c][n].type = "response" /\ inbox'[c][n].request = r
    BY <1>5 DEF IsReply
  <2> QED
    BY <2>2, <2>3 DEF IsReply
<1>6. inbox' \in [Connections -> Seq(Messages)]
  BY <1>1, <1>2
<1> QED
  BY <1>4, <1>5, <1>6 DEF RepliesStay

LEMMA InboxStays ==
    ASSUME MailInv, NEW c, NEW r,
           inbox' \in {inbox, [inbox EXCEPT ![c] = <<>>]}
    PROVE  RepliesStay(r, c, 0) /\ inbox' \in [Connections -> Seq(Messages)]
<1>1. inbox \in [Connections -> Seq(Messages)]
  BY DEF MailInv
<1>2. <<>> \in Seq(Messages)
  OBVIOUS
<1>3. inbox' \in [Connections -> Seq(Messages)]
  BY <1>1, <1>2
<1> SUFFICES ASSUME NEW b \in Connections, NEW n \in Nat, IsReply(b, n, r)'
             PROVE  IsReply(b, n, r) /\ inbox'[b][n] = inbox[b][n]
  BY <1>3 DEF RepliesStay
<1>4. n \in 1..Len(inbox'[b])
  BY DEF IsReply
<1>5. inbox'[b] # <<>>
  <2>1. Len(<<>>) = 0
    OBVIOUS
  <2> QED
    BY <1>4, <2>1
<1>6. inbox'[b] = inbox[b]
  <2>1. CASE b = c
    BY <1>1, <1>5, <2>1
  <2>2. CASE b # c
    BY <1>1, <2>2
  <2> QED
    BY <2>1, <2>2
<1> QED
  BY <1>6 DEF IsReply

\* What RepliesFit and AnswersMatchAttempt say of request r.
MailFits(r) ==
    /\ ~Ended(r) => ReplyFits(r)
    /\ call[r].at \in {"sending", "waiting"} /\ call[r].result \in {"ok", "error"}
       => call[r].answer = call[r].attempt

LEMMA MailFitsAll ==
    (RepliesFit /\ AnswersMatchAttempt) <=> \A r \in Requests : MailFits(r)
  BY DEF RepliesFit, AnswersMatchAttempt, MailFits

\* A request whose replies stay where they are, and whose attempt and result
\* too.
LEMMA ReplyUndisturbed ==
    ASSUME MailInv, NEW r \in Requests, NEW c, NEW d \in Nat,
           ~Ended(r) => RepliesStay(r, c, d),
           call'[r] = call[r],
           \A q \in asked' : q[1] = r => q \in asked,
           replied \subseteq replied'
    PROVE  MailFits(r)'
<1>1. MailFits(r)
  BY MailFitsAll DEF MailInv
<1>2. CASE Ended(r)
  BY <1>1, <1>2 DEF Ended, MailFits
<1>3. CASE ~Ended(r)
  <2>1. ReplyFits(r)'
    BY <1>1, <1>3, ReplyKept DEF MailFits
  <2> QED
    BY <1>1, <2>1 DEF MailFits
<1> QED
  BY <1>2, <1>3

\* A message of the agent that replies to nobody.
LEMMA NoticeKeepsMail ==
    ASSUME MailInv, NEW c \in Connections, NEW m \in Messages, Arrives(c, m),
           m.type # "response", UNCHANGED <<call, asked, replied>>
    PROVE  MailInv'
<1>1. ASSUME NEW r \in Requests PROVE MailFits(r)'
  <2>1. RepliesStay(r, c, 0)
    BY AppendKeepsReplies
  <2> QED
    BY <2>1, ReplyUndisturbed
<1>2. inbox' \in [Connections -> Seq(Messages)]
  BY AppendedToInbox
<1>3. RepliesFit' /\ AnswersMatchAttempt'
  BY <1>1 DEF MailFits, RepliesFit, AnswersMatchAttempt
<1> QED
  BY <1>2, <1>3 DEF MailInv

\* Steps that take replies away, but neither read nor send one.
LEMMA QuietKeepsMail ==
    ASSUME MailInv, NEW c,
           inbox' \in {inbox, [inbox EXCEPT ![c] = <<>>]},
           asked' \subseteq asked, UNCHANGED <<call, replied>>
    PROVE  MailInv'
<1>1. ASSUME NEW r \in Requests PROVE MailFits(r)'
  <2>1. RepliesStay(r, c, 0)
    BY InboxStays
  <2> QED
    BY <2>1, ReplyUndisturbed
<1>2. inbox' \in [Connections -> Seq(Messages)]
  BY InboxStays
<1>3. RepliesFit' /\ AnswersMatchAttempt'
  BY <1>1 DEF MailFits, RepliesFit, AnswersMatchAttempt
<1> QED
  BY <1>2, <1>3 DEF MailInv

LEMMA ReplyKeepsMail ==
    ASSUME ClientInv, NEW r \in Requests, NEW n \in 1..2, NEW c \in Connections,
           NEW ok \in BOOLEAN, AgentReply(r, n, c, ok)
    PROVE  MailInv'
<1> DEFINE m == [type |-> "response", request |-> r, attempt |-> n,
                 ok |-> ok]
<1>1. MailInv
  BY ClientInvParts
<1>2. /\ <<r, n, c>> \in asked /\ asked' = asked \ {<<r, n, c>>}
      /\ replied' = IF Ended(r) THEN replied ELSE replied \cup {r}
      /\ Arrives(c, m) /\ call' = call
  BY DEF AgentReply
<1>3. m \in Messages /\ m.type = "response" /\ m.request = r /\ m.attempt = n
  BY DEF Messages
<1> HIDE DEF m
<1>4. /\ inbox' \in [Connections -> Seq(Messages)]
      /\ \A b \in Connections \ {c} : inbox'[b] = inbox[b]
      /\ Len(inbox'[c]) = Len(inbox[c]) + 1
      /\ inbox'[c][Len(inbox[c]) + 1] = m
      /\ \A k \in 1..Len(inbox[c]) : inbox'[c][k] = inbox[c][k]
  BY <1>1, <1>2, <1>3, AppendedToInbox
<1>5. Len(inbox[c]) \in Nat
  BY <1>1 DEF MailInv
<1>6. ASSUME NEW q \in Requests, q # r PROVE MailFits(q)'
  <2>1. RepliesStay(q, c, 0)
    BY <1>1, <1>2, <1>3, <1>6, AppendKeepsReplies
  <2>2. \A p \in asked' : p \in asked
    BY <1>2
  <2>3. replied \subseteq replied'
    BY <1>2
  <2>4. call'[q] = call[q]
    BY <1>2
  <2> QED
    BY <1>1, <2>1, <2>2, <2>3, <2>4, ReplyUndisturbed
<1>7. MailFits(r)'
  <2>1. call[r].at \in {"sending", "waiting"}
          /\ call[r].result \in {"ok", "error"}
        => call[r].answer = call[r].attempt
    BY <1>1 DEF MailInv, AnswersMatchAttempt
  <2>2. ASSUME ~Ended(r) PROVE ReplyFits(r)'
    <3>1. ReplyFits(r)
      BY <1>1, <2>2 DEF MailInv, RepliesFit
    <3>2. <<r, n, c>>[1] = r /\ <<r, n, c>>[2] = n
      OBVIOUS
    <3>3. /\ n = call[r].attempt /\ call[r].result \in {"none", "lost"}
          /\ \A p \in asked : p[1] = r => p = <<r, n, c>>
          /\ \A b \in Connections, k \in Nat : ~IsReply(b, k, r)
      BY <1>2, <3>1, <3>2 DEF ReplyFits
    <3>4. \A p \in asked' : p[1] # r
      BY <1>2, <3>3
    <3>5. r \in replied'
      BY <1>2, <2>2
    <3>6. \A b \in Connections, k \in Nat :
             IsReply(b, k, r)' => b = c /\ k = Len(inbox[c]) + 1
      <4> SUFFICES ASSUME NEW b \in Connections, NEW k \in Nat,
                          IsReply(b, k, r)',
                          ~(b = c /\ k = Len(inbox[c]) + 1)
                   PROVE  FALSE
        OBVIOUS
      <4>1. CASE b # c
        BY <1>4, <3>3, <4>1 DEF IsReply
      <4>2. CASE b = c
        <5>1. k \in 1..Len(inbox[c])
          BY <1>4, <1>5, <4>2 DEF IsReply
        <5> QED
          BY <1>4, <3>3, <4>2, <5>1 DEF IsReply
      <4> QED
        BY <4>1, <4>2
    <3>7. inbox'[c][Len(inbox[c]) + 1].attempt = call'[r].attempt
      BY <1>2, <1>3, <1>4, <3>3
    <3> QED
      BY <1>2, <1>5, <3>3, <3>4, <3>5, <3>6, <3>7 DEF ReplyFits
  <2> QED
    BY <1>2, <2>1, <2>2 DEF MailFits, Ended
<1>8. RepliesFit' /\ AnswersMatchAttempt'
  BY <1>6, <1>7 DEF MailFits, RepliesFit, AnswersMatchAttempt
<1>9. asked' \subseteq Requests \X (1..2) \X Connections /\ replied' \subseteq Requests
  BY <1>1, <1>2 DEF MailInv
<1> QED
  BY <1>4, <1>8, <1>9 DEF MailInv

\* A caller that sends, or waits for, or gives up on what it sent.
LEMMA CallerKeepsMail ==
    ASSUME ClientInv, NEW r \in Requests,
           (\E c \in Connections \cup {0} : Start(r, c)) \/ Caller(r)
    PROVE  MailInv'
<1>1. LinkInv /\ CallInv /\ MailInv
  BY ClientInvParts
<1>2. UNCHANGED <<inbox, line, replied>>
  BY CallerFrame
<1>3. /\ OthersStay(r)
      /\ ToGate(r) \/ ToSend(r) \/ ToWait(r) \/ ToCreate(r) \/ ToEnd(r)
  BY <1>1, CallerResult
<1>4. call[r] \in Calls /\ CallFits(r) /\ MailFits(r)
  BY <1>1, MailFitsAll DEF CallInv, CallsFit, MailInv
<1>5. ASSUME NEW q \in Requests
      PROVE  RepliesStay(q, 0, 0)
  BY <1>1, <1>2, InboxStays
<1>6. asked' \subseteq Requests \X (1..2) \X Connections
  <2>1. asked \subseteq Requests \X (1..2) \X Connections
    BY <1>1 DEF MailInv
  <2>2. CASE ToSend(r)
    <3>1. call[r].attempt + 1 \in 1..2 /\ ws \in Connections
      BY <1>1, <1>4, <2>2 DEF ToSend, CallFits, LinkInv
    <3> QED
      BY <2>1, <2>2, <3>1 DEF ToSend
  <2> QED
    BY <1>3, <2>1, <2>2 DEF ToGate, ToWait, ToCreate, ToEnd
<1>7. ASSUME NEW q \in Requests, q # r PROVE MailFits(q)'
  <2>1. \A p \in asked' : p[1] = q => p \in asked
    BY <1>3, <1>7 DEF ToGate, ToSend, ToWait, ToCreate, ToEnd
  <2>2. call'[q] = call[q]
    BY <1>3, <1>7 DEF OthersStay
  <2> QED
    BY <1>1, <1>2, <1>5, <1>7, <2>1, <2>2, ReplyUndisturbed
<1>8. ASSUME ToSend(r) PROVE MailFits(r)'
  <2> DEFINE n == call[r].attempt + 1
  <2>1. /\ call'[r].at = "sending" /\ call'[r].result = "none"
        /\ call'[r].attempt = n /\ ws \in Connections
        /\ \A p \in asked' : p \in asked \/ p = <<r, n, ws>>
    BY <1>1, <1>8 DEF ToSend, LinkInv
  <2>2. ReplyFits(r)
    BY <1>4, <1>8 DEF MailFits, ToSend, Ended
  <2>3. \A p \in asked : p[1] # r
    <3>1. \A p \in asked : p[2] \in 1..2
      BY <1>1 DEF MailInv
    <3> QED
      BY <1>4, <1>8, <2>2, <3>1 DEF ReplyFits, ToSend, CallFits
  <2>4. \A c \in Connections, k \in Nat : ~IsReply(c, k, r)
    <3>1. ASSUME NEW c \in Connections, NEW k \in Nat, IsReply(c, k, r)
          PROVE  inbox[c][k].attempt \in 1..2
      <4>1. inbox[c][k] \in Messages /\ inbox[c][k].type = "response"
        BY <1>1, <3>1 DEF MailInv, IsReply
      <4> QED
        BY <4>1 DEF Messages
    <3> QED
      BY <1>4, <1>8, <2>2, <3>1 DEF ReplyFits, ToSend, CallFits
  <2>5. \A c \in Connections, k \in Nat : ~IsReply(c, k, r)'
    BY <1>2, <2>4 DEF IsReply
  <2>6. \A p \in asked' : p[1] = r => p = <<r, n, ws>> /\ p[2] = n
    BY <2>1, <2>3
  <2> HIDE DEF n
  <2>7. ReplyFits(r)'
    BY <2>1, <2>5, <2>6 DEF ReplyFits
  <2> QED
    BY <2>1, <2>7 DEF MailFits
<1>9. ASSUME ToGate(r) PROVE MailFits(r)'
  <2>1. ~Ended(r) /\ call[r].attempt = 0 /\ call[r].result = "none"
    BY <1>4, <1>9 DEF ToGate, Ended, CallFits
  <2>2. ReplyFits(r)'
    BY <1>2, <1>4, <1>5, <1>9, <2>1, ReplyKept DEF MailFits, ToGate
  <2> QED
    BY <1>9, <2>2 DEF MailFits, ToGate
<1>10. ASSUME NEW at \in {"waiting", "creating"},
              call[r].at \in {"sending", "waiting"},
              call'[r] = [call[r] EXCEPT !.at = at], asked' = asked
       PROVE  MailFits(r)'
  <2>1. /\ call'[r].attempt = call[r].attempt /\ call'[r].at = at
        /\ call'[r].result = call[r].result /\ call'[r].answer = call[r].answer
    BY <1>4, <1>10 DEF Calls
  <2>2. ReplyFits(r)'
    BY <1>2, <1>4, <1>5, <1>10, <2>1, ReplyKept DEF MailFits, Ended
  <2> QED
    BY <1>4, <1>10, <2>1, <2>2 DEF MailFits
<1>11. ASSUME ToWait(r) \/ ToCreate(r) PROVE MailFits(r)'
  BY <1>10, <1>11 DEF ToWait, ToCreate
<1>12. ASSUME ToEnd(r) PROVE MailFits(r)'
  BY <1>12, EndIsCall DEF ToEnd, MailFits, Ended
<1>13. MailFits(r)'
  BY <1>3, <1>8, <1>9, <1>11, <1>12
<1>14. RepliesFit' /\ AnswersMatchAttempt'
  BY <1>7, <1>13 DEF MailFits, RepliesFit, AnswersMatchAttempt
<1> QED
  BY <1>1, <1>2, <1>6, <1>14 DEF MailInv

LEMMA ReceiveKeepsMail ==
    ASSUME ClientInv, NEW c \in Connections, Receive(c)
    PROVE  MailInv'
<1>1. CallInv /\ MailInv
  BY ClientInvParts
<1>2. /\ inbox[c] # <<>> /\ inbox' = [inbox EXCEPT ![c] = Tail(@)]
      /\ UNCHANGED <<asked, replied>>
  BY DEF Receive, agentVars
<1>3. /\ inbox' \in [Connections -> Seq(Messages)]
      /\ \A q : RepliesStay(q, c, 1)
  BY <1>1, <1>2, TailKeepsReplies
<1>4. ASSUME NEW q \in Requests, call'[q] = call[q] PROVE MailFits(q)'
  BY <1>1, <1>2, <1>3, <1>4, ReplyUndisturbed
<1>5. ASSUME NEW r \in Requests, NEW m, m = Head(inbox[c]),
             IsReply(c, 1, r), Resolved(r, m)
      PROVE  MailFits(r)'
  <2>1. /\ call[r].at \in {"sending", "waiting"} /\ call'[r].at = call[r].at
        /\ call'[r].attempt = call[r].attempt
    BY <1>1, <1>5 DEF CallInv, PendingIsUnderway, Resolved
  <2>2. ReplyFits(r)
    BY <1>1, <2>1 DEF MailInv, RepliesFit, Ended
  <2>3. m = inbox[c][1]
    BY <1>1, <1>2, <1>5, HeadOfInbox
  <2>4. /\ m.attempt = call[r].attempt /\ r \in replied
        /\ \A d \in Connections, k \in Nat : IsReply(d, k, r) => d = c /\ k = 1
    BY <1>5, <2>2, <2>3 DEF ReplyFits
  <2>5. \A q \in asked : q[1] # r
    BY <1>5, <2>2 DEF ReplyFits
  <2>6. \A d \in Connections, k \in Nat : ~IsReply(d, k, r)'
    <3> SUFFICES ASSUME NEW d \in Connections, NEW k \in Nat, IsReply(d, k, r)'
                 PROVE  FALSE
      OBVIOUS
    <3>1. IF d = c THEN IsReply(d, k + 1, r) ELSE IsReply(d, k, r)
      BY <1>3 DEF RepliesStay
    <3>2. k >= 1
      BY DEF IsReply
    <3> QED
      BY <2>4, <3>1, <3>2
  <2>7. ReplyFits(r)'
    BY <1>2, <2>4, <2>5, <2>6 DEF ReplyFits
  <2> QED
    BY <1>5, <2>1, <2>4, <2>7 DEF MailFits, Resolved
<1>6. \A q \in Requests : MailFits(q)'
  <2>1. CASE UNCHANGED <<pending, call>>
    BY <1>4, <2>1
  <2>2. ASSUME NEW r \in Requests, NEW m, m = Head(inbox[c]),
               IsReply(c, 1, r), Resolved(r, m)
        PROVE  \A q \in Requests : MailFits(q)'
    BY <1>4, <1>5, <2>2 DEF Resolved, OthersStay
  <2> QED
    BY <1>1, <2>1, <2>2, ReceiveResult
<1>7. RepliesFit' /\ AnswersMatchAttempt'
  BY <1>6 DEF MailFits, RepliesFit, AnswersMatchAttempt
<1> QED
  BY <1>1, <1>2, <1>3, <1>7 DEF MailInv

LEMMA LossKeepsMail ==
    ASSUME ClientInv, AllLost, NEW c,
           inbox' \in {inbox, [inbox EXCEPT ![c] = <<>>]},
           replied' = replied
    PROVE  MailInv'
<1>1. CallInv /\ MailInv
  BY ClientInvParts
<1>2. asked' = asked /\ \A r \in Requests : call[r] \in Calls
  BY <1>1 DEF AllLost, CallInv
<1>3. ASSUME NEW r \in Requests PROVE MailFits(r)'
  <2>1. RepliesStay(r, c, 0) /\ MailFits(r)
    BY <1>1, InboxStays, MailFitsAll DEF MailInv
  <2>2. CASE call'[r] = call[r]
    BY <1>1, <1>2, <2>1, <2>2, ReplyUndisturbed
  <2>3. CASE call'[r] = End("failed")
    BY <2>3, EndIsCall DEF MailFits, Ended
  <2>4. CASE r \in pending /\ call'[r] = [call[r] EXCEPT !.result = "lost"]
    <3>1. /\ call'[r].result = "lost" /\ call'[r].attempt = call[r].attempt
          /\ call'[r].at = call[r].at
      BY <1>2, <2>4 DEF Calls
    <3>2. ~Ended(r)
      BY <1>1, <2>4 DEF CallInv, PendingIsUnderway, Ended
    <3>3. ReplyFits(r)'
      BY <1>2, <2>1, <3>1, <3>2, ReplyKept DEF MailFits
    <3> QED
      BY <3>1, <3>3 DEF MailFits
  <2> QED
    BY <2>2, <2>3, <2>4 DEF AllLost
<1>4. inbox' \in [Connections -> Seq(Messages)]
  BY <1>1, InboxStays
<1>5. RepliesFit' /\ AnswersMatchAttempt'
  BY <1>3 DEF MailFits, RepliesFit, AnswersMatchAttempt
<1> QED
  BY <1>1, <1>2, <1>4, <1>5 DEF MailInv

LEMMA MailKept ==
    ASSUME ClientInv, [Next]_vars
    PROVE  MailInv'
<1>1. LinkInv /\ CallInv /\ MailInv
  BY ClientInvParts
<1>2. CASE UNCHANGED <<inbox, asked, replied, call>>
  BY <1>1, <1>2, QuietKeepsMail
<1>3. CASE UNCHANGED vars
  BY <1>2, <1>3 DEF vars, agentVars
<1>4. ASSUME NEW c \in Connections, Lose(c)
      PROVE  MailInv'
  <2>1. /\ inbox' = inbox /\ call' = call /\ replied' = replied
        /\ asked' \subseteq asked
    BY <1>4 DEF Lose
  <2> QED
    BY <1>1, <2>1, QuietKeepsMail
<1>5. CASE FinishClose
  <2>1. /\ inbox' = inbox /\ call' = call /\ replied' = replied
        /\ asked' \subseteq asked
    BY <1>5 DEF FinishClose
  <2> QED
    BY <1>1, <2>1, QuietKeepsMail
<1>6. ASSUME NEW c \in Connections, Connect(c) \/ Emitted(c)
      PROVE  MailInv'
  BY <1>2, <1>6 DEF Connect, Emitted, agentVars
<1>7. ASSUME NEW c \in Connections, AgentHandshake(c)
      PROVE  MailInv'
  <2>1. PICK t \in {"WCP3", "WCP5", "WCP5Failed"} : Arrives(c, [type |-> t])
    BY <1>7 DEF AgentHandshake
  <2>2. [type |-> t] \in Messages /\ [type |-> t].type # "response"
    BY DEF Messages
  <2> QED
    BY <1>1, <1>7, <2>1, <2>2, NoticeKeepsMail DEF AgentHandshake, agentVars
<1>8. ASSUME NEW c \in Connections, AgentEvent(c)
      PROVE  MailInv'
  <2>1. Arrives(c, [type |-> "event"])
    BY <1>8 DEF AgentEvent
  <2>2. [type |-> "event"] \in Messages /\ [type |-> "event"].type # "response"
    BY DEF Messages
  <2> QED
    BY <1>1, <1>8, <2>1, <2>2, NoticeKeepsMail DEF AgentEvent
<1>9. CASE (\E c \in Connections : LoopEnds(c)) \/ StartClose
  <2>1. /\ inbox' \in {inbox, [inbox EXCEPT ![ws] = <<>>]}
        /\ replied' = replied
    BY <1>9 DEF LoopEnds, StartClose, agentVars
  <2>2. CASE AllLost
    BY <2>1, <2>2, LossKeepsMail
  <2>3. CASE UNCHANGED <<pending, call, asked>>
    BY <1>1, <2>1, <2>3, QuietKeepsMail
  <2> QED
    BY <1>1, <1>9, <2>2, <2>3, LossResult
<1>10. ASSUME NEW r \in Requests,
              (\E c \in Connections \cup {0} : Start(r, c)) \/ Caller(r)
       PROVE  MailInv'
  BY <1>10, CallerKeepsMail
<1>11. ASSUME NEW r \in Requests, NEW n \in 1..2, NEW c \in Connections,
              NEW ok \in BOOLEAN, AgentReply(r, n, c, ok)
       PROVE  MailInv'
  BY <1>11, ReplyKeepsMail
<1>12. ASSUME NEW c \in Connections, Receive(c)
       PROVE  MailInv'
  BY <1>12, ReceiveKeepsMail
<1> QED
  BY <1>3, <1>4, <1>5, <1>6, <1>7, <1>8, <1>9, <1>10, <1>11, <1>12
  DEF Next, ReceiveLoop

-----------------------------------------------------------------------------
(***************************************************************************)
(* The theorems.                                                           *)
(***************************************************************************)

\* ClientInv is inductive: the table of pending responses follows the callers,
\* a loop that has ended is never sent through without a close, and a request
\* has one reply at most under way, to its present attempt.
THEOREM ClientInvariant == Spec => []ClientInv
<1>1. ClientInv /\ [Next]_vars => ClientInv'
  <2> SUFFICES ASSUME ClientInv, [Next]_vars PROVE ClientInv'
    OBVIOUS
  <2>1. LinkInv' /\ CallInv' /\ MailInv' /\ WaitersFit'
    BY LinkKept, CallsKept, MailKept, WaitersKept
  <2>2. TypeOK'
    BY <2>1 DEF LinkInv, CallInv, MailInv, TypeOK, Calls
  <2> QED
    BY <2>1, <2>2 DEF LinkInv, CallInv, MailInv, ClientInv
<1> QED
  BY <1>1, ClientInit, PTL DEF Spec

\* TypeOK.
THEOREM ClientTypeCorrect == Spec => []TypeOK
<1>1. ClientInv => TypeOK
  BY DEF ClientInv
<1> QED
  BY <1>1, ClientInvariant, PTL

\* _pending_responses holds the requests whose callers still wait, and no
\* others, through every order of sends, replies, timeouts, losses and closes.
THEOREM TableHoldsWhoWaits == Spec => []PendingIsUnderway
<1>1. ClientInv => PendingIsUnderway
  BY DEF ClientInv
<1> QED
  BY <1>1, ClientInvariant, PTL

\* No request that registers before it sends is left to its timeout by the end
\* of the receive loop, unless the client itself closed the connection.
THEOREM LossReachesWaiters == Spec => []LossFailsWaiters
<1>1. ClientInv => LossFailsWaiters
  BY DEF ClientInv, WaitersFit, LossFailsWaiters
<1> QED
  BY <1>1, ClientInvariant, PTL

\* The result of an attempt is the agent's reply to that attempt, though both
\* attempts of a join go by one requestUuid.
THEOREM AnswersAreToTheAttempt == Spec => []AnswersMatchAttempt
<1>1. ClientInv => AnswersMatchAttempt
  BY DEF ClientInv
<1> QED
  BY <1>1, ClientInvariant, PTL

-----------------------------------------------------------------------------
(***************************************************************************)
(* A request to the agent is a request with a timeout.                     *)
(***************************************************************************)
LEMMA ClientInitSimulates == Init => Abstract!Init
  BY DEF Init, Abstract!Init, requestStatus, NoCall

\* Requests that stay where they are.
LEMMA ClientStatusStays ==
    ASSUME replied' = replied,
           \A r \in Requests : call'[r].at = call[r].at
    PROVE  UNCHANGED Abstract!vars
  BY DEF Abstract!vars, requestStatus

\* One that fails, of those under way.
LEMMA OneFails ==
    ASSUME replied' = replied, NEW r \in Requests,
           call[r].at \notin {"new", "answered", "failed"},
           call'[r].at = "failed",
           \A q \in Requests \ {r} : call'[q].at = call[q].at
    PROVE  Abstract!Next
<1>1. requestStatus[r] = "open"
  BY DEF requestStatus
<1>2. requestStatus' = [requestStatus EXCEPT ![r] = "failed"]
  BY DEF requestStatus
<1> QED
  BY <1>1, <1>2 DEF Abstract!Next, Abstract!Fail

LEMMA ClientCallerSimulates ==
    ASSUME ClientInv, NEW r \in Requests,
           (\E c \in Connections \cup {0} : Start(r, c)) \/ Caller(r)
    PROVE  [Abstract!Next]_(Abstract!vars)
<1>1. LinkInv /\ CallInv /\ MailInv
  BY ClientInvParts
<1>2. replied' = replied /\ OthersStay(r) /\ call[r] \in Calls
  BY <1>1, CallerFrame, CallerResult DEF CallInv
<1>3. \A q \in Requests \ {r} : call'[q].at = call[q].at
  BY <1>2 DEF OthersStay
<1>4. ASSUME NEW value, requestStatus'[r] = value
      PROVE  requestStatus' = [requestStatus EXCEPT ![r] = value]
  BY <1>3, <1>4 DEF requestStatus
<1>5. CASE ToGate(r) \/ ToSend(r)
  <2>1. CASE call[r].at = "new"
    <3>1. requestStatus[r] = "new" /\ requestStatus'[r] = "open"
      BY <1>5, <2>1 DEF requestStatus, ToGate, ToSend
    <3> QED
      BY <1>2, <1>4, <3>1 DEF Abstract!Next, Abstract!Open
  <2>2. CASE call[r].at # "new"
    <3>1. requestStatus' = requestStatus
      BY <1>3, <1>5, <2>2 DEF requestStatus, ToGate, ToSend
    <3> QED
      BY <1>2, <3>1 DEF Abstract!vars
  <2> QED
    BY <2>1, <2>2
<1>6. CASE ToWait(r) \/ ToCreate(r)
  <2>1. /\ call[r].at \in {"sending", "waiting"}
        /\ call'[r].at \in {"waiting", "creating"}
    BY <1>2, <1>6 DEF ToWait, ToCreate, Calls
  <2>2. requestStatus' = requestStatus
    BY <1>3, <2>1 DEF requestStatus
  <2> QED
    BY <1>2, <2>2 DEF Abstract!vars
<1>7. CASE ToEnd(r)
  <2>1. call[r].at \in {"gate", "sending", "waiting", "creating"}
    BY <1>7 DEF ToEnd
  <2>2. CASE call'[r] = End("failed")
    BY <1>2, <1>3, <2>1, <2>2, EndIsCall, OneFails
  <2>3. CASE call'[r] = End("answered") /\ call[r].result \in {"ok", "error"}
    <3>1. r \in replied
      BY <1>1, <2>1, <2>3 DEF MailInv, RepliesFit, ReplyFits, Ended
    <3>2. requestStatus[r] = "open" /\ requestStatus'[r] = "answered"
      BY <2>1, <2>3, EndIsCall DEF requestStatus
    <3> QED
      BY <1>2, <1>4, <3>1, <3>2 DEF Abstract!Next, Abstract!Answer
  <2> QED
    BY <1>7, <2>2, <2>3 DEF ToEnd
<1> QED
  BY <1>1, <1>5, <1>6, <1>7, CallerResult

\* A close ends one request at most, that of the handler it cancels.
LEMMA LossSimulates ==
    ASSUME CallInv, AllLost, replied' = replied
    PROVE  [Abstract!Next]_(Abstract!vars)
<1> DEFINE Cancelled(q) ==
        /\ ws # 0 /\ call[q].within = ws
        /\ ~Ended(q) /\ call'[q] = End("failed")
<1>1. ASSUME NEW q \in Requests, ~Cancelled(q)
      PROVE  call'[q].at = call[q].at
  <2>1. call[q] \in Calls
    BY DEF CallInv
  <2> QED
    BY <1>1, <2>1 DEF AllLost, Calls
<1>2. CASE \A q \in Requests : ~Cancelled(q)
  BY <1>1, <1>2, ClientStatusStays
<1>3. ASSUME NEW r \in Requests, Cancelled(r)
      PROVE  Abstract!Next
  <2>1. \A q \in Requests \ {r} : ~Cancelled(q)
    BY <1>3 DEF CallInv, CallsFit
  <2>2. call[r].at \notin {"new", "answered", "failed"}
    BY <1>3 DEF CallInv, CallsFit, CallFits, Ended
  <2> HIDE DEF Cancelled
  <2>3. call'[r].at = "failed"
    BY <1>3, EndIsCall DEF Cancelled
  <2> QED
    BY <1>1, <2>1, <2>2, <2>3, OneFails
<1> QED
  BY <1>2, <1>3

LEMMA ClientStepSimulates ==
    ASSUME ClientInv, [Next]_vars
    PROVE  [Abstract!Next]_(Abstract!vars)
<1>1. LinkInv /\ CallInv /\ MailInv
  BY ClientInvParts
<1>2. CASE UNCHANGED <<call, replied>>
  BY <1>2, ClientStatusStays
<1>3. CASE UNCHANGED vars
  BY <1>2, <1>3 DEF vars, agentVars
<1>4. CASE FinishClose
  BY <1>2, <1>4 DEF FinishClose
<1>5. ASSUME NEW c \in Connections,
             \/ Connect(c) \/ Emitted(c) \/ AgentHandshake(c)
             \/ AgentEvent(c) \/ Lose(c)
      PROVE  [Abstract!Next]_(Abstract!vars)
  BY <1>2, <1>5
  DEF Connect, Emitted, AgentHandshake, AgentEvent, Lose, agentVars
<1>6. CASE (\E c \in Connections : LoopEnds(c)) \/ StartClose
  <2>1. replied' = replied
    BY <1>6 DEF LoopEnds, StartClose, agentVars
  <2> QED
    BY <1>1, <1>2, <1>6, <2>1, LossResult, LossSimulates
<1>7. ASSUME NEW c \in Connections, Receive(c)
      PROVE  [Abstract!Next]_(Abstract!vars)
  <2>1. replied' = replied
    BY <1>7 DEF Receive, agentVars
  <2>2. \A r \in Requests : call'[r].at = call[r].at
    BY <1>1, <1>7, ReceiveResult DEF Resolved, OthersStay
  <2> QED
    BY <2>1, <2>2, ClientStatusStays
<1>8. ASSUME NEW r \in Requests,
             (\E c \in Connections \cup {0} : Start(r, c)) \/ Caller(r)
      PROVE  [Abstract!Next]_(Abstract!vars)
  BY <1>8, ClientCallerSimulates
<1>9. ASSUME NEW r \in Requests, NEW n \in 1..2, NEW c \in Connections,
             NEW ok \in BOOLEAN, AgentReply(r, n, c, ok)
      PROVE  [Abstract!Next]_(Abstract!vars)
  <2>1. /\ <<r, n, c>> \in asked /\ call' = call
        /\ replied' = IF Ended(r) THEN replied ELSE replied \cup {r}
    BY <1>9 DEF AgentReply
  <2>2. CASE Ended(r)
    BY <1>2, <2>1, <2>2
  <2>3. CASE ~Ended(r)
    <3>1. n = call[r].attempt
      BY <1>1, <2>1, <2>3 DEF MailInv, RepliesFit, ReplyFits
    <3>2. call[r].at # "new"
      BY <1>1, <3>1 DEF CallInv, CallsFit, CallFits
    <3>3. requestStatus[r] # "new" /\ requestStatus' = requestStatus
      BY <2>1, <3>2 DEF requestStatus
    <3> QED
      BY <2>1, <2>3, <3>3 DEF Abstract!Next, Abstract!Reply
  <2> QED
    BY <2>2, <2>3
<1> QED
  BY <1>3, <1>4, <1>5, <1>6, <1>7, <1>8, <1>9 DEF Next, ReceiveLoop

\* The safety half of RequestsEnd: a request to the agent ends once, and as
\* answered only if the agent replied to it.
THEOREM ClientRequestIsRequest ==
    Spec => Abstract!Init /\ [][Abstract!Next]_(Abstract!vars)
<1>1. ClientInv /\ [Next]_vars => [Abstract!Next]_(Abstract!vars)
  BY ClientStepSimulates
<1> QED
  BY <1>1, ClientInitSimulates, ClientInvariant, PTL DEF Spec
=============================================================================
