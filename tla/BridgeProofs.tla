---------------------------- MODULE BridgeProofs ----------------------------
(***************************************************************************)
(* Theorems about BridgeConnection, for any requests and any number of     *)
(* connections and messages.                                               *)
(*                                                                         *)
(* That no websocket stays open rests on where the run loop is when it has *)
(* none; that the table of pending requests follows the connection rests   *)
(* on no request starting without one; and that a request is answered only *)
(* if the bridge did rests on what is under way in each direction.         *)
(***************************************************************************)
EXTENDS BridgeConnection, SequenceTheorems, TLAPS

Responses == [type : {"response"}, request : Requests]
Traffic == Updates \cup Others \cup Responses

\* What a receive loop has still to read.
Mail(c) == {inbox[c][n] : n \in 1..Len(inbox[c])}

\* Nobody's websocket is left when the run loop is over, as it is once stop
\* has closed.
RunFits ==
    /\ run = "finished" => ws = 0
    /\ stopper \in {"waiting", "done"} => run = "finished"

SendsHaveConnection ==
    \A r \in Requests :
        call[r].at = "sending" => call[r].conn \in Connections

\* The bridge answers what it was asked, and what a caller was given was an
\* answer.
AnswersFit ==
    /\ \A q \in asked : call[q[1]].at # "new"
    /\ \A r \in Requests : call[r].result = "ok" => r \in replied
    /\ \A c \in Connections : \A m \in Mail(c) :
          m.type = "response" => m.request \in replied \/ Ended(m.request)

BridgeInv ==
    /\ TypeOK
    /\ OnlyOneOpen
    /\ TableFollowsConnection
    /\ RunFits
    /\ SendsHaveConnection
    /\ AnswersFit

-----------------------------------------------------------------------------
(***************************************************************************)
(* The state, part by part.                                                *)
(***************************************************************************)
LinkTypes ==
    /\ run \in {"connecting", "hello", "naming", "joined", "closing",
                "sleeping", "finished"}
    /\ ws \in Connections \cup {0}
    /\ recvTask \in Connections \cup {0}
    /\ stopping \in BOOLEAN
    /\ stopper \in {"none", "raised", "closing", "waiting", "done"}
    /\ name \in [who : {"self", "other"}, on : Connections] \cup {NoName}
    /\ line \in [Connections -> {"unused", "open", "closed"}]
    /\ loop \in [Connections ->
                   {"none", "receiving", "handling", "ended", "failed"}]

LinkInv == LinkTypes /\ OnlyOneOpen /\ RunFits

Calls == [at : {"new", "sending", "waiting", "answered", "failed"},
          conn : Connections \cup {0},
          result : {"none", "ok", "lost"}]

\* Whoever waits is in the table, and the table ends with the connection.
RequestInv ==
    /\ pending \subseteq Requests
    /\ call \in [Requests -> Calls]
    /\ SendsHaveConnection
    /\ TableFollowsConnection

TrafficInv ==
    /\ inbox \in [Connections -> Seq(Traffic)]
    /\ assigned \subseteq Connections
    /\ messages \in 0..MaxMessages
    /\ asked \subseteq Requests \X Connections
    /\ replied \subseteq Requests
    /\ AnswersFit

LEMMA BridgeInvParts == BridgeInv <=> LinkInv /\ RequestInv /\ TrafficInv
  BY DEF BridgeInv, LinkInv, LinkTypes, RequestInv, TrafficInv, TypeOK, Calls,
     Traffic, Responses

LEMMA BridgeInit == Init => BridgeInv
<1> SUFFICES ASSUME Init PROVE LinkInv /\ RequestInv /\ TrafficInv
  BY BridgeInvParts
<1>1. LinkInv
  BY DEF Init, LinkInv, LinkTypes, OnlyOneOpen, RunFits
<1>2. RequestInv
  BY DEF Init, RequestInv, Calls, NoCall, SendsHaveConnection,
     TableFollowsConnection
<1>3. \A c \in Connections : Mail(c) = {}
  BY DEF Init, Mail
<1>4. /\ inbox \in [Connections -> Seq(Traffic)]
      /\ messages \in 0..MaxMessages
  BY BoundsAreNat DEF Init
<1>5. AnswersFit
  BY <1>3 DEF Init, AnswersFit, NoCall
<1>6. TrafficInv
  BY <1>4, <1>5 DEF Init, TrafficInv
<1> QED
  BY <1>1, <1>2, <1>6

-----------------------------------------------------------------------------
(***************************************************************************)
(* The connection.                                                         *)
(***************************************************************************)

\* The run loop goes on: it gives up its websocket before it rests.
LEMMA RunLoopKeepsLink ==
    ASSUME LinkInv, RunLoop
    PROVE  LinkInv'
<1> USE DEF LinkInv, LinkTypes, OnlyOneOpen, RunFits
<1>1. ASSUME NEW c \in Connections, Connected(c)
      PROVE  LinkInv'
  BY <1>1, BoundsAreNat DEF Connected, Connections
<1>2. CASE ConnectFails \/ HandshakeFails \/ ConnectionEnds
  BY <1>2 DEF ConnectFails, HandshakeFails, ConnectionEnds, Cleanup, Rest
<1>3. CASE HandshakeSent
  BY <1>3 DEF HandshakeSent
<1>4. CASE Named \/ Wake
  BY <1>4 DEF Named, Wake
<1>5. CASE Closed
  BY <1>5 DEF Closed, Rest
<1> QED
  BY <1>1, <1>2, <1>3, <1>4, <1>5 DEF RunLoop

LEMMA StopKeepsLink ==
    ASSUME LinkInv, Stop \/ StopCloses \/ StopEnds
    PROVE  LinkInv'
<1> USE DEF LinkInv, LinkTypes, OnlyOneOpen, RunFits
<1>1. CASE Stop
  BY <1>1 DEF Stop
<1>2. CASE StopCloses
  BY <1>2 DEF StopCloses
<1>3. CASE StopEnds
  BY <1>3 DEF StopEnds
<1> QED
  BY <1>1, <1>2, <1>3

\* The message a receive loop reads.
LEMMA HeadOfInbox ==
    ASSUME TrafficInv, NEW c \in Connections, inbox[c] # <<>>
    PROVE  /\ Head(inbox[c]) \in Traffic /\ Head(inbox[c]) \in Mail(c)
           /\ Tail(inbox[c]) \in Seq(Traffic)
<1>1. inbox[c] \in Seq(Traffic)
  BY DEF TrafficInv
<1>2. 1 \in 1..Len(inbox[c]) /\ Head(inbox[c]) = inbox[c][1]
  BY <1>1
<1> QED
  BY <1>1, <1>2 DEF Mail

LEMMA RecvLoopKeepsLink ==
    ASSUME LinkInv, TrafficInv, NEW c \in Connections, RecvLoop(c)
    PROVE  LinkInv'
<1>1. CASE Receive(c)
  <2> DEFINE m == Head(inbox[c])
  <2>1. m \in Traffic
    BY <1>1, HeadOfInbox DEF Receive
  <2>2. m.type = "update" => m.add \in {"self", "other", "nobody"}
    BY <2>1 DEF Traffic, Updates, Others, Responses
  <2>3. \/ name' = name
        \/ m.type = "update" /\ name' = NameAfter(c, m)
    BY <1>1 DEF Receive
  <2>4. name' \in [who : {"self", "other"}, on : Connections] \cup {NoName}
    BY <2>2, <2>3 DEF NameAfter, LinkInv, LinkTypes
  <2>5. loop' \in [Connections ->
                     {"none", "receiving", "handling", "ended", "failed"}]
    BY <1>1 DEF Receive, AfterMessage, LinkInv, LinkTypes
  <2> QED
    BY <1>1, <2>4, <2>5 DEF Receive, LinkInv, LinkTypes, OnlyOneOpen, RunFits
<1>2. CASE Handled(c) \/ RecvFails(c)
  <2>1. loop' \in [Connections ->
                     {"none", "receiving", "handling", "ended", "failed"}]
    BY <1>2 DEF Handled, RecvFails, AfterMessage, LinkInv, LinkTypes
  <2> QED
    BY <1>2, <2>1
    DEF Handled, RecvFails, LinkInv, LinkTypes, OnlyOneOpen, RunFits
<1> QED
  BY <1>1, <1>2 DEF RecvLoop

LEMMA LinkStep ==
    ASSUME LinkInv, TrafficInv, [Next]_vars
    PROVE  LinkInv'
<1>1. ASSUME UNCHANGED linkVars
      PROVE  LinkInv'
  BY <1>1 DEF linkVars, LinkInv, LinkTypes, OnlyOneOpen, RunFits
<1>2. ASSUME NEW c \in Connections, Lose(c)
      PROVE  LinkInv'
  BY <1>2 DEF Lose, LinkInv, LinkTypes, OnlyOneOpen, RunFits
<1>3. ASSUME NEW c \in Connections, BridgeNames(c) \/ \E m : BridgeSends(c, m)
      PROVE  LinkInv'
  BY <1>1, <1>3 DEF BridgeNames, BridgeSends
<1>4. ASSUME NEW r \in Requests,
             Start(r) \/ Caller(r) \/ \E c \in Connections : BridgeAnswers(r, c)
      PROVE  LinkInv'
  BY <1>1, <1>4
  DEF Start, Caller, SendReturns, Resume, Timeout, BridgeAnswers
<1>5. CASE UNCHANGED vars
  BY <1>1, <1>5 DEF vars
<1> QED
  BY <1>2, <1>3, <1>4, <1>5, RunLoopKeepsLink, StopKeepsLink, RecvLoopKeepsLink
  DEF Next

-----------------------------------------------------------------------------
(***************************************************************************)
(* The table of pending requests.                                          *)
(***************************************************************************)

\* A caller that ends, or is failed, needs no entry; nobody else loses his.
LEMMA FailAllResult ==
    ASSUME RequestInv, FailAll
    PROVE  /\ pending' = {}
           /\ call' \in [Requests -> Calls]
           /\ \A r \in Requests :
                 /\ call'[r].at = call[r].at /\ call'[r].conn = call[r].conn
                 /\ call'[r].result \in {call[r].result, "lost"}
                 /\ call'[r].at \in {"sending", "waiting"}
                       => call'[r].result # "none"
<1>1. /\ call \in [Requests -> Calls] /\ pending' = {}
      /\ call' = [r \in Requests |->
                     IF r \in pending /\ ~Ended(r)
                     THEN [call[r] EXCEPT !.result = "lost"] ELSE call[r]]
  BY DEF RequestInv, FailAll
<1>2. ASSUME NEW r \in Requests
      PROVE  /\ call'[r] \in Calls
             /\ call'[r].at = call[r].at /\ call'[r].conn = call[r].conn
             /\ call'[r].result \in {call[r].result, "lost"}
             /\ call'[r].at \in {"sending", "waiting"}
                   => call'[r].result # "none"
  <2>1. call[r] \in Calls
    BY <1>1
  <2>2. CASE r \in pending /\ ~Ended(r)
    <3>1. call'[r] = [call[r] EXCEPT !.result = "lost"]
      BY <1>1, <2>2
    <3> QED
      BY <2>1, <3>1 DEF Calls
  <2>3. CASE ~(r \in pending /\ ~Ended(r))
    <3>1. call'[r] = call[r]
      BY <1>1, <2>3
    <3> QED
      BY <2>1, <2>3, <3>1 DEF RequestInv, TableFollowsConnection, Ended
  <2> QED
    BY <2>2, <2>3
<1>3. call' \in [Requests -> Calls]
  BY <1>1, <1>2
<1> QED
  BY <1>1, <1>2, <1>3

\* The steps of the run loop and of stop either fail all requests or leave
\* them; when they leave them the client is not at rest.
LEMMA LoopStepsKeepRequests ==
    ASSUME LinkInv, RequestInv, RunLoop \/ Stop \/ StopCloses \/ StopEnds
    PROVE  RequestInv'
<1>1. ASSUME FailAll PROVE RequestInv'
  BY <1>1, FailAllResult DEF RequestInv, SendsHaveConnection, TableFollowsConnection
<1>2. ASSUME UNCHANGED <<pending, call>>,
             \/ run' \in {"sleeping", "connecting"}
             \/ stopper' = "done"
             => pending = {}
      PROVE  RequestInv'
  BY <1>2 DEF RequestInv, SendsHaveConnection, TableFollowsConnection
<1>3. ASSUME NEW c \in Connections, Connected(c)
      PROVE  RequestInv'
  BY <1>2, <1>3
  DEF Connected, requestVars, RequestInv, SendsHaveConnection,
     TableFollowsConnection
<1>4. CASE ConnectFails \/ HandshakeFails \/ ConnectionEnds
  <2>1. stopper # "done"
    BY <1>4 DEF ConnectFails, HandshakeFails, ConnectionEnds, LinkInv, RunFits
  <2> QED
    BY <1>1, <1>2, <1>4, <2>1
    DEF ConnectFails, HandshakeFails, ConnectionEnds, Cleanup
<1>5. CASE HandshakeSent \/ Named
  <2>1. stopper # "done"
    BY <1>5 DEF HandshakeSent, Named, LinkInv, RunFits
  <2> QED
    BY <1>2, <1>5, <2>1 DEF HandshakeSent, Named, requestVars
<1>6. CASE Closed
  BY <1>1, <1>6 DEF Closed
<1>7. CASE Wake
  BY <1>2, <1>7 DEF Wake, requestVars, RequestInv, SendsHaveConnection,
     TableFollowsConnection
<1>8. CASE Stop
  BY <1>2, <1>8 DEF Stop, requestVars, RequestInv, SendsHaveConnection,
     TableFollowsConnection
<1>9. CASE StopCloses
  BY <1>1, <1>2, <1>9 DEF StopCloses
<1>10. CASE StopEnds
  BY <1>1, <1>10 DEF StopEnds
<1> QED
  BY <1>3, <1>4, <1>5, <1>6, <1>7, <1>8, <1>9, <1>10 DEF RunLoop

\* What a step of a caller does to its request.
LEMMA CallerResult ==
    ASSUME LinkInv, RequestInv, NEW r \in Requests, Start(r) \/ Caller(r)
    PROVE  /\ call' \in [Requests -> Calls]
           /\ \A q \in Requests \ {r} : call'[q] = call[q]
           /\ \/ /\ Start(r)
                 /\ call[r].at = "new" /\ call'[r].at = "sending"
                 /\ call'[r].result = call[r].result
                 /\ call'[r].conn \in Connections
              \/ /\ SendReturns(r)
                 /\ call[r].at = "sending" /\ call'[r].at = "waiting"
                 /\ call'[r].result = call[r].result
              \/ /\ call[r].at \in {"sending", "waiting"}
                 /\ call'[r].at \in {"answered", "failed"}
                 /\ call'[r].result = "none"
<1>1. /\ call \in [Requests -> Calls] /\ call[r] \in Calls
      /\ ws \in Connections \cup {0}
  BY DEF RequestInv, LinkInv, LinkTypes
<1>2. \A how \in {"answered", "failed"} :
         End(how) \in Calls /\ End(how).at = how /\ End(how).result = "none"
  BY DEF End, NoCall, Calls
<1>3. CASE Start(r)
  <2>1. /\ call[r].at = "new"
        /\ call' = [call EXCEPT ![r] = [@ EXCEPT !.at = "sending", !.conn = ws]]
    BY <1>3 DEF Start
  <2>2. call'[r] = [call[r] EXCEPT !.at = "sending", !.conn = ws]
    BY <1>1, <2>1
  <2>3. /\ call'[r] \in Calls /\ call'[r].at = "sending"
        /\ call'[r].result = call[r].result /\ call'[r].conn = ws
    BY <1>1, <2>2 DEF Calls
  <2>4. ws # 0
    BY <1>3 DEF Start
  <2> QED
    BY <1>1, <1>3, <2>1, <2>3, <2>4
<1>4. CASE SendReturns(r) /\ line[call[r].conn] = "open"
  <2>1. /\ call[r].at = "sending"
        /\ call' = [call EXCEPT ![r] = [@ EXCEPT !.at = "waiting", !.conn = 0]]
    BY <1>4 DEF SendReturns
  <2>2. call'[r] = [call[r] EXCEPT !.at = "waiting", !.conn = 0]
    BY <1>1, <2>1
  <2>3. /\ call'[r] \in Calls /\ call'[r].at = "waiting"
        /\ call'[r].result = call[r].result
    BY <1>1, <2>2 DEF Calls
  <2> QED
    BY <1>1, <1>4, <2>1, <2>3
<1>5. CASE SendReturns(r) /\ line[call[r].conn] # "open"
  BY <1>1, <1>2, <1>5 DEF SendReturns
<1>6. CASE Resume(r) \/ Timeout(r)
  BY <1>1, <1>2, <1>6 DEF Resume, Timeout
<1> QED
  BY <1>3, <1>4, <1>5, <1>6 DEF Caller

\* A request of the agent.  It does not start without a websocket, so not
\* while the client rests.
LEMMA CallerKeepsRequests ==
    ASSUME LinkInv, RequestInv, NEW r \in Requests, Start(r) \/ Caller(r)
    PROVE  RequestInv'
<1>1. run' = run /\ stopper' = stopper
  BY DEF Start, Caller, SendReturns, Resume, Timeout, linkVars
<1>2. CASE Start(r)
  <2>1. pending' = pending \cup {r} /\ ws # 0
    BY <1>2 DEF Start
  <2>2. run \notin {"sleeping", "connecting"} /\ stopper # "done"
    BY <2>1 DEF LinkInv, OnlyOneOpen, RunFits
  <2> QED
    BY <1>1, <2>1, <2>2, CallerResult DEF RequestInv, SendsHaveConnection, TableFollowsConnection
<1>3. CASE SendReturns(r)
  <2>1. pending' = pending
    BY <1>3 DEF SendReturns
  <2>2. \/ call'[r].result = call[r].result /\ call[r].at = "sending"
        \/ call'[r].at \in {"answered", "failed"}
    <3>1. call[r].at = "sending"
      BY <1>3 DEF SendReturns
    <3> QED
      BY <1>3, <3>1, CallerResult DEF Caller
  <2>3. \A q \in Requests \ {r} : call'[q] = call[q]
    BY CallerResult
  <2> QED
    BY <1>1, <2>1, <2>2, <2>3, CallerResult
    DEF RequestInv, SendsHaveConnection, TableFollowsConnection
<1>4. CASE Resume(r) \/ Timeout(r)
  <2>1. pending' \in {pending, pending \ {r}}
    BY <1>4 DEF Resume, Timeout
  <2>2. call'[r].at \in {"answered", "failed"}
    BY <1>4, CallerResult DEF Start, SendReturns, Resume, Timeout
  <2> QED
    BY <1>1, <2>1, <2>2, CallerResult DEF RequestInv, SendsHaveConnection, TableFollowsConnection
<1> QED
  BY <1>2, <1>3, <1>4 DEF Caller

\* What a receive loop does to the requests: an answer ends the entry of a
\* request, and whoever waits for it has it.
LEMMA ReceiveResult ==
    ASSUME RequestInv, TrafficInv, NEW c \in Connections, Receive(c)
    PROVE  \/ UNCHANGED <<pending, call>>
           \/ \E r \in Requests :
                 /\ \E m \in Mail(c) : m.type = "response" /\ m.request = r
                 /\ pending' = pending \ {r}
                 /\ \/ call' = call /\ (r \notin pending \/ Ended(r))
                    \/ /\ call' \in [Requests -> Calls]
                       /\ ~Ended(r)
                       /\ \A q \in Requests \ {r} : call'[q] = call[q]
                       /\ call'[r].at = call[r].at
                       /\ call'[r].conn = call[r].conn /\ call'[r].result = "ok"
<1> DEFINE m == Head(inbox[c])
<1>1. m \in Traffic /\ m \in Mail(c)
  BY HeadOfInbox DEF Receive
<1>2. \/ UNCHANGED <<pending, call>>
      \/ /\ m.type = "response"
         /\ pending' = pending \ {m.request}
         /\ call' = IF m.request \in pending /\ ~Ended(m.request)
                    THEN [call EXCEPT ![m.request].result = "ok"] ELSE call
  BY DEF Receive
<1> HIDE DEF m
<1>3. ASSUME m.type = "response"
      PROVE  m.request \in Requests
  BY <1>1, <1>3 DEF Traffic, Updates, Others, Responses
<1>4. ASSUME NEW r \in Requests, call' = [call EXCEPT ![r].result = "ok"]
      PROVE  /\ call' \in [Requests -> Calls]
             /\ \A q \in Requests \ {r} : call'[q] = call[q]
             /\ call'[r].at = call[r].at
             /\ call'[r].conn = call[r].conn /\ call'[r].result = "ok"
  <2>1. call \in [Requests -> Calls] /\ call[r] \in Calls
    BY DEF RequestInv
  <2>2. call' = [call EXCEPT ![r] = [@ EXCEPT !.result = "ok"]]
    BY <1>4
  <2>3. call'[r] = [call[r] EXCEPT !.result = "ok"]
    BY <2>1, <2>2
  <2>4. /\ call'[r] \in Calls /\ call'[r].at = call[r].at
        /\ call'[r].conn = call[r].conn /\ call'[r].result = "ok"
    BY <2>1, <2>3 DEF Calls
  <2> QED
    BY <2>1, <2>2, <2>4
<1>5. CASE /\ m.type = "response"
           /\ pending' = pending \ {m.request}
           /\ call' = IF m.request \in pending /\ ~Ended(m.request)
                      THEN [call EXCEPT ![m.request].result = "ok"] ELSE call
  <2>1. PICK r \in Requests : r = m.request
    BY <1>3, <1>5
  <2> QED
    BY <1>1, <1>4, <1>5, <2>1
<1> QED
  BY <1>2, <1>5

LEMMA RequestStep ==
    ASSUME LinkInv, RequestInv, TrafficInv, [Next]_vars
    PROVE  RequestInv'
<1>1. ASSUME UNCHANGED <<pending, call, run, stopper>>
      PROVE  RequestInv'
  BY <1>1 DEF RequestInv, SendsHaveConnection, TableFollowsConnection
<1>2. ASSUME NEW c \in Connections, Lose(c) \/ BridgeNames(c)
                                    \/ (\E m : BridgeSends(c, m))
                                    \/ Handled(c) \/ RecvFails(c)
      PROVE  RequestInv'
  BY <1>1, <1>2 DEF Lose, BridgeNames, BridgeSends, Handled, RecvFails,
     linkVars, requestVars
<1>3. ASSUME NEW c \in Connections, NEW r \in Requests, BridgeAnswers(r, c)
      PROVE  RequestInv'
  BY <1>1, <1>3 DEF BridgeAnswers, linkVars
<1>4. ASSUME NEW c \in Connections, Receive(c)
      PROVE  RequestInv'
  <2>1. run' = run /\ stopper' = stopper
    BY <1>4 DEF Receive
  <2>2. CASE UNCHANGED <<pending, call>>
    BY <1>1, <2>1, <2>2
  <2>3. ASSUME NEW r \in Requests,
               pending' = pending \ {r},
               \/ call' = call /\ (r \notin pending \/ Ended(r))
               \/ /\ call' \in [Requests -> Calls]
                  /\ \A q \in Requests \ {r} : call'[q] = call[q]
                  /\ call'[r].at = call[r].at /\ call'[r].conn = call[r].conn
                  /\ call'[r].result = "ok"
        PROVE  RequestInv'
    BY <2>1, <2>3 DEF RequestInv, SendsHaveConnection,
       TableFollowsConnection, Ended
  <2> QED
    BY <1>4, <2>2, <2>3, ReceiveResult
<1>5. CASE UNCHANGED vars
  BY <1>1, <1>5 DEF vars, linkVars, requestVars
<1> QED
  BY <1>2, <1>3, <1>4, <1>5, LoopStepsKeepRequests, CallerKeepsRequests
  DEF Next, RecvLoop

-----------------------------------------------------------------------------
(***************************************************************************)
(* What is under way.                                                      *)
(***************************************************************************)

\* What has been said stays said while requests go on as they do.
LEMMA TrafficStays ==
    ASSUME TrafficInv,
           inbox' \in [Connections -> Seq(Traffic)],
           assigned' \subseteq Connections, messages' \in 0..MaxMessages,
           asked' \subseteq asked,
           replied \subseteq replied', replied' \subseteq Requests,
           \A r \in Requests :
              /\ call[r].at # "new" => call'[r].at # "new"
              /\ Ended(r) => Ended(r)'
              /\ call'[r].result = "ok" => r \in replied',
           \A c \in Connections : \A m \in Mail(c)' :
              m \in Mail(c) \/ m.type # "response"
                 \/ m.request \in replied' \/ Ended(m.request)'
    PROVE  TrafficInv'
<1>1. /\ asked \subseteq Requests \X Connections
      /\ \A c \in Connections : Mail(c) \subseteq Traffic
  BY DEF TrafficInv, Mail
<1>2. \A m \in Traffic : m.type = "response" => m.request \in Requests
  BY DEF Traffic, Updates, Others, Responses
<1>3. \A q \in asked' : call'[q[1]].at # "new"
  BY <1>1 DEF TrafficInv, AnswersFit
<1>4. ASSUME NEW c \in Connections, NEW m \in Mail(c)', m.type = "response"
      PROVE  m.request \in replied' \/ Ended(m.request)'
  <2>1. CASE m \in Mail(c)
    <3>1. m.request \in replied \/ Ended(m.request)
      BY <1>4, <2>1 DEF TrafficInv, AnswersFit
    <3>2. m.request \in Requests
      BY <1>1, <1>2, <1>4, <2>1
    <3> QED
      BY <3>1, <3>2
  <2> QED
    BY <1>4, <2>1
<1> QED
  BY <1>1, <1>3, <1>4 DEF TrafficInv, AnswersFit

\* What a loop reads, or drops, is no longer to be read.
LEMMA MailShrinks ==
    ASSUME TrafficInv, NEW c \in Connections, NEW box,
           inbox' = [inbox EXCEPT ![c] = box],
           \/ box = inbox[c] \/ box = <<>>
           \/ inbox[c] # <<>> /\ box = Tail(inbox[c])
    PROVE  /\ inbox' \in [Connections -> Seq(Traffic)]
           /\ \A d \in Connections : Mail(d)' \subseteq Mail(d)
<1>1. inbox \in [Connections -> Seq(Traffic)] /\ inbox[c] \in Seq(Traffic)
  BY DEF TrafficInv
<1>2. box \in Seq(Traffic)
  <2>1. inbox[c] # <<>> => Tail(inbox[c]) \in Seq(Traffic)
    BY HeadOfInbox
  <2>2. <<>> \in Seq(Traffic)
    OBVIOUS
  <2> QED
    BY <1>1, <2>1, <2>2
<1>3. /\ inbox'[c] = box
      /\ \A d \in Connections \ {c} : inbox'[d] = inbox[d]
  BY <1>1
<1>4. {box[n] : n \in 1..Len(box)} \subseteq Mail(c)
  <2>1. CASE box = inbox[c] \/ box = <<>>
    BY <2>1 DEF Mail
  <2>2. CASE inbox[c] # <<>> /\ box = Tail(inbox[c])
    <3>1. /\ Len(box) = Len(inbox[c]) - 1 /\ Len(inbox[c]) \in Nat
          /\ \A n \in 1..Len(box) : box[n] = inbox[c][n + 1]
      BY <1>1, <2>2
    <3>2. \A n \in 1..Len(box) : n + 1 \in 1..Len(inbox[c])
      BY <3>1
    <3> QED
      BY <3>1, <3>2 DEF Mail
  <2> QED
    BY <2>1, <2>2
<1>5. \A d \in Connections : Mail(d)' \subseteq Mail(d)
  BY <1>3, <1>4 DEF Mail
<1> QED
  BY <1>1, <1>2, <1>5

\* A message arrives.
LEMMA MailGrows ==
    ASSUME TrafficInv, NEW c \in Connections, NEW m \in Traffic, Arrives(c, m)
    PROVE  /\ inbox' \in [Connections -> Seq(Traffic)]
           /\ \A d \in Connections : Mail(d)' \subseteq Mail(d) \cup {m}
<1>1. inbox \in [Connections -> Seq(Traffic)] /\ inbox[c] \in Seq(Traffic)
  BY DEF TrafficInv
<1> DEFINE box == Append(inbox[c], m)
<1>2. /\ box \in Seq(Traffic)
      /\ Len(box) = Len(inbox[c]) + 1 /\ Len(inbox[c]) \in Nat
      /\ \A n \in 1..Len(inbox[c]) : box[n] = inbox[c][n]
      /\ box[Len(inbox[c]) + 1] = m
  BY <1>1
<1>3. inbox' = [inbox EXCEPT ![c] = box]
  BY DEF Arrives
<1> HIDE DEF box
<1>4. /\ inbox'[c] = box
      /\ \A d \in Connections \ {c} : inbox'[d] = inbox[d]
      /\ inbox' \in [Connections -> Seq(Traffic)]
  BY <1>1, <1>2, <1>3
<1>5. \A n \in 1..Len(box) : n \in 1..Len(inbox[c]) \/ n = Len(inbox[c]) + 1
  BY <1>2
<1>6. {box[n] : n \in 1..Len(box)} \subseteq Mail(c) \cup {m}
  BY <1>2, <1>5 DEF Mail
<1>7. \A d \in Connections : Mail(d)' \subseteq Mail(d) \cup {m}
  BY <1>4, <1>6 DEF Mail
<1> QED
  BY <1>4, <1>7

\* The bridge speaks, or the network fails.
LEMMA BridgeKeepsTraffic ==
    ASSUME TrafficInv, NEW c \in Connections,
           \/ Lose(c) \/ BridgeNames(c)
           \/ \E m \in Updates \cup Others : BridgeSends(c, m)
           \/ \E r \in Requests : BridgeAnswers(r, c)
    PROVE  TrafficInv'
<1>1. /\ inbox \in [Connections -> Seq(Traffic)]
      /\ assigned \subseteq Connections /\ messages \in 0..MaxMessages
      /\ replied \subseteq Requests
      /\ \A r \in Requests : call[r].result = "ok" => r \in replied
      /\ asked \subseteq Requests \X Connections
      /\ \A q \in asked : call[q[1]].at # "new"
  BY DEF TrafficInv, AnswersFit
<1>2. CASE Lose(c)
  <2>1. /\ UNCHANGED <<inbox, assigned, messages, call, replied>>
        /\ asked' \subseteq asked
    BY <1>2 DEF Lose, Unasked, bridgeVars
  <2>2. \A d \in Connections : Mail(d)' = Mail(d)
    BY <2>1 DEF Mail
  <2> QED
    BY <1>1, <2>1, <2>2, TrafficStays DEF Ended
<1>3. CASE BridgeNames(c)
  <2> DEFINE m == [type |-> "update", add |-> "self"]
  <2>1. /\ Arrives(c, m) /\ assigned' \subseteq Connections
        /\ UNCHANGED <<messages, call, asked, replied>>
    BY <1>1, <1>3 DEF BridgeNames, requestVars
  <2>2. m \in Traffic /\ m.type # "response"
    BY DEF Traffic, Updates
  <2> HIDE DEF m
  <2>3. /\ inbox' \in [Connections -> Seq(Traffic)]
        /\ \A d \in Connections : Mail(d)' \subseteq Mail(d) \cup {m}
    BY <2>1, <2>2, MailGrows
  <2> QED
    BY <1>1, <2>1, <2>2, <2>3, TrafficStays DEF Ended
<1>4. ASSUME NEW m \in Updates \cup Others, BridgeSends(c, m)
      PROVE  TrafficInv'
  <2>1. /\ Arrives(c, m) /\ assigned' = assigned
        /\ messages < MaxMessages /\ messages' = messages + 1
        /\ UNCHANGED <<call, asked, replied>>
    BY <1>4 DEF BridgeSends, requestVars
  <2>2. m \in Traffic /\ m.type # "response"
    BY <1>4 DEF Traffic, Updates, Others
  <2>3. /\ inbox' \in [Connections -> Seq(Traffic)]
        /\ \A d \in Connections : Mail(d)' \subseteq Mail(d) \cup {m}
    BY <2>1, <2>2, MailGrows
  <2>4. messages' \in 0..MaxMessages
    BY <1>1, <2>1, BoundsAreNat
  <2> QED
    BY <1>1, <2>1, <2>2, <2>3, <2>4, TrafficStays DEF Ended
<1>5. ASSUME NEW r \in Requests, BridgeAnswers(r, c)
      PROVE  TrafficInv'
  <2> DEFINE m == [type |-> "response", request |-> r]
  <2>1. /\ Arrives(c, m)
        /\ UNCHANGED <<assigned, messages, call>>
        /\ asked' \subseteq asked
        /\ replied' = IF Ended(r) THEN replied ELSE replied \cup {r}
    BY <1>5 DEF BridgeAnswers
  <2>2. m \in Traffic /\ m.request = r
    BY DEF Traffic, Responses
  <2> HIDE DEF m
  <2>3. /\ inbox' \in [Connections -> Seq(Traffic)]
        /\ \A d \in Connections : Mail(d)' \subseteq Mail(d) \cup {m}
    BY <2>1, <2>2, MailGrows
  <2>4. \A q \in Requests : Ended(q)' <=> Ended(q)
    BY <2>1 DEF Ended
  <2>5. r \in replied' \/ Ended(r)'
    BY <2>1, <2>4
  <2>6. \A d \in Connections : \A k \in Mail(d)' :
           k \in Mail(d) \/ k.request \in replied' \/ Ended(k.request)'
    <3> SUFFICES ASSUME NEW d \in Connections, NEW k \in Mail(d)', k \notin Mail(d)
                 PROVE  k.request \in replied' \/ Ended(k.request)'
      OBVIOUS
    <3>1. k = m
      BY <2>3
    <3> QED
      BY <3>1, <2>2, <2>5
  <2> QED
    BY <1>1, <2>1, <2>3, <2>4, <2>6, TrafficStays
<1> QED
  BY <1>2, <1>3, <1>4, <1>5

\* The loops and stop: what they drop nobody reads.
LEMMA LoopStepsKeepTraffic ==
    ASSUME RequestInv, TrafficInv, RunLoop \/ Stop \/ StopCloses \/ StopEnds
    PROVE  TrafficInv'
<1>1. /\ inbox \in [Connections -> Seq(Traffic)]
      /\ assigned \subseteq Connections /\ messages \in 0..MaxMessages
      /\ replied \subseteq Requests
      /\ \A r \in Requests : call[r].result = "ok" => r \in replied
  BY DEF TrafficInv, AnswersFit
<1>2. /\ UNCHANGED <<assigned, messages, replied>>
      /\ asked' \subseteq asked
      /\ call' = call \/ FailAll
      /\ \/ inbox' = inbox
         \/ inbox' = [c \in Connections |->
                        IF c = recvTask THEN <<>> ELSE inbox[c]]
  BY DEF RunLoop, Connected, ConnectFails, HandshakeSent, HandshakeFails, Named,
     ConnectionEnds, Closed, Wake, Cleanup, Stop, StopCloses, StopEnds,
     Unasked, bridgeVars, requestVars
<1>3. \A r \in Requests : /\ call'[r].at = call[r].at
                          /\ call'[r].result \in {call[r].result, "lost"}
  BY <1>2, FailAllResult
<1>4. \A r \in Requests : Ended(r)' <=> Ended(r)
  BY <1>3 DEF Ended
<1>5. /\ inbox' \in [Connections -> Seq(Traffic)]
      /\ \A c \in Connections : inbox'[c] \in {inbox[c], <<>>}
  <2>1. CASE inbox' = inbox
    BY <1>1, <2>1
  <2>2. CASE inbox' = [c \in Connections |->
                         IF c = recvTask THEN <<>> ELSE inbox[c]]
    <3>1. <<>> \in Seq(Traffic)
      OBVIOUS
    <3> QED
      BY <1>1, <2>2, <3>1
  <2> QED
    BY <1>2, <2>1, <2>2
<1>6. \A c \in Connections : Mail(c)' \subseteq Mail(c)
  BY <1>5 DEF Mail
<1> QED
  BY <1>1, <1>2, <1>3, <1>4, <1>5, <1>6, TrafficStays

\* Requests of the agent: the bridge is asked once the send has returned.
LEMMA CallerKeepsTraffic ==
    ASSUME LinkInv, RequestInv, TrafficInv, NEW r \in Requests,
           Start(r) \/ Caller(r)
    PROVE  TrafficInv'
<1>1. /\ inbox \in [Connections -> Seq(Traffic)]
      /\ assigned \subseteq Connections /\ messages \in 0..MaxMessages
      /\ replied \subseteq Requests /\ asked \subseteq Requests \X Connections
      /\ \A q \in Requests : call[q].result = "ok" => q \in replied
  BY DEF TrafficInv, AnswersFit
<1>2. /\ UNCHANGED <<inbox, assigned, messages, replied>>
      /\ \/ asked' = asked
         \/ /\ SendReturns(r) /\ line[call[r].conn] = "open"
            /\ asked' = asked \cup {<<r, call[r].conn>>}
  BY DEF Start, Caller, SendReturns, Resume, Timeout, bridgeVars
<1>3. /\ \A q \in Requests \ {r} : call'[q] = call[q]
      /\ call'[r].at # "new"
      /\ Ended(r) => Ended(r)'
      /\ call'[r].result \in {call[r].result, "none"}
  BY CallerResult DEF Ended
<1>4. \A q \in Requests : /\ call[q].at # "new" => call'[q].at # "new"
                          /\ Ended(q) => Ended(q)'
                          /\ call'[q].result = "ok" => q \in replied
  BY <1>1, <1>3 DEF Ended
<1>5. \A c \in Connections : Mail(c)' = Mail(c)
  BY <1>2 DEF Mail
<1>6. CASE asked' = asked
  BY <1>1, <1>2, <1>4, <1>5, <1>6, TrafficStays
<1>7. CASE SendReturns(r) /\ line[call[r].conn] = "open"
  <2>1. call[r].conn \in Connections
    BY <1>7 DEF RequestInv, SendsHaveConnection, SendReturns
  <2>2. asked' \subseteq asked \cup {<<r, call[r].conn>>}
    BY <1>2
  <2>3. \A q \in asked' : call'[q[1]].at # "new"
    BY <1>1, <1>3, <1>4, <2>2 DEF TrafficInv, AnswersFit
  <2>4. asked' \subseteq Requests \X Connections
    BY <1>1, <2>1, <2>2
  <2>5. \A q \in Requests : call'[q].result = "ok" => q \in replied'
    BY <1>2, <1>4
  <2>6. ASSUME NEW c \in Connections, NEW m \in Mail(c), m.type = "response"
        PROVE  m.request \in replied' \/ Ended(m.request)'
    <3>1. m.request \in replied \/ Ended(m.request)
      BY <2>6 DEF TrafficInv, AnswersFit
    <3>2. m \in Traffic
      BY <1>1 DEF Mail
    <3>3. m.request \in Requests
      BY <2>6, <3>2 DEF Traffic, Updates, Others, Responses
    <3> QED
      BY <1>2, <1>4, <3>1, <3>3
  <2>7. AnswersFit'
    BY <1>5, <2>3, <2>5, <2>6 DEF AnswersFit
  <2> QED
    BY <1>1, <1>2, <2>4, <2>7 DEF TrafficInv
<1> QED
  BY <1>2, <1>6, <1>7

\* A receive loop reads; an answer it gives to a caller is the bridge's.
LEMMA RecvLoopKeepsTraffic ==
    ASSUME RequestInv, TrafficInv, NEW c \in Connections, RecvLoop(c)
    PROVE  TrafficInv'
<1>1. /\ inbox \in [Connections -> Seq(Traffic)]
      /\ assigned \subseteq Connections /\ messages \in 0..MaxMessages
      /\ replied \subseteq Requests
      /\ \A r \in Requests : call[r].result = "ok" => r \in replied
  BY DEF TrafficInv, AnswersFit
<1>2. UNCHANGED <<assigned, messages, asked, replied>>
  BY DEF RecvLoop, Receive, Handled, RecvFails, bridgeVars, requestVars
<1>3. PICK box : /\ inbox' = [inbox EXCEPT ![c] = box]
                 /\ \/ box = inbox[c] \/ box = <<>>
                    \/ inbox[c] # <<>> /\ box = Tail(inbox[c])
  <2>1. CASE Receive(c)
    BY <2>1 DEF Receive
  <2>2. CASE Handled(c)
    BY <2>2 DEF Handled
  <2>3. CASE RecvFails(c)
    BY <1>1, <2>3 DEF RecvFails, bridgeVars
  <2> QED
    BY <2>1, <2>2, <2>3 DEF RecvLoop
<1>4. /\ inbox' \in [Connections -> Seq(Traffic)]
      /\ \A d \in Connections : Mail(d)' \subseteq Mail(d)
  BY <1>3, MailShrinks
<1>5. \A r \in Requests : /\ call[r].at # "new" => call'[r].at # "new"
                          /\ Ended(r) => Ended(r)'
                          /\ call'[r].result = "ok" => r \in replied
  <2>1. CASE call' = call
    BY <1>1, <2>1 DEF Ended
  <2>2. CASE Receive(c)
    <3>1. ASSUME NEW r \in Requests,
                 \E m \in Mail(c) : m.type = "response" /\ m.request = r,
                 ~Ended(r),
                 \A q \in Requests \ {r} : call'[q] = call[q],
                 call'[r].at = call[r].at
          PROVE  \A q \in Requests :
                    /\ call[q].at # "new" => call'[q].at # "new"
                    /\ Ended(q) => Ended(q)'
                    /\ call'[q].result = "ok" => q \in replied
      <4>1. r \in replied
        BY <3>1 DEF TrafficInv, AnswersFit
      <4> QED
        BY <1>1, <3>1, <4>1 DEF Ended
    <3> QED
      BY <2>1, <2>2, <3>1, ReceiveResult
  <2>3. CASE Handled(c) \/ RecvFails(c)
    BY <2>1, <2>3 DEF Handled, RecvFails, requestVars
  <2> QED
    BY <2>2, <2>3 DEF RecvLoop
<1> QED
  BY <1>1, <1>2, <1>4, <1>5, TrafficStays

LEMMA TrafficStep ==
    ASSUME LinkInv, RequestInv, TrafficInv, [Next]_vars
    PROVE  TrafficInv'
<1>1. CASE UNCHANGED vars
  BY <1>1 DEF vars, linkVars, bridgeVars, requestVars, TrafficInv, AnswersFit,
     Mail, Ended
<1>2. ASSUME NEW m \in Updates \cup Others, NEW c \in Connections,
             BridgeSends(c, m)
      PROVE  TrafficInv'
  BY <1>2, BridgeKeepsTraffic
<1> QED
  BY <1>1, <1>2, BridgeKeepsTraffic, LoopStepsKeepTraffic, CallerKeepsTraffic,
     RecvLoopKeepsTraffic
  DEF Next

\* The invariant.
THEOREM BridgeInvariant == Spec => []BridgeInv
<1>1. BridgeInv /\ [Next]_vars => BridgeInv'
  <2> SUFFICES ASSUME BridgeInv, [Next]_vars PROVE BridgeInv'
    OBVIOUS
  <2>1. LinkInv' /\ RequestInv' /\ TrafficInv'
    BY BridgeInvParts, LinkStep, RequestStep, TrafficStep
  <2>2. TypeOK'
    BY <2>1 DEF LinkInv, LinkTypes, RequestInv, TrafficInv, TypeOK, Calls,
       Traffic, Responses
  <2> QED
    BY <2>1, <2>2 DEF LinkInv, RequestInv, TrafficInv, BridgeInv
<1> QED
  BY <1>1, BridgeInit, PTL DEF Spec

\* TypeOK.
THEOREM BridgeTypeCorrect == Spec => []TypeOK
<1>1. BridgeInv => TypeOK
  BY DEF BridgeInv
<1> QED
  BY <1>1, BridgeInvariant, PTL

\* Only the websocket that the client holds is open, and none while it rests
\* between two attempts, wherever the handshake failed or was stopped.
THEOREM NoWebsocketIsLeftOpen == Spec => []OnlyOneOpen
<1>1. BridgeInv => OnlyOneOpen
  BY DEF BridgeInv
<1> QED
  BY <1>1, BridgeInvariant, PTL

\* Whoever waits for the bridge is in the table of pending requests, and the
\* table is empty between two connections and after stop.
THEOREM TableFollows == Spec => []TableFollowsConnection
<1>1. BridgeInv => TableFollowsConnection
  BY DEF BridgeInv
<1> QED
  BY <1>1, BridgeInvariant, PTL

-----------------------------------------------------------------------------
(***************************************************************************)
(* A request over the bridge is a request with a timeout.                  *)
(***************************************************************************)
LEMMA BridgeInitSimulates == Init => Abstract!Init
  BY DEF Init, Abstract!Init, requestStatus, NoCall

\* Requests that stay where they are.
LEMMA StatusStays ==
    ASSUME replied' = replied,
           \A r \in Requests : call'[r].at = call[r].at
    PROVE  UNCHANGED Abstract!vars
  BY DEF Abstract!vars, requestStatus

LEMMA CallerSimulates ==
    ASSUME LinkInv, RequestInv, TrafficInv, NEW r \in Requests,
           Start(r) \/ Caller(r)
    PROVE  [Abstract!Next]_(Abstract!vars)
<1>1. replied' = replied
  BY DEF Start, Caller, SendReturns, Resume, Timeout
<1>2. \A q \in Requests \ {r} : call'[q] = call[q]
  BY CallerResult
<1>3. ASSUME NEW value, requestStatus'[r] = value
      PROVE  requestStatus' = [requestStatus EXCEPT ![r] = value]
  BY <1>2, <1>3 DEF requestStatus
<1>4. CASE call[r].at = "new" /\ call'[r].at = "sending"
  <2>1. requestStatus[r] = "new" /\ requestStatus'[r] = "open"
    BY <1>4 DEF requestStatus
  <2> QED
    BY <1>1, <1>3, <2>1 DEF Abstract!Next, Abstract!Open
<1>5. CASE call[r].at = "sending" /\ call'[r].at = "waiting"
  <2>1. requestStatus' = requestStatus
    BY <1>2, <1>5 DEF requestStatus
  <2> QED
    BY <1>1, <2>1 DEF Abstract!vars
<1>6. CASE /\ call[r].at \in {"sending", "waiting"}
           /\ call'[r].at = "failed"
  <2>1. requestStatus[r] = "open" /\ requestStatus'[r] = "failed"
    BY <1>6 DEF requestStatus
  <2> QED
    BY <1>1, <1>3, <2>1 DEF Abstract!Next, Abstract!Fail
<1>7. CASE /\ call[r].at \in {"sending", "waiting"}
           /\ call'[r].at = "answered"
  <2>1. requestStatus[r] = "open" /\ requestStatus'[r] = "answered"
    BY <1>7 DEF requestStatus
  <2>2. call[r].result = "ok"
    <3>1. call[r] \in Calls
      BY DEF RequestInv
    <3>2. DOMAIN call = Requests
      BY DEF RequestInv
    <3>3. End("failed").at = "failed"
      BY DEF End, NoCall
    <3>4. ~Start(r) /\ ~SendReturns(r) /\ ~Timeout(r)
      <4>1. ~Start(r) /\ ~Timeout(r)
        BY <1>7, <3>2, <3>3 DEF Start, Timeout
      <4>2. ASSUME SendReturns(r), line[call[r].conn] = "open"
            PROVE  call'[r].at = "waiting"
        <5>1. call' = [call EXCEPT ![r] = [@ EXCEPT !.at = "waiting", !.conn = 0]]
          BY <4>2 DEF SendReturns
        <5>2. call'[r] = [call[r] EXCEPT !.at = "waiting", !.conn = 0]
          BY <3>2, <5>1
        <5> QED
          BY <3>1, <5>2 DEF Calls
      <4>3. ASSUME SendReturns(r), line[call[r].conn] # "open"
            PROVE  call'[r].at = "failed"
        BY <3>2, <3>3, <4>3 DEF SendReturns
      <4> QED
        BY <1>7, <4>1, <4>2, <4>3
    <3>5. /\ call[r].result # "none"
          /\ call' = [call EXCEPT ![r] =
                        End(IF @.result = "lost" THEN "failed" ELSE "answered")]
      BY <3>4 DEF Caller, Resume
    <3>6. call[r].result # "lost"
      BY <1>7, <3>2, <3>3, <3>5
    <3> QED
      BY <3>1, <3>5, <3>6 DEF Calls
  <2>3. r \in replied
    BY <2>2 DEF TrafficInv, AnswersFit
  <2> QED
    BY <1>1, <1>3, <2>1, <2>3 DEF Abstract!Next, Abstract!Answer
<1> QED
  BY <1>4, <1>5, <1>6, <1>7, CallerResult

LEMMA BridgeStepSimulates ==
    ASSUME LinkInv, RequestInv, TrafficInv, [Next]_vars
    PROVE  [Abstract!Next]_(Abstract!vars)
<1>1. ASSUME replied' = replied, call' = call \/ FailAll
      PROVE  UNCHANGED Abstract!vars
  BY <1>1, FailAllResult, StatusStays
<1>2. CASE UNCHANGED vars
  BY <1>1, <1>2 DEF vars, requestVars
<1>3. CASE RunLoop \/ Stop \/ StopCloses \/ StopEnds
  BY <1>1, <1>3
  DEF RunLoop, Connected, ConnectFails, HandshakeSent, HandshakeFails, Named,
      ConnectionEnds, Closed, Wake, Cleanup, Stop, StopCloses, StopEnds,
      requestVars
<1>4. ASSUME NEW c \in Connections,
             \/ Lose(c) \/ BridgeNames(c) \/ \E m : BridgeSends(c, m)
             \/ Handled(c) \/ RecvFails(c)
      PROVE  [Abstract!Next]_(Abstract!vars)
  BY <1>1, <1>4 DEF Lose, BridgeNames, BridgeSends, Handled, RecvFails,
     requestVars
<1>5. ASSUME NEW c \in Connections, Receive(c)
      PROVE  [Abstract!Next]_(Abstract!vars)
  <2>1. replied' = replied
    BY <1>5 DEF Receive
  <2>2. \A r \in Requests : call'[r].at = call[r].at
    BY <1>5, ReceiveResult
  <2> QED
    BY <2>1, <2>2, StatusStays
<1>6. ASSUME NEW c \in Connections, NEW r \in Requests, BridgeAnswers(r, c)
      PROVE  [Abstract!Next]_(Abstract!vars)
  <2>1. <<r, c>> \in asked /\ call' = call
    BY <1>6 DEF BridgeAnswers
  <2>2. requestStatus[r] # "new" /\ requestStatus' = requestStatus
    BY <2>1 DEF TrafficInv, AnswersFit, requestStatus
  <2>3. replied' = replied \/ replied' = replied \cup {r}
    BY <1>6 DEF BridgeAnswers
  <2> QED
    BY <2>2, <2>3 DEF Abstract!Next, Abstract!Reply, Abstract!vars
<1> QED
  BY <1>2, <1>3, <1>4, <1>5, <1>6, CallerSimulates DEF Next, RecvLoop

\* The safety half of RequestsEnd: a request over the bridge ends once, and as
\* answered only if the bridge answered it.
THEOREM BridgeRequestIsRequest ==
    Spec => Abstract!Init /\ [][Abstract!Next]_(Abstract!vars)
<1>1. BridgeInv /\ [Next]_vars => [Abstract!Next]_(Abstract!vars)
  BY BridgeInvParts, BridgeStepSimulates
<1> QED
  BY <1>1, BridgeInitSimulates, BridgeInvariant, PTL DEF Spec
=============================================================================
