-------------------------- MODULE BridgeConnection --------------------------
(***************************************************************************)
(* BridgeClient (desktop_agent/bridging/client.py): the task that keeps a  *)
(* connection to the desktop agent bridge, the receive loop of each        *)
(* connection, the requests the agent makes over it, and stop.             *)
(*                                                                         *)
(* A receive loop awaits the router for every request it reads (up to the  *)
(* 15 seconds of an open or the 30 of an external intent) and reads        *)
(* nothing meanwhile.  The loop of a connection that was given up runs on  *)
(* until it sees that the websocket is closed.                             *)
(***************************************************************************)
EXTENDS Integers, Sequences

CONSTANTS
    Requests,           \* requestUuids of send_agent_request
    MaxConnections,     \* bound: websockets opened
    MaxMessages         \* bound: updates and requests the bridge sends

ASSUME BoundsAreNat == MaxConnections \in Nat /\ MaxMessages \in Nat

Connections == 1..MaxConnections
NoName == [who |-> "nobody", on |-> 0]

VARIABLES
    run,        \* where _run_loop waits
    ws,         \* _ws, 0 for None
    recvTask,   \* _recv_task: the connection whose loop it is, or 0
    stopping,   \* _stopping
    stopper,    \* where stop waits
    name,       \* _assigned_name: whose it is and the connection it came on
    line,       \* state of each websocket
    loop,       \* its receive loop
    inbox,      \* messages for it, in order
    assigned,   \* connections on which the bridge has sent us our name
    messages,   \* bound: what the bridge sent of its own accord
    pending,    \* _pending
    call,       \* callers of send_agent_request
    asked,      \* requests the bridge got and did not answer
    replied     \* history: requests under way the bridge has answered

linkVars == <<run, ws, recvTask, stopping, stopper, name, line, loop>>
bridgeVars == <<inbox, assigned, messages>>
requestVars == <<pending, call, asked, replied>>
vars == <<linkVars, bridgeVars, requestVars>>

NoCall == [at |-> "new", conn |-> 0, result |-> "none"]
Ended(r) == call[r].at \in {"answered", "failed"}
End(how) == [NoCall EXCEPT !.at = how]

Init ==
    /\ run = "connecting" /\ ws = 0 /\ recvTask = 0
    /\ stopping = FALSE /\ stopper = "none"
    /\ name = NoName
    /\ line = [c \in Connections |-> "unused"]
    /\ loop = [c \in Connections |-> "none"]
    /\ inbox = [c \in Connections |-> <<>>]
    /\ assigned = {} /\ messages = 0
    /\ pending = {} /\ asked = {} /\ replied = {}
    /\ call = [r \in Requests |-> NoCall]

-----------------------------------------------------------------------------
(***************************************************************************)
(* The bridge and the network.                                             *)
(***************************************************************************)
Arrives(c, m) ==
    /\ line[c] = "open"
    /\ loop[c] \in {"receiving", "handling"}
    /\ inbox' = [inbox EXCEPT ![c] = Append(@, m)]

\* connectedAgentsUpdate for our handshake, and what follows it: updates for
\* other agents that join (addAgent) or leave, and requests.
BridgeNames(c) ==
    /\ c \notin assigned
    /\ Arrives(c, [type |-> "update", add |-> "self"])
    /\ assigned' = assigned \cup {c}
    /\ UNCHANGED <<linkVars, requestVars, messages>>

BridgeSends(c, m) ==
    /\ c \in assigned
    /\ messages < MaxMessages
    /\ Arrives(c, m)
    /\ messages' = messages + 1
    /\ UNCHANGED <<linkVars, requestVars, assigned>>

BridgeAnswers(r, c) ==
    /\ <<r, c>> \in asked
    /\ Arrives(c, [type |-> "response", request |-> r])
    /\ asked' = asked \ {<<r, c>>}
    /\ replied' = IF Ended(r) THEN replied ELSE replied \cup {r}
    /\ UNCHANGED <<linkVars, assigned, messages, pending, call>>

Unasked(c) == {q \in asked : q[2] # c}

Lose(c) ==
    /\ line[c] = "open"
    /\ line' = [line EXCEPT ![c] = "closed"]
    /\ asked' = Unasked(c)
    /\ UNCHANGED <<run, ws, recvTask, stopping, stopper, name, loop,
                   bridgeVars, pending, call, replied>>

-----------------------------------------------------------------------------
(***************************************************************************)
(* Requests of the agent.                                                  *)
(***************************************************************************)

\* send_agent_request, up to its send.
Start(r) ==
    /\ call[r].at = "new"
    /\ ws # 0
    /\ pending' = pending \cup {r}
    /\ call' = [call EXCEPT ![r].at = "sending", ![r].conn = ws]
    /\ UNCHANGED <<linkVars, bridgeVars, asked, replied>>

\* A send that raises leaves the entry: it is outside the try.
SendReturns(r) ==
    /\ call[r].at = "sending"
    /\ IF line[call[r].conn] = "open"
       THEN /\ call' = [call EXCEPT ![r].at = "waiting", ![r].conn = 0]
            /\ asked' = asked \cup {<<r, call[r].conn>>}
       ELSE /\ call' = [call EXCEPT ![r] = End("failed")]
            /\ UNCHANGED asked
    /\ UNCHANGED <<linkVars, bridgeVars, pending, replied>>

Resume(r) ==
    /\ call[r].at = "waiting"
    /\ call[r].result # "none"
    /\ call' = [call EXCEPT ![r] = End(IF @.result = "lost" THEN "failed"
                                       ELSE "answered")]
    /\ UNCHANGED <<linkVars, bridgeVars, pending, asked, replied>>

\* Mutant: no time limit while the bridge is connected.
TimeoutWhenLost(r) ==
    /\ call[r].at = "waiting"
    /\ ws # 0 => line[ws] # "open"
    /\ call' = [call EXCEPT ![r] = End("failed")]
    /\ pending' = pending \ {r}
    /\ UNCHANGED <<linkVars, bridgeVars, asked, replied>>

Timeout(r) ==
    /\ call[r].at = "waiting"
    /\ call' = [call EXCEPT ![r] = End("failed")]
    /\ pending' = pending \ {r}
    /\ UNCHANGED <<linkVars, bridgeVars, asked, replied>>

Caller(r) == SendReturns(r) \/ Resume(r) \/ Timeout(r)

\* _fail_all_pending.
FailAll ==
    /\ pending' = {}
    /\ call' = [r \in Requests |->
                   IF r \in pending /\ ~Ended(r)
                   THEN [call[r] EXCEPT !.result = "lost"] ELSE call[r]]

-----------------------------------------------------------------------------
(***************************************************************************)
(* _recv_loop.                                                             *)
(***************************************************************************)
Over == {"ended", "failed"}     \* what such a loop has not read is dropped

AfterMessage == IF stopping THEN "ended" ELSE "receiving"

\* addAgent, if there is one, whichever agent it names.
NameAfter(c, m) ==
    IF m.add = "nobody" THEN name ELSE [who |-> m.add, on |-> c]

Receive(c) ==
    LET m == Head(inbox[c])
    IN  /\ loop[c] = "receiving"
        /\ inbox[c] # <<>>
        /\ \/ /\ m.type = "update"
              /\ name' = NameAfter(c, m)
              /\ loop' = [loop EXCEPT ![c] = "handling"]
              /\ UNCHANGED <<pending, call>>
           \/ /\ m.type = "request"
              /\ loop' = [loop EXCEPT ![c] = "handling"]
              /\ UNCHANGED <<name, pending, call>>
           \/ /\ m.type = "authenticationFailed"
              /\ loop' = [loop EXCEPT ![c] = "failed"]
              /\ UNCHANGED <<name, pending, call>>
           \/ /\ m.type = "response"
              /\ loop' = [loop EXCEPT ![c] = AfterMessage]
              /\ pending' = pending \ {m.request}
              /\ call' = IF m.request \in pending /\ ~Ended(m.request)
                         THEN [call EXCEPT ![m.request].result = "ok"]
                         ELSE call
              /\ UNCHANGED name
        /\ inbox' = [inbox EXCEPT ![c] = IF loop'[c] \in Over THEN <<>>
                                         ELSE Tail(@)]
        /\ UNCHANGED <<run, ws, recvTask, stopping, stopper, line, assigned,
                       messages, asked, replied>>

\* The router, or the handler of the update, is through; a response to send
\* on a websocket that is gone ends the loop.
Handled(c) ==
    /\ loop[c] = "handling"
    /\ \/ loop' = [loop EXCEPT ![c] = AfterMessage]
       \/ /\ line[c] # "open"
          /\ loop' = [loop EXCEPT ![c] = "failed"]
    /\ inbox' = [inbox EXCEPT ![c] = IF loop'[c] \in Over THEN <<>> ELSE @]
    /\ UNCHANGED <<run, ws, recvTask, stopping, stopper, name, line,
                   assigned, messages, requestVars>>

\* recv raises once everything that arrived has been read.
RecvFails(c) ==
    /\ loop[c] = "receiving"
    /\ inbox[c] = <<>>
    /\ line[c] # "open"
    /\ loop' = [loop EXCEPT ![c] = "failed"]
    /\ UNCHANGED <<run, ws, recvTask, stopping, stopper, name, line,
                   bridgeVars, requestVars>>

RecvLoop(c) == Receive(c) \/ Handled(c) \/ RecvFails(c)

-----------------------------------------------------------------------------
(***************************************************************************)
(* _run_loop.                                                              *)
(***************************************************************************)
Rest == IF stopping THEN "finished" ELSE "sleeping"

\* The finally of an iteration, up to the close of the websocket.
Cleanup ==
    /\ name' = NoName
    /\ IF ws = 0 THEN run' = Rest /\ FailAll
       ELSE run' = "closing" /\ UNCHANGED <<pending, call>>
    /\ UNCHANGED <<ws, recvTask, stopping, stopper, line, loop, bridgeVars,
                   asked, replied>>

\* A port of the range accepts; _connect_and_handshake then waits for hello.
Connected(c) ==
    /\ run = "connecting"
    /\ line[c] = "unused"
    /\ \A b \in Connections : b < c => line[b] # "unused"
    /\ ws' = c
    /\ line' = [line EXCEPT ![c] = "open"]
    /\ run' = "hello"
    /\ UNCHANGED <<recvTask, stopping, stopper, name, loop,
                   bridgeVars, requestVars>>

\* Every port refuses, or the client is being stopped.
ConnectFails ==
    /\ run = "connecting"
    /\ Cleanup

\* hello was read and the handshake sent.
HandshakeSent ==
    /\ run = "hello"
    /\ ws # 0
    /\ line[ws] = "open"
    /\ recvTask' = ws
    /\ loop' = [loop EXCEPT ![ws] = IF stopping THEN "ended" ELSE "receiving"]
    /\ run' = "naming"
    /\ UNCHANGED <<ws, stopping, stopper, name, line, bridgeVars,
                   requestVars>>

\* Mutant: only a connection that was joined is closed.
HandshakeFailsOpen ==
    /\ run \in {"hello", "naming"}
    /\ name' = NoName
    /\ run' = Rest
    /\ FailAll
    /\ UNCHANGED <<ws, recvTask, stopping, stopper, line, loop, bridgeVars,
                   asked, replied>>

\* No hello within 3 seconds, no hello at all, or the send failed; no name
\* within 5 seconds.
HandshakeFails ==
    /\ run \in {"hello", "naming"}
    /\ Cleanup

\* _wait_for_assigned_name: there is a name, whoever set it and when.
Named ==
    /\ run = "naming"
    /\ name # NoName \/ stopping
    /\ run' = "joined"
    /\ UNCHANGED <<ws, recvTask, stopping, stopper, name, line, loop,
                   bridgeVars, requestVars>>

\* The receive loop that _run_loop awaits is over.
ConnectionEnds ==
    /\ run = "joined"
    /\ recvTask # 0 => loop[recvTask] \in Over
    /\ Cleanup

\* Mutant: those who wait for an answer are forgotten.
ClosedQuietly ==
    /\ run = "closing"
    /\ line' = IF ws = 0 THEN line ELSE [line EXCEPT ![ws] = "closed"]
    /\ asked' = Unasked(ws)
    /\ ws' = 0
    /\ run' = Rest
    /\ UNCHANGED <<recvTask, stopping, stopper, name, loop,
                   bridgeVars, pending, call, replied>>

\* The websocket is closed: the rest of the finally.
Closed ==
    /\ run = "closing"
    /\ line' = IF ws = 0 THEN line ELSE [line EXCEPT ![ws] = "closed"]
    /\ asked' = Unasked(ws)
    /\ ws' = 0
    /\ run' = Rest
    /\ FailAll
    /\ UNCHANGED <<recvTask, stopping, stopper, name, loop,
                   bridgeVars, replied>>

\* Mutant: a second failure in a row ends the task.
WakeOnce ==
    /\ run = "sleeping"
    /\ run' = IF stopping \/ line[1] # "unused" THEN "finished"
              ELSE "connecting"
    /\ UNCHANGED <<ws, recvTask, stopping, stopper, name, line, loop,
                   bridgeVars, requestVars>>

\* The retry pause is over.
Wake ==
    /\ run = "sleeping"
    /\ run' = IF stopping THEN "finished" ELSE "connecting"
    /\ UNCHANGED <<ws, recvTask, stopping, stopper, name, line, loop,
                   bridgeVars, requestVars>>

RunLoop ==
    \/ \E c \in Connections : Connected(c)
    \/ ConnectFails \/ HandshakeSent \/ HandshakeFails \/ Named
    \/ ConnectionEnds \/ Closed \/ Wake

-----------------------------------------------------------------------------
(***************************************************************************)
(* stop.                                                                   *)
(***************************************************************************)

\* A receive task that has failed raises here, and stop is over: the run
\* loop is left to find out by itself.  One that runs is cancelled.
Stop ==
    /\ stopper = "none"
    /\ stopping' = TRUE
    /\ IF recvTask # 0 /\ loop[recvTask] = "failed"
       THEN /\ stopper' = "raised"
            /\ UNCHANGED <<recvTask, loop, inbox>>
       ELSE /\ stopper' = "closing"
            /\ recvTask' = 0
            /\ loop' = [c \in Connections |->
                           IF c = recvTask THEN "ended" ELSE loop[c]]
            /\ inbox' = [c \in Connections |->
                           IF c = recvTask THEN <<>> ELSE inbox[c]]
    /\ UNCHANGED <<run, ws, name, line, assigned, messages, requestVars>>

\* The websocket is closed and the run loop cancelled: in its sleep, or in
\* the close of its finally, it ends there; elsewhere its finally runs.
StopCloses ==
    /\ stopper = "closing"
    /\ stopper' = "waiting"
    /\ line' = IF ws = 0 THEN line ELSE [line EXCEPT ![ws] = "closed"]
    /\ asked' = Unasked(ws)
    /\ ws' = 0
    /\ name' = IF run \in {"sleeping", "closing", "finished"} THEN name
               ELSE NoName
    /\ run' = "finished"
    /\ IF run \in {"sleeping", "closing", "finished"}
       THEN UNCHANGED <<pending, call>> ELSE FailAll
    /\ UNCHANGED <<recvTask, stopping, loop, bridgeVars, replied>>

\* Mutant: stop leaves the pending requests alone.
StopEndsQuietly ==
    /\ stopper = "waiting"
    /\ stopper' = "done"
    /\ UNCHANGED <<run, ws, recvTask, stopping, name, line, loop,
                   bridgeVars, requestVars>>

StopEnds ==
    /\ stopper = "waiting"
    /\ stopper' = "done"
    /\ FailAll
    /\ UNCHANGED <<run, ws, recvTask, stopping, name, line, loop,
                   bridgeVars, asked, replied>>

-----------------------------------------------------------------------------
Updates == [type : {"update"}, add : {"self", "other", "nobody"}]
Others == [type : {"request", "authenticationFailed"}]

Next ==
    \/ RunLoop
    \/ Stop \/ StopCloses \/ StopEnds
    \/ \E c \in Connections :
          \/ RecvLoop(c)
          \/ BridgeNames(c)
          \/ Lose(c)
          \/ \E m \in Updates \cup Others :
                /\ m \notin [type : {"update"}, add : {"self"}]
                /\ BridgeSends(c, m)
    \/ \E r \in Requests :
          \/ Start(r)
          \/ Caller(r)
          \/ \E c \in Connections : BridgeAnswers(r, c)

\* The tasks of the client go on: closes, sleeps and timeouts end, and so do
\* the handlers of the router, which all wait with a time limit.  Nothing is
\* assumed of the bridge.
Spec ==
    /\ Init
    /\ [][Next]_vars
    /\ WF_vars(RunLoop)
    /\ WF_vars(StopCloses \/ StopEnds)
    /\ \A c \in Connections : WF_vars(RecvLoop(c))
    /\ \A r \in Requests : WF_vars(Caller(r))

-----------------------------------------------------------------------------
(***************************************************************************)
(* Properties.                                                             *)
(***************************************************************************)

\* The fields of the client, its tasks and the bridge keep their types.
TypeOK ==
    /\ run \in {"connecting", "hello", "naming", "joined", "closing",
                "sleeping", "finished"}
    /\ ws \in Connections \cup {0}
    /\ recvTask \in Connections \cup {0}
    /\ stopping \in BOOLEAN
    /\ stopper \in {"none", "raised", "closing", "waiting", "done"}
    /\ name \in [who : {"self", "other"}, on : Connections] \cup {NoName}
    /\ line \in [Connections -> {"unused", "open", "closed"}]
    /\ loop \in [Connections ->
                   {"none", "receiving", "handling", "ended", "failed"}]
    /\ inbox \in [Connections ->
                    Seq(Updates \cup Others \cup
                        [type : {"response"}, request : Requests])]
    /\ assigned \subseteq Connections
    /\ messages \in 0..MaxMessages
    /\ pending \subseteq Requests
    /\ call \in [Requests ->
                  [at : {"new", "sending", "waiting", "answered", "failed"},
                   conn : Connections \cup {0},
                   result : {"none", "ok", "lost"}]]
    /\ asked \subseteq Requests \X Connections
    /\ replied \subseteq Requests

\* A caller that waits can still be answered or failed; and what a failed
\* send leaves in the table does not outlive the connection, nor stop.
TableFollowsConnection ==
    /\ \A r \in Requests :
          call[r].at \in {"sending", "waiting"} /\ call[r].result = "none"
              => r \in pending
    /\ run \in {"sleeping", "connecting"} \/ stopper = "done" => pending = {}

\* No websocket is left open by the failure of a step, by a stop in the
\* middle of the handshake, or by two that close at once.
OnlyOneOpen ==
    /\ \A c \in Connections : line[c] = "open" => c = ws
    /\ run \in {"sleeping", "connecting"} => ws = 0

\* Requests over the bridge are requests with a timeout, also while the
\* receive loop waits for a handler and reads no answers.
requestStatus ==
    [r \in Requests |-> IF call[r].at \in {"new", "answered", "failed"}
                        THEN call[r].at ELSE "open"]

Abstract ==
    INSTANCE RequestResponse WITH status <- requestStatus, replies <- replied

RequestsEnd == Abstract!Spec

\* "it continues to retry discovery until a connection is established": a
\* connection that is lost, in whatever phase, is looked for again.
KeepsTrying ==
    (ws # 0 => line[ws] = "closed") ~> (run = "connecting" \/ stopping)

\* stop ends everything, also when it raises: the loops, the websocket, the
\* run task and every request.
StopsForGood ==
    stopping ~> /\ run = "finished"
                /\ ws = 0
                /\ pending = {}
                /\ \A c \in Connections : loop[c] \notin {"receiving", "handling"}

\* "Name assigned by the bridge during the handshake" (assigned_name): who
\* is connected has the name that the bridge gave it on this connection.
NameIsAssigned ==
    run = "joined" /\ ws # 0 /\ line[ws] = "open" /\ ~stopping
        => name = [who |-> "self", on |-> ws]
=============================================================================
