----------------------------- MODULE AgentClient ----------------------------
(***************************************************************************)
(* FDC3Client (fdc3/client/client.py): one process that talks to the agent *)
(* over a websocket, with the agent and the network as its environment.    *)
(*                                                                         *)
(* The tasks of the client are the callers of its requests, the receive    *)
(* loop of each connection and whoever calls connect and close.  They      *)
(* interleave at their awaits; a handler of an event runs inside the       *)
(* receive loop, which waits for it.                                       *)
(***************************************************************************)
EXTENDS Integers, Sequences

CONSTANTS
    Requests,           \* requestUuids
    KindOf,             \* the helper each is sent by
    MaxConnections,     \* bound: calls of connect
    MaxEvents           \* bound: events the agent sends

ASSUME BoundsAreNat == MaxConnections \in Nat /\ MaxEvents \in Nat

Connections == 1..MaxConnections

\* send_dacp_request waits for the handshake and registers its future before
\* it sends; register_handler waits for the handshake and sends first
\* (_send_and_wait); the listener calls only send and wait.
Kinds == {"dacp", "register", "listener"}
RegisterFirst == {"dacp"}
Gated == {"dacp", "register"}

ASSUME KindOfIsKind == KindOf \in [Requests -> Kinds]

VARIABLES
    ws,         \* _ws: the connection the client uses, 0 for None
    line,       \* state of each websocket
    loop,       \* its receive loop
    inbox,      \* messages for it, in order
    wcp,        \* how far its handshake is
    complete,   \* _handshake_complete
    pending,    \* _pending_responses: requests whose future is registered
    call,       \* the callers
    closing,    \* connection that close is closing, or 0
    asked,      \* requests the agent got: <<request, attempt, connection>>
    replied,    \* history: requests under way the agent has replied to
    events      \* events sent so far

handshakeVars == <<wcp, complete>>
agentVars == <<asked, replied, events>>
vars == <<ws, line, loop, inbox, pending, call, closing, handshakeVars,
          agentVars>>

NoCall == [at |-> "new", conn |-> 0, sent |-> FALSE,
           attempt |-> 0, result |-> "none", answer |-> 0, within |-> 0]

Init ==
    /\ ws = 0 /\ closing = 0 /\ events = 0
    /\ line = [c \in Connections |-> "unused"]
    /\ loop = [c \in Connections |-> "none"]
    /\ inbox = [c \in Connections |-> <<>>]
    /\ wcp = [c \in Connections |-> "none"]
    /\ complete = FALSE
    /\ call = [r \in Requests |-> NoCall]
    /\ pending = {} /\ asked = {} /\ replied = {}

Ended(r) == call[r].at \in {"answered", "failed"}
End(how) == [NoCall EXCEPT !.at = how]

-----------------------------------------------------------------------------
(***************************************************************************)
(* The agent and the network.                                              *)
(***************************************************************************)
Arrives(c, m) == inbox' = [inbox EXCEPT ![c] = Append(@, m)]

AgentHandshake(c) ==
    /\ line[c] = "open"
    /\ loop[c] # "ended"
    /\ \/ /\ wcp[c] = "hello"
          /\ wcp' = [wcp EXCEPT ![c] = "offered"]
          /\ Arrives(c, [type |-> "WCP3"])
       \/ /\ wcp[c] = "validating"
          /\ \E t \in {"WCP5", "WCP5Failed"} : Arrives(c, [type |-> t])
          /\ wcp' = [wcp EXCEPT ![c] = "told"]
    /\ UNCHANGED <<ws, line, loop, pending, call, closing, complete,
                   agentVars>>

\* An error is told from a result where the caller does (joining).
AgentReply(r, n, c, ok) ==
    /\ ok \/ KindOf[r] = "dacp"
    /\ <<r, n, c>> \in asked
    /\ line[c] = "open"
    /\ loop[c] # "ended"
    /\ asked' = asked \ {<<r, n, c>>}
    /\ replied' = IF Ended(r) THEN replied ELSE replied \cup {r}
    /\ Arrives(c, [type |-> "response", request |-> r, attempt |-> n,
                   ok |-> ok])
    /\ UNCHANGED <<ws, line, loop, pending, call, closing, handshakeVars,
                   events>>

AgentEvent(c) ==
    /\ line[c] = "open"
    /\ loop[c] # "ended"
    /\ events < MaxEvents
    /\ events' = events + 1
    /\ Arrives(c, [type |-> "event"])
    /\ UNCHANGED <<ws, line, loop, pending, call, closing, handshakeVars,
                   asked, replied>>

\* What the agent has not answered on the connection it never will.
Lose(c) ==
    /\ line[c] = "open"
    /\ line' = [line EXCEPT ![c] = "lost"]
    /\ asked' = {q \in asked : q[3] # c}
    /\ UNCHANGED <<ws, loop, inbox, pending, call, closing, handshakeVars,
                   replied, events>>

-----------------------------------------------------------------------------
(***************************************************************************)
(* connect and close.                                                      *)
(***************************************************************************)

\* By a client that is not connected or has seen its connection end.  The
\* handshake has only been asked for when connect returns; that of a former
\* connection is over.
Connect(c) ==
    /\ line[c] = "unused"
    /\ \A b \in Connections : b < c => line[b] # "unused"
    /\ closing = 0
    /\ ws # 0 => loop[ws] = "ended"
    /\ ws' = c
    /\ line' = [line EXCEPT ![c] = "open"]
    /\ loop' = [loop EXCEPT ![c] = "receiving"]
    /\ wcp' = [b \in Connections |-> IF b = c THEN "hello" ELSE "none"]
    /\ UNCHANGED <<inbox, complete, pending, call, closing, agentVars>>

\* _fail_all_pending_responses: every future gets an exception.
FailAll ==
    [r \in Requests |->
        IF r \in pending THEN [call[r] EXCEPT !.result = "lost"] ELSE call[r]]

\* Cancels the receive loop, with the handler it is in, and waits for it.
StartClose ==
    /\ ws # 0
    /\ closing = 0
    /\ closing' = ws
    /\ loop' = [loop EXCEPT ![ws] = "ended"]
    /\ inbox' = [inbox EXCEPT ![ws] = <<>>]
    /\ IF loop[ws] = "ended" THEN UNCHANGED <<call, pending>>
       ELSE /\ pending' = {}
            /\ call' = [r \in Requests |->
                           IF call[r].within = ws /\ ~Ended(r)
                           THEN End("failed") ELSE FailAll[r]]
    /\ UNCHANGED <<ws, line, handshakeVars, agentVars>>

FinishClose ==
    /\ closing # 0
    /\ line' = [line EXCEPT ![closing] = "closed"]
    /\ asked' = {q \in asked : q[3] # closing}
    /\ ws' = 0
    /\ closing' = 0
    /\ UNCHANGED <<loop, inbox, pending, call, handshakeVars, replied,
                   events>>

-----------------------------------------------------------------------------
(***************************************************************************)
(* Requests.                                                               *)
(***************************************************************************)

\* What caller r does when it has passed the gate: it registers, if it does
\* that first, and calls ws.send.
Send(r, state) ==
    IF ws = 0
    THEN /\ call' = [call EXCEPT ![r] = End("failed")]
         /\ UNCHANGED <<pending, asked>>
    ELSE /\ call' = [call EXCEPT ![r] =
                        [state EXCEPT !.at = "sending", !.conn = ws,
                                      !.sent = line[ws] = "open",
                                      !.attempt = @ + 1, !.result = "none"]]
         /\ pending' = IF KindOf[r] \in RegisterFirst
                       THEN pending \cup {r} ELSE pending
         /\ asked' = IF line[ws] = "open"
                     THEN asked \cup {<<r, state.attempt + 1, ws>>} ELSE asked

\* A request by a task of its own (c = 0), or by a handler of an event that
\* the receive loop of connection c is in.
Start(r, c) ==
    LET state == [NoCall EXCEPT !.within = c]
    IN  /\ call[r].at = "new"
        /\ ws # 0
        /\ c # 0 => /\ loop[c] = "emitting"
                    /\ \A q \in Requests : call[q].within # c
        /\ IF KindOf[r] \in Gated /\ ~complete
           THEN /\ call' = [call EXCEPT ![r] = [state EXCEPT !.at = "gate"]]
                /\ UNCHANGED <<pending, asked>>
           ELSE Send(r, state)
        /\ UNCHANGED <<ws, line, loop, inbox, closing, replied, events,
                       handshakeVars>>

\* wait_for_handshake: the event is set, by either answer of the agent, or
\* 10 seconds have passed.  (_instance_uuid is never None once connected.)
PassGate(r) ==
    /\ call[r].at = "gate"
    /\ \/ /\ complete
          /\ Send(r, call[r])
       \/ /\ call' = [call EXCEPT ![r] = End("failed")]
          /\ UNCHANGED <<pending, asked>>
    /\ UNCHANGED <<ws, line, loop, inbox, closing, replied, events,
                   handshakeVars>>

\* Mutant: a send that raises leaves the entry of its future.
SendReturnsOutsideTry(r) ==
    LET own == IF KindOf[r] \in RegisterFirst THEN {} ELSE {r}
    IN  /\ call[r].at = "sending"
        /\ \/ /\ call[r].sent
              /\ call' = [call EXCEPT ![r].at = "waiting"]
              /\ pending' = pending \cup own
           \/ /\ line[call[r].conn] # "open"
              /\ call' = [call EXCEPT ![r] = End("failed")]
              /\ UNCHANGED pending
        /\ UNCHANGED <<ws, line, loop, inbox, closing, agentVars,
                       handshakeVars>>

\* ws.send returns, if the connection was open when it was called, or raises
\* because it no longer is.
SendReturns(r) ==
    LET own == IF KindOf[r] \in RegisterFirst THEN {} ELSE {r}
    IN  /\ call[r].at = "sending"
        /\ \/ /\ call[r].sent
              /\ call' = [call EXCEPT ![r].at = "waiting"]
              /\ pending' = pending \cup own
           \/ /\ line[call[r].conn] # "open"
              /\ call' = [call EXCEPT ![r] = End("failed")]
              /\ pending' = pending \ {r}
        /\ UNCHANGED <<ws, line, loop, inbox, closing, agentVars,
                       handshakeVars>>

\* The caller goes on with the result, or the exception, of its future.  A
\* join with auto_create that was refused goes on to create the channel.
Resume(r) ==
    /\ call[r].at = "waiting"
    /\ call[r].result # "none"
    /\ \/ call' = [call EXCEPT ![r] =
                      End(IF call[r].result = "lost" THEN "failed"
                          ELSE "answered")]
       \/ /\ call[r].result = "error"
          /\ KindOf[r] = "dacp"
          /\ call[r].attempt = 1
          /\ call' = [call EXCEPT ![r].at = "creating"]
    /\ UNCHANGED <<ws, line, loop, inbox, pending, closing, agentVars,
                   handshakeVars>>

\* Mutant: a join that timed out is tried again.
TimeoutRetrying(r) ==
    /\ call[r].at = "waiting"
    /\ call' = [call EXCEPT ![r] =
                   IF KindOf[r] = "dacp" /\ call[r].attempt = 1
                   THEN [call[r] EXCEPT !.at = "creating"]
                   ELSE End("failed")]
    /\ pending' = pending \ {r}
    /\ UNCHANGED <<ws, line, loop, inbox, closing, agentVars, handshakeVars>>

\* Mutant: a handler waits for its reply as long as it takes.
TimeoutOutsideHandlers(r) ==
    /\ call[r].at = "waiting"
    /\ call[r].within = 0
    /\ call' = [call EXCEPT ![r] = End("failed")]
    /\ pending' = pending \ {r}
    /\ UNCHANGED <<ws, line, loop, inbox, closing, agentVars, handshakeVars>>

\* wait_for gives up, be it on a future that was resolved just now.
Timeout(r) ==
    /\ call[r].at = "waiting"
    /\ call' = [call EXCEPT ![r] = End("failed")]
    /\ pending' = pending \ {r}
    /\ UNCHANGED <<ws, line, loop, inbox, closing, agentVars, handshakeVars>>

\* create_user_channel over HTTP, and the request again with its requestUuid.
Created(r) ==
    /\ call[r].at = "creating"
    /\ \/ Send(r, call[r])
       \/ /\ call' = [call EXCEPT ![r] = End("failed")]
          /\ UNCHANGED <<pending, asked>>
    /\ UNCHANGED <<ws, line, loop, inbox, closing, replied, events,
                   handshakeVars>>

Caller(r) ==
    PassGate(r) \/ SendReturns(r) \/ Resume(r) \/ Timeout(r) \/ Created(r)

-----------------------------------------------------------------------------
(***************************************************************************)
(* The receive loop of connection c.                                       *)
(***************************************************************************)

\* _resolve_pending_response: the future, if there is one.
Resolve(m) ==
    LET r == m.request
    IN  /\ pending' = pending \ {r}
        /\ IF r \in pending
           THEN call' = [call EXCEPT
                            ![r].result = IF m.ok THEN "ok" ELSE "error",
                            ![r].answer = m.attempt]
           ELSE UNCHANGED call

\* The WCP messages.
HandshakeMessage(c, type) ==
    /\ wcp' = [wcp EXCEPT ![c] = CASE type = "WCP3" -> "validating"
                                   [] type = "WCP5" -> "accepted"
                                   [] OTHER -> "refused"]
    /\ complete' = (complete \/ type # "WCP3")

\* _handle_message.
Receive(c) ==
    LET m == Head(inbox[c])
    IN  /\ loop[c] = "receiving"
        /\ inbox[c] # <<>>
        /\ inbox' = [inbox EXCEPT ![c] = Tail(@)]
        /\ \/ /\ m.type \in {"WCP3", "WCP5", "WCP5Failed"}
              /\ HandshakeMessage(c, m.type)
              /\ UNCHANGED <<loop, pending, call>>
           \/ /\ m.type = "event"
              /\ loop' = [loop EXCEPT ![c] = "emitting"]
              /\ UNCHANGED <<handshakeVars, pending, call>>
           \/ /\ m.type = "response"
              /\ Resolve(m)
              /\ UNCHANGED <<loop, handshakeVars>>
        /\ UNCHANGED <<ws, line, closing, agentVars>>

\* The handlers of the event are through.
Emitted(c) ==
    /\ loop[c] = "emitting"
    /\ \A r \in Requests : call[r].within # c
    /\ loop' = [loop EXCEPT ![c] = "receiving"]
    /\ UNCHANGED <<ws, line, inbox, pending, call, closing, agentVars,
                   handshakeVars>>

\* Mutant: those who wait are left to their timeouts.
LoopEndsQuietly(c) ==
    /\ loop[c] = "receiving"
    /\ inbox[c] = <<>>
    /\ line[c] # "open"
    /\ loop' = [loop EXCEPT ![c] = "ended"]
    /\ UNCHANGED <<ws, line, inbox, closing, pending, call, agentVars,
                   handshakeVars>>

\* recv raises once everything that arrived has been read.
LoopEnds(c) ==
    /\ loop[c] = "receiving"
    /\ inbox[c] = <<>>
    /\ line[c] # "open"
    /\ loop' = [loop EXCEPT ![c] = "ended"]
    /\ pending' = {}
    /\ call' = FailAll
    /\ UNCHANGED <<ws, line, inbox, closing, agentVars, handshakeVars>>

ReceiveLoop(c) == Receive(c) \/ Emitted(c) \/ LoopEnds(c)

-----------------------------------------------------------------------------
Next ==
    \/ StartClose
    \/ FinishClose
    \/ \E c \in Connections :
          \/ Connect(c)
          \/ ReceiveLoop(c)
          \/ AgentHandshake(c)
          \/ AgentEvent(c)
          \/ Lose(c)
    \/ \E r \in Requests :
          \/ Caller(r)
          \/ \E c \in Connections \cup {0} : Start(r, c)
          \/ \E n \in 1..2, c \in Connections, ok \in BOOLEAN :
                AgentReply(r, n, c, ok)

\* The tasks of the client go on; its timeouts fire; a close ends.  Nothing
\* is assumed of the agent or of the network.
Spec ==
    /\ Init
    /\ [][Next]_vars
    /\ WF_vars(FinishClose)
    /\ \A r \in Requests : WF_vars(Caller(r))
    /\ \A c \in Connections : WF_vars(ReceiveLoop(c))

-----------------------------------------------------------------------------
(***************************************************************************)
(* Properties.                                                             *)
(***************************************************************************)
Messages ==
    [type : {"WCP3", "WCP5", "WCP5Failed", "event"}] \cup
    [type : {"response"}, request : Requests, attempt : 1..2, ok : BOOLEAN]

\* The client's fields, its callers and its environment keep their types.
TypeOK ==
    /\ ws \in Connections \cup {0}
    /\ closing \in {0, ws}
    /\ line \in [Connections -> {"unused", "open", "lost", "closed"}]
    /\ loop \in [Connections -> {"none", "receiving", "emitting", "ended"}]
    /\ inbox \in [Connections -> Seq(Messages)]
    /\ wcp \in [Connections -> {"none", "hello", "offered", "validating",
                                "told", "accepted", "refused"}]
    /\ complete \in BOOLEAN
    /\ pending \subseteq Requests
    /\ call \in [Requests ->
                  [at : {"new", "gate", "sending", "waiting", "creating",
                         "answered", "failed"},
                   conn : Connections \cup {0}, sent : BOOLEAN,
                   attempt : 0..2, result : {"none", "ok", "error", "lost"},
                   answer : 0..2, within : Connections \cup {0}]]
    /\ asked \subseteq Requests \X (1..2) \X Connections
    /\ replied \subseteq Requests
    /\ events \in 0..MaxEvents

\* _pending_responses holds the requests whose callers still wait and no
\* others: one that gave up, failed to send or was answered leaves no entry,
\* and none that waits has lost its own.  With send_dacp_request that begins
\* before the message is sent, so no reply can come too early.
PendingIsUnderway ==
    \A r \in Requests :
        r \in pending <=>
            /\ call[r].result = "none"
            /\ \/ call[r].at = "waiting"
               \/ call[r].at = "sending" /\ KindOf[r] \in RegisterFirst

\* A lost connection fails those who wait for a reply to a request that was
\* registered before it was sent (send_dacp_request), however the send, the
\* loss and the end of the receive loop interleave: of these, a loop that has
\* ended leaves one to its timeout only if a close is under way or done.
\* Nothing is said of a request that sends first: it can register when the
\* loop has already failed everybody, and then it waits out its timeout.
LossFailsWaiters ==
    \A r \in pending :
        /\ KindOf[r] \in RegisterFirst
        /\ call[r].at = "waiting"
        /\ loop[call[r].conn] = "ended"
        => line[call[r].conn] = "closed" \/ closing = call[r].conn

\* The second attempt of a join goes by the requestUuid of the first, but
\* takes no reply to the first for its own.
AnswersMatchAttempt ==
    \A r \in Requests :
        call[r].at \in {"sending", "waiting"} /\ call[r].result \in {"ok", "error"}
            => call[r].answer = call[r].attempt

\* Every request is a request with a timeout: it ends, once, also when the
\* loop that should read its reply waits for the handler that made it; with
\* an answer only if the agent replied; and a late reply changes nothing.
requestStatus ==
    [r \in Requests |-> IF call[r].at \in {"new", "answered", "failed"}
                        THEN call[r].at ELSE "open"]

Abstract ==
    INSTANCE RequestResponse WITH status <- requestStatus, replies <- replied

RequestsEnd == Abstract!Spec
=============================================================================
