--------------------------- MODULE ExternalIntent ---------------------------
(***************************************************************************)
(* Intents handled by external processes: core/external_registry.py, the   *)
(* pending intents of core/__init__.py, and raiseIntent with its forwarded *)
(* request in handlers/dacp/intent.py.                                     *)
(*                                                                         *)
(* One intent.  A raise is forwarded to the first handler of the intent    *)
(* and the websocket of the raiser serves nothing else until the handler   *)
(* has answered or 30 seconds are over; then it is resolved locally.  An   *)
(* answer is a request of the handler's own websocket, which is served     *)
(* between that app's own raises.                                          *)
(***************************************************************************)
EXTENDS Integers, Sequences, Subsequences

CONSTANTS
    Instances,      \* instance UUIDs, a fresh one for every connection
    Handlers,       \* handler UUIDs (uuid4)
    Raises,         \* request UUIDs of forwarded intents (uuid4)
    Priority,       \* the priority each handler is registered with
    NoInstance, NoRaise

ASSUME PrioritiesAreInt == Priority \in [Handlers -> Int]
ASSUME NoInstanceIsNone == NoInstance \notin Instances
ASSUME NoRaiseIsNone == NoRaise \notin Raises

VARIABLES
    session,    \* the websocket of each instance; "closing": closed by the
                \* peer, and its loop has not come to see it yet
    connections,\* WebSocketConnectionManager.connections
    handed,     \* loops that waited for a request when a send to their
                \* peer failed, and may have been handed one just before
    handlerOf,  \* ExternalHandlerRegistry._handlers
    order,      \* ExternalHandlerRegistry._intent_map of the intent
    arrivals,   \* history: handler UUIDs in the order of registration
    call,       \* the raise that the loop of each instance awaits
    future,     \* the future of each raise
    table,      \* CoreServices._pending_intents
    outcome,    \* how each raise was answered; "overtaken": locally, with
                \* the result there already
    forwardedTo,\* the instance that received the forwarded intent
    replies     \* history: the raises a handler has sent a result for

vars == <<session, connections, handed, handlerOf, order, arrivals, call,
          future, table, outcome, forwardedTo, replies>>

NoCall == [at |-> "idle", raise |-> NoRaise, to |-> NoInstance]
Replies == {"result", "null", "error"}

Init ==
    /\ session = [i \in Instances |-> "new"]
    /\ connections = {}
    /\ handed = {}
    /\ handlerOf = [h \in Handlers |-> NoInstance]
    /\ order = <<>>
    /\ arrivals = <<>>
    /\ call = [i \in Instances |-> NoCall]
    /\ future = [r \in Raises |-> "none"]
    /\ table = {}
    /\ outcome = [r \in Raises |-> "new"]
    /\ forwardedTo = [r \in Raises |-> NoInstance]
    /\ replies = {}

\* The loop of i takes the next request of its websocket.  Those received
\* before the peer closed it are still served, until a send has failed:
\* Starlette starts no receive on a websocket after that, but a receive that
\* was under way returns the request it has been handed.
Serves(i) ==
    /\ session[i] \in {"open", "closing"}
    /\ i \in connections \/ i \in handed
    /\ call[i] = NoCall
    /\ handed' = handed \ {i}

-----------------------------------------------------------------------------
(***************************************************************************)
(* ExternalHandlerRegistry.                                                *)
(***************************************************************************)

\* Mutant: the newest of the handlers with one priority comes first.
InsertedFirst(h) ==
    LET before == {n \in DOMAIN order : Priority[order[n]] > Priority[h]}
    IN  Picked(order, before) \o <<h>> \o Picked(order, DOMAIN order \ before)

\* append and the stable sort by descending priority.
Inserted(h) ==
    LET before == {n \in DOMAIN order : Priority[order[n]] >= Priority[h]}
    IN  Picked(order, before) \o <<h>> \o Picked(order, DOMAIN order \ before)

\* unregister, of the handlers in gone.
Unregistered(gone) ==
    /\ handlerOf' = [h \in Handlers |->
                        IF h \in gone THEN NoInstance ELSE handlerOf[h]]
    /\ order' = Picked(order, {n \in DOMAIN order : order[n] \notin gone})

\* unregister_by_instance.
HandlersOf(i) == {h \in Handlers : handlerOf[h] = i}

RegisterHandler(i, h) ==
    /\ Serves(i)
    /\ \A n \in DOMAIN arrivals : arrivals[n] # h
    /\ handlerOf' = [handlerOf EXCEPT ![h] = i]
    /\ order' = Inserted(h)
    /\ arrivals' = Append(arrivals, h)
    /\ UNCHANGED <<session, connections, call, future, table, outcome,
                   forwardedTo, replies>>

\* By the app that was told the handler's UUID.
UnregisterHandler(i, h) ==
    /\ Serves(i)
    /\ handlerOf[h] = i
    /\ Unregistered({h})
    /\ UNCHANGED <<session, connections, arrivals, call, future, table,
                   outcome, forwardedTo, replies>>

-----------------------------------------------------------------------------
(***************************************************************************)
(* raiseIntent.                                                            *)
(***************************************************************************)

\* _register_pending_intent, of a request UUID that is new.
RegisterPendingIntent(r) ==
    /\ future' = [future EXCEPT ![r] = "pending"]
    /\ table' = table \cup {r}

\* Without a handler the raise is resolved locally at once.
StartRaise(i, r) ==
    /\ Serves(i)
    /\ outcome[r] = "new"
    /\ IF order = <<>>
       THEN /\ outcome' = [outcome EXCEPT ![r] = "local"]
            /\ UNCHANGED <<call, future, table>>
       ELSE /\ outcome' = [outcome EXCEPT ![r] = "open"]
            /\ call' = [call EXCEPT ![i] =
                           [at |-> "forwarding", raise |-> r,
                            to |-> handlerOf[Head(order)]]]
            /\ RegisterPendingIntent(r)
    /\ UNCHANGED <<session, connections, handlerOf, order, arrivals,
                   forwardedTo, replies>>

\* send_to_instance.  It raises nothing: a message for an instance without
\* a connection is dropped, and so is one that cannot be sent, which also
\* ends the connection and the handlers of that instance.
Forward(i) ==
    LET r == call[i].raise
        t == call[i].to
    IN  /\ call[i].at = "forwarding"
        /\ call' = [call EXCEPT ![i].at = "waiting"]
        /\ \/ /\ t \in connections /\ session[t] = "open"
              /\ forwardedTo' = [forwardedTo EXCEPT ![r] = t]
              /\ UNCHANGED <<connections, handed, handlerOf, order>>
           \/ /\ t \notin connections \/ session[t] = "closing"
              /\ UNCHANGED <<forwardedTo, connections, handed, handlerOf,
                             order>>
           \/ /\ t \in connections /\ session[t] = "closing"
              /\ connections' = connections \ {t}
              /\ handed' = IF call[t] = NoCall THEN handed \cup {t} ELSE handed
              /\ Unregistered(HandlersOf(t))
              /\ UNCHANGED forwardedTo
        /\ UNCHANGED <<session, arrivals, future, table, outcome, replies>>

Finish(i, how) ==
    /\ outcome' = [outcome EXCEPT ![call[i].raise] = how]
    /\ call' = [call EXCEPT ![i] = NoCall]

\* The future is done before the 30 seconds are over.
Resume(i) ==
    /\ call[i].at = "waiting"
    /\ future[call[i].raise] \in Replies
    /\ Finish(i, IF future[call[i].raise] = "result" THEN "external"
                 ELSE "local")
    /\ UNCHANGED <<session, connections, handed, handlerOf, order, arrivals,
                   future, table, forwardedTo, replies>>

\* Mutant: whoever stops waiting leaves the future to be resolved.
TimeOutUncancelled(i) ==
    /\ call[i].at = "waiting"
    /\ Finish(i, IF future[call[i].raise] = "result" THEN "overtaken"
                 ELSE "local")
    /\ UNCHANGED <<session, connections, handed, handlerOf, order, arrivals,
                   future, table, forwardedTo, replies>>

Cancelled(r) ==
    future' = [future EXCEPT ![r] = IF @ = "pending" THEN "cancelled" ELSE @]

\* Mutant: only an instance that is still connected is worth a timeout.
TimeOutConnected(i) ==
    /\ call[i].at = "waiting"
    /\ i \in connections
    /\ Cancelled(call[i].raise)
    /\ Finish(i, IF future[call[i].raise] = "result" THEN "overtaken"
                 ELSE "local")
    /\ UNCHANGED <<session, connections, handed, handlerOf, order, arrivals,
                   table, forwardedTo, replies>>

\* wait_for cancels the future; the entry of the table stays.  Since Python
\* 3.12 it times out also when the future is done and its waiter has not been
\* resumed yet: then a result is overtaken by the clock, and the raise is
\* resolved locally like any other that has timed out.
TimeOut(i) ==
    /\ call[i].at = "waiting"
    /\ Cancelled(call[i].raise)
    /\ Finish(i, IF future[call[i].raise] = "result" THEN "overtaken"
                 ELSE "local")
    /\ UNCHANGED <<session, connections, handed, handlerOf, order, arrivals,
                   table, forwardedTo, replies>>

\* Mutant: an answer without a result is taken from the table and dropped.
AnswerWithResult(t, r, reply) ==
    /\ Serves(t)
    /\ forwardedTo[r] = t
    /\ replies' = IF reply = "result" THEN replies \cup {r} ELSE replies
    /\ table' = table \ {r}
    /\ future' = IF r \in table /\ future[r] = "pending" /\ reply # "null"
                 THEN [future EXCEPT ![r] = reply] ELSE future
    /\ UNCHANGED <<session, connections, handlerOf, order, arrivals, call,
                   outcome, forwardedTo>>

\* externalIntentResult, resolve_pending_intent.
Answer(t, r, reply) ==
    /\ Serves(t)
    /\ forwardedTo[r] = t
    /\ replies' = IF reply = "result" THEN replies \cup {r} ELSE replies
    /\ table' = table \ {r}
    /\ future' = IF r \in table /\ future[r] = "pending"
                 THEN [future EXCEPT ![r] = reply] ELSE future
    /\ UNCHANGED <<session, connections, handlerOf, order, arrivals, call,
                   outcome, forwardedTo>>

-----------------------------------------------------------------------------
(***************************************************************************)
(* Websockets.                                                             *)
(***************************************************************************)
Connect(i) ==
    /\ session[i] = "new"
    /\ session' = [session EXCEPT ![i] = "open"]
    /\ connections' = connections \cup {i}
    /\ UNCHANGED <<handed, handlerOf, order, arrivals, call, future, table,
                   outcome, forwardedTo, replies>>

PeerCloses(i) ==
    /\ session[i] = "open"
    /\ session' = [session EXCEPT ![i] = "closing"]
    /\ UNCHANGED <<connections, handed, handlerOf, order, arrivals, call, future,
                   table, outcome, forwardedTo, replies>>

\* The loop sees the close, and remove_connection unregisters the handlers
\* if there is a connection to remove.
EndSession(i) ==
    /\ session[i] = "closing"
    /\ call[i] = NoCall
    /\ session' = [session EXCEPT ![i] = "ended"]
    /\ connections' = connections \ {i}
    /\ handed' = handed \ {i}
    /\ IF i \in connections THEN Unregistered(HandlersOf(i))
       ELSE UNCHANGED <<handlerOf, order>>
    /\ UNCHANGED <<arrivals, call, future, table, outcome, forwardedTo,
                   replies>>

-----------------------------------------------------------------------------
Proceed(i) == Forward(i) \/ Resume(i) \/ TimeOut(i)

Next ==
    \E i \in Instances :
        \/ Connect(i) \/ PeerCloses(i) \/ EndSession(i)
        \/ Proceed(i)
        \/ \E h \in Handlers : RegisterHandler(i, h) \/ UnregisterHandler(i, h)
        \/ \E r \in Raises :
              \/ StartRaise(i, r)
              \/ \E reply \in Replies : Answer(i, r, reply)

\* A send returns, a future that is done is seen, and the clock runs.
Spec == Init /\ [][Next]_vars /\ \A i \in Instances : WF_vars(Proceed(i))
-----------------------------------------------------------------------------
(***************************************************************************)
(* Properties.                                                             *)
(***************************************************************************)

\* Everything holds the values it is meant to.
TypeOK ==
    /\ session \in [Instances -> {"new", "open", "closing", "ended"}]
    /\ connections \subseteq Instances
    /\ handed \subseteq Instances
    /\ handlerOf \in [Handlers -> Instances \cup {NoInstance}]
    /\ order \in Seq(Handlers)
    /\ arrivals \in Seq(Handlers)
    /\ call \in [Instances -> [at : {"idle", "forwarding", "waiting"},
                               raise : Raises \cup {NoRaise},
                               to : Instances \cup {NoInstance}]]
    /\ future \in [Raises -> Replies \cup {"none", "pending", "cancelled"}]
    /\ table \subseteq Raises
    /\ outcome \in [Raises -> {"new", "open", "external", "local",
                            "overtaken"}]
    /\ forwardedTo \in [Raises -> Instances \cup {NoInstance}]
    /\ replies \subseteq Raises

\* A raise that an answer can still reach is in the table: no sequence of
\* raises, timeouts, duplicate answers and closed websockets makes the
\* agent drop an answer that someone is waiting for.
AwaitedAnswersAreFound ==
    \A i \in Instances :
        call[i] # NoCall /\ future[call[i].raise] = "pending" =>
            call[i].raise \in table

\* A result that gets through to a raise is what the raiser gets, unless the
\* clock strikes between its arrival and the next step of the raiser.  One that
\* comes when the raise has been given up, however late, through whatever
\* duplicate, gets through to nobody.
ResultInTimeCounts ==
    \A r \in Raises :
        future[r] = "result" => outcome[r] \in {"open", "external", "overtaken"}

\* When handler h was registered.
Arrival(h) == CHOOSE n \in DOMAIN arrivals : arrivals[n] = h

\* Handlers are tried by priority and, with equal priorities, in the order
\* they registered; the list of the intent names the registered handlers.
HandlersInOrder ==
    /\ {order[n] : n \in DOMAIN order} =
           {h \in Handlers : handlerOf[h] # NoInstance}
    /\ \A m, n \in DOMAIN order : m < n =>
          \/ Priority[order[m]] > Priority[order[n]]
          \/ /\ Priority[order[m]] = Priority[order[n]]
             /\ Arrival(order[m]) < Arrival(order[n])

\* A raise that is forwarded is a request with a timeout: it is answered
\* once, for good, by the handler only if the handler said so, and it is
\* answered even if the handler, or everybody, waits for somebody else.
raiseStatus ==
    [r \in Raises |-> IF future[r] = "none" THEN "new"
                      ELSE IF outcome[r] = "external" THEN "answered"
                      ELSE IF outcome[r] \in {"local", "overtaken"}
                      THEN "failed"
                      ELSE "open"]

Exchange ==
    INSTANCE RequestResponse WITH Requests <- Raises, status <- raiseStatus

RaisesEnd == Exchange!Spec
=============================================================================
