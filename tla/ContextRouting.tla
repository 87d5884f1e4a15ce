--------------------------- MODULE ContextRouting ---------------------------
(***************************************************************************)
(* Broadcasts and context listeners: handlers/dacp/event.py with           *)
(* core/context_router.py and core/listener_store.py, on top of the        *)
(* channel registry and its handlers.                                      *)
(*                                                                         *)
(* Each websocket handles its messages one after the other; while one of   *)
(* its handlers awaits, the other websockets, the bridge and the admin API *)
(* run.  loop[a] says where the handler that runs for actor a waits.       *)
(***************************************************************************)
EXTENDS ChannelHandlers

CONSTANTS
    Bridge,         \* the task that receives from the bridge; its source is ""
    ListenerUuids,  \* ids of context listeners
    AnyType,        \* a listener without a contextType
    TypeOf,         \* type of each context of the admin or of other agents
    MaxBroadcasts,  \* bound: broadcasts by apps and the bridge
    NoListener

ASSUME BridgeIsNoInstance == Bridge \notin Instances
ASSUME MaxBroadcastsIsNat == MaxBroadcasts \in Nat

Actors == Instances \cup {Bridge}
Broadcasts == 1..MaxBroadcasts      \* the contexts that apps broadcast
OtherContexts == Contexts \ Broadcasts    \* of the admin, or of other agents

ASSUME BroadcastsAreContexts == Broadcasts \subseteq Contexts
ASSUME ContextsHaveTypes == TypeOf \in [OtherContexts -> ContextTypes]

VARIABLES
    listeners,  \* ListenerStore.context_listeners
    loop,       \* where the handler of each actor waits
    source,     \* who sent each broadcast so far, in order
    sent,       \* number of broadcasts so far
    received,   \* history: the broadcasts each session was sent
    audience    \* history: for whom each context was when it was routed

routingVars == <<listeners, loop, source, sent, received, audience>>
allVars == <<vars, routingVars>>

Idle == [at |-> "idle", channel |-> NoChannel, type |-> NoContext,
         context |-> NoContext, targets |-> {}]

RoutingInit ==
    /\ Init
    /\ listeners = [l \in ListenerUuids |-> NoListener]
    /\ loop = [a \in Actors |-> Idle]
    /\ source = [n \in Broadcasts |-> NoInstance]
    /\ sent = 0
    /\ received = [i \in Instances |-> {}]
    /\ audience = [n \in Contexts |-> {}]

-----------------------------------------------------------------------------
(***************************************************************************)
(* ListenerStore.                                                          *)
(***************************************************************************)
Registered == {l \in ListenerUuids : listeners[l] # NoListener}

OwnedBy(i) == {l \in Registered : listeners[l].instance = i}

\* get_context_listeners with include_global: on no channel at all, the
\* channel of a listener is not looked at.
ListenersFor(type, c) ==
    {l \in Registered :
        /\ listeners[l].type \in {type, AnyType}
        /\ c # NoChannel => listeners[l].channel \in {c, NoChannel}}

-----------------------------------------------------------------------------
(***************************************************************************)
(* broadcast.                                                              *)
(***************************************************************************)

\* The channel is settled first; then the request is handed to the bridge,
\* and that is awaited.  (Without a bridge RouteBroadcast follows at once.)
StartBroadcast(a, c, type) ==
    /\ loop[a] = Idle
    /\ sent < MaxBroadcasts
    /\ a \in connected \cup {Bridge}
    /\ \/ c # NoChannel                   \* payload.channelId, unchecked
       \/ c = NoChannel /\ a = Bridge     \* none, and no source either
       \/ a # Bridge /\ c = current[a]    \* none: the current channel
    /\ sent' = sent + 1
    /\ source' = [source EXCEPT ![sent + 1] = a]
    /\ loop' = [loop EXCEPT ![a] =
                   [at |-> "forwarding", channel |-> c, type |-> type,
                    context |-> sent + 1, targets |-> {}]]
    /\ UNCHANGED <<vars, listeners, received, audience>>

\* Mutant: those who only joined the channel are forgotten.
RouteToListeners(a) ==
    LET h == loop[a]
        c == IF h.channel = NoChannel /\ a # Bridge THEN current[a]
             ELSE h.channel
        listening == {listeners[l].instance : l \in ListenersFor(h.type, c)}
        targets == listening \ {a}
    IN  /\ h.at = "forwarding"
        /\ IF c = NoChannel
           THEN UNCHANGED <<contexts, lastContext>>
           ELSE SetChannelContext(c, h.type, h.context)
        /\ loop' = [loop EXCEPT ![a] =
                       IF targets = {} THEN Idle
                       ELSE [h EXCEPT !.at = "sending", !.targets = targets]]
        /\ audience' = [audience EXCEPT ![h.context] =
                           {i \in connected \ {a} :
                               c # NoChannel /\ current[i] = c}]
        /\ UNCHANGED <<chType, members, current, owner, participants, invites,
                       remoteListeners, view, handlerVars, listeners, source,
                       sent, received>>

\* ContextRouter.broadcast_context.  Without a channel it looks once more
\* at the current channel of the source.
RouteBroadcast(a) ==
    LET h == loop[a]
        c == IF h.channel = NoChannel /\ a # Bridge THEN current[a]
             ELSE h.channel
        listening == {listeners[l].instance : l \in ListenersFor(h.type, c)}
        onList == IF c = NoChannel THEN {}
                  ELSE {i \in Instances : members[c][i] > 0}
        targets == (listening \cup onList) \ {a}
    IN  /\ h.at = "forwarding"
        /\ IF c = NoChannel
           THEN UNCHANGED <<contexts, lastContext>>
           ELSE SetChannelContext(c, h.type, h.context)
        /\ loop' = [loop EXCEPT ![a] =
                       IF targets = {} THEN Idle
                       ELSE [h EXCEPT !.at = "sending", !.targets = targets]]
        /\ audience' = [audience EXCEPT ![h.context] =
                           {i \in connected \ {a} :
                               c # NoChannel /\ current[i] = c}]
        /\ UNCHANGED <<chType, members, current, owner, participants, invites,
                       remoteListeners, view, handlerVars, listeners, source,
                       sent, received>>

\* What send_to_instance gets to the instance: nothing without a connection.
\* (A send that raises also removes the connection.  The sends that do are those
\* to websockets whose cleanup is due, and the cleanup removes it as well.)
Deliver(i, n) ==
    received' = IF i \in connected
                THEN [received EXCEPT ![i] = @ \cup {n}]
                ELSE received

\* Mutant: a target without a connection ends the loop.
SendUntilFailure(a, i) ==
    LET rest == IF i \in connected THEN loop[a].targets \ {i} ELSE {}
    IN  /\ loop[a].at = "sending"
        /\ i \in loop[a].targets
        /\ Deliver(i, loop[a].context)
        /\ loop' = [loop EXCEPT ![a] =
                       IF rest = {} THEN Idle ELSE [@ EXCEPT !.targets = rest]]
        /\ UNCHANGED <<vars, listeners, source, sent, audience>>

\* One send_to_instance of the loop over the targets, a set.
SendBroadcast(a, i) ==
    LET rest == loop[a].targets \ {i}
    IN  /\ loop[a].at = "sending"
        /\ i \in loop[a].targets
        /\ Deliver(i, loop[a].context)
        /\ loop' = [loop EXCEPT ![a] =
                       IF rest = {} THEN Idle ELSE [@ EXCEPT !.targets = rest]]
        /\ UNCHANGED <<vars, listeners, source, sent, audience>>

\* Whom a context in a channelsState concerns: listeners for its type, if it
\* is news; those for any type, if it is not what came last.
ListenersForState(c, ctx) ==
    LET last == lastContext[c] # NoContext /\ contexts[c][lastContext[c]] = ctx
    IN  {l \in ListenersFor(TypeOf[ctx], c) :
            IF listeners[l].type = AnyType THEN ~last
            ELSE contexts[c][TypeOf[ctx]] # ctx}

\* The channelsState of an update from the bridge, with one context: stored,
\* also for a channel that there is not; if it is news, sent to the members
\* of the channel that listen.
ApplyChannelsState(c, ctx) ==
    LET type == TypeOf[ctx]
        known == Exists(c) \/ lastContext[c] # NoContext
        listening == {listeners[l].instance : l \in ListenersForState(c, ctx)}
        targets == {i \in listening : known /\ members[c][i] > 0}
    IN  /\ loop[Bridge] = Idle
        /\ SetChannelContext(c, type, ctx)
        /\ loop' = IF targets = {} THEN loop
                   ELSE [loop EXCEPT ![Bridge] =
                            [at |-> "sending", channel |-> c, type |-> type,
                             context |-> ctx, targets |-> targets]]
        /\ audience' = [audience EXCEPT ![ctx] = @ \cup
                           {i \in connected :
                               /\ contexts[c][type] # ctx
                               /\ current[i] = c
                               /\ \E l \in ListenersFor(type, c) :
                                     listeners[l].instance = i}]
        /\ UNCHANGED <<chType, members, current, owner, participants, invites,
                       remoteListeners, view, handlerVars, listeners, source,
                       sent, received>>

-----------------------------------------------------------------------------
(***************************************************************************)
(* addContextListener, contextListener unsubscribe.                        *)
(***************************************************************************)

\* get_channel_context, for one type or for whatever came last.
ChannelContext(c, type) ==
    IF c = NoChannel THEN NoContext
    ELSE IF type # AnyType THEN contexts[c][type]
    ELSE IF lastContext[c] = NoContext THEN NoContext
    ELSE contexts[c][lastContext[c]]

\* Mutant: a listener for every type is sent nothing.
ReplayByTypeOnly(i, c, type) ==
    LET n == IF c = NoChannel \/ type = AnyType THEN NoContext
             ELSE contexts[c][type]
    IN  IF n = NoContext THEN UNCHANGED received ELSE Deliver(i, n)

\* The context of the channel is sent to the instance that listens to it.
ReplayContext(i, c, type) ==
    LET n == ChannelContext(c, type)
    IN  IF n = NoContext THEN UNCHANGED received ELSE Deliver(i, n)

\* The listener goes on the current channel, or on none.  On a private
\* channel those who listen for its events are told, and awaited, before
\* the context is read.  (When nobody is, FinishAddListener follows at once.)
AddContextListener(i, l, type) ==
    LET c == current[i]
        announce == c # NoChannel /\ chType[c] = "private"
    IN  /\ loop[i] = Idle
        /\ i \in connected
        /\ listeners[l] = NoListener
        /\ listeners' = [listeners EXCEPT ![l] =
                            [instance |-> i, type |-> type, channel |-> c]]
        /\ IF announce
           THEN /\ loop' = [loop EXCEPT ![i] =
                              [at |-> "announcing", channel |-> c,
                               type |-> type, context |-> NoContext,
                               targets |-> {}]]
                /\ UNCHANGED received
           ELSE ReplayContext(i, c, type) /\ UNCHANGED loop
        /\ UNCHANGED <<vars, source, sent, audience>>

FinishAddListener(i) ==
    /\ loop[i].at = "announcing"
    /\ ReplayContext(i, loop[i].channel, loop[i].type)
    /\ loop' = [loop EXCEPT ![i] = Idle]
    /\ UNCHANGED <<vars, listeners, source, sent, audience>>

Unsubscribe(i, l) ==
    /\ loop[i] = Idle
    /\ i \in connected
    /\ l \in Registered
    /\ listeners' = [listeners EXCEPT ![l] = NoListener]
    /\ UNCHANGED <<vars, loop, source, sent, received, audience>>

-----------------------------------------------------------------------------
\* Mutant: the listeners on the channel being left are removed, not those
\* of other channels.
EndSessionOnChannel(i) ==
    /\ loop[i] = Idle
    /\ CleanupInstance(i)
    /\ listeners' = [l \in ListenerUuids |->
                        IF l \in OwnedBy(i) /\ listeners[l].channel = current[i]
                        THEN NoListener ELSE listeners[l]]
    /\ received' = [received EXCEPT ![i] = {}]
    /\ audience' = [n \in Contexts |-> audience[n] \ {i}]
    /\ UNCHANGED <<loop, source, sent>>

\* A closed websocket: _cleanup_instance also removes the listeners.  What
\* was sent to the session that ended counts for nothing in the next one.
EndSession(i) ==
    /\ loop[i] = Idle
    /\ CleanupInstance(i)
    /\ listeners' = [l \in ListenerUuids |->
                        IF l \in OwnedBy(i) THEN NoListener ELSE listeners[l]]
    /\ received' = [received EXCEPT ![i] = {}]
    /\ audience' = [n \in Contexts |-> audience[n] \ {i}]
    /\ UNCHANGED <<loop, source, sent>>

\* What a websocket asks of the channels between two other requests, and
\* what the agent does to them in the meantime.
ChannelStep ==
    /\ \/ AgentStep
       \/ \E i \in Instances : /\ loop[i] = Idle
                                /\ (Connect(i) \/ ChannelRequest(i))
    /\ UNCHANGED routingVars

\* GraphQL broadcastToChannel: stored and put on the event stream, sent to
\* no app.
AdminContext ==
    /\ \E c \in Channels, ctx \in OtherContexts :
          AdminBroadcast(c, TypeOf[ctx], ctx)
    /\ UNCHANGED routingVars

Handling(a) ==
    \/ RouteBroadcast(a)
    \/ \E i \in Instances : SendBroadcast(a, i)
    \/ a \in Instances /\ FinishAddListener(a)

RoutingNext ==
    \/ ChannelStep
    \/ AdminContext
    \/ \E c \in Channels, ctx \in OtherContexts : ApplyChannelsState(c, ctx)
    \/ \E a \in Actors :
          \/ Handling(a)
          \/ \E c \in Channels \cup {NoChannel}, type \in ContextTypes :
                StartBroadcast(a, c, type)
    \/ \E i \in Instances :
          \/ EndSession(i)
          \/ \E l \in ListenerUuids :
                \/ Unsubscribe(i, l)
                \/ \E type \in ContextTypes \cup {AnyType} :
                      AddContextListener(i, l, type)

\* A handler that awaits is resumed: the awaits here are sends, which end.
RoutingSpec ==
    /\ RoutingInit
    /\ [][RoutingNext]_allVars
    /\ \A a \in Actors : WF_allVars(Handling(a))

-----------------------------------------------------------------------------
(***************************************************************************)
(* Properties.                                                             *)
(***************************************************************************)

\* Listeners, handlers and histories hold the values they are meant to.
RoutingTypeOK ==
    /\ TypeOK
    /\ listeners \in [ListenerUuids -> {NoListener} \cup
                        [instance : Instances,
                         type : ContextTypes \cup {AnyType},
                         channel : Channels \cup {NoChannel}]]
    /\ loop \in [Actors ->
                   [at : {"idle", "forwarding", "sending", "announcing"},
                    channel : Channels \cup {NoChannel},
                    type : ContextTypes \cup {AnyType, NoContext},
                    context : Contexts \cup {NoContext},
                    targets : SUBSET Instances]]
    /\ source \in [Broadcasts -> Actors \cup {NoInstance}]
    /\ sent \in 0..MaxBroadcasts
    /\ received \in [Instances -> SUBSET Contexts]
    /\ audience \in [Contexts -> SUBSET Instances]

\* Broadcast n is on its way to instance i.
Underway(n, i) ==
    \E a \in Actors : /\ loop[a].at = "sending"
                      /\ loop[a].context = n
                      /\ i \in loop[a].targets

\* A listener on a channel is never left behind by the join-then-listen
\* race: it has been sent the app broadcast that the channel now stores, or
\* that is on its way, or the listener is still being added.
NoMissedContext ==
    \A l \in Registered :
        LET i == listeners[l].instance
            n == ChannelContext(listeners[l].channel, listeners[l].type)
        IN  n \in Broadcasts /\ source[n] # i =>
                \/ n \in received[i]
                \/ Underway(n, i)
                \/ loop[i].at = "announcing"

\* Whoever is on the channel when a broadcast is routed is sent it, and of those
\* on it when a channelsState is applied whoever listens for a context that
\* differs from the stored one, even if it leaves the channel, or the
\* channel is deleted, before its turn.
AudienceServed ==
    \A n \in Contexts : \A i \in audience[n] :
        n \in received[i] \/ Underway(n, i)

\* Listeners belong to live sessions: the cleanup of a websocket leaves
\* none behind that a later broadcast would still look at.
NoListenerOfEndedSession ==
    \A l \in Registered : listeners[l].instance \in connected

\* Every member of the audience that stays connected gets the broadcast.
BroadcastsArrive ==
    \A n \in Contexts, i \in Instances :
        i \in audience[n] ~> n \in received[i] \/ i \notin audience[n]
=============================================================================
