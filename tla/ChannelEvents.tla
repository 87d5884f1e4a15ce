---------------------------- MODULE ChannelEvents ---------------------------
(***************************************************************************)
(* What apps are told about channels: the event listeners of               *)
(* core/listener_store.py, addEventListener and its private-channel form,  *)
(* the events that the handlers of handlers/dacp/{channel,event}.py emit   *)
(* (base.py), and what passes over the bridge in both directions.          *)
(*                                                                         *)
(* An event goes to the listeners there are when it is emitted, one send   *)
(* after the other, then to the remote agents that listen on the channel.  *)
(* The websocket that caused it serves nothing until all that is done;     *)
(* the others run in between.                                              *)
(*                                                                         *)
(* Of the registry there is what the events depend on: which private       *)
(* channels exist, who owns them and who is where.  That the registry's    *)
(* member lists amount to that is a theorem about ChannelHandlers.         *)
(***************************************************************************)
EXTENDS Naturals

CONSTANTS
    Instances,          \* instance UUIDs
    UserIds,            \* the user channels
    PrivateIds,         \* ids of private channels
    Agents,             \* remote desktop agents
    Bridge,             \* the task that receives from the bridge
    EventListeners,     \* ids of event listeners
    ContextListeners,   \* ids of context listeners
    AnyEvent,           \* a listener without an eventType
    Creators,           \* the apps that create private channels
    Wanted,             \* the eventTypes that listeners are added with
    Remote,             \* the types of the events that remote agents send
    NoInstance, NoChannel, NoListener, NoEvent

ASSUME BridgeIsNoInstance == Bridge \notin Instances
ASSUME NoInstanceIsNone == NoInstance \notin Instances
ASSUME NoListenerIsNone == NoListener \notin ContextListeners
ASSUME NoChannelIsNone == NoChannel \notin PrivateIds

PrivateEvents == {"onAddContextListener", "onUnsubscribe", "onDisconnect"}
EventTypes == PrivateEvents \cup {"userChannelChanged"}
Actors == Instances \cup {Bridge}

ASSUME NoEventIsNone == NoEvent \notin EventTypes
ASSUME MarksAreNoInstances == {"new", "gone"} \cap Instances = {}

VARIABLES
    open,               \* the instances with a websocket
    exists,             \* the private channels there are
    owner,              \* private_channel_owners
    founder,            \* history: who created each private channel
    current,            \* instance_channels
    remoteListeners,    \* remote_private_channel_listeners
    eventListeners,     \* ListenerStore.event_listeners
    contextListeners,   \* whose each context listener is; an id is used once
    knows,              \* the apps that were told the id of a context listener
                        \* that there is
    task,               \* what the handler of each actor still has to do
    owed                \* history: whom its last event has not reached

registry == <<exists, owner, founder, current, remoteListeners>>
stores == <<eventListeners, contextListeners, knows>>
vars == <<open, registry, stores, task, owed>>

\* `rest' holds the targets <<listener, instance>> of the sends to come.
Idle == [at |-> "idle", type |-> NoEvent, channel |-> NoChannel,
         subject |-> NoListener, rest |-> {}]

Init ==
    /\ open = Instances
    /\ exists = {}
    /\ owner = [c \in PrivateIds |-> NoInstance]
    /\ founder = [c \in PrivateIds |-> NoInstance]
    /\ current = [i \in Instances |-> NoChannel]
    /\ remoteListeners = [c \in PrivateIds |-> {}]
    /\ eventListeners = [l \in EventListeners |-> NoListener]
    /\ contextListeners = [l \in ContextListeners |-> "new"]
    /\ knows = [l \in ContextListeners |-> {}]
    /\ task = [a \in Actors |-> Idle]
    /\ owed = [a \in Actors |-> {}]

Serves(i) == i \in open /\ task[i] = Idle
OnPrivate(i) == current[i] \in PrivateIds

-----------------------------------------------------------------------------
(***************************************************************************)
(* Event listeners.                                                        *)
(***************************************************************************)

\* get_event_listeners for a channel: a listener without one hears nothing.
ListenersOn(type, c) ==
    {l \in EventListeners :
        /\ eventListeners[l] # NoListener
        /\ eventListeners[l].type \in {type, AnyEvent}
        /\ eventListeners[l].channel = c}

\* get_event_listeners for an instance: on whatever channel.
ListenersOf(type, i) ==
    {l \in EventListeners :
        /\ eventListeners[l] # NoListener
        /\ eventListeners[l].type \in {type, AnyEvent}
        /\ eventListeners[l].instance = i}

NewListener(i, l, type, c) ==
    /\ Serves(i)
    /\ eventListeners[l] = NoListener
    /\ eventListeners' =
          [eventListeners EXCEPT ![l] = [instance |-> i, type |-> type,
                                         channel |-> c]]
    /\ UNCHANGED <<open, registry, contextListeners, knows, task, owed>>

AddEventListener(i, l, type) == NewListener(i, l, type, NoChannel)

\* Mutant: any app on the channel may listen.
AddEventListenerOfMember(i, l, c, type) ==
    /\ c \in exists
    /\ current[i] = c \/ owner[c] = i
    /\ NewListener(i, l, type, c)

\* privateChannelAddEventListener: by the owner.  The other agents are sent
\* an update if there is a bridge; what an agent makes of one is
\* RemoteListenerUpdate.
PrivateChannelAddEventListener(i, l, c, type) ==
    /\ c \in exists
    /\ owner[c] = i
    /\ NewListener(i, l, type, c)

\* remove_listener, for the app that was told the id.  The two requests that
\* come to it take the id of a listener of any kind.
ForgetEventListener(i, l) ==
    /\ Serves(i)
    /\ eventListeners[l] # NoListener
    /\ eventListeners[l].instance = i
    /\ eventListeners' = [eventListeners EXCEPT ![l] = NoListener]
    /\ UNCHANGED <<open, registry, contextListeners, knows>>

ForgetContextListener(i, l) ==
    /\ Serves(i)
    /\ contextListeners[l] \in Instances
    /\ i \in knows[l]
    /\ contextListeners' = [contextListeners EXCEPT ![l] = "gone"]
    /\ knows' = [knows EXCEPT ![l] = {}]
    /\ UNCHANGED <<open, registry, eventListeners>>

\* removeEventListener: no app is told, also not if it was a context listener.
RemoveEventListener(i, l) ==
    ForgetEventListener(i, l) /\ UNCHANGED <<task, owed>>

RemoveContextListener(i, l) ==
    ForgetContextListener(i, l) /\ UNCHANGED <<task, owed>>

-----------------------------------------------------------------------------
(***************************************************************************)
(* Emitting an event.                                                      *)
(***************************************************************************)

\* An event for `targets'; nothing happens without any.  `next' says whether
\* it also goes over the bridge.
Emit(a, next, type, c, subject, targets) ==
    IF targets = {}
    THEN task' = [task EXCEPT ![a] = Idle] /\ UNCHANGED owed
    ELSE /\ task' = [task EXCEPT ![a] =
                       [at |-> next, type |-> type, channel |-> c,
                        subject |-> subject, rest |-> targets]]
         /\ owed' = [owed EXCEPT ![a] = {t[2] : t \in targets} \cap open]

WithInstance(ls) == {<<l, eventListeners[l].instance>> : l \in ls}

\* _emit_private_channel_event, up to its first send.
EmitPrivate(a, type, c, subject) ==
    Emit(a, "telling", type, c, subject, WithInstance(ListenersOn(type, c)))

\* The app gets the message, if it still has a websocket.
Receive(a, i) ==
    LET l == task[a].subject
    IN  /\ owed' = [owed EXCEPT ![a] = @ \ {i}]
        /\ knows' = IF l # NoListener /\ i \in open /\ knows[l] # {}
                    THEN [knows EXCEPT ![l] = @ \cup {i}] ELSE knows
        /\ UNCHANGED <<open, registry, eventListeners, contextListeners>>

\* Mutant: a listener without a websocket ends the loop.
TellUntilFailure(a, t) ==
    /\ task[a].at \in {"telling", "telling_last"}
    /\ t \in task[a].rest
    /\ task' = [task EXCEPT ![a].rest = IF t[2] \in open THEN @ \ {t} ELSE {}]
    /\ Receive(a, t[2])

\* send_to_instance, for one listener after the other: a failure is logged.
Tell(a, t) ==
    /\ task[a].at \in {"telling", "telling_last"}
    /\ t \in task[a].rest
    /\ task' = [task EXCEPT ![a].rest = @ \ {t}]
    /\ Receive(a, t[2])

\* All listeners told: the remote agents of the channel, if there are any and
\* a bridge, or else the end of the handler.
AllTold(a) ==
    /\ task[a].at \in {"telling", "telling_last"}
    /\ task[a].rest = {}
    /\ \/ task' = [task EXCEPT ![a] = Idle]
       \/ /\ task[a].at = "telling"
          /\ remoteListeners[task[a].channel] # {}
          /\ task' = [task EXCEPT ![a].at = "bridging",
                                  ![a].rest = remoteListeners[task[a].channel]]
    /\ UNCHANGED <<open, registry, stores, owed>>

\* _bridge_private_channel_event, one agent after the other, whether or not
\* the send fails.
SendOverBridge(i, g) ==
    LET rest == task[i].rest \ {g}
    IN  /\ task[i].at = "bridging"
        /\ g \in task[i].rest
        /\ task' = [task EXCEPT ![i] = IF rest = {} THEN Idle
                                       ELSE [@ EXCEPT !.rest = rest]]
        /\ UNCHANGED <<open, registry, stores, owed>>

-----------------------------------------------------------------------------
(***************************************************************************)
(* The handlers that emit.                                                 *)
(***************************************************************************)

\* joinUserChannel, joinChannel, leaveCurrentChannel: the answer comes first.
Move(i) ==
    /\ Serves(i)
    /\ \E c \in UserIds \cup {NoChannel} :
          /\ current' = [current EXCEPT ![i] = c]
          /\ task' = [task EXCEPT ![i] = [Idle EXCEPT !.at = "moved",
                                                      !.channel = c]]
    /\ UNCHANGED <<open, exists, owner, founder, remoteListeners, stores, owed>>

\* _emit_user_channel_changed_event: one event, to the app itself.
EmitUserChannelChanged(i) ==
    /\ task[i].at = "moved"
    /\ Emit(i, "telling_last", "userChannelChanged", task[i].channel, NoListener,
            IF ListenersOf("userChannelChanged", i) = {} THEN {}
            ELSE {<<NoListener, i>>})
    /\ UNCHANGED <<open, registry, stores>>

\* Mutant: the event is left to a task of its own, and the answer is sent.
AddContextListenerAtOnce(i, l) ==
    /\ Serves(i)
    /\ contextListeners[l] = "new"
    /\ contextListeners' = [contextListeners EXCEPT ![l] = i]
    /\ knows' = [knows EXCEPT ![l] = {i}]
    /\ IF OnPrivate(i) /\ task[Bridge] = Idle
       THEN EmitPrivate(Bridge, "onAddContextListener", current[i], l)
       ELSE UNCHANGED <<task, owed>>
    /\ UNCHANGED <<open, registry, eventListeners>>

\* addContextListener: on a private channel its owner is told first, then the
\* app has its answer.
AddContextListener(i, l) ==
    /\ Serves(i)
    /\ contextListeners[l] = "new"
    /\ contextListeners' = [contextListeners EXCEPT ![l] = i]
    /\ knows' = [knows EXCEPT ![l] = {i}]
    /\ IF OnPrivate(i)
       THEN EmitPrivate(i, "onAddContextListener", current[i], l)
       ELSE UNCHANGED <<task, owed>>
    /\ UNCHANGED <<open, registry, eventListeners>>

\* contextListenerUnsubscribe, by whoever was told the id.  It is the channel
\* on which the listener's app is now that counts.
Unsubscribe(i, l) ==
    LET who == contextListeners[l]
    IN  /\ ForgetContextListener(i, l)
        /\ IF OnPrivate(who)
           THEN EmitPrivate(i, "onUnsubscribe", current[who], l)
           ELSE UNCHANGED <<task, owed>>

\* The same with the id of an event listener, which hears nothing of it.
UnsubscribeEventListener(i, l) ==
    /\ ForgetEventListener(i, l)
    /\ IF OnPrivate(i)
       THEN Emit(i, "telling", "onUnsubscribe", current[i], NoListener,
                 WithInstance(ListenersOn("onUnsubscribe", current[i]) \ {l}))
       ELSE UNCHANGED <<task, owed>>

\* delete_channel: its members are on no channel, its owner and the remote
\* agents that listened are forgotten; the event listeners stay.
Remove(c) ==
    /\ c \in exists
    /\ exists' = exists \ {c}
    /\ owner' = [p \in PrivateIds |-> IF p = c THEN NoInstance ELSE owner[p]]
    /\ current' = [i \in Instances |->
                      IF current[i] = c THEN NoChannel ELSE current[i]]
    /\ remoteListeners' = [remoteListeners EXCEPT ![c] = {}]
    /\ UNCHANGED founder

\* privateChannelDisconnect, by the owner or a member: the channel goes, then
\* its listeners are told.
Disconnect(i, c) ==
    /\ Serves(i)
    /\ owner[c] = i \/ current[i] = c
    /\ Remove(c)
    /\ EmitPrivate(i, "onDisconnect", c, NoListener)
    /\ UNCHANGED <<open, stores>>

-----------------------------------------------------------------------------
(***************************************************************************)
(* What changes the registry, and emits nothing.                           *)
(***************************************************************************)

\* createPrivateChannel: the id is fresh, its creator is not on it.
CreatePrivate(i, c) ==
    /\ Serves(i)
    /\ c \notin exists
    /\ founder[c] = NoInstance
    /\ exists' = exists \cup {c}
    /\ owner' = [owner EXCEPT ![c] = i]
    /\ founder' = [founder EXCEPT ![c] = i]
    /\ UNCHANGED <<open, current, remoteListeners, stores, task, owed>>

\* joinPrivateChannel, by the owner or by an app with an invitation, which
\* only a channel with an owner can have; leavePrivateChannel.
JoinOrLeavePrivate(i, c) ==
    /\ Serves(i)
    /\ \/ c \in exists /\ owner[c] # NoInstance
          /\ current' = [current EXCEPT ![i] = c]
       \/ current[i] = c
          /\ current' = [current EXCEPT ![i] = NoChannel]
    /\ UNCHANGED <<open, exists, owner, founder, remoteListeners, stores,
                   task, owed>>

\* createChannel and deleteChannel of the admin: with any id.
AdminStep(c) ==
    /\ \/ Remove(c)
       \/ /\ c \notin exists
          /\ exists' = exists \cup {c}
          /\ UNCHANGED <<owner, founder, current, remoteListeners>>
    /\ UNCHANGED <<open, stores, task, owed>>

\* _cleanup_instance, once the handler has come back: the listeners go, the
\* channels that the app owns stay.
EndSession(i) ==
    /\ Serves(i)
    /\ open' = open \ {i}
    /\ current' = [current EXCEPT ![i] = NoChannel]
    /\ eventListeners' =
          [l \in EventListeners |->
              IF eventListeners[l] # NoListener /\ eventListeners[l].instance = i
              THEN NoListener ELSE eventListeners[l]]
    /\ contextListeners' =
          [l \in ContextListeners |->
              IF contextListeners[l] = i THEN "gone" ELSE contextListeners[l]]
    /\ knows' = [l \in ContextListeners |->
                    IF contextListeners[l] = i THEN {} ELSE knows[l] \ {i}]
    /\ owed' = [a \in Actors |-> owed[a] \ {i}]
    /\ UNCHANGED <<exists, owner, founder, remoteListeners, task>>

-----------------------------------------------------------------------------
(***************************************************************************)
(* What other agents send.                                                 *)
(***************************************************************************)

\* privateChannelEvent: to the listeners of the channel, and no further.
RemotePrivateEvent(type, c) ==
    /\ task[Bridge] = Idle
    /\ Emit(Bridge, "telling_last", type, c, NoListener,
            WithInstance(ListenersOn(type, c)))
    /\ UNCHANGED <<open, registry, stores>>

\* fdc3Event: to the connected instances of an app, or one of them, whether
\* they listen or not.
RemoteFdc3Event(who) ==
    /\ task[Bridge] = Idle
    /\ Emit(Bridge, "telling_last", "userChannelChanged", NoChannel, NoListener,
            {<<NoListener, i>> : i \in who})
    /\ UNCHANGED <<open, registry, stores>>

\* privateChannelEventListenerAdded and Removed: one entry per agent, however
\* many listeners it has.
RemoteListenerUpdate(c, g) ==
    /\ task[Bridge] = Idle
    /\ \/ remoteListeners' = [remoteListeners EXCEPT ![c] = @ \cup {g}]
       \/ remoteListeners' = [remoteListeners EXCEPT ![c] = @ \ {g}]
    /\ UNCHANGED <<open, exists, owner, founder, current, stores, task, owed>>

-----------------------------------------------------------------------------
Proceed(a) ==
    \/ AllTold(a)
    \/ \E t \in task[a].rest : Tell(a, t)
    \/ /\ a \in Instances
       /\ \/ EmitUserChannelChanged(a)
          \/ \E g \in task[a].rest : SendOverBridge(a, g)

Next ==
    \/ \E a \in Actors : Proceed(a)
    \/ \E i \in Instances :
          \/ EndSession(i) \/ Move(i)
          \/ \E c \in PrivateIds :
                \/ i \in Creators /\ CreatePrivate(i, c)
                \/ JoinOrLeavePrivate(i, c) \/ Disconnect(i, c)
          \/ \E l \in ContextListeners :
                \/ AddContextListener(i, l)
                \/ Unsubscribe(i, l) \/ RemoveContextListener(i, l)
          \/ \E l \in EventListeners :
                \/ RemoveEventListener(i, l) \/ UnsubscribeEventListener(i, l)
                \/ \E type \in Wanted \cap {"userChannelChanged", AnyEvent} :
                      AddEventListener(i, l, type)
                \/ \E c \in PrivateIds,
                      type \in Wanted \cap (PrivateEvents \cup {AnyEvent}) :
                      PrivateChannelAddEventListener(i, l, c, type)
    \/ \E c \in PrivateIds :
          \/ AdminStep(c)
          \/ \E type \in Remote \cap PrivateEvents : RemotePrivateEvent(type, c)
          \/ \E g \in Agents : RemoteListenerUpdate(c, g)
    \/ \E who \in SUBSET open : RemoteFdc3Event(who)

\* A handler that awaits a send is resumed.
Spec == Init /\ [][Next]_vars /\ \A a \in Actors : WF_vars(Proceed(a))

-----------------------------------------------------------------------------
(***************************************************************************)
(* Properties.                                                             *)
(***************************************************************************)

Targets == (EventListeners \cup {NoListener}) \X Instances
Telling(a) == task[a].at \in {"telling", "telling_last"}

Tasks == [at : {"idle", "moved", "telling", "telling_last", "bridging"},
          type : EventTypes \cup {NoEvent},
          channel : UserIds \cup PrivateIds \cup {NoChannel},
          subject : ContextListeners \cup {NoListener},
          rest : SUBSET (Targets \cup Agents)]

\* Registry, listeners and handlers hold the values they are meant to; a
\* handler that sends over the bridge has an agent to send to.
TypeOK ==
    /\ open \subseteq Instances
    /\ exists \subseteq PrivateIds
    /\ owner \in [PrivateIds -> Instances \cup {NoInstance}]
    /\ founder \in [PrivateIds -> Instances \cup {NoInstance}]
    /\ current \in [Instances -> UserIds \cup exists \cup {NoChannel}]
    /\ remoteListeners \in [PrivateIds -> SUBSET Agents]
    /\ eventListeners \in [EventListeners -> {NoListener} \cup
                             [instance : open,
                              type : EventTypes \cup {AnyEvent},
                              channel : PrivateIds \cup {NoChannel}]]
    /\ contextListeners \in [ContextListeners -> open \cup {"new", "gone"}]
    /\ knows \in [ContextListeners -> SUBSET open]
    /\ owed \in [Actors -> SUBSET open]
    /\ task \in [Actors -> Tasks]
    /\ \A a \in Actors :
          /\ Telling(a) => task[a].rest \subseteq Targets
          /\ task[a].at = "bridging"
                => task[a].rest # {} /\ task[a].rest \subseteq Agents

\* The first that an owner hears of a context listener is its beginning: as
\* long as no copy of that event has reached it, no copy of the event of the
\* end is on its way.  (With several event listeners on the channel it gets a
\* copy for each, and the later copies of the beginning can follow the end.)
BeginningBeforeEnd ==
    \A a, b \in Actors :
        /\ task[a].type = "onAddContextListener"
        /\ task[b].type = "onUnsubscribe"
        /\ task[a].subject = task[b].subject
        /\ task[a].subject # NoListener
        /\ Telling(b)
        => \A t \in task[b].rest : t[2] \notin owed[a]

\* What happens on a private channel is told to the app that created it and
\* to no other, also after the channel ended, or was created again by the
\* admin, and whoever listened when.
OnlyFounderHears ==
    \A a \in Actors :
        task[a].type \in PrivateEvents
            => owed[a] \subseteq {founder[task[a].channel]}

\* Whoever is to be told of an event is told, unless its websocket closes:
\* not the listener's end, not that of the channel, not another listener
\* without a websocket prevents it.
EventsArrive == \A a \in Actors : owed[a] # {} ~> owed[a] = {}
=============================================================================
