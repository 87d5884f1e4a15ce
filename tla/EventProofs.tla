----------------------------- MODULE EventProofs ----------------------------
(***************************************************************************)
(* Theorems about ChannelEvents, for any instances, channels, listeners    *)
(* and agents.                                                             *)
(*                                                                         *)
(* That only the app that created a private channel hears of what happens  *)
(* on it rests on who may listen there, and on an event being settled when *)
(* it is emitted.  That it hears of a listener's beginning before its end  *)
(* rests on who can end it: those who were told its id, and while the      *)
(* adder's handler runs these are the adder, which is busy, and the        *)
(* founder, once it has been told.                                         *)
(***************************************************************************)
EXTENDS ChannelEvents, TLAPS

\* A handler that sends an event of a private channel knows the channel, and
\* only those events have a listener as their subject.
TasksFit ==
    \A a \in Actors :
        /\ task[a].type \in PrivateEvents => task[a].channel \in PrivateIds
        /\ task[a].at = "telling" => task[a].type \in PrivateEvents
        /\ task[a].at = "moved" => task[a].type = NoEvent
        /\ task[a].subject # NoListener
              => task[a].type \in {"onAddContextListener", "onUnsubscribe"}

\* The owner of a channel is its founder, or nobody.
OwnerIsFounder ==
    \A c \in PrivateIds : owner[c] # NoInstance => owner[c] = founder[c]

FounderListens ==
    \A l \in EventListeners :
        eventListeners[l] # NoListener /\ eventListeners[l].channel # NoChannel
            => eventListeners[l].instance = founder[eventListeners[l].channel]

\* Also those who are still to be told of an event, or to be told again.
FounderIsTold ==
    \A a \in Actors :
        Telling(a) /\ task[a].type \in PrivateEvents
            => \A t \in task[a].rest : t[2] = founder[task[a].channel]

FounderInv ==
    /\ TypeOK
    /\ TasksFit
    /\ OwnerIsFounder
    /\ FounderListens
    /\ FounderIsTold
    /\ OnlyFounderHears

\* While actor a sends the event of the listener l's beginning, whose it is;
\* who knows l, and that of them only a itself may still have to be told.
BeginsWith(a, l) ==
    /\ contextListeners[l] # "new"
    /\ knows[l] # {} => contextListeners[l] = a
    /\ knows[l] \subseteq {a, founder[task[a].channel]}
    /\ owed[a] \cap knows[l] \subseteq {a}

\* While somebody sends the event of its end, nobody knows it any more.
EndedBy(l) == contextListeners[l] = "gone" /\ knows[l] = {}

SubjectsFollow ==
    \A a \in Actors : task[a].subject # NoListener =>
        /\ task[a].type = "onAddContextListener"
              => BeginsWith(a, task[a].subject)
        /\ task[a].type = "onUnsubscribe" => EndedBy(task[a].subject)

SubjectsInv == SubjectsFollow /\ BeginningBeforeEnd

-----------------------------------------------------------------------------
(***************************************************************************)
(* Facts about the operators.                                              *)
(***************************************************************************)

\* After an emission the actor is idle and owes what it owed, or it has the
\* task and owes those of its targets that have a websocket.
LEMMA EmitResult ==
    ASSUME task \in [Actors -> Tasks], owed \in [Actors -> SUBSET open],
           NEW a \in Actors, NEW next, NEW type, NEW c, NEW subject,
           NEW targets, Emit(a, next, type, c, subject, targets)
    PROVE  /\ \A b \in Actors \ {a} : task'[b] = task[b] /\ owed'[b] = owed[b]
           /\ \/ /\ task'[a] = Idle
                 /\ owed' = owed
              \/ /\ targets # {}
                 /\ task'[a] = [at |-> next, type |-> type, channel |-> c,
                                subject |-> subject, rest |-> targets]
                 /\ owed'[a] = {t[2] : t \in targets} \cap open
           /\ DOMAIN task' = Actors /\ DOMAIN owed' = Actors
           /\ task' = [b \in Actors |-> task'[b]]
           /\ owed' = [b \in Actors |-> owed'[b]]
<1>1. CASE targets = {}
  BY <1>1 DEF Emit
<1>2. CASE targets # {}
  BY <1>2 DEF Emit
<1> QED
  BY <1>1, <1>2

\* The targets of an event are instances, and on a private channel they are
\* its founder.
LEMMA ListenersAreTargets ==
    ASSUME TypeOK, FounderListens, NEW type, NEW c, c # NoChannel
    PROVE  /\ WithInstance(ListenersOn(type, c)) \in SUBSET Targets
           /\ \A t \in WithInstance(ListenersOn(type, c)) : t[2] = founder[c]
<1>1. \A l \in ListenersOn(type, c) :
         /\ l \in EventListeners
         /\ eventListeners[l].instance \in Instances
         /\ eventListeners[l].instance = founder[c]
  BY DEF TypeOK, FounderListens, ListenersOn
<1> QED
  BY <1>1 DEF WithInstance, Targets

LEMMA IdleIsTask == Idle \in Tasks
  BY DEF Idle, Tasks

\* The task of a handler that has moved its app.
LEMMA MovedTask ==
    ASSUME NEW c \in UserIds \cup {NoChannel}
    PROVE  /\ [Idle EXCEPT !.at = "moved", !.channel = c]
                = [at |-> "moved", type |-> NoEvent, channel |-> c,
                   subject |-> NoListener, rest |-> {}]
           /\ [Idle EXCEPT !.at = "moved", !.channel = c] \in Tasks
<1> DEFINE moved == [Idle EXCEPT !.at = "moved", !.channel = c]
<1>1. moved \in Tasks
  BY IdleIsTask DEF Tasks
<1>2. /\ moved.at = "moved" /\ moved.channel = c
      /\ moved.type = Idle.type /\ moved.subject = Idle.subject
      /\ moved.rest = Idle.rest
  BY IdleIsTask DEF Tasks
<1>3. Idle.type = NoEvent /\ Idle.subject = NoListener /\ Idle.rest = {}
  BY DEF Idle
<1> HIDE DEF moved
<1>4. moved = [at |-> "moved", type |-> NoEvent, channel |-> c,
               subject |-> NoListener, rest |-> {}]
  BY <1>1, <1>2, <1>3 DEF Tasks
<1> QED
  BY <1>1, <1>4 DEF moved

\* What an emission by an actor that has no task does to the invariant, if
\* the event is one that TasksFit allows.
LEMMA EmitKeepsTasks ==
    ASSUME FounderInv, NEW a \in Actors,
           NEW next \in {"telling", "telling_last"}, NEW type \in EventTypes,
           NEW c \in UserIds \cup PrivateIds \cup {NoChannel},
           NEW subject \in ContextListeners \cup {NoListener},
           NEW targets \in SUBSET Targets,
           Emit(a, next, type, c, subject, targets),
           task[a].type \notin PrivateEvents \/ task[a] = Idle,
           type \in PrivateEvents =>
              c \in PrivateIds /\ \A t \in targets : t[2] = founder[c],
           next = "telling" => type \in PrivateEvents,
           subject # NoListener =>
              type \in {"onAddContextListener", "onUnsubscribe"},
           open' = open, founder' = founder
    PROVE  /\ task' \in [Actors -> Tasks]
           /\ \A b \in Actors :
                 /\ Telling(b)' => task'[b].rest \subseteq Targets
                 /\ task'[b].at = "bridging"
                       => task'[b].rest # {} /\ task'[b].rest \subseteq Agents
           /\ owed' \in [Actors -> SUBSET open']
           /\ TasksFit' /\ FounderIsTold' /\ OnlyFounderHears'
<1>1. /\ task \in [Actors -> Tasks]
      /\ owed \in [Actors -> SUBSET open]
      /\ open \subseteq Instances
  BY DEF FounderInv, TypeOK
<1>2. /\ \A b \in Actors \ {a} : task'[b] = task[b] /\ owed'[b] = owed[b]
      /\ \/ task'[a] = Idle /\ owed' = owed
         \/ /\ task'[a] = [at |-> next, type |-> type, channel |-> c,
                          subject |-> subject, rest |-> targets]
            /\ owed'[a] = {t[2] : t \in targets} \cap open
      /\ task' = [b \in Actors |-> task'[b]]
      /\ owed' = [b \in Actors |-> owed'[b]]
  BY <1>1, EmitResult
<1>3. task'[a] \in Tasks
  BY <1>2, IdleIsTask DEF Tasks
<1>4. task' \in [Actors -> Tasks]
  BY <1>1, <1>2, <1>3
<1>5. owed' \in [Actors -> SUBSET open']
  BY <1>1, <1>2
<1>6. \A b \in Actors :
         /\ Telling(b)' => task'[b].rest \subseteq Targets
         /\ task'[b].at = "bridging" => task'[b].rest # {} /\ task'[b].rest \subseteq Agents
  BY <1>2 DEF FounderInv, TypeOK, Telling, Idle
<1>7. TasksFit'
  BY <1>2, NoEventIsNone DEF FounderInv, TasksFit, Idle, EventTypes
<1>8. FounderIsTold'
  BY <1>2, NoEventIsNone DEF FounderInv, FounderIsTold, Telling, Idle
<1>9. OnlyFounderHears'
  BY <1>2, NoEventIsNone DEF FounderInv, OnlyFounderHears, Idle, EventTypes
<1> QED
  BY <1>4, <1>5, <1>6, <1>7, <1>8, <1>9

\* Nothing changes for the tasks if they stay, no founder changes who has
\* somebody to be told, and owed loses only.
LEMMA TasksStay ==
    ASSUME FounderInv, task' = task,
           \A b \in Actors : owed'[b] \subseteq owed[b],
           \A c \in PrivateIds :
              founder[c] # NoInstance => founder'[c] = founder[c]
    PROVE  TasksFit' /\ FounderIsTold' /\ OnlyFounderHears'
<1>1. TasksFit'
  BY DEF FounderInv, TasksFit
<1>2. FounderIsTold'
  <2> SUFFICES ASSUME NEW b \in Actors, Telling(b), task[b].type \in PrivateEvents,
                      NEW t \in task[b].rest
               PROVE  t[2] = founder'[task[b].channel]
    BY DEF FounderIsTold, Telling
  <2>1. t[2] = founder[task[b].channel] /\ task[b].channel \in PrivateIds
    BY DEF FounderInv, FounderIsTold, TasksFit
  <2>2. t \in Targets
    BY DEF FounderInv, TypeOK
  <2>3. t[2] \in Instances
    BY <2>2 DEF Targets
  <2> QED
    BY <2>1, <2>3, NoInstanceIsNone
<1>3. OnlyFounderHears'
  <2> SUFFICES ASSUME NEW b \in Actors, task[b].type \in PrivateEvents,
                      NEW i \in owed'[b]
               PROVE  i = founder'[task[b].channel]
    BY DEF OnlyFounderHears
  <2>1. i \in owed[b]
    OBVIOUS
  <2>2. i = founder[task[b].channel] /\ task[b].channel \in PrivateIds
    BY <2>1 DEF FounderInv, OnlyFounderHears, TasksFit
  <2>3. i \in Instances
    BY <2>1 DEF FounderInv, TypeOK
  <2> QED
    BY <2>2, <2>3, NoInstanceIsNone
<1> QED
  BY <1>1, <1>2, <1>3

-----------------------------------------------------------------------------
(***************************************************************************)
(* Who hears of a private channel.                                         *)
(***************************************************************************)
LEMMA FounderInit == Init => FounderInv
<1> SUFFICES ASSUME Init PROVE FounderInv
  OBVIOUS
<1>1. TypeOK
  BY IdleIsTask DEF Init, TypeOK, Idle, Telling
<1>2. TasksFit /\ OwnerIsFounder /\ FounderListens /\ FounderIsTold
      /\ OnlyFounderHears
  BY NoEventIsNone DEF Init, TasksFit, OwnerIsFounder, FounderListens,
     FounderIsTold, OnlyFounderHears, Idle, Telling, EventTypes
<1> QED
  BY <1>1, <1>2 DEF FounderInv

\* The listeners there are.
LEMMA ListenersKeepFounder ==
    ASSUME FounderInv, NEW i \in Instances, NEW l \in EventListeners,
           \/ \E type, c : NewListener(i, l, type, c)
                           /\ type \in EventTypes \cup {AnyEvent}
                           /\ \/ c = NoChannel
                              \/ c \in PrivateIds /\ owner[c] = i
           \/ RemoveEventListener(i, l)
    PROVE  FounderInv'
<1>1. /\ eventListeners' \in [EventListeners -> {NoListener} \cup
                             [instance : open,
                              type : EventTypes \cup {AnyEvent},
                              channel : PrivateIds \cup {NoChannel}]]
      /\ FounderListens'
  BY NoInstanceIsNone DEF FounderInv, TypeOK, OwnerIsFounder, FounderListens,
     NewListener, RemoveEventListener, ForgetEventListener, Serves, registry
<1>2. UNCHANGED <<open, registry, contextListeners, knows, task, owed>>
  BY DEF NewListener, RemoveEventListener, ForgetEventListener
<1>3. TypeOK'
  BY <1>1, <1>2 DEF FounderInv, TypeOK, Telling, registry
<1>4. OwnerIsFounder'
  BY <1>2 DEF FounderInv, OwnerIsFounder, registry
<1>5. TasksFit' /\ FounderIsTold' /\ OnlyFounderHears'
  BY <1>2, TasksStay DEF registry
<1> QED
  BY <1>1, <1>3, <1>4, <1>5 DEF FounderInv

\* What changes the registry alone.
LEMMA RegistryKeepsFounder ==
    ASSUME FounderInv, NEW c \in PrivateIds,
           \/ \E i \in Instances : CreatePrivate(i, c) \/ JoinOrLeavePrivate(i, c)
           \/ AdminStep(c)
           \/ \E g \in Agents : RemoteListenerUpdate(c, g)
    PROVE  FounderInv'
<1> USE DEF CreatePrivate, JoinOrLeavePrivate, AdminStep, Remove,
            RemoteListenerUpdate, Serves
<1>1. UNCHANGED <<open, stores, task, owed>>
  OBVIOUS
<1>2. \A p \in PrivateIds : founder[p] # NoInstance => founder'[p] = founder[p]
  BY DEF FounderInv, TypeOK
<1>3. TasksFit' /\ FounderIsTold' /\ OnlyFounderHears'
  BY <1>1, <1>2, TasksStay
<1>4. OwnerIsFounder'
  BY DEF FounderInv, TypeOK, OwnerIsFounder
<1>5. FounderListens'
  <2> SUFFICES ASSUME NEW l \in EventListeners, eventListeners[l] # NoListener,
                      eventListeners[l].channel # NoChannel
               PROVE  eventListeners[l].instance
                         = founder'[eventListeners[l].channel]
    BY <1>1 DEF FounderListens, stores
  <2>1. /\ eventListeners[l].instance \in Instances
        /\ eventListeners[l].channel \in PrivateIds
    BY DEF FounderInv, TypeOK
  <2>2. eventListeners[l].instance = founder[eventListeners[l].channel]
    BY DEF FounderInv, FounderListens
  <2> QED
    BY <2>1, <2>2, <1>2, NoInstanceIsNone
<1>6. /\ exists' \subseteq PrivateIds
      /\ owner' \in [PrivateIds -> Instances \cup {NoInstance}]
      /\ founder' \in [PrivateIds -> Instances \cup {NoInstance}]
      /\ remoteListeners' \in [PrivateIds -> SUBSET Agents]
  BY DEF FounderInv, TypeOK
<1>7. current' \in [Instances -> UserIds \cup exists' \cup {NoChannel}]
  BY DEF FounderInv, TypeOK
<1>8. TypeOK'
  BY <1>1, <1>6, <1>7 DEF FounderInv, TypeOK, stores, Telling
<1> QED
  BY <1>3, <1>4, <1>5, <1>8 DEF FounderInv

LEMMA EndSessionKeepsFounder ==
    ASSUME FounderInv, NEW i \in Instances, EndSession(i)
    PROVE  FounderInv'
<1> USE DEF EndSession
<1>1. TasksFit' /\ FounderIsTold' /\ OnlyFounderHears'
  <2>1. \A b \in Actors : owed'[b] \subseteq owed[b]
    BY DEF FounderInv, TypeOK
  <2> QED
    BY <2>1, TasksStay
<1>2. OwnerIsFounder'
  BY DEF FounderInv, OwnerIsFounder
<1>3. FounderListens'
  BY DEF FounderInv, FounderListens
<1>4. eventListeners' \in [EventListeners -> {NoListener} \cup
                             [instance : open',
                              type : EventTypes \cup {AnyEvent},
                              channel : PrivateIds \cup {NoChannel}]]
  BY DEF FounderInv, TypeOK
<1>5. /\ contextListeners' \in [ContextListeners -> open' \cup {"new", "gone"}]
      /\ knows' \in [ContextListeners -> SUBSET open']
      /\ owed' \in [Actors -> SUBSET open']
      /\ current' \in [Instances -> UserIds \cup exists' \cup {NoChannel}]
      /\ open' \subseteq Instances
  BY DEF FounderInv, TypeOK
<1>6. TypeOK'
  BY <1>4, <1>5 DEF FounderInv, TypeOK, Telling
<1> QED
  BY <1>1, <1>2, <1>3, <1>6 DEF FounderInv

\* What a step that emits must leave alone besides.
LEMMA EmissionKeepsFounder ==
    ASSUME FounderInv, NEW a \in Actors,
           NEW next \in {"telling", "telling_last"}, NEW type \in EventTypes,
           NEW c \in UserIds \cup PrivateIds \cup {NoChannel},
           NEW subject \in ContextListeners \cup {NoListener},
           NEW targets \in SUBSET Targets,
           Emit(a, next, type, c, subject, targets),
           task[a].type \notin PrivateEvents \/ task[a] = Idle,
           type \in PrivateEvents =>
              c \in PrivateIds /\ \A t \in targets : t[2] = founder[c],
           next = "telling" => type \in PrivateEvents,
           subject # NoListener =>
              type \in {"onAddContextListener", "onUnsubscribe"},
           open' = open, founder' = founder,
           \/ eventListeners' = eventListeners
           \/ \E l \in EventListeners :
                 eventListeners' = [eventListeners EXCEPT ![l] = NoListener],
           exists' \subseteq PrivateIds,
           owner' \in [PrivateIds -> Instances \cup {NoInstance}],
           \A p \in PrivateIds : owner'[p] \in {owner[p], NoInstance},
           current' \in [Instances -> UserIds \cup exists' \cup {NoChannel}],
           remoteListeners' \in [PrivateIds -> SUBSET Agents],
           contextListeners' \in [ContextListeners -> open \cup {"new", "gone"}],
           knows' \in [ContextListeners -> SUBSET open]
    PROVE  FounderInv'
<1>1. /\ task' \in [Actors -> Tasks]
      /\ \A b \in Actors :
            /\ Telling(b)' => task'[b].rest \subseteq Targets
            /\ task'[b].at = "bridging"
                  => task'[b].rest # {} /\ task'[b].rest \subseteq Agents
      /\ owed' \in [Actors -> SUBSET open']
      /\ TasksFit' /\ FounderIsTold' /\ OnlyFounderHears'
  BY EmitKeepsTasks
<1>2. OwnerIsFounder'
  BY DEF FounderInv, OwnerIsFounder
<1>3. FounderListens'
  BY DEF FounderInv, TypeOK, FounderListens
<1>4. eventListeners' \in [EventListeners -> {NoListener} \cup
                             [instance : open,
                              type : EventTypes \cup {AnyEvent},
                              channel : PrivateIds \cup {NoChannel}]]
  BY DEF FounderInv, TypeOK
<1>5. TypeOK'
  BY <1>1, <1>4 DEF FounderInv, TypeOK
<1> QED
  BY <1>1, <1>2, <1>3, <1>5 DEF FounderInv

\* The handlers of an app that emit.
LEMMA AppEmissionsKeepFounder ==
    ASSUME FounderInv, NEW i \in Instances,
           \/ Move(i)
           \/ EmitUserChannelChanged(i)
           \/ \E l \in ContextListeners :
                 \/ AddContextListener(i, l)
                 \/ Unsubscribe(i, l) \/ RemoveContextListener(i, l)
           \/ \E l \in EventListeners : UnsubscribeEventListener(i, l)
           \/ \E c \in PrivateIds : Disconnect(i, c)
    PROVE  FounderInv'
<1> i \in Actors
  BY DEF Actors
<1>1. CASE Move(i)
  <2> USE <1>1 DEF Move, Serves
  <2>1. PICK c \in UserIds \cup {NoChannel} :
           /\ current' = [current EXCEPT ![i] = c]
           /\ task' = [task EXCEPT ![i] = [Idle EXCEPT !.at = "moved",
                                                      !.channel = c]]
    OBVIOUS
  <2>2. /\ task'[i] = [at |-> "moved", type |-> NoEvent, channel |-> c,
                       subject |-> NoListener, rest |-> {}]
        /\ \A a \in Actors \ {i} : task'[a] = task[a]
    BY <2>1, MovedTask DEF FounderInv, TypeOK
  <2>3. task' \in [Actors -> Tasks]
    BY <2>1, MovedTask DEF FounderInv, TypeOK
  <2>4. current' \in [Instances -> UserIds \cup exists' \cup {NoChannel}]
    BY <2>1 DEF FounderInv, TypeOK
  <2>5. UNCHANGED <<open, exists, owner, founder, remoteListeners, stores, owed>>
    OBVIOUS
  <2> HIDE DEF Move, Serves
  <2>6. \A a \in Actors :
           /\ Telling(a)' => task'[a].rest \subseteq Targets
           /\ task'[a].at = "bridging"
                 => task'[a].rest # {} /\ task'[a].rest \subseteq Agents
    BY <2>2 DEF FounderInv, TypeOK, Telling
  <2>7. TypeOK'
    BY <2>3, <2>5, <2>4, <2>6 DEF FounderInv, TypeOK, stores
  <2>8. TasksFit'
    BY <2>2, NoEventIsNone DEF FounderInv, TasksFit, EventTypes
  <2>9. FounderIsTold'
    BY <2>2, <2>5, NoEventIsNone DEF FounderInv, FounderIsTold, Telling
  <2>10. OnlyFounderHears'
    BY <2>2, <2>5, NoEventIsNone DEF FounderInv, OnlyFounderHears, EventTypes
  <2> USE DEF Move, Serves
  <2>11. OwnerIsFounder' /\ FounderListens'
    BY DEF FounderInv, OwnerIsFounder, FounderListens, stores
  <2> QED
    BY <2>7, <2>8, <2>9, <2>10, <2>11 DEF FounderInv
<1>2. CASE EmitUserChannelChanged(i)
  <2> DEFINE targets == IF ListenersOf("userChannelChanged", i) = {} THEN {}
                        ELSE {<<NoListener, i>>}
  <2>1. Emit(i, "telling_last", "userChannelChanged", task[i].channel,
             NoListener, targets)
    BY <1>2 DEF EmitUserChannelChanged
  <2>2. targets \in SUBSET Targets
    BY DEF Targets
  <2>3. task[i].channel \in UserIds \cup PrivateIds \cup {NoChannel}
    BY DEF FounderInv, TypeOK, Tasks
  <2>4. task[i].type \notin PrivateEvents
    BY <1>2, NoEventIsNone DEF EmitUserChannelChanged, FounderInv, TasksFit,
       EventTypes
  <2>5. UNCHANGED <<open, registry, stores>>
    BY <1>2 DEF EmitUserChannelChanged
  <2> HIDE DEF targets
  <2> QED
    BY <2>1, <2>2, <2>3, <2>4, <2>5, EmissionKeepsFounder
       DEF FounderInv, TypeOK, registry, stores, EventTypes, PrivateEvents
<1>3. ASSUME NEW l \in ContextListeners, AddContextListener(i, l)
      PROVE  FounderInv'
  <2> USE <1>3 DEF AddContextListener, Serves
  <2>1. /\ contextListeners' \in [ContextListeners -> open \cup {"new", "gone"}]
        /\ knows' \in [ContextListeners -> SUBSET open]
    BY DEF FounderInv, TypeOK
  <2>2. CASE OnPrivate(i)
    <3> DEFINE c == current[i]
    <3> DEFINE targets == WithInstance(ListenersOn("onAddContextListener", c))
    <3>1. c \in PrivateIds
      BY <2>2 DEF OnPrivate
    <3>2. /\ targets \in SUBSET Targets
          /\ \A t \in targets : t[2] = founder[c]
      BY <3>1, NoChannelIsNone, ListenersAreTargets DEF FounderInv
    <3>3. Emit(i, "telling", "onAddContextListener", c, l, targets)
      BY <2>2 DEF EmitPrivate
    <3>4. UNCHANGED <<open, registry, eventListeners>>
      OBVIOUS
    <3> HIDE DEF targets, c
    <3> QED
      BY <2>1, <3>1, <3>2, <3>3, <3>4, EmissionKeepsFounder
         DEF FounderInv, TypeOK, registry, EventTypes, PrivateEvents
  <2>3. CASE ~OnPrivate(i)
    <3>1. UNCHANGED <<open, registry, eventListeners, task, owed>>
      BY <2>3
    <3>2. TypeOK'
      BY <2>1, <3>1 DEF FounderInv, TypeOK, registry, Telling
    <3>3. OwnerIsFounder' /\ FounderListens'
      BY <3>1 DEF FounderInv, OwnerIsFounder, FounderListens, registry
    <3> QED
      BY <3>1, <3>2, <3>3, TasksStay DEF FounderInv, registry
  <2> QED
    BY <2>2, <2>3
<1>4. ASSUME NEW l \in ContextListeners, Unsubscribe(i, l)
      PROVE  FounderInv'
  <2> DEFINE who == contextListeners[l]
  <2> USE <1>4 DEF Unsubscribe, ForgetContextListener, Serves
  <2>1. /\ contextListeners' \in [ContextListeners -> open \cup {"new", "gone"}]
        /\ knows' \in [ContextListeners -> SUBSET open]
    BY DEF FounderInv, TypeOK
  <2>2. CASE OnPrivate(who)
    <3> DEFINE c == current[who]
    <3> DEFINE targets == WithInstance(ListenersOn("onUnsubscribe", c))
    <3>1. c \in PrivateIds
      BY <2>2 DEF OnPrivate
    <3>2. /\ targets \in SUBSET Targets
          /\ \A t \in targets : t[2] = founder[c]
      BY <3>1, NoChannelIsNone, ListenersAreTargets DEF FounderInv
    <3>3. Emit(i, "telling", "onUnsubscribe", c, l, targets)
      BY <2>2 DEF EmitPrivate
    <3>4. UNCHANGED <<open, registry, eventListeners>>
      OBVIOUS
    <3> HIDE DEF targets, c
    <3> QED
      BY <2>1, <3>1, <3>2, <3>3, <3>4, EmissionKeepsFounder
         DEF FounderInv, TypeOK, registry, EventTypes, PrivateEvents
  <2>3. CASE ~OnPrivate(who)
    <3>1. UNCHANGED <<open, registry, eventListeners, task, owed>>
      BY <2>3
    <3>2. TypeOK'
      BY <2>1, <3>1 DEF FounderInv, TypeOK, registry, Telling
    <3>3. OwnerIsFounder' /\ FounderListens'
      BY <3>1 DEF FounderInv, OwnerIsFounder, FounderListens, registry
    <3> QED
      BY <3>1, <3>2, <3>3, TasksStay DEF FounderInv, registry
  <2> QED
    BY <2>2, <2>3
<1>5. ASSUME NEW c \in PrivateIds, Disconnect(i, c)
      PROVE  FounderInv'
  <2> DEFINE targets == WithInstance(ListenersOn("onDisconnect", c))
  <2> USE <1>5 DEF Disconnect, Serves, Remove
  <2>1. /\ exists' \subseteq PrivateIds
        /\ owner' \in [PrivateIds -> Instances \cup {NoInstance}]
        /\ \A p \in PrivateIds : owner'[p] \in {owner[p], NoInstance}
        /\ remoteListeners' \in [PrivateIds -> SUBSET Agents]
    BY DEF FounderInv, TypeOK
  <2>2. current' \in [Instances -> UserIds \cup exists' \cup {NoChannel}]
    BY DEF FounderInv, TypeOK
  <2>3. /\ targets \in SUBSET Targets
        /\ \A t \in targets : t[2] = founder[c]
    BY NoChannelIsNone, ListenersAreTargets DEF FounderInv
  <2>4. Emit(i, "telling", "onDisconnect", c, NoListener, targets)
    BY DEF EmitPrivate
  <2>5. /\ UNCHANGED <<open, stores>>
        /\ founder' = founder
        /\ task[i] = Idle
    OBVIOUS
  <2> HIDE DEF targets, Disconnect, Remove
  <2> QED
    BY <2>1, <2>2, <2>3, <2>4, <2>5, EmissionKeepsFounder
       DEF FounderInv, TypeOK, stores, EventTypes, PrivateEvents
<1>6. ASSUME NEW l \in ContextListeners, RemoveContextListener(i, l)
      PROVE  FounderInv'
  <2> USE <1>6 DEF RemoveContextListener, ForgetContextListener, Serves
  <2>1. /\ contextListeners' \in [ContextListeners -> open \cup {"new", "gone"}]
        /\ knows' \in [ContextListeners -> SUBSET open]
        /\ UNCHANGED <<open, registry, eventListeners, task, owed>>
    BY DEF FounderInv, TypeOK
  <2>2. TypeOK'
    BY <2>1 DEF FounderInv, TypeOK, registry, Telling
  <2>3. OwnerIsFounder' /\ FounderListens'
    BY <2>1 DEF FounderInv, OwnerIsFounder, FounderListens, registry
  <2> QED
    BY <2>1, <2>2, <2>3, TasksStay DEF FounderInv, registry
<1>7. ASSUME NEW l \in EventListeners, UnsubscribeEventListener(i, l)
      PROVE  FounderInv'
  <2> DEFINE c == current[i]
  <2> DEFINE listeners == ListenersOn("onUnsubscribe", c)
  <2> DEFINE targets == WithInstance(listeners \ {l})
  <2>1. /\ eventListeners' = [eventListeners EXCEPT ![l] = NoListener]
        /\ UNCHANGED <<open, registry, contextListeners, knows>>
        /\ task[i] = Idle
    BY <1>7 DEF UnsubscribeEventListener, ForgetEventListener, Serves
  <2>2. CASE OnPrivate(i)
    <3>1. c \in PrivateIds
      BY <2>2 DEF OnPrivate
    <3>2. /\ WithInstance(listeners) \in SUBSET Targets
          /\ \A t \in WithInstance(listeners) : t[2] = founder[c]
      BY <3>1, NoChannelIsNone, ListenersAreTargets DEF FounderInv
    <3>3. targets \subseteq WithInstance(listeners)
      BY DEF WithInstance
    <3>4. Emit(i, "telling", "onUnsubscribe", c, NoListener, targets)
      BY <1>7, <2>2 DEF UnsubscribeEventListener
    <3> HIDE DEF targets, listeners, c
    <3> QED
      BY <2>1, <3>1, <3>2, <3>3, <3>4, EmissionKeepsFounder
         DEF FounderInv, TypeOK, registry, EventTypes, PrivateEvents
  <2>3. CASE ~OnPrivate(i)
    <3>1. task' = task /\ owed' = owed
      BY <1>7, <2>3 DEF UnsubscribeEventListener
    <3>2. RemoveEventListener(i, l)
      BY <1>7, <3>1 DEF UnsubscribeEventListener, RemoveEventListener
    <3> QED
      BY <3>2, ListenersKeepFounder
  <2> QED
    BY <2>2, <2>3
<1> QED
  BY <1>1, <1>2, <1>3, <1>4, <1>5, <1>6, <1>7

\* The sends of a handler.
LEMMA SendsKeepFounder ==
    ASSUME FounderInv, NEW a \in Actors,
           \/ AllTold(a)
           \/ \E t \in task[a].rest : Tell(a, t)
           \/ a \in Instances /\ \E g \in task[a].rest : SendOverBridge(a, g)
    PROVE  FounderInv'
<1>1. \A b \in Actors : task[b] \in Tasks
  BY DEF FounderInv, TypeOK
<1>2. CASE AllTold(a)
  <2>1. UNCHANGED <<open, registry, stores, owed>>
    BY <1>2 DEF AllTold
  <2>2. /\ \A b \in Actors \ {a} : task'[b] = task[b]
        /\ \/ task'[a] = Idle
           \/ /\ task[a].at = "telling"
              /\ remoteListeners[task[a].channel] # {}
              /\ task'[a] = [task[a] EXCEPT !.at = "bridging",
                                 !.rest = remoteListeners[task[a].channel]]
        /\ task' = [b \in Actors |-> task'[b]]
    BY <1>2 DEF AllTold, FounderInv, TypeOK
  <2>3. CASE task'[a] = Idle
    <3>1. TypeOK'
      <4>1. task' \in [Actors -> Tasks]
        BY <2>2, <2>3, <1>1, IdleIsTask
      <4>2. \A b \in Actors :
               /\ Telling(b)' => task'[b].rest \subseteq Targets
               /\ task'[b].at = "bridging"
                     => task'[b].rest # {} /\ task'[b].rest \subseteq Agents
        BY <2>2, <2>3 DEF FounderInv, TypeOK, Telling, Idle
      <4> QED
        BY <2>1, <4>1, <4>2 DEF FounderInv, TypeOK, registry, stores
    <3>2. TasksFit' /\ FounderIsTold' /\ OnlyFounderHears'
      BY <2>1, <2>2, <2>3, NoEventIsNone DEF FounderInv, TasksFit,
         FounderIsTold, OnlyFounderHears, Telling, Idle, EventTypes, registry
    <3>3. OwnerIsFounder' /\ FounderListens'
      BY <2>1 DEF FounderInv, OwnerIsFounder, FounderListens, registry, stores
    <3> QED
      BY <3>1, <3>2, <3>3 DEF FounderInv
  <2>4. CASE task'[a] # Idle
    <3> DEFINE there == remoteListeners[task[a].channel]
    <3>1. task[a].channel \in PrivateIds
      BY <2>2, <2>4 DEF FounderInv, TasksFit
    <3>2. there \in SUBSET Agents /\ there # {}
      BY <2>2, <2>4, <3>1 DEF FounderInv, TypeOK
    <3>3. /\ task'[a] \in Tasks
          /\ task'[a].at = "bridging" /\ task'[a].rest = there
          /\ task'[a].type = task[a].type /\ task'[a].channel = task[a].channel
          /\ task'[a].subject = task[a].subject
      BY <2>2, <2>4, <3>2, <1>1 DEF Tasks
    <3> HIDE DEF there
    <3>4. TypeOK'
      <4>1. task' \in [Actors -> Tasks]
        BY <2>2, <3>3, <1>1
      <4>2. \A b \in Actors :
               /\ Telling(b)' => task'[b].rest \subseteq Targets
               /\ task'[b].at = "bridging"
                     => task'[b].rest # {} /\ task'[b].rest \subseteq Agents
        BY <2>2, <3>2, <3>3 DEF FounderInv, TypeOK, Telling
      <4> QED
        BY <2>1, <4>1, <4>2 DEF FounderInv, TypeOK, registry, stores
    <3>5. TasksFit'
      BY <2>2, <3>3 DEF FounderInv, TasksFit
    <3>6. FounderIsTold'
      BY <2>1, <2>2, <3>3 DEF FounderInv, FounderIsTold, Telling, registry
    <3>7. OnlyFounderHears'
      BY <2>1, <2>2, <3>3 DEF FounderInv, OnlyFounderHears, registry
    <3>8. OwnerIsFounder' /\ FounderListens'
      BY <2>1 DEF FounderInv, OwnerIsFounder, FounderListens, registry, stores
    <3> QED
      BY <3>4, <3>5, <3>6, <3>7, <3>8 DEF FounderInv
  <2> QED
    BY <2>3, <2>4
<1>3. ASSUME NEW t \in task[a].rest, Tell(a, t)
      PROVE  FounderInv'
  <2>1. /\ UNCHANGED <<open, registry, eventListeners, contextListeners>>
        /\ \A b \in Actors \ {a} : task'[b] = task[b] /\ owed'[b] = owed[b]
        /\ task' = [b \in Actors |-> task'[b]]
        /\ owed' = [b \in Actors |-> owed'[b]]
        /\ owed'[a] = owed[a] \ {t[2]}
        /\ task'[a] = [task[a] EXCEPT !.rest = @ \ {t}]
    BY <1>3 DEF Tell, Receive, FounderInv, TypeOK
  <2>2. /\ task'[a] \in Tasks
        /\ task'[a].at = task[a].at /\ task'[a].rest = task[a].rest \ {t}
        /\ task'[a].type = task[a].type /\ task'[a].channel = task[a].channel
        /\ task'[a].subject = task[a].subject
    BY <2>1, <1>1 DEF Tasks
  <2>3. knows' \in [ContextListeners -> SUBSET open]
    BY <1>3 DEF Tell, Receive, FounderInv, TypeOK
  <2>4. task[a].at \in {"telling", "telling_last"}
    BY <1>3 DEF Tell
  <2>5. TypeOK'
    <3>1. task' \in [Actors -> Tasks]
      BY <2>1, <2>2, <1>1
    <3>2. owed' \in [Actors -> SUBSET open]
      <4>1. \A b \in Actors : owed[b] \subseteq open
        BY DEF FounderInv, TypeOK
      <4>2. \A b \in Actors : owed'[b] \subseteq open
        BY <2>1, <4>1
      <4> QED
        BY <2>1, <4>2
    <3>3. \A b \in Actors :
             /\ Telling(b)' => task'[b].rest \subseteq Targets
             /\ task'[b].at = "bridging"
                   => task'[b].rest # {} /\ task'[b].rest \subseteq Agents
      BY <2>1, <2>2, <2>4 DEF FounderInv, TypeOK, Telling
    <3> QED
      BY <2>1, <2>3, <3>1, <3>2, <3>3 DEF FounderInv, TypeOK, registry
  <2>6. TasksFit'
    BY <2>1, <2>2 DEF FounderInv, TasksFit
  <2>7. FounderIsTold'
    <3>1. \A b \in Actors : /\ Telling(b)' <=> Telling(b)
                            /\ task'[b].rest \subseteq task[b].rest
                            /\ task'[b].type = task[b].type
                            /\ task'[b].channel = task[b].channel
      BY <2>1, <2>2 DEF Telling
    <3>2. founder' = founder
      BY <2>1 DEF registry
    <3> QED
      BY <3>1, <3>2 DEF FounderInv, FounderIsTold
  <2>8. OnlyFounderHears'
    BY <2>1, <2>2 DEF FounderInv, OnlyFounderHears, registry
  <2>9. OwnerIsFounder' /\ FounderListens'
    BY <2>1 DEF FounderInv, OwnerIsFounder, FounderListens, registry
  <2> QED
    BY <2>5, <2>6, <2>7, <2>8, <2>9 DEF FounderInv
<1>4. ASSUME NEW g \in task[a].rest, SendOverBridge(a, g)
      PROVE  FounderInv'
  <2> DEFINE rest == task[a].rest \ {g}
  <2>1. /\ UNCHANGED <<open, registry, stores, owed>>
        /\ \A b \in Actors \ {a} : task'[b] = task[b]
        /\ task' = [b \in Actors |-> task'[b]]
        /\ task'[a] = IF rest = {} THEN Idle ELSE [task[a] EXCEPT !.rest = rest]
        /\ task[a].at = "bridging"
    BY <1>4 DEF SendOverBridge, FounderInv, TypeOK
  <2>2. task[a].rest \subseteq Agents
    BY <2>1 DEF FounderInv, TypeOK
  <2>3. CASE rest = {}
    <3>1. task'[a] = Idle
      BY <2>1, <2>3
    <3>2. TypeOK'
      <4>1. task' \in [Actors -> Tasks]
        BY <2>1, <3>1, <1>1, IdleIsTask
      <4>2. \A b \in Actors :
               /\ Telling(b)' => task'[b].rest \subseteq Targets
               /\ task'[b].at = "bridging"
                     => task'[b].rest # {} /\ task'[b].rest \subseteq Agents
        BY <2>1, <3>1 DEF FounderInv, TypeOK, Telling, Idle
      <4> QED
        BY <2>1, <4>1, <4>2 DEF FounderInv, TypeOK, registry, stores
    <3>3. TasksFit' /\ FounderIsTold' /\ OnlyFounderHears'
      BY <2>1, <3>1, NoEventIsNone DEF FounderInv, TasksFit,
         FounderIsTold, OnlyFounderHears, Telling, Idle, EventTypes, registry
    <3>4. OwnerIsFounder' /\ FounderListens'
      BY <2>1 DEF FounderInv, OwnerIsFounder, FounderListens, registry, stores
    <3> QED
      BY <3>2, <3>3, <3>4 DEF FounderInv
  <2>4. CASE rest # {}
    <3>1. rest \in SUBSET Agents
      BY <2>2
    <3>2. task'[a] = [task[a] EXCEPT !.rest = rest]
      BY <2>1, <2>4
    <3> HIDE DEF rest
    <3>3. /\ task'[a] \in Tasks
          /\ task'[a].at = "bridging" /\ task'[a].rest = rest
          /\ task'[a].type = task[a].type /\ task'[a].channel = task[a].channel
          /\ task'[a].subject = task[a].subject
      BY <2>1, <3>1, <3>2, <1>1 DEF Tasks
    <3>4. TypeOK'
      <4>1. task' \in [Actors -> Tasks]
        BY <2>1, <3>3, <1>1
      <4>2. \A b \in Actors :
               /\ Telling(b)' => task'[b].rest \subseteq Targets
               /\ task'[b].at = "bridging"
                     => task'[b].rest # {} /\ task'[b].rest \subseteq Agents
        BY <2>1, <2>4, <3>1, <3>3 DEF FounderInv, TypeOK, Telling
      <4> QED
        BY <2>1, <4>1, <4>2 DEF FounderInv, TypeOK, registry, stores
    <3>5. TasksFit'
      BY <2>1, <3>3 DEF FounderInv, TasksFit
    <3>6. FounderIsTold'
      <4>1. ~Telling(a)'
        BY <3>3 DEF Telling
      <4>2. \A b \in Actors \ {a} : task'[b] = task[b]
        BY <2>1
      <4>3. founder' = founder
        BY <2>1 DEF registry
      <4> QED
        BY <4>1, <4>2, <4>3 DEF FounderInv, FounderIsTold, Telling
    <3>7. OnlyFounderHears'
      BY <2>1, <3>3 DEF FounderInv, OnlyFounderHears, registry
    <3>8. OwnerIsFounder' /\ FounderListens'
      BY <2>1 DEF FounderInv, OwnerIsFounder, FounderListens, registry, stores
    <3> QED
      BY <3>4, <3>5, <3>6, <3>7, <3>8 DEF FounderInv
  <2> QED
    BY <2>3, <2>4
<1> QED
  BY <1>2, <1>3, <1>4

\* Events from other agents.
LEMMA RemoteEventsKeepFounder ==
    ASSUME FounderInv,
           \/ \E c \in PrivateIds, type \in PrivateEvents :
                 RemotePrivateEvent(type, c)
           \/ \E who \in SUBSET open : RemoteFdc3Event(who)
    PROVE  FounderInv'
<1> Bridge \in Actors
  BY DEF Actors
<1>1. ASSUME NEW c \in PrivateIds, NEW type \in PrivateEvents,
             RemotePrivateEvent(type, c)
      PROVE  FounderInv'
  <2> DEFINE targets == WithInstance(ListenersOn(type, c))
  <2>1. /\ targets \in SUBSET Targets
        /\ \A t \in targets : t[2] = founder[c]
    BY NoChannelIsNone, ListenersAreTargets DEF FounderInv
  <2>2. /\ Emit(Bridge, "telling_last", type, c, NoListener, targets)
        /\ task[Bridge] = Idle
        /\ UNCHANGED <<open, registry, stores>>
    BY <1>1 DEF RemotePrivateEvent
  <2> HIDE DEF targets
  <2> QED
    BY <2>1, <2>2, EmissionKeepsFounder
       DEF FounderInv, TypeOK, registry, stores, EventTypes
<1>2. ASSUME NEW who \in SUBSET open, RemoteFdc3Event(who)
      PROVE  FounderInv'
  <2> DEFINE targets == {<<NoListener, i>> : i \in who}
  <2>1. targets \in SUBSET Targets
    BY DEF FounderInv, TypeOK, Targets
  <2>2. /\ Emit(Bridge, "telling_last", "userChannelChanged", NoChannel,
                NoListener, targets)
        /\ task[Bridge] = Idle
        /\ UNCHANGED <<open, registry, stores>>
    BY <1>2 DEF RemoteFdc3Event
  <2> HIDE DEF targets
  <2> QED
    BY <2>1, <2>2, EmissionKeepsFounder
       DEF FounderInv, TypeOK, registry, stores, EventTypes, PrivateEvents
<1> QED
  BY <1>1, <1>2

LEMMA FounderStep == FounderInv /\ [Next]_vars => FounderInv'
<1> SUFFICES ASSUME FounderInv, [Next]_vars PROVE FounderInv'
  OBVIOUS
<1>1. CASE UNCHANGED vars
  BY <1>1 DEF vars, registry, stores, FounderInv, TypeOK, TasksFit,
     OwnerIsFounder, FounderListens, FounderIsTold, OnlyFounderHears, Telling
<1>2. ASSUME NEW a \in Actors, Proceed(a)
      PROVE  FounderInv'
  BY <1>2, SendsKeepFounder, AppEmissionsKeepFounder DEF Proceed
<1>3. ASSUME NEW i \in Instances, EndSession(i)
      PROVE  FounderInv'
  BY <1>3, EndSessionKeepsFounder
<1>4. ASSUME NEW i \in Instances,
             \/ Move(i)
             \/ \E c \in PrivateIds : Disconnect(i, c)
             \/ \E l \in ContextListeners :
                   \/ AddContextListener(i, l)
                   \/ Unsubscribe(i, l) \/ RemoveContextListener(i, l)
             \/ \E l \in EventListeners : UnsubscribeEventListener(i, l)
      PROVE  FounderInv'
  BY <1>4, AppEmissionsKeepFounder
<1>5. ASSUME NEW i \in Instances, NEW l \in EventListeners,
             \/ RemoveEventListener(i, l)
             \/ \E type \in Wanted \cap {"userChannelChanged", AnyEvent} :
                   AddEventListener(i, l, type)
             \/ \E c \in PrivateIds,
                   type \in Wanted \cap (PrivateEvents \cup {AnyEvent}) :
                   PrivateChannelAddEventListener(i, l, c, type)
      PROVE  FounderInv'
  <2>1. \/ RemoveEventListener(i, l)
        \/ \E type, c : /\ NewListener(i, l, type, c)
                        /\ type \in EventTypes \cup {AnyEvent}
                        /\ \/ c = NoChannel
                           \/ c \in PrivateIds /\ owner[c] = i
    BY <1>5 DEF AddEventListener, PrivateChannelAddEventListener, EventTypes
  <2> QED
    BY <2>1, ListenersKeepFounder
<1>6. ASSUME NEW c \in PrivateIds,
             \/ \E i \in Instances :
                   CreatePrivate(i, c) \/ JoinOrLeavePrivate(i, c)
             \/ AdminStep(c)
             \/ \E g \in Agents : RemoteListenerUpdate(c, g)
      PROVE  FounderInv'
  BY <1>6, RegistryKeepsFounder
<1>7. ASSUME \/ \E c \in PrivateIds, type \in PrivateEvents :
                   RemotePrivateEvent(type, c)
             \/ \E who \in SUBSET open : RemoteFdc3Event(who)
      PROVE  FounderInv'
  BY <1>7, RemoteEventsKeepFounder
<1> QED
  BY <1>1, <1>2, <1>3, <1>4, <1>5, <1>6, <1>7 DEF Next

\* Only the app that created a private channel is told of what happens on
\* it, with the invariant that this rests on.
THEOREM FounderInvariant == Spec => []FounderInv
<1> QED
  BY FounderInit, FounderStep, PTL DEF Spec

\* TypeOK.
THEOREM TypeCorrect == Spec => []TypeOK
<1>1. FounderInv => TypeOK
  BY DEF FounderInv
<1> QED
  BY <1>1, FounderInvariant, PTL

\* What happens on a private channel is told to its founder and nobody else.
THEOREM FounderHearsAlone == Spec => []OnlyFounderHears
<1>1. FounderInv => OnlyFounderHears
  BY DEF FounderInv
<1> QED
  BY <1>1, FounderInvariant, PTL

-----------------------------------------------------------------------------
(***************************************************************************)
(* A listener's beginning before its end.                                  *)
(***************************************************************************)

\* Steps that begin no event with a subject: each actor has the task it had,
\* as far as type, channel and subject go, or one without a subject.
LEMMA SubjectsStay ==
    ASSUME FounderInv, SubjectsInv,
           \A b \in Actors :
              \/ task'[b].subject = NoListener
              \/ /\ task'[b].type = task[b].type
                 /\ task'[b].channel = task[b].channel
                 /\ task'[b].subject = task[b].subject
                 /\ owed'[b] \subseteq owed[b]
                 /\ Telling(b)' => Telling(b) /\ task'[b].rest \subseteq task[b].rest,
           \A l \in ContextListeners :
              /\ knows'[l] \subseteq knows[l]
              /\ contextListeners[l] # "new" => contextListeners'[l] # "new"
              /\ contextListeners[l] = "gone" => contextListeners'[l] = "gone"
              /\ knows'[l] # {} => contextListeners'[l] = contextListeners[l],
           \A c \in PrivateIds :
              founder[c] # NoInstance => founder'[c] = founder[c]
    PROVE  SubjectsInv'
<1>1. \A b \in Actors : task[b].subject \in ContextListeners \cup {NoListener}
  BY DEF FounderInv, TypeOK, Tasks
<1>2. \A b \in Actors : task[b].type = "onAddContextListener" =>
         task[b].channel \in PrivateIds
  BY DEF FounderInv, TasksFit, PrivateEvents
<1>3. ASSUME NEW b \in Actors, task'[b].subject # NoListener
      PROVE  /\ task'[b].type = "onAddContextListener"
                   => BeginsWith(b, task[b].subject)'
             /\ task'[b].type = "onUnsubscribe" => EndedBy(task[b].subject)'
  <2> DEFINE l == task[b].subject
  <2>1. /\ l \in ContextListeners
        /\ task'[b].subject = l /\ task'[b].type = task[b].type
        /\ task'[b].channel = task[b].channel /\ owed'[b] \subseteq owed[b]
    BY <1>1, <1>3
  <2>2. CASE task[b].type = "onAddContextListener"
    <3>1. BeginsWith(b, l)
      BY <1>3, <2>1, <2>2 DEF SubjectsInv, SubjectsFollow
    <3>2. knows[l] \subseteq Instances
      BY <2>1 DEF FounderInv, TypeOK
    <3>3. knows'[l] \subseteq {b, founder'[task[b].channel]}
      BY <3>1, <3>2, <2>1, <1>2, <2>2, NoInstanceIsNone DEF BeginsWith
    <3> QED
      BY <3>1, <3>3, <2>1, <2>2 DEF BeginsWith
  <2>3. CASE task[b].type = "onUnsubscribe"
    <3>1. EndedBy(l)
      BY <1>3, <2>1, <2>3 DEF SubjectsInv, SubjectsFollow
    <3> QED
      BY <3>1, <2>1, <2>3 DEF EndedBy
  <2> QED
    BY <2>1, <2>2, <2>3
<1>4. SubjectsFollow'
  BY <1>3 DEF SubjectsFollow
<1>5. BeginningBeforeEnd'
  <2> SUFFICES ASSUME NEW a \in Actors, NEW b \in Actors,
                      task'[a].type = "onAddContextListener",
                      task'[b].type = "onUnsubscribe",
                      task'[a].subject = task'[b].subject,
                      task'[a].subject # NoListener, Telling(b)',
                      NEW t \in task'[b].rest
               PROVE  t[2] \notin owed'[a]
    BY DEF BeginningBeforeEnd
  <2>1. Telling(b) /\ t \in task[b].rest /\ owed'[a] \subseteq owed[a]
    OBVIOUS
  <2> QED
    BY <2>1 DEF SubjectsInv, BeginningBeforeEnd
<1> QED
  BY <1>4, <1>5 DEF SubjectsInv

\* An app adds a listener: nobody sends an event about it yet.
LEMMA AddKeepsSubjects ==
    ASSUME FounderInv, SubjectsInv, NEW i \in Instances,
           NEW l \in ContextListeners, AddContextListener(i, l)
    PROVE  SubjectsInv'
<1> i \in Actors
  BY DEF Actors
<1>1. /\ contextListeners[l] = "new"
      /\ contextListeners' = [contextListeners EXCEPT ![l] = i]
      /\ knows' = [knows EXCEPT ![l] = {i}]
      /\ founder' = founder
      /\ task[i] = Idle
  BY DEF AddContextListener, registry, Serves
<1>2. \A b \in Actors : task[b].subject # l
  BY <1>1, NoListenerIsNone DEF FounderInv, TasksFit, SubjectsInv,
     SubjectsFollow, BeginsWith, EndedBy
<1>3. /\ contextListeners'[l] = i
      /\ knows'[l] = {i}
      /\ \A k \in ContextListeners \ {l} :
            contextListeners'[k] = contextListeners[k] /\ knows'[k] = knows[k]
  BY <1>1 DEF FounderInv, TypeOK
<1>4. /\ \A b \in Actors \ {i} : task'[b] = task[b] /\ owed'[b] = owed[b]
      /\ \/ task'[i] = Idle
         \/ /\ task'[i].type = "onAddContextListener"
            /\ task'[i].subject = l
  <2>1. CASE OnPrivate(i)
    <3> DEFINE targets ==
                  WithInstance(ListenersOn("onAddContextListener", current[i]))
    <3>1. Emit(i, "telling", "onAddContextListener", current[i], l, targets)
      BY <2>1 DEF AddContextListener, EmitPrivate
    <3> HIDE DEF targets
    <3>2. /\ \A b \in Actors \ {i} : task'[b] = task[b] /\ owed'[b] = owed[b]
          /\ \/ task'[i] = Idle
             \/ task'[i] = [at |-> "telling", type |-> "onAddContextListener",
                            channel |-> current[i], subject |-> l,
                            rest |-> targets]
      BY <3>1, EmitResult DEF FounderInv, TypeOK
    <3> QED
      BY <3>2
  <2>2. CASE ~OnPrivate(i)
    BY <2>2, <1>1 DEF AddContextListener
  <2> QED
    BY <2>1, <2>2
<1>5. Idle.subject = NoListener
  BY DEF Idle
<1>6. \A b \in Actors : task[b].subject \in ContextListeners \cup {NoListener}
  BY DEF FounderInv, TypeOK, Tasks
<1>7. i # "new" /\ i # "gone"
  BY MarksAreNoInstances
<1>8. SubjectsFollow'
  <2> SUFFICES ASSUME NEW b \in Actors, task'[b].subject # NoListener
               PROVE  /\ task'[b].type = "onAddContextListener"
                            => BeginsWith(b, task[b].subject)'
                      /\ task'[b].type = "onUnsubscribe"
                            => EndedBy(task[b].subject)'
    BY DEF SubjectsFollow
  <2>1. CASE b = i
    BY <2>1, <1>3, <1>4, <1>5, <1>7 DEF BeginsWith
  <2>2. CASE b # i
    <3>1. task'[b] = task[b] /\ owed'[b] = owed[b] /\ task[b].subject # l
      BY <1>2, <1>4, <2>2
    <3>2. task[b].subject \in ContextListeners \ {l}
      BY <1>6, <3>1
    <3> QED
      BY <1>1, <1>3, <3>1, <3>2 DEF SubjectsInv, SubjectsFollow, BeginsWith,
         EndedBy
  <2> QED
    BY <2>1, <2>2
<1>9. BeginningBeforeEnd'
  <2> SUFFICES ASSUME NEW a \in Actors, NEW b \in Actors,
                      task'[a].type = "onAddContextListener",
                      task'[b].type = "onUnsubscribe",
                      task'[a].subject = task'[b].subject,
                      task'[a].subject # NoListener, Telling(b)',
                      NEW t \in task'[b].rest
               PROVE  t[2] \notin owed'[a]
    BY DEF BeginningBeforeEnd
  <2>1. a # i /\ b # i
    BY <1>2, <1>4, <1>5
  <2> QED
    BY <2>1, <1>4 DEF SubjectsInv, BeginningBeforeEnd, Telling
<1> QED
  BY <1>8, <1>9 DEF SubjectsInv

\* An app that knows the listener ends it.  Whoever still sends the event of
\* its beginning is the adder, not this app; so this app is the founder, and
\* it has been told.
LEMMA UnsubscribeKeepsSubjects ==
    ASSUME FounderInv, SubjectsInv, NEW i \in Instances,
           NEW l \in ContextListeners, Unsubscribe(i, l)
    PROVE  SubjectsInv'
<1> i \in Actors
  BY DEF Actors
<1> DEFINE who == contextListeners[l]
<1>1. /\ i \in knows[l]
      /\ who \in Instances
      /\ contextListeners' = [contextListeners EXCEPT ![l] = "gone"]
      /\ knows' = [knows EXCEPT ![l] = {}]
      /\ founder' = founder
      /\ task[i] = Idle
  BY DEF Unsubscribe, ForgetContextListener, registry, Serves
<1>2. /\ contextListeners'[l] = "gone"
      /\ knows'[l] = {}
      /\ \A k \in ContextListeners \ {l} :
            contextListeners'[k] = contextListeners[k] /\ knows'[k] = knows[k]
  BY <1>1 DEF FounderInv, TypeOK
<1>3. /\ \A b \in Actors \ {i} : task'[b] = task[b] /\ owed'[b] = owed[b]
      /\ \/ task'[i] = Idle
         \/ task'[i].type = "onUnsubscribe" /\ task'[i].subject = l
  <2>1. CASE OnPrivate(who)
    <3> DEFINE targets ==
                  WithInstance(ListenersOn("onUnsubscribe", current[who]))
    <3>1. Emit(i, "telling", "onUnsubscribe", current[who], l, targets)
      BY <2>1 DEF Unsubscribe, EmitPrivate
    <3> HIDE DEF targets, who
    <3>2. /\ \A b \in Actors \ {i} : task'[b] = task[b] /\ owed'[b] = owed[b]
          /\ \/ task'[i] = Idle
             \/ task'[i] = [at |-> "telling", type |-> "onUnsubscribe",
                            channel |-> current[who], subject |-> l,
                            rest |-> targets]
      BY <3>1, EmitResult DEF FounderInv, TypeOK
    <3> QED
      BY <3>2
  <2>2. CASE ~OnPrivate(who)
    BY <2>2, <1>1 DEF Unsubscribe
  <2> QED
    BY <2>1, <2>2
<1>4. Idle.subject = NoListener
  BY DEF Idle
<1>5. \A b \in Actors : task[b].subject \in ContextListeners \cup {NoListener}
  BY DEF FounderInv, TypeOK, Tasks
<1>6. ASSUME NEW a \in Actors, task[a].type = "onAddContextListener",
             task[a].subject = l
      PROVE  owed[a] = {}
  <2>1. BeginsWith(a, l)
    BY <1>6, NoListenerIsNone DEF SubjectsInv, SubjectsFollow
  <2>2. a # i
    BY <1>1, <1>4, <1>6, NoListenerIsNone
  <2>3. owed[a] \subseteq {founder[task[a].channel]}
    BY <1>6 DEF FounderInv, OnlyFounderHears, PrivateEvents
  <2> QED
    BY <1>1, <2>1, <2>2, <2>3 DEF BeginsWith
<1>7. SubjectsFollow'
  <2> SUFFICES ASSUME NEW b \in Actors, task'[b].subject # NoListener
               PROVE  /\ task'[b].type = "onAddContextListener"
                            => BeginsWith(b, task[b].subject)'
                      /\ task'[b].type = "onUnsubscribe"
                            => EndedBy(task[b].subject)'
    BY DEF SubjectsFollow
  <2>1. CASE b = i
    BY <2>1, <1>2, <1>3, <1>4 DEF EndedBy
  <2>2. CASE b # i
    <3>1. task'[b] = task[b] /\ owed'[b] = owed[b]
      BY <1>3, <2>2
    <3>2. task[b].subject \in ContextListeners
      BY <1>5, <3>1
    <3> QED
      BY <1>1, <1>2, <3>1, <3>2 DEF SubjectsInv, SubjectsFollow, BeginsWith,
         EndedBy
  <2> QED
    BY <2>1, <2>2
<1>8. BeginningBeforeEnd'
  <2> SUFFICES ASSUME NEW a \in Actors, NEW b \in Actors,
                      task'[a].type = "onAddContextListener",
                      task'[b].type = "onUnsubscribe",
                      task'[a].subject = task'[b].subject,
                      task'[a].subject # NoListener, Telling(b)',
                      NEW t \in task'[b].rest
               PROVE  t[2] \notin owed'[a]
    BY DEF BeginningBeforeEnd
  <2>1. a # i
    BY <1>3, <1>4
  <2>2. task'[a] = task[a] /\ owed'[a] = owed[a]
    BY <2>1, <1>3
  <2>3. CASE b = i
    <3>1. task[a].subject = l
      BY <2>2, <2>3, <1>3, <1>4
    <3> QED
      BY <2>2, <3>1, <1>6
  <2>4. CASE b # i
    BY <2>2, <2>4, <1>3 DEF SubjectsInv, BeginningBeforeEnd, Telling
  <2> QED
    BY <2>3, <2>4
<1> QED
  BY <1>7, <1>8 DEF SubjectsInv

\* The founder gets the event of a beginning, and knows the listener now.
LEMMA TellKeepsSubjects ==
    ASSUME FounderInv, SubjectsInv, NEW a \in Actors,
           NEW t \in task[a].rest, Tell(a, t)
    PROVE  SubjectsInv'
<1> DEFINE l == task[a].subject
<1>1. \A b \in Actors : /\ task[b] \in Tasks
                        /\ task[b].subject \in ContextListeners \cup {NoListener}
  BY DEF FounderInv, TypeOK, Tasks
<1>2. /\ founder' = founder /\ contextListeners' = contextListeners
      /\ \A b \in Actors \ {a} : task'[b] = task[b] /\ owed'[b] = owed[b]
      /\ owed'[a] = owed[a] \ {t[2]}
      /\ task'[a] = [task[a] EXCEPT !.rest = @ \ {t}]
      /\ Telling(a)
  BY DEF Tell, Receive, Telling, FounderInv, TypeOK, registry
<1>3. \A b \in Actors :
         /\ task'[b].type = task[b].type /\ task'[b].channel = task[b].channel
         /\ task'[b].subject = task[b].subject
         /\ owed'[b] \subseteq owed[b]
         /\ Telling(b)' => Telling(b) /\ task'[b].rest \subseteq task[b].rest
  <2>1. /\ task'[a].type = task[a].type /\ task'[a].channel = task[a].channel
        /\ task'[a].subject = task[a].subject
        /\ task'[a].rest = task[a].rest \ {t}
    BY <1>1, <1>2 DEF Tasks
  <2> QED
    BY <1>2, <2>1 DEF Telling
<1>4. CASE l = NoListener \/ knows' = knows
  <2>1. knows' = knows
    BY <1>4 DEF Tell, Receive
  <2> HIDE DEF l
  <2> QED
    BY <1>2, <1>3, <2>1, SubjectsStay
<1>5. CASE l # NoListener /\ knows' # knows
  <2>1. PICK k \in ContextListeners : k = l
    BY <1>1, <1>5
  <2>2. knows[k] # {} /\ knows' = [knows EXCEPT ![k] = @ \cup {t[2]}]
    BY <1>5, <2>1 DEF Tell, Receive
  <2>3. /\ knows'[k] = knows[k] \cup {t[2]}
        /\ \A j \in ContextListeners \ {k} : knows'[j] = knows[j]
    BY <2>2 DEF FounderInv, TypeOK
  <2>4. task[a].type = "onAddContextListener" /\ BeginsWith(a, k)
    BY <2>1, <2>2, <1>5 DEF FounderInv, TasksFit, SubjectsInv, SubjectsFollow,
       EndedBy
  <2>5. t[2] = founder[task[a].channel]
    BY <1>2, <2>4 DEF FounderInv, FounderIsTold, PrivateEvents
  <2>6. contextListeners[k] = a
    BY <2>2, <2>4 DEF BeginsWith
  <2>7. task[a].subject = k
    BY <2>1
  <2> HIDE DEF l
  <2>8. ASSUME NEW b \in Actors, task[b].subject # NoListener
        PROVE  /\ task[b].type = "onAddContextListener"
                     => BeginsWith(b, task[b].subject)'
               /\ task[b].type = "onUnsubscribe"
                     => EndedBy(task[b].subject)'
    <3>1. CASE b = a
      <4>1. /\ knows'[k] \subseteq {a, founder[task[a].channel]}
            /\ owed'[a] \cap knows'[k] \subseteq {a}
        BY <1>2, <2>3, <2>4, <2>5 DEF BeginsWith
      <4>2. contextListeners[k] # "new"
        BY <2>4 DEF BeginsWith
      <4>3. /\ contextListeners'[k] # "new" /\ contextListeners'[k] = a
            /\ founder'[task'[a].channel] = founder[task[a].channel]
            /\ task'[a].subject = k
        BY <1>2, <1>3, <2>6, <2>7, <4>2
      <4>4. BeginsWith(a, task[a].subject)'
        BY <4>1, <4>3 DEF BeginsWith
      <4> QED
        BY <3>1, <2>4, <4>4
    <3>2. CASE b # a /\ task[b].subject = k
      <4>1. task[b].type \in {"onAddContextListener", "onUnsubscribe"}
        BY <1>3, <2>8 DEF FounderInv, TasksFit
      <4>2. task[b].type = "onAddContextListener" => BeginsWith(b, k)
        BY <2>8, <3>2 DEF SubjectsInv, SubjectsFollow
      <4>3. task[b].type = "onUnsubscribe" => EndedBy(k)
        BY <2>8, <3>2 DEF SubjectsInv, SubjectsFollow
      <4> QED
        BY <2>2, <2>6, <3>2, <4>1, <4>2, <4>3 DEF BeginsWith, EndedBy
    <3>3. CASE b # a /\ task[b].subject # k
      <4>1. task[b].subject \in ContextListeners \ {k}
        BY <1>1, <3>3, <2>8
      <4>2. PICK j \in ContextListeners : j = task[b].subject /\ j # k
        BY <4>1
      <4>3. /\ knows'[j] = knows[j] /\ contextListeners'[j] = contextListeners[j]
            /\ founder'[task'[b].channel] = founder[task[b].channel]
            /\ task'[b].subject = j /\ owed'[b] = owed[b]
        BY <1>2, <1>3, <2>3, <3>3, <4>2
      <4>4. task[b].type = "onAddContextListener" => BeginsWith(b, j)
        BY <2>8, <4>2 DEF SubjectsInv, SubjectsFollow
      <4>5. task[b].type = "onUnsubscribe" => EndedBy(j)
        BY <2>8, <4>2 DEF SubjectsInv, SubjectsFollow
      <4>6. task[b].type = "onAddContextListener"
               => BeginsWith(b, task[b].subject)'
        BY <4>3, <4>4 DEF BeginsWith
      <4>7. task[b].type = "onUnsubscribe" => EndedBy(task[b].subject)'
        BY <4>3, <4>5 DEF EndedBy
      <4> QED
        BY <4>6, <4>7
    <3> QED
      BY <3>1, <3>2, <3>3
  <2>9. SubjectsFollow'
    BY <1>3, <2>8 DEF SubjectsFollow
  <2>10. BeginningBeforeEnd'
    <3> SUFFICES ASSUME NEW b \in Actors, NEW d \in Actors,
                        task'[b].type = "onAddContextListener",
                        task'[d].type = "onUnsubscribe",
                        task'[b].subject = task'[d].subject,
                        task'[b].subject # NoListener, Telling(d)',
                        NEW u \in task'[d].rest
                 PROVE  u[2] \notin owed'[b]
      BY DEF BeginningBeforeEnd
    <3>1. /\ task[b].type = "onAddContextListener"
          /\ task[d].type = "onUnsubscribe"
          /\ task[b].subject = task[d].subject
          /\ task[b].subject # NoListener
          /\ Telling(d) /\ u \in task[d].rest
          /\ owed'[b] \subseteq owed[b]
      BY <1>3
    <3> QED
      BY <3>1 DEF SubjectsInv, BeginningBeforeEnd
  <2> QED
    BY <2>9, <2>10 DEF SubjectsInv
<1> QED
  BY <1>4, <1>5

\* As SubjectsStay, when listeners and registry stay too.
LEMMA SubjectsStayWithStores ==
    ASSUME FounderInv, SubjectsInv,
           knows' = knows, contextListeners' = contextListeners,
           founder' = founder,
           \A b \in Actors :
              \/ task'[b].subject = NoListener
              \/ /\ task'[b].type = task[b].type
                 /\ task'[b].channel = task[b].channel
                 /\ task'[b].subject = task[b].subject
                 /\ owed'[b] \subseteq owed[b]
                 /\ Telling(b)' => Telling(b) /\ task'[b].rest \subseteq task[b].rest
    PROVE  SubjectsInv'
  BY SubjectsStay

\* An event without a subject.
LEMMA EmissionKeepsSubjects ==
    ASSUME FounderInv, SubjectsInv,
           NEW a \in Actors, NEW next, NEW type, NEW c, NEW targets,
           Emit(a, next, type, c, NoListener, targets),
           knows' = knows, contextListeners' = contextListeners,
           founder' = founder
    PROVE  SubjectsInv'
<1>1. /\ \A b \in Actors \ {a} : task'[b] = task[b] /\ owed'[b] = owed[b]
      /\ \/ task'[a] = Idle
         \/ task'[a] = [at |-> next, type |-> type, channel |-> c,
                        subject |-> NoListener, rest |-> targets]
  BY EmitResult DEF FounderInv, TypeOK
<1>2. task'[a].subject = NoListener
  BY <1>1 DEF Idle
<1> QED
  BY <1>1, <1>2, SubjectsStayWithStores DEF Telling

\* A handler goes on: only Tell touches who knows a listener.
LEMMA ProceedKeepsSubjects ==
    ASSUME FounderInv, SubjectsInv, NEW a \in Actors, Proceed(a)
    PROVE  SubjectsInv'
<1>1. \A b \in Actors : task[b] \in Tasks
  BY DEF FounderInv, TypeOK
<1>2. Idle.subject = NoListener
  BY DEF Idle
<1>3. CASE AllTold(a)
  <2>1. /\ knows' = knows /\ contextListeners' = contextListeners
        /\ founder' = founder /\ owed' = owed
        /\ \A b \in Actors \ {a} : task'[b] = task[b]
        /\ \/ task'[a] = Idle
           \/ \E rest : task'[a] = [task[a] EXCEPT !.at = "bridging",
                                                   !.rest = rest]
    BY <1>3 DEF AllTold, registry, stores, FounderInv, TypeOK
  <2>2. \/ task'[a].subject = NoListener
        \/ /\ task'[a].type = task[a].type
           /\ task'[a].channel = task[a].channel
           /\ task'[a].subject = task[a].subject
           /\ ~Telling(a)'
    BY <1>1, <1>2, <2>1 DEF Tasks, Telling
  <2> QED
    BY <2>1, <2>2, SubjectsStayWithStores DEF Telling
<1>4. CASE \E t \in task[a].rest : Tell(a, t)
  BY <1>4, TellKeepsSubjects
<1>5. CASE a \in Instances /\ EmitUserChannelChanged(a)
  <2> DEFINE targets == IF ListenersOf("userChannelChanged", a) = {} THEN {}
                        ELSE {<<NoListener, a>>}
  <2>1. /\ Emit(a, "telling_last", "userChannelChanged", task[a].channel,
                NoListener, targets)
        /\ knows' = knows /\ contextListeners' = contextListeners
        /\ founder' = founder
    BY <1>5 DEF EmitUserChannelChanged, registry, stores
  <2> HIDE DEF targets
  <2> QED
    BY <2>1, EmissionKeepsSubjects
<1>6. ASSUME NEW g \in task[a].rest, SendOverBridge(a, g)
      PROVE  SubjectsInv'
  <2>1. /\ knows' = knows /\ contextListeners' = contextListeners
        /\ founder' = founder /\ owed' = owed
        /\ \A b \in Actors \ {a} : task'[b] = task[b]
        /\ \/ task'[a] = Idle
           \/ \E rest : task'[a] = [task[a] EXCEPT !.rest = rest]
    BY <1>6 DEF SendOverBridge, registry, stores, FounderInv, TypeOK
  <2>2. task[a].at = "bridging"
    BY <1>6 DEF SendOverBridge
  <2>3. \/ task'[a].subject = NoListener
        \/ /\ task'[a].type = task[a].type
           /\ task'[a].channel = task[a].channel
           /\ task'[a].subject = task[a].subject
           /\ ~Telling(a)'
    BY <1>1, <1>2, <2>1, <2>2 DEF Tasks, Telling
  <2> QED
    BY <2>1, <2>3, SubjectsStayWithStores DEF Telling
<1> QED
  BY <1>3, <1>4, <1>5, <1>6 DEF Proceed

LEMMA MovesKeepSubjects ==
    ASSUME FounderInv, SubjectsInv, NEW i \in Instances,
           \/ Move(i)
           \/ \E c \in PrivateIds : Disconnect(i, c)
           \/ \E l \in EventListeners : UnsubscribeEventListener(i, l)
    PROVE  SubjectsInv'
<1> i \in Actors
  BY DEF Actors
<1>1. CASE Move(i)
  <2>1. /\ knows' = knows /\ contextListeners' = contextListeners
        /\ founder' = founder /\ owed' = owed
        /\ \A b \in Actors \ {i} : task'[b] = task[b]
        /\ \E c : task'[i] = [Idle EXCEPT !.at = "moved", !.channel = c]
    BY <1>1 DEF Move, registry, stores, FounderInv, TypeOK
  <2>2. task'[i].subject = NoListener
    BY <2>1 DEF Idle
  <2> QED
    BY <2>1, <2>2, SubjectsStayWithStores DEF Telling
<1>2. ASSUME NEW c \in PrivateIds, Disconnect(i, c)
      PROVE  SubjectsInv'
  <2> DEFINE targets == WithInstance(ListenersOn("onDisconnect", c))
  <2>1. /\ Emit(i, "telling", "onDisconnect", c, NoListener, targets)
        /\ knows' = knows /\ contextListeners' = contextListeners
        /\ founder' = founder
    BY <1>2 DEF Disconnect, Remove, EmitPrivate, stores
  <2> HIDE DEF targets
  <2> QED
    BY <2>1, EmissionKeepsSubjects
<1>3. ASSUME NEW l \in EventListeners, UnsubscribeEventListener(i, l)
      PROVE  SubjectsInv'
  <2> DEFINE targets ==
                WithInstance(ListenersOn("onUnsubscribe", current[i]) \ {l})
  <2>1. /\ \/ Emit(i, "telling", "onUnsubscribe", current[i], NoListener, targets)
           \/ task' = task /\ owed' = owed
        /\ knows' = knows /\ contextListeners' = contextListeners
        /\ founder' = founder
    BY <1>3 DEF UnsubscribeEventListener, ForgetEventListener, registry
  <2> HIDE DEF targets
  <2> QED
    BY <2>1, EmissionKeepsSubjects, SubjectsStayWithStores DEF Telling
<1> QED
  BY <1>1, <1>2, <1>3

LEMMA RemoteEventsKeepSubjects ==
    ASSUME FounderInv, SubjectsInv,
           \/ \E c \in PrivateIds, type \in PrivateEvents :
                 RemotePrivateEvent(type, c)
           \/ \E who \in SUBSET open : RemoteFdc3Event(who)
    PROVE  SubjectsInv'
<1> Bridge \in Actors
  BY DEF Actors
<1>1. ASSUME NEW c \in PrivateIds, NEW type \in PrivateEvents,
             RemotePrivateEvent(type, c)
      PROVE  SubjectsInv'
  <2> DEFINE targets == WithInstance(ListenersOn(type, c))
  <2>1. /\ Emit(Bridge, "telling_last", type, c, NoListener, targets)
        /\ knows' = knows /\ contextListeners' = contextListeners
        /\ founder' = founder
    BY <1>1 DEF RemotePrivateEvent, registry, stores
  <2> HIDE DEF targets
  <2> QED
    BY <2>1, EmissionKeepsSubjects
<1>2. ASSUME NEW who \in SUBSET open, RemoteFdc3Event(who)
      PROVE  SubjectsInv'
  <2> DEFINE targets == {<<NoListener, i>> : i \in who}
  <2>1. /\ Emit(Bridge, "telling_last", "userChannelChanged", NoChannel,
                NoListener, targets)
        /\ knows' = knows /\ contextListeners' = contextListeners
        /\ founder' = founder
    BY <1>2 DEF RemoteFdc3Event, registry, stores
  <2> HIDE DEF targets
  <2> QED
    BY <2>1, EmissionKeepsSubjects
<1> QED
  BY <1>1, <1>2

\* A session ends: its listeners are gone, and it knows none any more.
LEMMA EndSessionKeepsSubjects ==
    ASSUME FounderInv, SubjectsInv, NEW i \in Instances, EndSession(i)
    PROVE  SubjectsInv'
<1>1. founder' = founder /\ task' = task
  BY DEF EndSession
<1>2. \A b \in Actors : owed'[b] = owed[b] \ {i}
  BY DEF EndSession
<1>3. /\ knows \in [ContextListeners -> SUBSET open]
      /\ knows' = [l \in ContextListeners |->
                     IF contextListeners[l] = i THEN {} ELSE knows[l] \ {i}]
      /\ contextListeners' =
            [l \in ContextListeners |->
                IF contextListeners[l] = i THEN "gone" ELSE contextListeners[l]]
  BY DEF EndSession, FounderInv, TypeOK
<1>4. \A l \in ContextListeners :
         /\ knows'[l] \subseteq knows[l]
         /\ contextListeners[l] # "new" => contextListeners'[l] # "new"
         /\ contextListeners[l] = "gone" => contextListeners'[l] = "gone"
         /\ knows'[l] # {} => contextListeners'[l] = contextListeners[l]
  BY <1>3
<1> QED
  BY <1>1, <1>2, <1>4, SubjectsStay DEF Telling

\* A listener goes of which nobody is told.
LEMMA RemoveKeepsSubjects ==
    ASSUME FounderInv, SubjectsInv, NEW i \in Instances,
           NEW l \in ContextListeners, RemoveContextListener(i, l)
    PROVE  SubjectsInv'
<1>1. /\ task' = task /\ owed' = owed /\ founder' = founder
      /\ contextListeners' = [contextListeners EXCEPT ![l] = "gone"]
      /\ knows' = [knows EXCEPT ![l] = {}]
  BY DEF RemoveContextListener, ForgetContextListener, registry
<1>2. \A k \in ContextListeners :
         /\ knows'[k] \subseteq knows[k]
         /\ contextListeners[k] # "new" => contextListeners'[k] # "new"
         /\ contextListeners[k] = "gone" => contextListeners'[k] = "gone"
         /\ knows'[k] # {} => contextListeners'[k] = contextListeners[k]
  BY <1>1 DEF FounderInv, TypeOK
<1> QED
  BY <1>1, <1>2, SubjectsStay DEF Telling

LEMMA SubjectsInit == Init => SubjectsInv
<1>1. Idle.subject = NoListener /\ Idle.type = NoEvent
  BY DEF Idle
<1>2. Init => \A a \in Actors : task[a] = Idle
  BY DEF Init
<1> QED
  BY <1>1, <1>2 DEF SubjectsInv, SubjectsFollow, BeginningBeforeEnd

LEMMA SubjectsStep == FounderInv /\ SubjectsInv /\ [Next]_vars => SubjectsInv'
<1> SUFFICES ASSUME FounderInv, SubjectsInv, [Next]_vars
             PROVE  SubjectsInv'
  OBVIOUS
<1>1. ASSUME NEW a \in Actors, Proceed(a)
      PROVE  SubjectsInv'
  BY <1>1, ProceedKeepsSubjects
<1>2. ASSUME NEW i \in Instances,
             \/ EndSession(i) \/ Move(i)
             \/ \E c \in PrivateIds : Disconnect(i, c)
             \/ \E l \in EventListeners : UnsubscribeEventListener(i, l)
             \/ \E l \in ContextListeners :
                   \/ AddContextListener(i, l)
                   \/ Unsubscribe(i, l) \/ RemoveContextListener(i, l)
      PROVE  SubjectsInv'
  BY <1>2, EndSessionKeepsSubjects, MovesKeepSubjects, AddKeepsSubjects,
     UnsubscribeKeepsSubjects, RemoveKeepsSubjects
<1>3. ASSUME NEW i \in Instances, NEW c \in PrivateIds, CreatePrivate(i, c)
      PROVE  SubjectsInv'
  <2>1. /\ knows' = knows /\ contextListeners' = contextListeners
        /\ task' = task /\ owed' = owed
    BY <1>3 DEF CreatePrivate, stores
  <2>2. \A p \in PrivateIds :
           founder[p] # NoInstance => founder'[p] = founder[p]
    BY <1>3 DEF CreatePrivate, FounderInv, TypeOK
  <2> QED
    BY <2>1, <2>2, SubjectsStay DEF Telling
<1>4. ASSUME NEW i \in Instances,
             \/ \E c \in PrivateIds : JoinOrLeavePrivate(i, c)
             \/ \E l \in EventListeners :
                   \/ RemoveEventListener(i, l)
                   \/ \E type, c : NewListener(i, l, type, c)
      PROVE  SubjectsInv'
  <2>1. /\ knows' = knows /\ contextListeners' = contextListeners
        /\ founder' = founder /\ task' = task /\ owed' = owed
    BY <1>4 DEF JoinOrLeavePrivate, RemoveEventListener, ForgetEventListener,
       NewListener, registry, stores
  <2> QED
    BY <2>1, SubjectsStayWithStores DEF Telling
<1>5. ASSUME NEW c \in PrivateIds,
             AdminStep(c) \/ \E g \in Agents : RemoteListenerUpdate(c, g)
      PROVE  SubjectsInv'
  <2>1. /\ knows' = knows /\ contextListeners' = contextListeners
        /\ founder' = founder /\ task' = task /\ owed' = owed
    BY <1>5 DEF AdminStep, Remove, RemoteListenerUpdate, stores
  <2> QED
    BY <2>1, SubjectsStayWithStores DEF Telling
<1>6. CASE UNCHANGED vars
  <2>1. /\ knows' = knows /\ contextListeners' = contextListeners
        /\ founder' = founder /\ task' = task /\ owed' = owed
    BY <1>6 DEF vars, registry, stores
  <2> QED
    BY <2>1, SubjectsStayWithStores DEF Telling
<1>7. CASE Next
  <2>1. \A i \in Instances, l \in EventListeners :
           /\ \A type \in Wanted \cap {"userChannelChanged", AnyEvent} :
                 AddEventListener(i, l, type) => SubjectsInv'
           /\ \A c \in PrivateIds,
                 type \in Wanted \cap (PrivateEvents \cup {AnyEvent}) :
                 PrivateChannelAddEventListener(i, l, c, type) => SubjectsInv'
    BY <1>4 DEF AddEventListener, PrivateChannelAddEventListener
  <2> QED
    BY <1>1, <1>2, <1>3, <1>4, <1>5, <1>7, <2>1, RemoteEventsKeepSubjects
       DEF Next
<1> QED
  BY <1>6, <1>7

\* The first that an owner hears of a context listener is its beginning,
\* whoever ends it and however the sends of the two events interleave.
THEOREM BeginsBeforeItEnds == Spec => []BeginningBeforeEnd
<1>1. Init => FounderInv /\ SubjectsInv
  BY FounderInit, SubjectsInit
<1>2. FounderInv /\ SubjectsInv /\ [Next]_vars => (FounderInv /\ SubjectsInv)'
  BY FounderStep, SubjectsStep
<1>3. SubjectsInv => BeginningBeforeEnd
  BY DEF SubjectsInv
<1> QED
  BY <1>1, <1>2, <1>3, PTL DEF Spec
=============================================================================
