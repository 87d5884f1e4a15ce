---------------------------- MODULE IntentRaising ---------------------------
(***************************************************************************)
(* raiseIntent and raiseIntentForContext (handlers/dacp/intent.py), from   *)
(* the forward to another desktop agent to the events that the apps get,   *)
(* with core/intent_resolver.py and the intent listeners of                *)
(* core/listener_store.py.                                                 *)
(*                                                                         *)
(* A handler awaits the bridge, the web launcher, each plugin, the         *)
(* external handler, the storage, and every send.  In between, other       *)
(* websockets add and remove listeners, and close.  What happens between   *)
(* an external handler and the agent is the subject of ExternalIntent.     *)
(***************************************************************************)
EXTENDS Naturals, Sequences, Subsequences

CONSTANTS
    Apps,           \* instances, each of an app of its own
    Bridge,         \* the router of the bridge: its sessions have no id
    Admin,          \* POST /admin/raise-intent
    Raises,         \* the requests
    Intents,
    SystemIntents,  \* SYSTEM_INTENTS
    PluginsFor,     \* PluginRegistry._intent_map: plugins in their order
    Declared,       \* <<intent, app>> of the app directory
    MaxListeners,   \* bound: intent listeners at a time
    NoApp, NoIntent

Plugins == UNION {Range(PluginsFor[n]) : n \in Intents}

ASSUME SystemIntentsAreIntents == SystemIntents \subseteq Intents
ASSUME AgentsAreNoApps ==
    /\ Bridge \notin Apps /\ Admin \notin Apps /\ NoApp \notin Apps
    /\ Bridge # NoApp /\ Admin # NoApp
ASSUME WordsAreNoApps ==
    Apps \cap {"none", "remote", "bridge_error", "system", "plugin", "external",
               "NoAppsFound"} = {}
ASSUME PluginsForIntents == \A n \in Intents : PluginsFor[n] \in Seq(Plugins)
ASSUME MaxListenersIsNat == MaxListeners \in Nat
ASSUME DirectoryListsIntents ==
    \A entry \in Declared : entry \in Intents \X Apps

Sources == Apps \cup {Bridge, Admin}

VARIABLES
    socket,     \* the websocket of each instance
    connections,\* WebSocketConnectionManager.connections
    listeners,  \* ListenerStore.intent_listeners, in the order of the dict
    raise,      \* where the handler of each request waits
    answer,     \* what was sent for it
    given,      \* history: who has been handed the intent, in order
    excused     \* history: raises whose resolved instance was seen not to
                \* listen any more

vars == <<socket, connections, listeners, raise, answer, given, excused>>

NoRaise == [at |-> "new", by |-> NoApp, intent |-> NoIntent, plugins |-> <<>>,
            found |-> {}, target |-> NoApp, named |-> NoApp, rest |-> <<>>]

Over == {"done", "dropped"}
Underway(r) == raise[r].at \notin Over \cup {"new"}
Busy(a) == \E r \in Raises : Underway(r) /\ raise[r].by = a

Init ==
    /\ socket = [i \in Apps |-> "new"]
    /\ connections = {}
    /\ listeners = <<>>
    /\ raise = [r \in Raises |-> NoRaise]
    /\ answer = [r \in Raises |-> "none"]
    /\ given = [r \in Raises |-> <<>>]
    /\ excused = {}

-----------------------------------------------------------------------------
(***************************************************************************)
(* Websockets and listeners.                                               *)
(***************************************************************************)
Registered(i) == socket[i] \in {"open", "broken"}

\* The next request on the websocket of i can be served.
Serves(i) == socket[i] = "open" /\ ~Busy(i)

Connect(i) ==
    /\ socket[i] = "new"
    /\ socket' = [socket EXCEPT ![i] = "open"]
    /\ connections' = connections \cup {i}
    /\ UNCHANGED <<listeners, raise, answer, given, excused>>

Break(i) ==
    /\ socket[i] = "open"
    /\ socket' = [socket EXCEPT ![i] = "broken"]
    /\ UNCHANGED <<connections, listeners, raise, answer, given, excused>>

ListensFor(i, n, store) ==
    \E k \in DOMAIN store : store[k].instance = i /\ store[k].intent = n

\* Raises that have named an instance that is not in store for the intent.
Excuse(store) ==
    excused' = excused \cup
                 {r \in Raises :
                     /\ Underway(r)
                     /\ raise[r].named # NoApp
                     /\ ~ListensFor(raise[r].named, raise[r].intent, store)}

\* The store without the listeners at some positions.
Without(gone) == Picked(listeners, DOMAIN listeners \ gone)

ListenersOf(i) == {k \in DOMAIN listeners : listeners[k].instance = i}

\* Mutant: the listeners go with the connection, which a failed send to the
\* instance has removed before.
EndSessionOfConnected(i) ==
    /\ socket[i] = "broken"
    /\ ~Busy(i)
    /\ socket' = [socket EXCEPT ![i] = "ended"]
    /\ connections' = connections \ {i}
    /\ listeners' = IF i \in connections
                    THEN Without(ListenersOf(i)) ELSE listeners
    /\ Excuse(listeners')
    /\ UNCHANGED <<raise, answer, given>>

\* _cleanup_instance: registry, listeners and connection in one go.
EndSession(i) ==
    /\ socket[i] = "broken"
    /\ ~Busy(i)
    /\ socket' = [socket EXCEPT ![i] = "ended"]
    /\ connections' = connections \ {i}
    /\ listeners' = Without(ListenersOf(i))
    /\ Excuse(listeners')
    /\ UNCHANGED <<raise, answer, given>>

AddIntentListener(i, n) ==
    /\ Serves(i)
    /\ Len(listeners) < MaxListeners
    /\ listeners' = Append(listeners, [instance |-> i, intent |-> n])
    /\ UNCHANGED <<socket, connections, raise, answer, given, excused>>

\* By the app that was told the listener's UUID.
IntentListenerUnsubscribe(i, k) ==
    /\ Serves(i)
    /\ listeners[k].instance = i
    /\ listeners' = Without({k})
    /\ Excuse(listeners')
    /\ UNCHANGED <<socket, connections, raise, answer, given>>

-----------------------------------------------------------------------------
(***************************************************************************)
(* IntentResolver.                                                         *)
(***************************************************************************)

\* find_intent_listeners, deliver_intent_event: instances, in order, an
\* instance with two listeners twice.
ListenersFor(n) ==
    LET own == Picked(listeners,
                      {k \in DOMAIN listeners : listeners[k].intent = n})
    IN  [k \in DOMAIN own |-> own[k].instance]

\* resolve_intent.  The target is not looked at.
Resolved(n) ==
    IF ListenersFor(n) = <<>> THEN NoApp
    ELSE IF Registered(Head(ListenersFor(n))) THEN Head(ListenersFor(n))
    ELSE NoApp

\* Mutant: deliver_intent_event, as for the admin.
AllTargets(n, i) == ListenersFor(n)

\* deliver_intent_event_with_resolution.
Targets(n, i) ==
    IF Registered(i) /\ ListensFor(i, n, listeners) THEN <<i>>
    ELSE ListenersFor(n)

-----------------------------------------------------------------------------
(***************************************************************************)
(* The requests.                                                           *)
(***************************************************************************)
Goto(r, where) == raise' = [raise EXCEPT ![r] = where]

\* The last thing the handler of r does is to answer.  A send to a websocket
\* that is gone may raise, and that ends the session.
FinalAnswer(r, how) ==
    \/ /\ answer' = [answer EXCEPT ![r] = how]
       /\ Goto(r, [raise[r] EXCEPT !.at = "done"])
    \/ /\ raise[r].by \in Apps
       /\ socket[raise[r].by] # "open"
       /\ Goto(r, [raise[r] EXCEPT !.at = "dropped"])
       /\ UNCHANGED answer

\* What comes after the bridge: a system intent, or the first plugin.
Local(w) ==
    [w EXCEPT !.at = IF w.intent \in SystemIntents THEN "system" ELSE "plugins",
              !.plugins = PluginsFor[w.intent]]

\* raiseIntent by an app.  A target at another agent is forwarded.
RaiseIntent(r, a, n, remote) ==
    /\ raise[r].at = "new"
    /\ Serves(a)
    /\ LET w == [NoRaise EXCEPT !.by = a, !.intent = n]
       IN  Goto(r, IF remote THEN [w EXCEPT !.at = "remote"] ELSE Local(w))
    /\ UNCHANGED <<socket, connections, listeners, answer, given, excused>>

\* raiseIntentRequest from the bridge: the same handler, without a session,
\* so that nothing is sent back to the bridge; the receive loop of the
\* bridge client waits for the answer.
BridgeRaises(r, n) ==
    /\ raise[r].at = "new"
    /\ ~Busy(Bridge)
    /\ Goto(r, Local([NoRaise EXCEPT !.by = Bridge, !.intent = n]))
    /\ UNCHANGED <<socket, connections, listeners, answer, given, excused>>

Hand(r, who) == given' = [given EXCEPT ![r] = Append(@, who)]

\* send_agent_request returns.  What raises in there, the send of the answer
\* included, is taken for a reason to resolve the intent locally.
\* Not connected, unknown agent, timeout or a lost bridge are answered.
RemoteReturns(r) ==
    /\ raise[r].at = "remote"
    /\ \/ Hand(r, "remote") \/ UNCHANGED given
    /\ \/ \E how \in {"remote", "bridge_error"} :
             /\ how = "remote" => given' # given
             /\ answer' = [answer EXCEPT ![r] = how]
             /\ Goto(r, [raise[r] EXCEPT !.at = "done"])
       \/ /\ Goto(r, Local(raise[r]))
          /\ UNCHANGED answer
    /\ UNCHANGED <<socket, connections, listeners, excused>>

SystemReturns(r) ==
    /\ raise[r].at = "system"
    /\ Hand(r, "system")
    /\ FinalAnswer(r, "system")
    /\ UNCHANGED <<socket, connections, listeners, excused>>

\* Mutant: a plugin that failed is passed over.
PluginReturnsResult(r) ==
    /\ raise[r].at = "plugins"
    /\ raise[r].plugins # <<>>
    /\ \E how \in {"result", "error", "declined"} :
          IF how = "result"
          THEN Hand(r, "plugin") /\ FinalAnswer(r, "plugin")
          ELSE /\ Goto(r, [raise[r] EXCEPT !.plugins = Tail(@)])
               /\ IF how = "error" THEN Hand(r, "plugin")
                  ELSE UNCHANGED given
               /\ UNCHANGED answer
    /\ UNCHANGED <<socket, connections, listeners, excused>>

\* _try_plugin_handler: a plugin that has handled the intent, well or not,
\* ends the search; one that declines or raises does not.
PluginReturns(r) ==
    /\ raise[r].at = "plugins"
    /\ raise[r].plugins # <<>>
    /\ \E how \in {"result", "error", "declined"} :
          IF how \in {"result", "error"}
          THEN Hand(r, "plugin") /\ FinalAnswer(r, "plugin")
          ELSE /\ Goto(r, [raise[r] EXCEPT !.plugins = Tail(@)])
               /\ UNCHANGED <<given, answer>>
    /\ UNCHANGED <<socket, connections, listeners, excused>>

\* resolve_intent and, for want of a listener, the error.
Resolve(r, w) ==
    IF Resolved(w.intent) = NoApp
    THEN FinalAnswer(r, "NoAppsFound")
    ELSE /\ Goto(r, [w EXCEPT !.at = "answering",
                              !.named = Resolved(w.intent)])
         /\ UNCHANGED answer

\* _try_external_handler: no handler, or none that answers in 30 seconds.
\* One that is late has the intent all the same.
ExternalReturns(r) ==
    /\ raise[r].at = "plugins"
    /\ raise[r].plugins = <<>>
    /\ \/ Hand(r, "external") /\ FinalAnswer(r, "external")
       \/ /\ Hand(r, "external") \/ UNCHANGED given
          /\ Resolve(r, raise[r])
    /\ UNCHANGED <<socket, connections, listeners, excused>>

\* The answer names the instance; then, at once, the targets are settled.
AnswerNames(r) ==
    LET w == raise[r]
    IN  /\ w.at = "answering"
        /\ \/ /\ answer' = [answer EXCEPT ![r] = w.named]
              /\ Goto(r, [w EXCEPT !.at = "sending",
                                   !.rest = Targets(w.intent, w.named)])
           \/ /\ w.by \in Apps
              /\ socket[w.by] # "open"
              /\ Goto(r, [w EXCEPT !.at = "dropped"])
              /\ UNCHANGED answer
        /\ UNCHANGED <<socket, connections, listeners, given, excused>>

\* Mutant: the loop waits for an instance that has no connection.
SendEventConnected(r) ==
    LET i == Head(raise[r].rest)
    IN  /\ raise[r].at = "sending"
        /\ raise[r].rest # <<>>
        /\ i \in connections
        /\ Goto(r, [raise[r] EXCEPT !.rest = Tail(@)])
        /\ IF socket[i] = "open" THEN Hand(r, i) ELSE UNCHANGED given
        /\ UNCHANGED <<socket, connections, listeners, answer, excused>>

\* send_to_instance, for one target after the other.
SendEvent(r) ==
    LET i == Head(raise[r].rest)
    IN  /\ raise[r].at = "sending"
        /\ raise[r].rest # <<>>
        /\ Goto(r, [raise[r] EXCEPT !.rest = Tail(@)])
        /\ IF i \in connections /\ socket[i] = "open"
           THEN Hand(r, i) /\ UNCHANGED connections
           ELSE /\ \/ connections' = connections \ {i}
                   \/ i \in connections /\ UNCHANGED connections
                /\ UNCHANGED given
        /\ UNCHANGED <<socket, listeners, answer, excused>>

AllSent(r) ==
    /\ raise[r].at = "sending"
    /\ raise[r].rest = <<>>
    /\ Goto(r, [raise[r] EXCEPT !.at = "done"])
    /\ UNCHANGED <<socket, connections, listeners, answer, given, excused>>

\* The admin's raise is resolved and sent to every listener; the answer,
\* which names them all, comes last.
AdminRaise(r, n) ==
    /\ raise[r].at = "new"
    /\ LET w == [NoRaise EXCEPT !.by = Admin, !.intent = n]
       IN  IF Resolved(n) = NoApp
           THEN /\ Goto(r, [w EXCEPT !.at = "done"])
                /\ answer' = [answer EXCEPT ![r] = "NoAppsFound"]
           ELSE /\ Goto(r, [w EXCEPT !.at = "sending",
                                     !.rest = ListenersFor(n)])
                /\ UNCHANGED answer
    /\ UNCHANGED <<socket, connections, listeners, given, excused>>

-----------------------------------------------------------------------------
(***************************************************************************)
(* raiseIntentForContext.                                                  *)
(***************************************************************************)
RaiseForContext(r, a, target) ==
    /\ raise[r].at = "new"
    /\ \/ a \in Apps /\ Serves(a)
       \/ a = Bridge /\ ~Busy(Bridge)
    /\ Goto(r, [NoRaise EXCEPT !.at = "listing", !.by = a, !.target = target])
    /\ UNCHANGED <<socket, connections, listeners, answer, given, excused>>

\* _collect_app_intents_by_context: the directory has been listed; the
\* listeners are read at once, then metadata is awaited.  Contexts and result
\* types of the directory may rule any of it out.
Collect(r) ==
    /\ raise[r].at = "listing"
    /\ \E fits \in SUBSET (Declared \cup
                             {<<listeners[k].intent, listeners[k].instance>> :
                                 k \in DOMAIN listeners}) :
          Goto(r, [raise[r] EXCEPT !.at = "choosing", !.found = fits])
    /\ UNCHANGED <<socket, connections, listeners, answer, given, excused>>

Listened == {listeners[k].intent : k \in DOMAIN listeners}

\* The intents left: those of the target, if there is one.  If nothing was
\* collected, all that are listened for, or none when the directory says which
\* contexts some intent takes.
Candidates(w) ==
    IF w.found = {} /\ w.target = NoApp
    THEN {Listened, {}}
    ELSE {{p[1] : p \in {q \in w.found : w.target \in {NoApp, q[2]}}}}

\* One intent is raised; none or several are an error, and so is a target
\* with an instanceId that nobody has.
Choose(r) ==
    /\ raise[r].at = "choosing"
    /\ \E candidates \in Candidates(raise[r]) :
          \/ \E n \in Intents :
                /\ candidates = {n}
                /\ Resolve(r, [raise[r] EXCEPT !.intent = n])
          \/ /\ \/ \A n \in Intents : candidates # {n}
                \/ raise[r].target # NoApp /\ ~Registered(raise[r].target)
             /\ FinalAnswer(r, "NoAppsFound")
    /\ UNCHANGED <<socket, connections, listeners, given, excused>>

-----------------------------------------------------------------------------
Proceed(r) ==
    \/ RemoteReturns(r) \/ SystemReturns(r) \/ PluginReturns(r)
    \/ ExternalReturns(r) \/ Collect(r) \/ Choose(r)
    \/ AnswerNames(r) \/ SendEvent(r) \/ AllSent(r)

Next ==
    \/ \E i \in Apps :
          \/ Connect(i) \/ Break(i) \/ EndSession(i)
          \/ \E n \in Intents : AddIntentListener(i, n)
          \/ \E k \in DOMAIN listeners : IntentListenerUnsubscribe(i, k)
    \/ \E r \in Raises :
          \/ Proceed(r)
          \/ \E n \in Intents :
                \/ AdminRaise(r, n) \/ BridgeRaises(r, n)
                \/ \E a \in Apps, remote \in BOOLEAN :
                      RaiseIntent(r, a, n, remote)
          \/ \E a \in Apps \cup {Bridge}, target \in Apps \cup {NoApp} :
                RaiseForContext(r, a, target)

\* Every await of a handler ends: sends, the storage and the web launcher
\* return, the bridge and the external handler have their timeouts.  (A
\* plugin is the agent's own code.)
Spec == Init /\ [][Next]_vars /\ \A r \in Raises : WF_vars(Proceed(r))
-----------------------------------------------------------------------------
(***************************************************************************)
(* Properties.                                                             *)
(***************************************************************************)
Answers == {"remote", "bridge_error", "system", "plugin", "external",
            "NoAppsFound"} \cup Apps

\* Requests, listeners and histories hold the values they are meant to.
TypeOK ==
    /\ socket \in [Apps -> {"new", "open", "broken", "ended"}]
    /\ connections \subseteq Apps
    /\ listeners \in Seq([instance : Apps, intent : Intents])
    /\ Len(listeners) <= MaxListeners
    /\ raise \in [Raises ->
                    [at : {"new", "remote", "system", "plugins", "listing",
                           "choosing", "answering", "sending"} \cup Over,
                     by : Sources \cup {NoApp},
                     intent : Intents \cup {NoIntent},
                     plugins : Seq(Plugins),
                     found : SUBSET (Intents \X Apps),
                     target : Apps \cup {NoApp},
                     named : Apps \cup {NoApp},
                     rest : Seq(Apps)]]
    /\ answer \in [Raises -> {"none"} \cup Answers]
    /\ given \in [Raises ->
                    Seq({"remote", "system", "plugin", "external"} \cup Apps)]
    /\ excused \subseteq Raises

\* The instance that the answer names gets the event, and it alone, although
\* the answer is sent first; unless it no longer listened when the answer
\* was out, or its websocket is gone.
NamedAppIsTold ==
    \A r \in Raises : answer[r] \in Apps =>
        /\ raise[r].at = "done" =>
              \/ answer[r] \in Range(given[r])
              \/ r \in excused
              \/ socket[answer[r]] # "open"
        /\ \A i \in Apps \cap Range(given[r]) : i = answer[r] \/ r \in excused

\* Intents pass through system, plugins, external handler and apps in this
\* order, and nobody gets one that a system handler or a plugin before it has
\* taken, also when that failed.
FirstTakerKeepsIt ==
    \A r \in Raises : \A k \in DOMAIN given[r] :
        /\ given[r][k] \in {"system", "plugin"} => k = Len(given[r])
        /\ given[r][k] = "external" =>
              \A m \in DOMAIN given[r] : m > k => given[r][m] \in Apps
        /\ given[r][k] = "remote" => k = 1

\* resolve_intent looks at the first listener only: one that is left behind
\* by a closed websocket would hide all others.
ListenersAreRegistered ==
    \A k \in DOMAIN listeners : Registered(listeners[k].instance)

\* A raise ends, whoever leaves meanwhile.
RaisesEnd ==
    \A r \in Raises : raise[r].at # "new" ~> raise[r].at \in Over
=============================================================================
