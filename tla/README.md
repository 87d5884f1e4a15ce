# Formal verification of py-fdc3-desktop-agent

TLA+ models of the desktop agent in `src/fdc3/`, TLC runs that check them on
small instances, and TLAPS proofs of what matters most for every value of the
constants. `PROJECT.json` lists the components, runs, mutants, findings,
hazards and theorems, and says for every definition which source lines it
models.

## 1. The system

The agent is one process with one asyncio event loop. Apps connect by
websocket, are identified by the WCP handshake and then send DACP requests.
The state they share is in memory and unlocked, or under a lock that is never
held across an `await`: **a handler runs alone between two of its awaits, and
everybody else's handlers may run at each of them**. That is the granularity of
all the models. A websocket's loop takes its next request only when the handler
of the previous one is done.

| Component | State | Operations | Uses |
|---|---|---|---|
| Channel registry (`core/channel_manager.py`, `channel_context.py`, `channel_events.py`) | channels with member lists; instance → channel; owners, participants, invitations, remote listeners of private channels; last context per type | create, delete, join, leave, create/join/leave/disconnect private, invite, set context | emits events to subscribers |
| Channel handlers (`handlers/dacp/channel.py`, `api/graphql.py`, `bridging/router.py`, `server/lifespan_bridge.py`) | latch for the default user channels | one DACP request, mutation or bridge message each | registry |
| Context routing (`core/context_router.py`, `listener_store.py`, `handlers/dacp/event.py`) | context, intent and event listeners | broadcast, add and remove listeners, replay of the last context | registry, connections, bridge |
| External intents (`core/external_registry.py`, `core/__init__.py`, `handlers/dacp/intent.py`) | handlers by priority per intent; pending futures | register, unregister, forward, result, timeout | connections |
| Intent resolution (`core/intent_resolver.py`, `handlers/system_intent.py`, `plugins/`) | plugins; intent listeners | bridge, system, plugin, external, local resolution | the two above |
| App registry and open (`core/app_registry.py`, `handlers/dacp/app.py`) | instances, pending or connected; a connection event each | open, find, wait for a launched app | launcher, storage, WCP |
| Sessions (`handlers/wcp.py`, `server/websocket.py`, both connection managers) | WCP sessions, connections | handshake, goodbye, cleanup, heartbeat, agent events | every store |
| Launchers (`launcher/`) | running processes | launch, terminate, reap, stop | OS |
| Bridge client (`bridging/client.py`) | websocket, receive task, assigned name, pending requests | connect, reconnect, request, stop | router |
| Bridge router (`bridging/router.py`, `server/lifespan_bridge.py`) | name of the agent | requests and events of remote agents, channelsState | every handler |
| Client library (`client/client.py`) | pending responses, handshake event | connect, request, dispatch | the agent |
| Distributed discovery (`distributed/`) | registered service, watched keys | publish, watch | registry |
| Storage (`storage/`), written by the server, the admin API and the commands of `cli.py` | SQLite app directory and launch configurations | add, update, remove | SQLite |
| Access control, parsing, models, configuration, GraphQL queries | – | pure or wiring | – |

**What is hard.** Stores that mirror each other by hand (member list / current
channel / participants / connections); handlers that read before an `await` and
act after it (broadcast, add listener, raise intent, open); sends that fail in
another app's handler; timeouts that race answers; ids that are reused (channel
ids) and ids that are not (uuid4); cleanup spread over five stores; loops that
wait for each other; connections that are lost in the middle of a handshake, a
request or a stop; a database connection that all requests share. The hazards in `PROJECT.json` give each its line.

## 2. Modules

| Module | Models |
|---|---|
| `ChannelManager` | The methods of the registry as operators on its variables; no `Next` of its own, as the code has none |
| `ChannelHandlers` | Who calls them: DACP handlers, admin API, bridge, sessions; the specification `Spec` and the registry's properties |
| `ChannelMembership` | Abstract: who is on which channel, and who may change that |
| `ContextRouting` | Broadcasts and context listeners on top of `ChannelHandlers`, with a handler waiting per actor |
| `ExternalIntent` | External handlers of one intent: registration, forwarding, futures, timeouts |
| `Subsequences` | What a list comprehension with a condition leaves of a list |
| `AppSessions` | One app from `open` to disconnect: launch, app registry, WCP handshake, connections, cleanup |
| `AgentClient` | `FDC3Client`: connect, handshake, both kinds of request, receive loop and event handlers, lost connections, close |
| `BridgeConnection` | `BridgeClient`: run loop, handshake and name, receive task, requests, stop |
| `RequestResponse` | Abstract: a correlated request with a timeout; implemented by `ExternalIntent`, `AppSessions`, `AgentClient` and `BridgeConnection` |
| `IntentRaising` | `raiseIntent`, `raiseIntentForContext` and the admin's raise: the order of resolvers, intent listeners, the answer and the sends after it |
| `ChannelEvents` | Event listeners, the events of user and private channels, their way to apps and over the bridge |
| `AppDirectory` | The SQLite storage: statements, transactions, the shared connection of the server, the commands, failures and ends of processes |
| `MCChannels`, `MCRouting`, `MCExternalIntent`, `MCAppSessions`, `MCAgentClient`, `MCBridge`, `MCIntentRaising`, `MCEvents`, `MCDirectory` | Instances for TLC |
| `ChannelProofs` | Proofs about `ChannelHandlers!Spec` and `ContextRouting!RoutingSpec` |
| `EventProofs` | Proofs about `ChannelEvents!Spec` |
| `ExternalIntentProofs` | Proofs about `ExternalIntent!Spec` |
| `IntentRaisingProofs` | Proofs about `IntentRaising!Spec` |
| `AppSessionProofs` | Proofs about `AppSessions!Spec` |
| `ClientProofs` | Proofs about `AgentClient!Spec` |
| `BridgeProofs` | Proofs about `BridgeConnection!Spec` |
| `DirectoryProofs` | Proofs about `AppDirectory!Spec` |

`ContextRouting` is composed with `ChannelHandlers`: it extends it, and its steps
are broadcasts and listeners or a step of a channel handler.  The others stand
alone, with what they share abstracted: `ChannelEvents` keeps of the registry
which channels exist and who is where (that the member lists amount to that is
`MembersAccounted`, proved), `IntentRaising` takes what happens between the
agent and an external handler as one step with three outcomes (the subject of
`ExternalIntent`), `ExternalIntent` takes a local resolution as one outcome.

How state corresponds:

* `members` is a bag per channel because `channel.members` is a list from which
  `remove` takes one occurrence; the owner of a private channel is on it once
  for owning the channel and once more for being on it.
* `chType[c] = "absent"` stands for a channel id that `_channels` does not hold.
  Private ids and invitation tokens are uuid4, so `everPrivate` and `everToken`
  keep them from being issued twice; user and app channel ids can be reused.
* `view` is the instance → channel map that a subscriber to the channel events
  can keep. The admin's `emit_channel_event` sends subscribers any event the
  admin makes up, with no change behind it: what the subscriber then has of
  that instance is `MadeUp`, until the next time it joins.
* `view`, `admitted`, `received`, `audience`, `arrivals`, `replies` are history
  variables: they feed properties and no guard of a modelled operation, with
  one exception, `arrivals`, which keeps handler uuids from being reused.
* `loop[a]` and `call[i]` are the awaiting handler of an actor: where it waits
  and the local variables it uses afterwards. A handler whose awaits are over
  returns to idle; its loop serves nothing in between.
* `ContextRouting!Deliver` has one outcome for a message that cannot be sent.
  The code also takes the connection off its table then, which a lost websocket
  loses anyway; the listeners stay until the session is cleaned up.
* `ExternalIntent!outcome` is "overtaken" for a raise whose future had its result
  when `asyncio.wait_for` timed out, which it can since Python 3.12
  (`pyproject.toml` asks for 3.11 or later): it is resolved locally.
* `ExternalIntent!handed` are the loops that waited for a request when a send
  to their websocket failed: Starlette lets no further receive begin, but one
  that was under way may have been handed a request just before.
* `AppSessions!status` is the registry entry with its connected flag, `event`
  the connection event of the entry, and `Expire` may strike although the event
  was set just before, as `asyncio.wait_for` may since Python 3.12. The event an open waits for is the object
  that `register_pending_instance` made; an open whose entry has been removed
  waits for an event nobody will set, and times out. `socket[s].uuid` is
  `session.identity`, which is set when WCP4 is validated and so before the
  instance is registered. `replied` is a history variable. `launchStatus`
  presents a launch as a request, made when the instance is pending.
* `AgentClient!line`, `inbox` and `loop` are the websocket, what has arrived on
  it and the receive loop of each connection that was ever opened. A client
  connects again only when the loop of its connection has ended.
  `call[r].sent` says that the message is out while the caller still awaits the
  send, `asked` what the agent has not replied to, `attempt` tells the two
  sends of a join with `auto_create` apart.
* In `BridgeConnection`, `run` is the await at which `_run_loop` stands,
  `stopper` the one at which `stop` does; `name.who` is whose name
  `_assigned_name` is and `name.on` the connection it was read on.
* `IntentRaising!raise[r].at` is the await of a raise's handler; `given` is a
  history of who was handed the intent, `excused` of raises whose resolved
  listener was gone before its event was sent.
* `ChannelEvents!task[a]` is what the handler of an actor still has to send;
  `founder` and `owed` are histories; `rest` keeps one send per listener, so that
  an app with several event listeners gets a copy for each. `owner` follows the registry's; a channel
  that the admin creates has none.
* `AppDirectory!db[t][a]` is the version of an app whose rows a table holds:
  the tables `apps`, `icons`, `intents` and `origins` of an entry. Of a launch
  configuration it is the number of the write that it, or its absence, comes
  from. `txn[c]` is the database as an open transaction of a connection sees
  it. `writes` numbers the writes, `wrote[r]` is which of them is the request
  `r`'s and to which ids, `written` whose writes are in the server's open
  transaction, `answered` who was answered without an error, `rolledBack` whose
  write SQLite has rolled back: histories, of which `writes` only gives the
  numbers. The statements on one table are one step, since each is inside the
  transaction.
* `AppDirectory!RollBack` is what SQLite does by itself when a statement or a
  commit meets a full disk, an I/O error or a lack of memory: the whole
  transaction of the connection is gone, with what other requests wrote in it.
  `FailRequest` and `ReadFails` may do it, `FailRequest` may also leave the
  transaction open, as an ordinary error does. A `job` that is "stuck" is a
  process that does not end: its `initialize`, or the server's start, has failed
  where nothing closes the connection (section 5).
* The agent-client connection manager is not in `AppSessions`: nothing calls
  its `connect`, so its half of the cleanup finds nothing.
* A refused request changes nothing and is no step, except that
  `joinUserChannel` creates the default channels first: that part is then the
  step `GetUserChannels`.
* Not modelled within these components: reply messages and their wording,
  display metadata, logging, context payloads (a context is its identity).

## 3. Runs

| Run | Instance | Shows |
|---|---|---|
| `channels` | 2 instances, 1 user and 2 private channels, 2 tokens (symmetric), an admin who makes up events; no contexts, no remote agents | registry invariants, invitations, what a subscriber knows, `KeepsMembership` |
| `routing` | 2 instances, bridge, 1 user channel, 2 listeners, 2 broadcasts (symmetric) | nobody misses a broadcast (`NoMissedContext`, `AudienceServed`) |
| `routing_private` | 2 instances, bridge, 1 remote agent, 1 private channel, 1 listener, 1 broadcast, 1 context of the admin or of a channelsState | ended sessions keep no listener; broadcasts arrive (liveness) |
| `external` | 2 apps, 3 handlers of 2 priorities, 2 raises | correlated request with a timeout (`RaisesEnd`, liveness), no lost answers, priority order |
| `sessions` | 2 opens, 2 launched UUIDs, 1 of an external handler, 2 websockets, 1 instanceId | nothing is left of timed-out opens and ended sessions; a launch is a request with a timeout (`LaunchesEnd`, liveness) |
| `client` | 2 requests of different kinds, 2 connections, 1 event | the table of futures is exactly that of the waiting callers; a loss fails them; a retry takes no other answer; requests end (liveness) |
| `bridge` | 1 request, 2 connections, 1 update or request of the bridge | no entry outlives its connection; one websocket at a time; requests end, a lost bridge is looked for, stop ends everything (liveness) |
| `intents` | 2 apps, 2 listeners, 1 intent with 2 plugins, 1 system intent, 1 raise | the app that the answer names is told, and it alone; who takes an intent keeps it; no listener is left behind; raises end (liveness) |
| `events` | 2 apps, 1 private channel that 1 of them creates, 2 event listeners for any type and 1 context listener, 1 remote agent | the beginning is what is heard first; only the founder hears; events arrive (liveness) |
| `directory` | 2 commands and 2 requests (symmetric), server, an app id and its qualified form | apps are whole; what was answered is kept |
| `app_single` | 2 opens, 2 websockets | violation `SingleInstance` |
| `bridge_name` | 1 request, 2 connections, 1 message | violation `NameIsAssigned` |

**Bounds.** Two instances are what a race or a confusion of identities needs; a
third would repeat a part. Two private channels let a token or a membership of
one be mistaken for the other's; two tokens let one be spent on a channel for
which another is open. Two broadcasts are needed for one to overwrite the
other's context between an app's subscription and its replay. Two raises with
two apps are needed for the apps to wait for each other; three handlers are
needed for an insertion in the middle of a priority class. Two websockets let
one app connect twice, or two apps at once, while two opens wait. Two
connections let a client come back after a loss with the loop and the requests
of the first still there; the two requests of `client` are a join, which may be
retried, and one that sends first. One raise at a time is enough in `intents`:
raises share nothing but listeners and connections, which apps change at every
await anyway. Two requests of the admin API are needed for one to commit, or
give up, what the other has written, and two commands for one to run into the
other's lock. Two event listeners of one app make it get two copies of an event,
between which it can act.

Some inputs are bounded by sets. In `channels`, `MadeUpEvents` has all the
types of events that the admin can make up about who is where; it is empty in
the runs about broadcasts, which read no event. In `events`, `Creators` is
one app, so that the other is the guest, `Wanted` the one kind of listener
that hears every type, `Remote` the one event of a remote agent that could be
taken for the end of a context listener. `UserIds` is empty there: an app that
leaves its channel is told `userChannelChanged`, which is the same with a
channel to go to. `Versions` has one content in `directory`: that is enough for
rows without their entry, and the other mixture, of rows of two contents, is
excluded by the proof. The symmetries are of ids that only identify and of
runs without liveness properties.

The numeric bounds are `MaxBroadcasts`, `MaxConnections`, `MaxEvents`,
`MaxMessages` and `MaxListeners` (listeners at a time); everything else ends
because identifiers are used up. The proofs have no bounds.

The modules whose runs do not list a type invariant state one all the same
(`TypeOK`, `RoutingTypeOK`), for readers and proofs.

`CHECK_DEADLOCK FALSE` everywhere: when all uuids of the instance are used and
all sessions are over, nothing is left to do.

**Fairness.** `ContextRouting`: `WF(Handling(a))`, a handler that awaits sends
is resumed, since each send returns or raises. `ExternalIntent`:
`WF(Proceed(i))`, a forward returns, a future that is done resumes its waiter,
and `asyncio.wait_for` ends by the clock. `AppSessions`: `WF(Settle(o))`, for
the same reasons; the start of the process before it is not assumed to end.
`AgentClient`: `WF(Caller(r))`, `WF(ReceiveLoop(c))`, `WF(FinishClose)`: sends and
closes return or raise, `wait_for` ends by the clock, a message that has
arrived is read unless the loop waits for a handler. `BridgeConnection`: the
same for its four tasks, and the pauses of the run loop end. `IntentRaising`:
`WF(Proceed(r))`, the bridge, the web launcher, plugins and external handlers
return or raise (those that call out do so under a timeout of their own; of a
plugin it is assumed). `ChannelEvents`: `WF(Proceed(a))`, sends return.
`AppDirectory` assumes nothing, since a command or a server may be stuck.
Since Python 3.12 a `wait_for` can time out with the result there; fairness
leaves open which of the two ends a wait.
Nothing is assumed about apps: they
need not answer, close, or send anything.

**Mutants.** Every property of a passing run has a mutant of a modelled
definition, next to the original in the module and marked `Mutant:`, that
breaks it.

## 4. Proofs

Every theorem of this section is about all values of the constants: any numbers
of instances, channels, listeners, requests, connections. What it assumes of them
are the `ASSUME`s of the module, which say that sentinels (`NoInstance`,
`NoChannel`, ...) are not elements of the sets they extend, that kinds of ids
are disjoint (agents and the words for kinds of answers are no instances), that
the bounds are numbers and that a context has one type; TLC evaluates them in
every run. Each invariant was checked by TLC on the runs' instances
before it was proved.

`ChannelProofs` proves about `ChannelHandlers`:

* `TypeCorrect`: `Spec => []TypeOK`.
* `RegistryInvariant`: `Spec => []RegistryInv`, where `RegistryInv` is `TypeOK`
  and `Accounts`, and `Accounts == MembersAccounted /\ CurrentChannelExists /\
  RightsEndWithChannel /\ SubscriberKnows`. The parts of `Accounts` are inductive only together.
  Destroying a private channel releases those on its *member list*,
  so that nobody stays on a channel that is gone needs the list to account for
  `current` (`SameRelease`), and that list is right for a new channel because
  an owner entry never outlives its channel (`RightsEndWithChannel`). A
  subscriber's view follows destruction, which announces nothing per member,
  only if those it drops are those the registry dropped, or those about whom
  it was told something made up. Contexts are no part of it (section 5).
* `MembersStayAccounted`, `NobodyOnDeletedChannel`, `RightsEnd`,
  `EventsSuffice`: its parts.
* `ImplementsMembership`: `Spec => KeepsMembership`, by an action-by-action
  refinement under `RegistryInv`.
* `InvitationInvariant`: `TokensTracked` (a token in a table was handed out,
  is in one table only and has admitted nobody), `TypeFromId` (what kind of
  channel an id can be) and `PrivateMeansInvited` are inductive together;
  `OnlyInvitedOnPrivate` and the action property `TokensAdmitOnce` follow.

In its second half `ChannelProofs` proves about `ContextRouting`, whose channel
steps are those of `ChannelHandlers`:

* `RoutingInvariant`: `RoutingSpec => []RoutingInv`. Besides the types and
  `Accounts`, `HandlersFit` says what a waiting handler holds (a broadcast that
  waits for the bridge was made by that handler's own app, whoever announces a
  listener is connected and on its way to a replay), `ContextsFit` that what a channel stores
  was broadcast or came from outside, has its type, and that what came last is stored,
  `AudienceIsConnected` that a history is about live sessions.
* `AudienceIsServed`: the audience of an app's broadcast is everybody else whose
  *current* channel it is when it is routed; that of a channelsState, of those on
  the channel, whoever listens for a context that differs from the stored one.
  That it is among the targets, which are taken from the *member list*, is
  `MembersAccounted`; that a channelsState sends its news also to listeners for
  any type needs contexts to have one type each.
* `NoContextIsMissed`: inductive as `NothingMissed`, which says for every
  stored context, and not only for what a listener would be sent, that each
  listener of its channel was sent it, is being sent it, or announces itself.
* `EndedSessionsDoNotListen`, and `AccountsHoldWithBroadcasts`:
  `RoutingSpec => []Accounts`, with the broadcasts and channelsStates of
  `ContextRouting` among the steps.

`EventProofs` proves about `ChannelEvents`:

* `FounderHearsAlone`: `OnlyFounderHears`, with `FounderInv`. The owner entry of
  a private channel is its founder's while it is there; listeners outlive it.
* `BeginsBeforeItEnds`: `BeginningBeforeEnd`, with `SubjectsInv` on top: an
  app can end a context listener only if it was told its id, by the answer to
  its own request, which is the last that handler does, or by a first copy of the
  event of its beginning (`knows`, `SubjectsFollow`). What the property says is
  therefore about the first copy: of several event listeners of one app on
  the channel, the later ones can be told of the beginning after the end.

`ExternalIntentProofs` proves about `ExternalIntent`:

* `RaiseInvariant`: `RaiseInv` relates the handler of a raise, its future and its
  entry in the table of pending intents. An entry is there as long as its caller
  waits, and one raise waits per loop (`OneCaller`, `FuturesFit`).
* `AnswersAreFound`, `ResultsCount`: `AwaitedAnswersAreFound` and
  `ResultInTimeCounts`: a result that gets through is the raiser's answer or
  overtaken by the clock; one that comes to a raise that was given up gets
  through to nobody, since its future was cancelled.
* `RaiseIsRequest`: the safety half of `RaisesEnd`.
* `HandlersStayInOrder`: `HandlersInOrder`, with `OrderInv`: a handler registers
  once, whoever is registered has done so, and the list is in the order of
  `Earlier`. Its steps are about what `Picked` leaves of a list
  (`PickedInOrder`) and what a new handler between two parts of it makes of it
  (`BetweenInOrder`). That there is an ascending enumeration of the kept
  positions at all (`AscendingLists`) is shown by a least number without one,
  since the induction theorems cannot be used.
* `TypeCorrect`: `TypeOK`.

`IntentRaisingProofs` proves about `IntentRaising`:

* `IntentInvariant`: `IntentInv`. `TakenFit` says for each await of the handler
  to whom the intent can have been handed by then, and in which order.
  `NamedFit` follows the instance that the answer is to name through its three
  awaits: while the answer is sent it listens, or the raise is excused; once the targets
  are settled it is the only one; once it is out of the rest it has the event
  or has no open websocket. The last needs `OpenIsConnected`: the connection of an
  open websocket is there, so that only a lost websocket can be passed over.
* `FirstTakerAlone`, `NamedAppGetsIt`, `ListenersStayRegistered`:
  `FirstTakerKeepsIt`, `NamedAppIsTold`, `ListenersAreRegistered`. What the removal
  of listeners and the choice of targets leave of a list is `Picked`
  of module `Subsequences`, with the lemmas that `ExternalIntentProofs` has about it.
* `TypeCorrect`: `TypeOK`.

`BridgeProofs` proves about `BridgeConnection`:

* `BridgeInvariant`: `BridgeInv` says for each await of the run loop what is
  open and which task is under way (`RunFits`), that a send of a request is on a
  connection that was made (`SendsHaveConnection`) and that an answer is to a
  request that was made (`AnswersFit`).
* `NoWebsocketIsLeftOpen`, `TableFollows`: `OnlyOneOpen` and
  `TableFollowsConnection`.
* `BridgeRequestIsRequest`: the safety half of `RequestsEnd`.

`ClientProofs` proves about `AgentClient`:

* `ClientInvariant`: `ClientInv` relates callers (`CallsFit`), receive loops
  (`LoopsFit`), who waits on which connection (`WaitersFit`) and the replies
  under way (`RepliesFit`: one at most per request, to its present attempt).
* `TableHoldsWhoWaits`, `LossReachesWaiters`, `AnswersAreToTheAttempt`:
  `PendingIsUnderway`, `LossFailsWaiters`, `AnswersMatchAttempt`.
* `ClientRequestIsRequest`: the safety half of `RequestsEnd`.

`AppSessionProofs` proves about `AppSessions`, for any sets of opens, UUIDs and
websockets (launched and own UUIDs are disjoint, sentinels are not elements):

* `SessionInvariant`: `Spec => []SessionInv`, the type invariant, the three
  properties below, and what they need: `OneOpenPerUuid` (a launch mints a new
  UUID), `SignalMeansConnected` (an event that is set, in time or not, was set
  by a connection of the instance) and `SocketsAreLaunched` (a websocket has a
  launched UUID only after its launch). An instance that connects between the
  end of the 15 seconds and the moment the open notices is unregistered while
  its websocket lives on; the invariant shows that no later cleanup, of either,
  leaves an entry behind.
* `PendingInstancesAwaited`, `NoGhostInstances`, `ConnectionsAreLive`: its
  parts `PendingIsAwaited`, `ConnectedHasSession`, `ConnectionIsSession`.
* `LaunchIsRequest`: the safety half of `LaunchesEnd`; every step maps to a
  step of `RequestResponse` or to a stutter.

`DirectoryProofs` proves about `AppDirectory`, for any apps, commands and
requests (the server is no command, `NoTxn` no database):

* `Invariant`: `Spec => []Inv`, of three parts. `EntryInv` is about the entry
  tables. That rows belong together is a statement about the committed database;
  what keeps it so is what an open transaction may contain: one connection at
  most has one (`OneTxn`), it differs from the database in those entry tables
  its job is through with, and there in nothing but the rows of the job's app,
  all of one content (`Progress`; nothing is said of a stuck process, which will
  not commit), a job past its first statement has its transaction open
  (`StartedIsOpen`), so that nobody commits in between, and the server has no
  such job while it serves (`ServingIsIdle`), so that the commit of a request
  cannot take half an entry along.
* `WritesInOrder` says that launch configurations reach the database in the
  order of their writes: what a connection sees is never older than what is
  stored. `RequestsTold` follows a request's write: from the statement on it is
  in the database, or in the server's open transaction, or rolled back by SQLite;
  an answered one has left the transaction.
* `AppsAreWhole`, `AnswersAreKept`: `WholeApps` and `AnsweredIsKept`, which follow.
* `TypeCorrect`: `TypeOK`.

Only model-checked are the liveness properties (`BroadcastsArrive`, `RaisesEnd`,
`RequestsEnd`, `KeepsTrying`, `StopsForGood`, `EventsArrive`, the
second half of `LaunchesEnd`), which are out of the prover's reach together
with ENABLED. Every invariant and every action property of a passing run is
proved.

## 5. Findings and known divergences

Two runs show what the code does against its documents:

1. `app_single`: two opens of one app at once launch it twice, because open
   looks for an instance before its awaits and registers its own after them.
2. `bridge_name`: a connected bridge client can hold the name of another agent,
   or of an earlier connection, because every update's `addAgent` is taken for
   its own.

More were met while modelling. The models do what the code does, and no
property claims what the document says:

* `core/channel_manager.py:121`: the owner of a private channel is on its member
  list without being on the channel, and stays there after its websocket has
  closed (`documentation/private-channels.md:7`, "active members").
* `handlers/dacp/channel.py:437`: an invitation restricted to an `instanceId`
  admits nobody, since it is compared with an instance UUID
  (`documentation/private-channels.md:11`).
* `api/graphql.py:310`: `broadcastToChannel` stores the context and sends it to
  no listener (`api/graphql.py:308`).
* `handlers/connection_manager.py:26`: a registration handled after a failed send
  has removed the connection outlives its websocket
  (`documentation/external-intent-handlers.md:190`).
* `handlers/wcp.py:320`: two websockets that are validated with one launched UUID
  before either has registered the instance both reach the DACP phase
  (`tests/test_handlers.py:726`).
* `client/client.py:470`: a refused handshake lets those through who wait for a
  successful one, and so does a second connection before its handshake
  (`documentation/external-intent-handlers.md:61`).
* `core/intent_resolver.py:27`: an intent that only the app directory knows of is
  answered with NoAppsFound (`documentation/external-intent-handlers.md:201`).
* `core/channel_manager.py:41`: nothing sets the registry's `distributed_adapter`,
  so no channel event is ever published (`documentation/configuration.md:73`).

The following is promised by no document, and no property claims otherwise:

* *Contexts outlive their channel.* A broadcast that is under way while its
  channel is deleted stores its context afterwards
  (`core/context_router.py:44`), and so does a channelsState
  (`server/lifespan_bridge.py:190`): a channel that is created with that id later
  has it. `RightsEndWithChannel` is about owners, participants and invitations.
* *Made-up events.* `emit_channel_event` (`api/graphql.py:322`) tells subscribers
  of joins, leaves and deletions that have not happened. `SubscriberKnows` excepts
  the instances concerned.
* *Begin, end, begin.* The owner of a private channel with two event listeners is
  sent a copy of an event for each, one after the other
  (`handlers/dacp/event.py:258`); it can end a context listener after the first,
  and the end overtakes the second. `BeginningBeforeEnd` is about first copies.
* *Overtaken results.* On Python 3.12 and later a wait can time out with the
  result there (`handlers/dacp/intent.py:1200`, `core/app_registry.py:81`): the
  raise is resolved a second time, locally, and the open reports a failure.
* *A request that sends first* (`_send_and_wait`, `client/client.py:317`) and
  registers when the receive loop has already failed everybody waits out its
  timeout. `LossFailsWaiters` is about those that register first.
* *Lost writes.* A request of the admin API that fails after its write leaves the
  transaction of the shared connection open: what it wrote is committed by the next
  request, and until then every command runs into SQLite's lock. If SQLite
  rolls the transaction back by itself, what others have written in it is gone,
  and their commits succeed with nothing to commit: they are answered as done
  (`storage/sqlite_storage.py:199`). `AnsweredIsKept` excepts exactly these.
* *Processes that hang.* The commands await `initialize` before the `try` that
  closes the storage (`cli.py:77`, `cli.py:155`), and the server its start outside
  of one (`server/lifespan.py:139`): when that fails, for instance because the
  database is locked for too long, the connection's thread, no daemon in
  aiosqlite 0.21, keeps the process alive, and with it possibly the lock. So no
  liveness of commands is claimed.

## 6. Not modelled

* *Distributed discovery*: no event is ever published (section 5), so what is
  left are two loops over clients of external services.
* *Access control, DACP dispatch and parsing, message models, configuration*: pure
  or declarative. Handlers are entered with valid payloads.
* *Launchers*: `terminate_app`, `is_app_running` and `wait_for_app_exit` have no
  caller in the program; `launch_app` is part of `AppSessions`.
* *Heartbeats and agent events* of the websocket endpoint, to clients nothing connects.
* *Reads*: `findIntent`, `findInstances`, `getAppMetadata`, the GraphQL queries,
  the reads of the storage. A read spread over several statements can see an
  app that is being replaced in part; nothing is decided from it.

## 7. Plan

1. What the server is for a single client (`AgentClient`) and what it is for its
   apps (`ContextRouting`, `IntentRaising`) are checked apart; a composition
   of a client and the channel handlers would show that what an app is told of its
   channel is what the registry has.
2. The hazards in `PROJECT.json` that no property covers yet: two broadcasts
   on one channel at once, an answer to open that names a pending instance, the
   client's handshake gate.
3. Proofs: the enabledness that the fairness conditions rely on, should a
   prover for ENABLED become available.
