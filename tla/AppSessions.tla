----------------------------- MODULE AppSessions ----------------------------
(***************************************************************************)
(* App instances from launch to disconnect: open (handlers/dacp/app.py),   *)
(* the app registry (core/app_registry.py), the WCP handshake              *)
(* (handlers/wcp.py) and the life of a websocket (server/websocket.py).    *)
(*                                                                         *)
(* One app of the directory.  open reuses an instance or launches one,     *)
(* registers it as pending and waits 15 seconds for it to connect.  A      *)
(* connecting app names its UUID in WCP4; the agent checks it, awaits the  *)
(* storage and the send of WCP5, and only then registers the instance.     *)
(***************************************************************************)
CONSTANTS
    Opens,          \* open requests, of apps, of the bridge
    LaunchUuids,    \* instance UUIDs minted by launches (uuid4)
    OwnUuids,       \* minted by external handlers that register themselves
    Sockets,        \* websockets
    InstanceIds,    \* instanceIds an open may ask for
    NoUuid, NoSocket, NoId

Uuids == LaunchUuids \cup OwnUuids

ASSUME UuidsAreDistinct == LaunchUuids \cap OwnUuids = {}
ASSUME SentinelsAreNone ==
    NoUuid \notin Uuids /\ NoSocket \notin Sockets /\ NoId \notin InstanceIds

VARIABLES
    open,       \* where each open is, the instanceId it wants and the UUID
                \* it launched
    instanceId, \* AppInstance.instance_id; NoId: a random one
    status,     \* AppRegistry.instances, with the connected flag
    event,      \* AppRegistry._connection_events: "awaited" is the event
                \* the open waits for, "own" one made at registration
    signalled,  \* opens whose event is set
    socket,     \* phase of each websocket and session.identity
    lost,       \* websockets closed by the peer
    connection, \* WebSocketConnectionManager.connections
    replied     \* history: opens whose app has connected, in time or not

registryVars == <<status, event>>
socketVars == <<socket, lost, connection>>
vars == <<open, instanceId, signalled, replied, registryVars, socketVars>>

Init ==
    /\ open = [o \in Opens |-> [at |-> "new", want |-> NoId, uuid |-> NoUuid]]
    /\ instanceId = [u \in LaunchUuids |-> NoId]
    /\ status = [u \in Uuids |-> "absent"]
    /\ event = [u \in Uuids |-> "none"]
    /\ signalled = {}
    /\ socket = [s \in Sockets |-> [at |-> "new", uuid |-> NoUuid]]
    /\ lost = {}
    /\ connection = [u \in Uuids |-> NoSocket]
    /\ replied = {}

\* Mutant: the entry is blanked.
UnregisterByBlanking(u) ==
    /\ status' = [status EXCEPT ![u] = "none"]
    /\ event' = [event EXCEPT ![u] = "none"]

\* unregister_instance.
Unregister(u) ==
    /\ status' = [status EXCEPT ![u] = "absent"]
    /\ event' = [event EXCEPT ![u] = "none"]

-----------------------------------------------------------------------------
(***************************************************************************)
(* open.                                                                   *)
(***************************************************************************)
Minted == {open[o].uuid : o \in Opens} \ {NoUuid}

\* get_instances_for_app, pending ones included, with the instanceId asked
\* for if there is one.
Existing(want) ==
    {u \in LaunchUuids :
        status[u] # "absent" /\ (want = NoId \/ instanceId[u] = want)}

\* The answer names one of the existing instances.
CheckExisting(o, want) ==
    /\ open[o].at = "new"
    /\ open' = [open EXCEPT ![o] =
                   [at |-> IF Existing(want) = {} THEN "launching"
                           ELSE "reused",
                    want |-> want, uuid |-> NoUuid]]
    /\ UNCHANGED <<instanceId, signalled, replied, registryVars, socketVars>>

\* There is no launch configuration, or the process cannot be started.
LaunchFails(o) ==
    /\ open[o].at = "launching"
    /\ open' = [open EXCEPT ![o].at = "failed"]
    /\ UNCHANGED <<instanceId, signalled, replied, registryVars, socketVars>>

\* The process runs; launch_app has not returned yet.
Spawn(o, u) ==
    /\ open[o].at = "launching"
    /\ u \notin Minted
    /\ open' = [open EXCEPT ![o] =
                   [at |-> "spawned", want |-> open[o].want, uuid |-> u]]
    /\ instanceId' = [instanceId EXCEPT ![u] = open[o].want]
    /\ UNCHANGED <<signalled, replied, registryVars, socketVars>>

\* register_pending_instance, and wait_for_instance_connection begins.
RegisterPending(o) ==
    LET u == open[o].uuid
    IN  /\ open[o].at = "spawned"
        /\ open' = [open EXCEPT ![o].at = "waiting"]
        /\ status' = [status EXCEPT ![u] = "pending"]
        /\ event' = [event EXCEPT ![u] = "awaited"]
        /\ UNCHANGED <<instanceId, signalled, replied, socketVars>>

Opened(o) ==
    /\ open[o].at = "waiting"
    /\ o \in signalled
    /\ open' = [open EXCEPT ![o].at = "opened"]
    /\ UNCHANGED <<instanceId, signalled, replied, registryVars, socketVars>>

\* The 15 seconds are over; the handler is scheduled to find out.  Since Python
\* 3.12 this counts also if the event was set before it could be resumed.
Expire(o) ==
    /\ open[o].at = "waiting"
    /\ open' = [open EXCEPT ![o].at = "expired"]
    /\ UNCHANGED <<instanceId, signalled, replied, registryVars, socketVars>>

\* Mutant: the pending instance is left to whoever connects later.
GiveUpOnly(o) ==
    /\ open[o].at = "expired"
    /\ open' = [open EXCEPT ![o].at = "timedOut"]
    /\ UNCHANGED <<instanceId, signalled, replied, registryVars, socketVars>>

\* Without a look at the instance, which may have connected by now.
GiveUp(o) ==
    /\ open[o].at = "expired"
    /\ open' = [open EXCEPT ![o].at = "timedOut"]
    /\ Unregister(open[o].uuid)
    /\ UNCHANGED <<instanceId, signalled, replied, socketVars>>

-----------------------------------------------------------------------------
(***************************************************************************)
(* The WCP handshake.                                                      *)
(***************************************************************************)
Hello(s) ==
    /\ socket[s].at = "new"
    /\ socket' = [socket EXCEPT ![s].at = "handshake"]
    /\ UNCHANGED <<open, instanceId, signalled, replied, registryVars, lost,
                   connection>>

\* _validate_app_identity accepts WCP4.  A launched app may connect more
\* than once; an external handler takes a new UUID for every connection.
\* A refusal changes nothing: the app may send WCP4 again.
Validate(s, u) ==
    /\ socket[s].at = "handshake"
    /\ \/ u \in LaunchUuids /\ status[u] = "pending"
       \/ u \in OwnUuids /\ \A r \in Sockets : socket[r].uuid # u
    /\ socket' = [socket EXCEPT ![s] = [at |-> "validated", uuid |-> u]]
    /\ UNCHANGED <<open, instanceId, signalled, replied, registryVars, lost,
                   connection>>

\* Mutant: whoever waits for any instance is woken.
RegisterInstanceForAll(s) ==
    LET u == socket[s].uuid
    IN  /\ socket[s].at = "validated"
        /\ socket' = [socket EXCEPT ![s].at = "dacp"]
        /\ status' = [status EXCEPT ![u] = "connected"]
        /\ event' = [event EXCEPT ![u] = IF @ = "none" THEN "own" ELSE @]
        /\ signalled' = signalled \cup {o \in Opens : open[o].at = "waiting"}
        /\ replied' = replied \cup {o \in Opens : open[o].uuid = u}
        /\ connection' = [connection EXCEPT ![u] = s]
        /\ UNCHANGED <<open, instanceId, lost>>

\* WCP5 is sent: register_instance, the transition to the DACP phase and
\* add_connection.
RegisterInstance(s) ==
    LET u == socket[s].uuid
        waiting == {o \in Opens : open[o].at = "waiting" /\ open[o].uuid = u}
    IN  /\ socket[s].at = "validated"
        /\ socket' = [socket EXCEPT ![s].at = "dacp"]
        /\ status' = [status EXCEPT ![u] = "connected"]
        /\ event' = [event EXCEPT ![u] = IF @ = "none" THEN "own" ELSE @]
        /\ signalled' = IF event[u] = "awaited" THEN signalled \cup waiting
                        ELSE signalled
        /\ replied' = replied \cup {o \in Opens : open[o].uuid = u}
        /\ connection' = [connection EXCEPT ![u] = s]
        /\ UNCHANGED <<open, instanceId, lost>>

-----------------------------------------------------------------------------
(***************************************************************************)
(* The end of a websocket.                                                 *)
(***************************************************************************)
PeerCloses(s) ==
    /\ s \notin lost
    /\ socket[s].at # "ended"
    /\ lost' = lost \cup {s}
    /\ UNCHANGED <<open, instanceId, signalled, replied, registryVars, socket,
                   connection>>

\* Mutant: the instance is cleaned up if the connection is still this one's.
CleanupOwnConnection(s) ==
    LET u == socket[s].uuid
    IN  /\ s \in lost
        /\ socket[s].at # "ended"
        /\ socket' = [socket EXCEPT ![s].at = "ended"]
        /\ IF u # NoUuid /\ connection[u] = s
           THEN /\ Unregister(u)
                /\ connection' = [connection EXCEPT ![u] = NoSocket]
           ELSE UNCHANGED <<registryVars, connection>>
        /\ UNCHANGED <<open, instanceId, signalled, replied, lost>>

\* Mutant: an instance that is not registered any more needs no cleanup.
CleanupRegistered(s) ==
    LET u == socket[s].uuid
    IN  /\ s \in lost
        /\ socket[s].at # "ended"
        /\ socket' = [socket EXCEPT ![s].at = "ended"]
        /\ IF u # NoUuid /\ status[u] # "absent"
           THEN /\ Unregister(u)
                /\ connection' = [connection EXCEPT ![u] = NoSocket]
           ELSE UNCHANGED <<registryVars, connection>>
        /\ UNCHANGED <<open, instanceId, signalled, replied, lost>>

\* _cleanup: the loop sees the close, or the send of WCP5 fails.  It goes by
\* the UUID, whichever websocket the instance's connection is by now.
Cleanup(s) ==
    LET u == socket[s].uuid
    IN  /\ s \in lost
        /\ socket[s].at # "ended"
        /\ socket' = [socket EXCEPT ![s].at = "ended"]
        /\ IF u # NoUuid
           THEN /\ Unregister(u)
                /\ connection' = [connection EXCEPT ![u] = NoSocket]
           ELSE UNCHANGED <<registryVars, connection>>
        /\ UNCHANGED <<open, instanceId, signalled, replied, lost>>

\* send_to_instance, by a handler of another app, on a closed websocket.
SendFails(u) ==
    /\ connection[u] \in lost
    /\ connection' = [connection EXCEPT ![u] = NoSocket]
    /\ UNCHANGED <<open, instanceId, signalled, replied, registryVars, socket,
                   lost>>

-----------------------------------------------------------------------------
Settle(o) == Opened(o) \/ Expire(o) \/ GiveUp(o)

Next ==
    \/ \E o \in Opens :
          \/ \E want \in InstanceIds \cup {NoId} : CheckExisting(o, want)
          \/ \E u \in LaunchUuids : Spawn(o, u)
          \/ LaunchFails(o) \/ RegisterPending(o) \/ Settle(o)
    \/ \E s \in Sockets :
          \/ \E u \in Uuids : Validate(s, u)
          \/ Hello(s) \/ RegisterInstance(s) \/ PeerCloses(s) \/ Cleanup(s)
    \/ \E u \in Uuids : SendFails(u)

\* The clock runs, and a handler whose wait is over is resumed.
Spec == Init /\ [][Next]_vars /\ \A o \in Opens : WF_vars(Settle(o))
-----------------------------------------------------------------------------
(***************************************************************************)
(* Properties.                                                             *)
(***************************************************************************)

\* Everything holds the values it is meant to.
TypeOK ==
    /\ open \in [Opens -> [at : {"new", "launching", "spawned", "waiting",
                                 "expired", "reused", "opened", "timedOut",
                                 "failed"},
                           want : InstanceIds \cup {NoId},
                           uuid : LaunchUuids \cup {NoUuid}]]
    /\ instanceId \in [LaunchUuids -> InstanceIds \cup {NoId}]
    /\ status \in [Uuids -> {"absent", "pending", "connected"}]
    /\ event \in [Uuids -> {"none", "awaited", "own"}]
    /\ signalled \subseteq Opens
    /\ socket \in [Sockets -> [at : {"new", "handshake", "validated", "dacp",
                                     "ended"},
                               uuid : Uuids \cup {NoUuid}]]
    /\ lost \subseteq Sockets
    /\ connection \in [Uuids -> Sockets \cup {NoSocket}]
    /\ replied \subseteq Opens

\* A pending instance always has an open that will remove it if it does not
\* connect.  One without would be taken for the app, by every open to come.
PendingIsAwaited ==
    \A u \in Uuids :
        status[u] = "pending" =>
            \E o \in Opens : open[o].uuid = u
                             /\ open[o].at \in {"waiting", "expired"}

\* An instance counts as connected only while some websocket speaks for it,
\* whatever timeouts, failed sends and second connections came between.
ConnectedHasSession ==
    \A u \in Uuids :
        status[u] = "connected" =>
            \E s \in Sockets : socket[s] = [at |-> "dacp", uuid |-> u]

\* Messages for an instance never go to a websocket that is cleaned up or
\* that speaks for another one.
ConnectionIsSession ==
    \A u \in Uuids :
        connection[u] # NoSocket =>
            socket[connection[u]] = [at |-> "dacp", uuid |-> u]

\* A launch as a request: made when the instance is pending.
launchStatus ==
    [o \in Opens |->
        CASE open[o].at \in {"waiting", "expired"} -> "open"
          [] open[o].at = "opened" -> "answered"
          [] open[o].at = "timedOut" -> "failed"
          [] OTHER -> "new"]

\* A launch is a request with a timeout: whoever opened the app is told
\* once, is told it is open only if that very instance connected, and is
\* told something.
Exchange ==
    INSTANCE RequestResponse
        WITH Requests <- Opens, replies <- replied, status <- launchStatus

LaunchesEnd == Exchange!Spec

\* One instance of an app at a time unless an instanceId is asked for
\* (IMPLEMENTATION.md, "Instance policy (single-instance default)").
\* Two opens at once both find nothing to reuse.
SingleInstance ==
    \A u, v \in LaunchUuids :
        status[u] = "connected" /\ status[v] = "connected" => u = v
=============================================================================
