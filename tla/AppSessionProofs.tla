-------------------------- MODULE AppSessionProofs --------------------------
(***************************************************************************)
(* Proofs about AppSessions: type correctness, the session invariant, and  *)
(* that every step of a launch is a step of RequestResponse.               *)
(***************************************************************************)
EXTENDS AppSessions, TLAPS

Awaiting == {"waiting", "expired"}
Registered == {"waiting", "expired", "opened", "timedOut"}

-----------------------------------------------------------------------------
(***************************************************************************)
(* Types.                                                                  *)
(***************************************************************************)
LEMMA InitType == Init => TypeOK
BY DEF Init, TypeOK, Uuids

LEMMA OpenType ==
    ASSUME TypeOK, NEW o \in Opens,
           \/ \E want \in InstanceIds \cup {NoId} : CheckExisting(o, want)
           \/ \E u \in LaunchUuids : Spawn(o, u)
           \/ LaunchFails(o) \/ RegisterPending(o) \/ Settle(o)
    PROVE  TypeOK'
<1>1. ASSUME NEW want \in InstanceIds \cup {NoId}, CheckExisting(o, want)
      PROVE  TypeOK'
  BY <1>1 DEF CheckExisting, TypeOK, registryVars, socketVars
<1>2. ASSUME NEW u \in LaunchUuids, Spawn(o, u)
      PROVE  TypeOK'
  BY <1>2 DEF Spawn, TypeOK, registryVars, socketVars
<1>3. CASE LaunchFails(o)
  BY <1>3 DEF LaunchFails, TypeOK, registryVars, socketVars
<1>4. CASE RegisterPending(o)
  BY <1>4 DEF RegisterPending, TypeOK, socketVars
<1>5. CASE Opened(o)
  BY <1>5 DEF Opened, TypeOK, registryVars, socketVars
<1>6. CASE Expire(o)
  BY <1>6 DEF Expire, TypeOK, registryVars, socketVars
<1>7. CASE GiveUp(o)
  BY <1>7 DEF GiveUp, Unregister, TypeOK, socketVars
<1>8. QED
  BY <1>1, <1>2, <1>3, <1>4, <1>5, <1>6, <1>7 DEF Settle

LEMMA SocketType ==
    ASSUME TypeOK, NEW s \in Sockets,
           \/ \E u \in Uuids : Validate(s, u)
           \/ Hello(s) \/ RegisterInstance(s) \/ PeerCloses(s) \/ Cleanup(s)
    PROVE  TypeOK'
<1>1. ASSUME NEW u \in Uuids, Validate(s, u)
      PROVE  TypeOK'
  BY <1>1 DEF Validate, TypeOK, registryVars
<1>2. CASE Hello(s) \/ PeerCloses(s)
  BY <1>2 DEF Hello, PeerCloses, TypeOK, registryVars
<1>3. CASE RegisterInstance(s)
  <2>1. /\ socket' \in [Sockets -> [at : {"new", "handshake", "validated",
                                          "dacp", "ended"},
                                    uuid : Uuids \cup {NoUuid}]]
        /\ status' \in [Uuids -> {"absent", "pending", "connected"}]
        /\ event' \in [Uuids -> {"none", "awaited", "own"}]
        /\ connection' \in [Uuids -> Sockets \cup {NoSocket}]
    BY <1>3 DEF RegisterInstance, TypeOK
  <2>2. signalled' \subseteq Opens /\ replied' \subseteq Opens
    BY <1>3 DEF RegisterInstance, TypeOK
  <2>3. QED
    BY <1>3, <2>1, <2>2 DEF RegisterInstance, TypeOK
<1>4. CASE Cleanup(s)
  BY <1>4 DEF Cleanup, Unregister, TypeOK, registryVars
<1>5. QED
  BY <1>1, <1>2, <1>3, <1>4

LEMMA NextType == TypeOK /\ [Next]_vars => TypeOK'
<1> SUFFICES ASSUME TypeOK, [Next]_vars
             PROVE  TypeOK'
  OBVIOUS
<1>1. ASSUME NEW u \in Uuids, SendFails(u)
      PROVE  TypeOK'
  BY <1>1 DEF SendFails, TypeOK, registryVars
<1>2. CASE UNCHANGED vars
  BY <1>2 DEF TypeOK, vars, registryVars, socketVars
<1>3. QED
  BY <1>1, <1>2, OpenType, SocketType DEF Next

\* The registry, the opens and the websockets keep their types.
THEOREM TypeCorrect == Spec => []TypeOK
BY InitType, NextType, PTL DEF Spec
-----------------------------------------------------------------------------
(***************************************************************************)
(* The session invariant.  ConnectedHasSession and ConnectionIsSession are *)
(* inductive with the types alone.  PendingIsAwaited needs to know that a  *)
(* UUID belongs to one open, and that an open whose event is set has an    *)
(* instance that is pending no more.                                       *)
(***************************************************************************)

\* uuid4: every launch has a UUID of its own, from the process on.
OneOpenPerUuid ==
    /\ \A o, p \in Opens :
          open[o].uuid # NoUuid /\ open[o].uuid = open[p].uuid => o = p
    /\ \A o \in Opens :
          open[o].uuid # NoUuid <=> open[o].at \in Registered \cup {"spawned"}

\* An event is set by the connection of the instance its open launched.
SignalMeansConnected ==
    \A o \in signalled :
        /\ o \in replied
        /\ open[o].at \in Registered
        /\ status[open[o].uuid] # "pending"

\* A websocket that speaks for a launched instance names the UUID of an
\* open that has registered it.
SocketsAreLaunched ==
    \A s \in Sockets :
        /\ socket[s].at = "validated" => socket[s].uuid \in Uuids
        /\ socket[s].uuid \in LaunchUuids =>
              \E o \in Opens : /\ open[o].uuid = socket[s].uuid
                               /\ open[o].at \in Registered

Launches == OneOpenPerUuid /\ SignalMeansConnected /\ SocketsAreLaunched

SessionInv ==
    /\ TypeOK
    /\ Launches
    /\ PendingIsAwaited
    /\ ConnectedHasSession
    /\ ConnectionIsSession

LEMMA InitSession == Init => SessionInv
<1> SUFFICES ASSUME Init
             PROVE  SessionInv
  OBVIOUS
<1>1. TypeOK
  BY InitType
<1>2. Launches
  BY SentinelsAreNone
  DEF Init, Launches, OneOpenPerUuid, SignalMeansConnected,
      SocketsAreLaunched, Registered, Uuids
<1>3. PendingIsAwaited /\ ConnectedHasSession /\ ConnectionIsSession
  BY DEF Init, PendingIsAwaited, ConnectedHasSession, ConnectionIsSession
<1>4. QED
  BY <1>1, <1>2, <1>3 DEF SessionInv

\* The identities of opens and launches.
LEMMA OpenKeepsLaunches ==
    ASSUME SessionInv, NEW o \in Opens,
           \/ \E want \in InstanceIds \cup {NoId} : CheckExisting(o, want)
           \/ \E u \in LaunchUuids : Spawn(o, u)
           \/ LaunchFails(o) \/ RegisterPending(o) \/ Settle(o)
    PROVE  Launches'
<1> USE DEF SessionInv
<1>1. ASSUME NEW want \in InstanceIds \cup {NoId}, CheckExisting(o, want)
      PROVE  Launches'
  BY <1>1
  DEF CheckExisting, TypeOK, Launches, OneOpenPerUuid, SignalMeansConnected,
      SocketsAreLaunched, Registered, registryVars, socketVars
<1>2. ASSUME NEW u \in LaunchUuids, Spawn(o, u)
      PROVE  Launches'
  <2>1. OneOpenPerUuid'
    BY <1>2, SentinelsAreNone
    DEF Spawn, Minted, TypeOK, Launches, OneOpenPerUuid, Registered, Uuids
  <2>2. SignalMeansConnected' /\ SocketsAreLaunched'
    BY <1>2
    DEF Spawn, TypeOK, Launches, SignalMeansConnected, SocketsAreLaunched,
        Registered, registryVars, socketVars
  <2>3. QED
    BY <2>1, <2>2 DEF Launches
<1>3. CASE LaunchFails(o)
  BY <1>3
  DEF LaunchFails, TypeOK, Launches, OneOpenPerUuid, SignalMeansConnected,
      SocketsAreLaunched, Registered, registryVars, socketVars
<1>4. CASE RegisterPending(o)
  <2>1. OneOpenPerUuid' /\ SocketsAreLaunched'
    BY <1>4
    DEF RegisterPending, TypeOK, Launches, OneOpenPerUuid,
        SocketsAreLaunched, Registered, socketVars
  <2>2. ASSUME NEW p \in signalled
        PROVE  p # o /\ open[p].uuid # open[o].uuid
    BY <1>4, <2>2
    DEF RegisterPending, TypeOK, Launches, OneOpenPerUuid,
        SignalMeansConnected, Registered
  <2>3. SignalMeansConnected'
    BY <1>4, <2>2
    DEF RegisterPending, TypeOK, Launches, SignalMeansConnected, Registered,
        socketVars
  <2>4. QED
    BY <2>1, <2>3 DEF Launches
<1>5. CASE Opened(o) \/ Expire(o)
  <2>1. /\ \A p \in Opens : open'[p].uuid = open[p].uuid
        /\ \A p \in Opens : open'[p].at \in Registered \cup {"spawned"}
                            <=> open[p].at \in Registered \cup {"spawned"}
        /\ \A p \in Opens : open[p].at \in Registered
                            => open'[p].at \in Registered
        /\ UNCHANGED <<signalled, replied, status, socket>>
    <3>1. CASE Opened(o)
      BY <3>1 DEF Opened, TypeOK, Registered, registryVars, socketVars
    <3>2. CASE Expire(o)
      BY <3>2 DEF Expire, TypeOK, Registered, registryVars, socketVars
    <3>3. QED
      BY <1>5, <3>1, <3>2
  <2>2. OneOpenPerUuid'
    BY <2>1 DEF Launches, OneOpenPerUuid
  <2>3. SignalMeansConnected' /\ SocketsAreLaunched'
    BY <2>1
    DEF TypeOK, Launches, SignalMeansConnected, SocketsAreLaunched
  <2>4. QED
    BY <2>2, <2>3 DEF Launches
<1>6. CASE GiveUp(o)
  <2>1. OneOpenPerUuid' /\ SocketsAreLaunched'
    BY <1>6
    DEF GiveUp, TypeOK, Launches, OneOpenPerUuid, SocketsAreLaunched,
        Registered, socketVars
  <2>2. SignalMeansConnected'
    BY <1>6
    DEF GiveUp, Unregister, TypeOK, Launches, SignalMeansConnected,
        Registered, socketVars
  <2>3. QED
    BY <2>1, <2>2 DEF Launches
<1>7. QED
  BY <1>1, <1>2, <1>3, <1>4, <1>5, <1>6 DEF Settle

LEMMA SocketKeepsLaunches ==
    ASSUME SessionInv, NEW s \in Sockets,
           \/ \E u \in Uuids : Validate(s, u)
           \/ Hello(s) \/ RegisterInstance(s) \/ PeerCloses(s) \/ Cleanup(s)
    PROVE  Launches'
<1> USE DEF SessionInv
<1>1. ASSUME NEW u \in Uuids, Validate(s, u)
      PROVE  Launches'
  <2>1. OneOpenPerUuid' /\ SignalMeansConnected'
    BY <1>1
    DEF Validate, Launches, OneOpenPerUuid, SignalMeansConnected,
        registryVars
  <2>2. u \in LaunchUuids =>
            \E o \in Opens : open[o].uuid = u /\ open[o].at \in Registered
    BY <1>1, UuidsAreDistinct DEF Validate, PendingIsAwaited, Registered
  <2>3. SocketsAreLaunched'
    BY <1>1, <2>2 DEF Validate, TypeOK, Launches, SocketsAreLaunched
  <2>4. QED
    BY <2>1, <2>3 DEF Launches
<1>2. CASE Hello(s) \/ PeerCloses(s)
  BY <1>2
  DEF Hello, PeerCloses, TypeOK, Launches, OneOpenPerUuid,
      SignalMeansConnected, SocketsAreLaunched, registryVars
<1>3. CASE RegisterInstance(s)
  <2>1. OneOpenPerUuid' /\ SocketsAreLaunched'
    BY <1>3
    DEF RegisterInstance, TypeOK, Launches, OneOpenPerUuid,
        SocketsAreLaunched
  <2>2. ASSUME NEW p \in signalled'
        PROVE  /\ p \in replied'
               /\ open'[p].at \in Registered
               /\ status'[open'[p].uuid] # "pending"
    <3>1. CASE p \in signalled
      BY <1>3, <3>1
      DEF RegisterInstance, TypeOK, Launches, SignalMeansConnected
    <3>2. CASE p \notin signalled
      <4>1. /\ p \in Opens
            /\ open[p].at = "waiting"
            /\ open[p].uuid = socket[s].uuid
        BY <1>3, <2>2, <3>2 DEF RegisterInstance
      <4>2. status'[open[p].uuid] # "pending"
        BY <1>3, <4>1, SentinelsAreNone
        DEF RegisterInstance, TypeOK, Launches, OneOpenPerUuid, Registered,
            Uuids
      <4>3. QED
        BY <1>3, <4>1, <4>2 DEF RegisterInstance, Registered
    <3>3. QED
      BY <3>1, <3>2
  <2>3. QED
    BY <2>1, <2>2 DEF Launches, SignalMeansConnected
<1>4. CASE Cleanup(s)
  <2>1. OneOpenPerUuid' /\ SocketsAreLaunched'
    BY <1>4
    DEF Cleanup, TypeOK, Launches, OneOpenPerUuid, SocketsAreLaunched
  <2>2. SignalMeansConnected'
    <3>1. \A u \in Uuids : status'[u] # "pending" \/ status'[u] = status[u]
      BY <1>4 DEF Cleanup, Unregister, TypeOK, registryVars
    <3>2. \A o \in signalled : open[o].uuid \in Uuids
      BY SentinelsAreNone
      DEF TypeOK, Launches, OneOpenPerUuid, SignalMeansConnected, Uuids
    <3>3. QED
      BY <1>4, <3>1, <3>2 DEF Cleanup, Launches, SignalMeansConnected
  <2>3. QED
    BY <2>1, <2>2 DEF Launches
<1>5. QED
  BY <1>1, <1>2, <1>3, <1>4
-----------------------------------------------------------------------------
\* Pending instances, connected instances and connections.
Backed == PendingIsAwaited /\ ConnectedHasSession /\ ConnectionIsSession

LEMMA OpenKeepsBacked ==
    ASSUME SessionInv, NEW o \in Opens,
           \/ \E want \in InstanceIds \cup {NoId} : CheckExisting(o, want)
           \/ \E u \in LaunchUuids : Spawn(o, u)
           \/ LaunchFails(o) \/ RegisterPending(o) \/ Settle(o)
    PROVE  Backed'
<1> USE DEF SessionInv
<1>1. CASE \/ \E want \in InstanceIds \cup {NoId} : CheckExisting(o, want)
           \/ \E u \in LaunchUuids : Spawn(o, u)
           \/ LaunchFails(o) \/ Expire(o)
  <2>1. /\ UNCHANGED <<status, socket, connection>>
        /\ open[o].at \in {"new", "launching", "waiting"}
        /\ open[o].at = "waiting" =>
              open'[o].at = "expired" /\ open'[o].uuid = open[o].uuid
        /\ \A p \in Opens \ {o} : open'[p] = open[p]
    BY <1>1
    DEF CheckExisting, Spawn, LaunchFails, Expire, TypeOK, registryVars,
        socketVars
  <2>2. PendingIsAwaited'
    BY <2>1 DEF PendingIsAwaited
  <2>3. QED
    BY <2>1, <2>2 DEF Backed, ConnectedHasSession, ConnectionIsSession
<1>2. CASE RegisterPending(o)
  <2>1. /\ UNCHANGED <<socket, connection>>
        /\ open[o].at = "spawned"
        /\ open'[o].at = "waiting" /\ open'[o].uuid = open[o].uuid
        /\ \A p \in Opens \ {o} : open'[p] = open[p]
        /\ \A u \in Uuids : status'[u] = IF u = open[o].uuid THEN "pending"
                                         ELSE status[u]
    BY <1>2 DEF RegisterPending, TypeOK, socketVars
  <2>2. PendingIsAwaited'
    BY <2>1 DEF PendingIsAwaited
  <2>3. ConnectedHasSession' /\ ConnectionIsSession'
    BY <2>1 DEF ConnectedHasSession, ConnectionIsSession
  <2>4. QED
    BY <2>2, <2>3 DEF Backed
<1>3. CASE Opened(o)
  <2>1. /\ UNCHANGED <<status, socket, connection>>
        /\ \A p \in Opens \ {o} : open'[p] = open[p]
        /\ status[open[o].uuid] # "pending"
    BY <1>3
    DEF Opened, TypeOK, Launches, SignalMeansConnected, registryVars,
        socketVars
  <2>2. PendingIsAwaited'
    BY <2>1 DEF PendingIsAwaited
  <2>3. QED
    BY <2>1, <2>2 DEF Backed, ConnectedHasSession, ConnectionIsSession
<1>4. CASE GiveUp(o)
  <2>1. /\ UNCHANGED <<socket, connection>>
        /\ \A p \in Opens \ {o} : open'[p] = open[p]
        /\ \A u \in Uuids : status'[u] = IF u = open[o].uuid THEN "absent"
                                         ELSE status[u]
    BY <1>4 DEF GiveUp, Unregister, TypeOK, socketVars
  <2>2. PendingIsAwaited'
    BY <2>1 DEF PendingIsAwaited
  <2>3. ConnectedHasSession' /\ ConnectionIsSession'
    BY <2>1 DEF ConnectedHasSession, ConnectionIsSession
  <2>4. QED
    BY <2>2, <2>3 DEF Backed
<1>5. QED
  BY <1>1, <1>2, <1>3, <1>4 DEF Settle

LEMMA SocketKeepsBacked ==
    ASSUME SessionInv, NEW s \in Sockets,
           \/ \E u \in Uuids : Validate(s, u)
           \/ Hello(s) \/ RegisterInstance(s) \/ PeerCloses(s) \/ Cleanup(s)
    PROVE  Backed'
<1> USE DEF SessionInv
<1>1. CASE \/ \E u \in Uuids : Validate(s, u)
           \/ Hello(s) \/ PeerCloses(s)
  <2>1. /\ UNCHANGED <<open, status, connection>>
        /\ socket[s].at = "dacp" => socket'[s] = socket[s]
        /\ \A r \in Sockets \ {s} : socket'[r] = socket[r]
    BY <1>1 DEF Validate, Hello, PeerCloses, TypeOK, registryVars
  <2>2. PendingIsAwaited'
    BY <2>1 DEF PendingIsAwaited
  <2>3. ConnectedHasSession' /\ ConnectionIsSession'
    BY <2>1 DEF TypeOK, ConnectedHasSession, ConnectionIsSession
  <2>4. QED
    BY <2>2, <2>3 DEF Backed
<1>2. CASE RegisterInstance(s)
  <2> DEFINE u == socket[s].uuid
  <2>1. /\ open' = open
        /\ socket[s].at = "validated"
        /\ socket'[s] = [at |-> "dacp", uuid |-> u]
        /\ \A r \in Sockets \ {s} : socket'[r] = socket[r]
        /\ \A v \in Uuids : status'[v] = IF v = u THEN "connected"
                                         ELSE status[v]
        /\ \A v \in Uuids : connection'[v] = IF v = u THEN s
                                             ELSE connection[v]
    BY <1>2 DEF RegisterInstance, TypeOK
  <2>2. PendingIsAwaited'
    BY <2>1 DEF PendingIsAwaited
  <2>3. ASSUME NEW v \in Uuids, status'[v] = "connected"
        PROVE  \E r \in Sockets : socket'[r] = [at |-> "dacp", uuid |-> v]
    <3>1. CASE v = u
      BY <2>1, <3>1
    <3>2. CASE v # u
      <4>1. PICK r \in Sockets : socket[r] = [at |-> "dacp", uuid |-> v]
        BY <2>1, <2>3, <3>2 DEF ConnectedHasSession
      <4>2. r # s
        BY <2>1, <4>1
      <4>3. QED
        BY <2>1, <4>1, <4>2
    <3>3. QED
      BY <3>1, <3>2
  <2>4. ConnectionIsSession'
    BY <2>1 DEF TypeOK, ConnectionIsSession
  <2>5. QED
    BY <2>2, <2>3, <2>4 DEF Backed, ConnectedHasSession
<1>3. CASE Cleanup(s)
  <2> DEFINE u == socket[s].uuid
  <2>1. /\ open' = open
        /\ \A r \in Sockets \ {s} : socket'[r] = socket[r]
    BY <1>3 DEF Cleanup, TypeOK
  <2>2. /\ \A v \in Uuids : status'[v] = IF v = u THEN "absent"
                                         ELSE status[v]
        /\ \A v \in Uuids : connection'[v] = IF v = u THEN NoSocket
                                             ELSE connection[v]
    BY <1>3, SentinelsAreNone DEF Cleanup, Unregister, TypeOK, registryVars
  <2>3. PendingIsAwaited'
    BY <2>1, <2>2 DEF PendingIsAwaited
  <2>4. ASSUME NEW v \in Uuids, status'[v] = "connected"
        PROVE  \E r \in Sockets : socket'[r] = [at |-> "dacp", uuid |-> v]
    <3>1. PICK r \in Sockets : socket[r] = [at |-> "dacp", uuid |-> v]
      BY <2>2, <2>4 DEF ConnectedHasSession
    <3>2. r # s
      BY <2>2, <2>4, <3>1
    <3>3. QED
      BY <2>1, <3>1, <3>2
  <2>5. ConnectionIsSession'
    BY <2>1, <2>2 DEF TypeOK, ConnectionIsSession
  <2>6. QED
    BY <2>3, <2>4, <2>5 DEF Backed, ConnectedHasSession
<1>4. QED
  BY <1>1, <1>2, <1>3

LEMMA NextSession == SessionInv /\ [Next]_vars => SessionInv'
<1> SUFFICES ASSUME SessionInv, [Next]_vars
             PROVE  SessionInv'
  OBVIOUS
<1> USE DEF SessionInv
<1>1. TypeOK'
  BY NextType
<1>2. CASE UNCHANGED vars
  <2>1. Launches'
    BY <1>2
    DEF Launches, OneOpenPerUuid, SignalMeansConnected, SocketsAreLaunched,
        vars, registryVars, socketVars
  <2>2. Backed'
    BY <1>2
    DEF Backed, PendingIsAwaited, ConnectedHasSession, ConnectionIsSession,
        vars, registryVars, socketVars
  <2>3. QED
    BY <1>1, <2>1, <2>2 DEF Backed
<1>3. ASSUME NEW u \in Uuids, SendFails(u)
      PROVE  SessionInv'
  <2>1. Launches'
    BY <1>3
    DEF SendFails, Launches, OneOpenPerUuid, SignalMeansConnected,
        SocketsAreLaunched, registryVars
  <2>2. PendingIsAwaited' /\ ConnectedHasSession'
    BY <1>3
    DEF SendFails, PendingIsAwaited, ConnectedHasSession, registryVars
  <2>3. ConnectionIsSession'
    BY <1>3 DEF SendFails, TypeOK, ConnectionIsSession
  <2>4. QED
    BY <1>1, <2>1, <2>2, <2>3
<1>4. QED
  BY <1>1, <1>2, <1>3, OpenKeepsLaunches, SocketKeepsLaunches,
     OpenKeepsBacked, SocketKeepsBacked
  DEF Next, Backed

\* The session invariant holds throughout.
THEOREM SessionInvariant == Spec => []SessionInv
BY InitSession, NextSession, PTL DEF Spec

\* No pending instance without an open that waits for it.
THEOREM PendingInstancesAwaited == Spec => []PendingIsAwaited
BY SessionInvariant, PTL DEF SessionInv

\* No connected instance without a websocket in its DACP phase.
THEOREM NoGhostInstances == Spec => []ConnectedHasSession
BY SessionInvariant, PTL DEF SessionInv

\* No connection that is not the live session of its instance.
THEOREM ConnectionsAreLive == Spec => []ConnectionIsSession
BY SessionInvariant, PTL DEF SessionInv
-----------------------------------------------------------------------------
(***************************************************************************)
(* Every step of an open or of a websocket is a step of the request that   *)
(* the launch is, or none of its business.                                 *)
(***************************************************************************)
LEMMA OpenSimulates ==
    ASSUME SessionInv, NEW o \in Opens,
           \/ \E want \in InstanceIds \cup {NoId} : CheckExisting(o, want)
           \/ \E u \in LaunchUuids : Spawn(o, u)
           \/ LaunchFails(o) \/ RegisterPending(o) \/ Settle(o)
    PROVE  [Exchange!Next]_(Exchange!vars)
<1> USE DEF SessionInv
<1>1. replied' = replied /\ \A p \in Opens \ {o} : open'[p] = open[p]
  BY DEF CheckExisting, Spawn, LaunchFails, RegisterPending, Settle, Opened,
         Expire, GiveUp, TypeOK
<1>2. ASSUME launchStatus'[o] = launchStatus[o]
      PROVE  UNCHANGED Exchange!vars
  BY <1>1, <1>2 DEF launchStatus, Exchange!vars
<1>3. ASSUME NEW value, launchStatus'[o] = value
      PROVE  launchStatus' = [launchStatus EXCEPT ![o] = value]
  BY <1>1, <1>3 DEF launchStatus
<1>4. CASE \/ \E want \in InstanceIds \cup {NoId} : CheckExisting(o, want)
           \/ \E u \in LaunchUuids : Spawn(o, u)
           \/ LaunchFails(o) \/ Expire(o)
  <2>1. launchStatus'[o] = launchStatus[o]
    BY <1>4
    DEF launchStatus, CheckExisting, Spawn, LaunchFails, Expire, TypeOK
  <2>2. QED
    BY <1>2, <2>1
<1>5. CASE RegisterPending(o)
  <2>1. launchStatus[o] = "new" /\ launchStatus'[o] = "open"
    BY <1>5 DEF launchStatus, RegisterPending, TypeOK
  <2>2. Exchange!Open(o)
    BY <1>1, <1>3, <2>1 DEF Exchange!Open
  <2>3. QED
    BY <2>2 DEF Exchange!Next
<1>6. CASE Opened(o)
  <2>1. launchStatus[o] = "open" /\ launchStatus'[o] = "answered"
    BY <1>6 DEF launchStatus, Opened, TypeOK
  <2>2. o \in replied
    BY <1>6 DEF Opened, Launches, SignalMeansConnected
  <2>3. Exchange!Answer(o)
    BY <1>1, <1>3, <2>1, <2>2 DEF Exchange!Answer
  <2>4. QED
    BY <2>3 DEF Exchange!Next
<1>7. CASE GiveUp(o)
  <2>1. launchStatus[o] = "open" /\ launchStatus'[o] = "failed"
    BY <1>7 DEF launchStatus, GiveUp, TypeOK
  <2>2. Exchange!Fail(o)
    BY <1>1, <1>3, <2>1 DEF Exchange!Fail
  <2>3. QED
    BY <2>2 DEF Exchange!Next
<1>8. QED
  BY <1>4, <1>5, <1>6, <1>7 DEF Settle

LEMMA RegisterSimulates ==
    ASSUME SessionInv, NEW s \in Sockets, RegisterInstance(s)
    PROVE  [Exchange!Next]_(Exchange!vars)
<1> USE DEF SessionInv
<1> DEFINE u == socket[s].uuid
           mine == {o \in Opens : open[o].uuid = u}
<1>1. launchStatus' = launchStatus /\ replied' = replied \cup mine
  BY DEF RegisterInstance, launchStatus
<1>2. u \in Uuids
  BY DEF RegisterInstance, Launches, SocketsAreLaunched
<1>3. CASE u \in OwnUuids
  <2>1. mine = {}
    BY <1>3, UuidsAreDistinct, SentinelsAreNone DEF TypeOK, Uuids
  <2>2. QED
    BY <1>1, <2>1 DEF Exchange!vars
<1>4. CASE u \in LaunchUuids
  <2>1. PICK o \in Opens : open[o].uuid = u /\ open[o].at \in Registered
    BY <1>4 DEF Launches, SocketsAreLaunched
  <2>2. mine = {o}
    BY <2>1, <1>4, SentinelsAreNone DEF Launches, OneOpenPerUuid, Uuids
  <2>3. launchStatus[o] # "new"
    BY <2>1 DEF launchStatus, Registered
  <2>4. Exchange!Reply(o)
    BY <1>1, <2>2, <2>3 DEF Exchange!Reply
  <2>5. QED
    BY <2>4 DEF Exchange!Next
<1>5. QED
  BY <1>2, <1>3, <1>4 DEF Uuids

LEMMA StepSimulates ==
    SessionInv /\ [Next]_vars => [Exchange!Next]_(Exchange!vars)
<1> SUFFICES ASSUME SessionInv, [Next]_vars
             PROVE  [Exchange!Next]_(Exchange!vars)
  OBVIOUS
<1>1. ASSUME UNCHANGED <<open, replied>>
      PROVE  UNCHANGED Exchange!vars
  BY <1>1 DEF Exchange!vars, launchStatus
<1>2. CASE UNCHANGED vars
  BY <1>1, <1>2 DEF vars
<1>3. ASSUME NEW s \in Sockets,
             \/ \E u \in Uuids : Validate(s, u)
             \/ Hello(s) \/ PeerCloses(s) \/ Cleanup(s)
      PROVE  [Exchange!Next]_(Exchange!vars)
  BY <1>1, <1>3 DEF Validate, Hello, PeerCloses, Cleanup
<1>4. ASSUME NEW u \in Uuids, SendFails(u)
      PROVE  [Exchange!Next]_(Exchange!vars)
  BY <1>1, <1>4 DEF SendFails
<1>5. QED
  BY <1>2, <1>3, <1>4, OpenSimulates, RegisterSimulates DEF Next

LEMMA InitSimulates == Init => Exchange!Init
BY DEF Init, Exchange!Init, launchStatus

\* The safety half of LaunchesEnd: open is told the app is there only after
\* the instance it launched has connected, and never changes its mind.
THEOREM LaunchIsRequest ==
    Spec => Exchange!Init /\ [][Exchange!Next]_(Exchange!vars)
BY InitSimulates, StepSimulates, SessionInvariant, PTL DEF Spec
=============================================================================
