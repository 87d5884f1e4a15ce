---------------------------- MODULE ChannelProofs ---------------------------
(***************************************************************************)
(* Proofs about the channel registry and its callers, and about the        *)
(* broadcasts and context listeners on top of them, for any numbers of     *)
(* instances, channels, tokens, contexts and listeners.                    *)
(***************************************************************************)
EXTENDS ContextRouting, TLAPS

-----------------------------------------------------------------------------
(***************************************************************************)
(* Type correctness: first of the methods, then of the whole.              *)
(***************************************************************************)

\* The initial bags and maps of a channel.
LEMMA EmptyTypes ==
    /\ NoMembers \in [Instances -> Nat]
    /\ NoInvites \in [Tokens -> Instances \cup InstanceIds
                                  \cup {Anyone, NoToken}]
    /\ NoContexts \in [ContextTypes -> Contexts \cup {NoContext}]
BY DEF NoMembers, NoInvites, NoContexts

LEMMA RemoveOneType ==
    ASSUME NEW bag \in [Instances -> Nat], NEW i \in Instances
    PROVE  RemoveOne(bag, i) \in [Instances -> Nat]
BY DEF RemoveOne

LEMMA ForgetType ==
    ASSUME ManagerTypeOK, NEW c \in Channels, ForgetChannel(c)
    PROVE  /\ chType' \in [Channels -> {"absent", "user", "app", "private"}]
           /\ members' \in [Channels -> [Instances -> Nat]]
           /\ owner' \in [Channels -> Instances \cup {NoInstance}]
           /\ participants' \in [Channels -> SUBSET Instances]
           /\ invites' \in [Channels -> [Tokens -> Instances \cup InstanceIds
                                                    \cup {Anyone, NoToken}]]
           /\ remoteListeners' \in [Channels -> SUBSET Agents]
           /\ contexts' \in [Channels ->
                                [ContextTypes -> Contexts \cup {NoContext}]]
           /\ lastContext' \in [Channels -> ContextTypes \cup {NoContext}]
BY EmptyTypes DEF ForgetChannel, ManagerTypeOK

LEMMA DeleteType ==
    ASSUME ManagerTypeOK, NEW c \in Channels,
           DeleteChannel(c) \/ DestroyPrivateChannel(c)
    PROVE  ManagerTypeOK'
<1>1. ForgetChannel(c)
  BY DEF DeleteChannel, DestroyPrivateChannel
<1>2. current' \in [Instances -> Channels \cup {NoChannel}]
  BY DEF DeleteChannel, DestroyPrivateChannel, ManagerTypeOK
<1>3. view' \in [Instances -> Channels \cup {NoChannel, MadeUp}]
  BY DEF DeleteChannel, DestroyPrivateChannel, ManagerTypeOK, SawGone
<1> QED
  BY <1>1, <1>2, <1>3, ForgetType DEF ManagerTypeOK

LEMMA CreatePrivateType ==
    ASSUME ManagerTypeOK, NEW c \in Channels, NEW i \in Instances,
           CreatePrivateChannel(i, c)
    PROVE  ManagerTypeOK'
BY EmptyTypes DEF CreatePrivateChannel, Created, Exists, ManagerTypeOK

LEMMA JoinType ==
    ASSUME ManagerTypeOK, NEW i \in Instances, NEW c \in Channels,
           NEW types \in [Channels -> {"absent", "user", "app", "private"}],
           JoinChannel(types, i, c),
           invites' \in [Channels -> [Tokens -> Instances \cup InstanceIds
                                                 \cup {Anyone, NoToken}]]
    PROVE  ManagerTypeOK'
<1> DEFINE old == current[i]
           leaving == old # NoChannel /\ types[old] # "absent"
           without == IF leaving
                      THEN [members EXCEPT ![old] = RemoveOne(@, i)]
                      ELSE members
<1>1. members' \in [Channels -> [Instances -> Nat]]
  <2>1. leaving => old \in Channels
    BY DEF ManagerTypeOK
  <2>2. without \in [Channels -> [Instances -> Nat]]
    BY <2>1, RemoveOneType DEF ManagerTypeOK
  <2>3. [without[c] EXCEPT ![i] = @ + 1] \in [Instances -> Nat]
    BY <2>2
  <2>4. members' = [without EXCEPT ![c] = [without[c] EXCEPT ![i] = @ + 1]]
    BY <2>2 DEF JoinChannel
  <2> QED
    BY <2>2, <2>3, <2>4
<1>2. view' \in [Instances -> Channels \cup {NoChannel, MadeUp}]
  BY DEF JoinChannel, ManagerTypeOK, SawLeft, SawJoined
<1>3. participants' \in [Channels -> SUBSET Instances]
  BY DEF JoinChannel, ManagerTypeOK
<1>4. current' \in [Instances -> Channels \cup {NoChannel}]
  BY DEF JoinChannel, ManagerTypeOK
<1> QED
  BY <1>1, <1>2, <1>3, <1>4 DEF JoinChannel, ManagerTypeOK

LEMMA LeaveType ==
    ASSUME ManagerTypeOK, NEW i \in Instances, LeaveCurrentChannel(i)
    PROVE  ManagerTypeOK'
<1>1. members' \in [Channels -> [Instances -> Nat]]
  BY RemoveOneType DEF LeaveCurrentChannel, ManagerTypeOK
<1>2. view' \in [Instances -> Channels \cup {NoChannel, MadeUp}]
  BY DEF LeaveCurrentChannel, ManagerTypeOK, SawLeft
<1>3. participants' \in [Channels -> SUBSET Instances]
  BY DEF LeaveCurrentChannel, ManagerTypeOK
<1>4. current' \in [Instances -> Channels \cup {NoChannel}]
  BY DEF LeaveCurrentChannel, ManagerTypeOK
<1> QED
  BY <1>1, <1>2, <1>3, <1>4 DEF LeaveCurrentChannel, ManagerTypeOK

LEMMA DefaultsType ==
    ASSUME ManagerTypeOK
    PROVE  /\ WithDefaults \in
                 [Channels -> {"absent", "user", "app", "private"}]
           /\ EnsuredDefaults \in
                 [Channels -> {"absent", "user", "app", "private"}]
BY DEF WithDefaults, EnsuredDefaults, Created, ManagerTypeOK


LEMMA InitType == Init => TypeOK
<1> SUFFICES ASSUME Init PROVE TypeOK
  OBVIOUS
<1>1. ManagerTypeOK
  BY EmptyTypes DEF Init, ManagerInit, ManagerTypeOK
<1>2. admitted \in [Tokens -> (Channels \cup {NoChannel})
                                \X (Instances \cup {NoInstance})]
  BY DEF Init
<1> QED
  BY <1>1, <1>2 DEF Init, TypeOK

\* The requests of a session, one lemma for all of them.
LEMMA RequestType ==
    ASSUME TypeOK, NEW i \in Instances, ChannelRequest(i)
    PROVE  TypeOK'
<1> USE DEF TypeOK
<1>1. ASSUME LeaveCurrent(i) PROVE TypeOK'
  BY <1>1, LeaveType DEF LeaveCurrent, handlerVars
<1>2. ASSUME NEW c \in Channels, JoinUserChannel(i, c) PROVE TypeOK'
  BY <1>2, JoinType, DefaultsType DEF JoinUserChannel, ManagerTypeOK
<1>3. ASSUME NEW c \in PrivateIds, CreatePrivate(i, c) PROVE TypeOK'
  BY <1>3, CreatePrivateType DEF CreatePrivate, Channels
<1>4. ASSUME NEW c \in PrivateIds, JoinPrivateAsOwner(i, c) PROVE TypeOK'
  BY <1>4, JoinType DEF JoinPrivateAsOwner, handlerVars, ManagerTypeOK, Channels
<1>5. ASSUME NEW c \in PrivateIds, LeavePrivate(i, c) PROVE TypeOK'
  BY <1>5, LeaveType DEF LeavePrivate, handlerVars
<1>6. ASSUME NEW c \in PrivateIds, DisconnectPrivate(i, c) PROVE TypeOK'
  BY <1>6, DeleteType DEF DisconnectPrivate, handlerVars, Channels
<1>7. ASSUME NEW c \in PrivateIds, NEW t \in Tokens,
             JoinPrivateWithToken(i, c, t)
      PROVE  TypeOK'
  <2>1. c \in Channels
    BY DEF Channels
  <2>2. invites' \in [Channels -> [Tokens -> Instances \cup InstanceIds
                                              \cup {Anyone, NoToken}]]
    BY <1>7, <2>1 DEF JoinPrivateWithToken, ConsumeInvite, ManagerTypeOK
  <2>3. ManagerTypeOK'
    BY <1>7, <2>1, <2>2, JoinType DEF JoinPrivateWithToken, ManagerTypeOK
  <2>4. admitted' \in [Tokens -> (Channels \cup {NoChannel})
                                   \X (Instances \cup {NoInstance})]
    BY <1>7, <2>1 DEF JoinPrivateWithToken
  <2> QED
    BY <1>7, <2>3, <2>4 DEF JoinPrivateWithToken
<1>8. ASSUME NEW c \in PrivateIds, NEW t \in Tokens,
             NEW who \in Instances \cup InstanceIds \cup {Anyone},
             CreateInvitation(i, c, t, who)
      PROVE  TypeOK'
  BY <1>8 DEF CreateInvitation, CreateInvite, ManagerTypeOK, Channels
<1> QED
  BY <1>1, <1>2, <1>3, <1>4, <1>5, <1>6, <1>7, <1>8 DEF ChannelRequest

LEMMA AgentType ==
    ASSUME TypeOK, AgentStep
    PROVE  TypeOK'
<1> USE DEF TypeOK
<1>1. ASSUME GetUserChannels \/ ReportChannelsState PROVE TypeOK'
  BY <1>1, DefaultsType
  DEF GetUserChannels, ReportChannelsState, handlerVars, ManagerTypeOK
<1>2. ASSUME NEW c \in Channels, AdminCreateChannel(c) PROVE TypeOK'
  <2>1. chType' \in [Channels -> {"absent", "user", "app", "private"}]
    BY <1>2 DEF AdminCreateChannel, Created, TypeOfId, ManagerTypeOK
  <2>2. everPrivate' \subseteq PrivateIds
    BY <1>2 DEF AdminCreateChannel
  <2> QED
    BY <1>2, <2>1, <2>2 DEF AdminCreateChannel, ManagerTypeOK
<1>3. ASSUME NEW c \in Channels, AdminDeleteChannel(c) PROVE TypeOK'
  BY <1>3, DeleteType DEF AdminDeleteChannel, handlerVars
<1>4. ASSUME NEW c \in Channels, NEW a \in Agents, RemoteListenerUpdate(c, a)
      PROVE  TypeOK'
  <2>1. remoteListeners' \in [Channels -> SUBSET Agents]
    <3>1. /\ remoteListeners[c] \cup {a} \in SUBSET Agents
          /\ remoteListeners[c] \ {a} \in SUBSET Agents
      BY DEF ManagerTypeOK
    <3>2. \/ remoteListeners' = [remoteListeners EXCEPT
                                   ![c] = remoteListeners[c] \cup {a}]
          \/ remoteListeners' = [remoteListeners EXCEPT
                                   ![c] = remoteListeners[c] \ {a}]
      BY <1>4 DEF RemoteListenerUpdate, AddRemoteListener,
                  RemoveRemoteListener
    <3> QED
      BY <3>1, <3>2 DEF ManagerTypeOK
  <2> QED
    BY <1>4, <2>1 DEF RemoteListenerUpdate, handlerVars, ManagerTypeOK
<1>5. ASSUME NEW c \in Channels, NEW i \in Instances, EmitChannelEvent(c, i)
      PROVE  TypeOK'
  <2>1. view' \in [Instances -> Channels \cup {NoChannel, MadeUp}]
    BY <1>5 DEF EmitChannelEvent, ManagerTypeOK
  <2> QED
    BY <1>5, <2>1 DEF EmitChannelEvent, handlerVars, ManagerTypeOK
<1> QED
  BY <1>1, <1>2, <1>3, <1>4, <1>5 DEF AgentStep

LEMMA NextType == TypeOK /\ [Next]_vars => TypeOK'
<1> SUFFICES ASSUME TypeOK, [Next]_vars PROVE TypeOK'
  OBVIOUS
<1>1. CASE AgentStep
  BY <1>1, AgentType
<1>2. ASSUME NEW i \in Instances, ChannelRequest(i) PROVE TypeOK'
  BY <1>2, RequestType
<1>3. ASSUME NEW i \in Instances, Connect(i) PROVE TypeOK'
  BY <1>3 DEF Connect, managerVars, TypeOK, ManagerTypeOK
<1>4. ASSUME NEW i \in Instances, CleanupInstance(i) PROVE TypeOK'
  BY <1>4, LeaveType DEF CleanupInstance, TypeOK
<1>5. ASSUME NEW c \in Channels, NEW type \in ContextTypes, NEW ctx \in Contexts,
             AdminBroadcast(c, type, ctx)
      PROVE  TypeOK'
  BY <1>5 DEF AdminBroadcast, SetChannelContext, handlerVars, TypeOK,
              ManagerTypeOK
<1>6. CASE UNCHANGED vars
  BY <1>6 DEF vars, managerVars, handlerVars, TypeOK, ManagerTypeOK
<1> QED
  BY <1>1, <1>2, <1>3, <1>4, <1>5, <1>6 DEF Next

\* The registry and the sessions keep their types, however many instances,
\* channels and tokens there are.
THEOREM TypeCorrect == Spec => []TypeOK
BY InitType, NextType, PTL DEF Spec

-----------------------------------------------------------------------------
(***************************************************************************)
(* The registry invariant.  No part of it is inductive alone: destroying a *)
(* private channel releases its members only if the member list accounts   *)
(* for them, and the list stays right when a channel is created because    *)
(* nobody owns or is on a channel that does not exist.                     *)
(***************************************************************************)
Accounts ==
    /\ MembersAccounted
    /\ CurrentChannelExists
    /\ RightsEndWithChannel
    /\ SubscriberKnows

RegistryInv == TypeOK /\ Accounts

\* Deleting a channel and destroying a private one release the same
\* instances: those that are on it.
LEMMA SameRelease ==
    ASSUME ManagerTypeOK, MembersAccounted, NEW c \in Channels,
           DeleteChannel(c) \/ DestroyPrivateChannel(c)
    PROVE  /\ ForgetChannel(c)
           /\ current' = [i \in Instances |->
                             IF current[i] = c THEN NoChannel ELSE current[i]]
           /\ view' = SawGone(view, c)
<1>1. ASSUME NEW i \in Instances, current[i] = c
      PROVE  members[c][i] > 0
  BY <1>1 DEF MembersAccounted, Occurrences
<1> QED
  BY <1>1 DEF DeleteChannel, DestroyPrivateChannel

LEMMA DeleteKeepsAccounts ==
    ASSUME ManagerTypeOK, Accounts, NEW c \in Channels,
           DeleteChannel(c) \/ DestroyPrivateChannel(c)
    PROVE  Accounts'
<1> USE DEF Accounts
<1>1. /\ ForgetChannel(c)
      /\ current' = [i \in Instances |->
                        IF current[i] = c THEN NoChannel ELSE current[i]]
      /\ view' = SawGone(view, c)
  BY SameRelease
<1>2. MembersAccounted'
  <2> SUFFICES ASSUME NEW d \in Channels, NEW i \in Instances
               PROVE  members'[d][i] = Occurrences(d, i)'
    BY DEF MembersAccounted
  <2>1. CASE d = c
    BY <1>1, <2>1, Sentinels
    DEF ForgetChannel, NoMembers, Occurrences, ManagerTypeOK
  <2>2. CASE d # c
    BY <1>1, <2>2, Sentinels
    DEF ForgetChannel, MembersAccounted, Occurrences, ManagerTypeOK
  <2> QED
    BY <2>1, <2>2
<1>3. CurrentChannelExists' /\ RightsEndWithChannel'
  BY <1>1 DEF ForgetChannel, CurrentChannelExists, RightsEndWithChannel,
              Exists, ManagerTypeOK
<1>4. SubscriberKnows'
  BY <1>1, Sentinels DEF SubscriberKnows, SawGone, ManagerTypeOK
<1> QED
  BY <1>2, <1>3, <1>4

LEMMA CreatePrivateKeepsAccounts ==
    ASSUME ManagerTypeOK, Accounts, NEW c \in Channels, NEW i \in Instances,
           CreatePrivateChannel(i, c)
    PROVE  Accounts'
<1> USE DEF Accounts, CreatePrivateChannel
<1>1. /\ owner[c] = NoInstance
      /\ \A j \in Instances : current[j] # c
  BY Sentinels DEF RightsEndWithChannel, CurrentChannelExists
<1>2. MembersAccounted'
  <2> SUFFICES ASSUME NEW d \in Channels, NEW j \in Instances
               PROVE  members'[d][j] = Occurrences(d, j)'
    BY DEF MembersAccounted
  <2>1. members[d][j] = Occurrences(d, j)
    BY DEF MembersAccounted
  <2> QED
    BY <1>1, <2>1, Sentinels DEF Occurrences, ManagerTypeOK
<1>3. CurrentChannelExists' /\ RightsEndWithChannel'
  BY DEF CurrentChannelExists, RightsEndWithChannel, Exists, Created,
         ManagerTypeOK
<1>4. SubscriberKnows'
  BY DEF SubscriberKnows
<1> QED
  BY <1>2, <1>3, <1>4

LEMMA JoinKeepsAccounts ==
    ASSUME ManagerTypeOK, Accounts, NEW i \in Instances, NEW c \in Channels,
           NEW types \in [Channels -> {"absent", "user", "app", "private"}],
           \A d \in Channels : Exists(d) => types[d] # "absent",
           JoinChannel(types, i, c),
           \A d \in Channels : invites'[d] = invites[d] \/ Exists(d)
    PROVE  Accounts'
<1> DEFINE old == current[i]
           leaving == old # NoChannel /\ types[old] # "absent"
           without == IF leaving
                      THEN [members EXCEPT ![old] = RemoveOne(@, i)]
                      ELSE members
<1> USE DEF Accounts
<1>1. leaving <=> old # NoChannel
  BY DEF CurrentChannelExists, ManagerTypeOK
<1>2. old = NoChannel \/ old \in Channels
  BY DEF ManagerTypeOK
<1>3. MembersAccounted'
  <2> SUFFICES ASSUME NEW d \in Channels, NEW j \in Instances
               PROVE  members'[d][j] = Occurrences(d, j)'
    BY DEF MembersAccounted
  <2>1. members[d][j] = Occurrences(d, j)
    BY DEF MembersAccounted
  <2>2. without[d][j] = IF d = old /\ j = i THEN members[d][j] - 1
                        ELSE members[d][j]
    BY <1>1, <1>2, <2>1, Sentinels DEF RemoveOne, Occurrences, ManagerTypeOK
  <2>3. members'[d][j] = IF d = c /\ j = i THEN without[d][j] + 1
                         ELSE without[d][j]
    <3>1. without \in [Channels -> [Instances -> Nat]]
      BY <1>1, <1>2, RemoveOneType DEF ManagerTypeOK
    <3>2. members' = [without EXCEPT ![c] = [without[c] EXCEPT ![i] = @ + 1]]
      BY <3>1 DEF JoinChannel
    <3> QED
      BY <3>1, <3>2
  <2>4. /\ current' = [current EXCEPT ![i] = c]
        /\ owner' = owner
    BY DEF JoinChannel
  <2> QED
    BY <2>1, <2>2, <2>3, <2>4 DEF Occurrences, ManagerTypeOK
<1>4. CurrentChannelExists'
  BY DEF JoinChannel, CurrentChannelExists, Exists, ManagerTypeOK
<1>5. RightsEndWithChannel'
  <2> SUFFICES ASSUME NEW d \in Channels, ~Exists(d)'
               PROVE  /\ owner'[d] = NoInstance
                      /\ participants'[d] = {}
                      /\ invites'[d] = NoInvites
    BY DEF RightsEndWithChannel
  <2>1. ~Exists(d) /\ d # c
    BY DEF JoinChannel, Exists
  <2>2. /\ owner'[d] = owner[d] /\ participants'[d] = participants[d]
        /\ invites'[d] = invites[d]
    BY <2>1 DEF JoinChannel, ManagerTypeOK
  <2> QED
    BY <2>1, <2>2 DEF RightsEndWithChannel
<1>6. SubscriberKnows'
  BY Sentinels
  DEF JoinChannel, SubscriberKnows, SawLeft, SawJoined, ManagerTypeOK
<1> QED
  BY <1>3, <1>4, <1>5, <1>6

LEMMA LeaveKeepsAccounts ==
    ASSUME ManagerTypeOK, Accounts, NEW i \in Instances,
           LeaveCurrentChannel(i)
    PROVE  Accounts'
<1> USE DEF Accounts, LeaveCurrentChannel
<1>1. current[i] = NoChannel \/ (current[i] \in Channels /\ Exists(current[i]))
  BY DEF CurrentChannelExists, ManagerTypeOK
<1>2. MembersAccounted'
  <2> SUFFICES ASSUME NEW d \in Channels, NEW j \in Instances
               PROVE  members'[d][j] = Occurrences(d, j)'
    BY DEF MembersAccounted
  <2>1. members[d][j] = Occurrences(d, j)
    BY DEF MembersAccounted
  <2>2. members'[d][j] = IF d = current[i] /\ j = i THEN members[d][j] - 1
                         ELSE members[d][j]
    BY <1>1, <2>1, Sentinels DEF RemoveOne, Occurrences, ManagerTypeOK
  <2> QED
    BY <2>1, <2>2, Sentinels DEF Occurrences, ManagerTypeOK
<1>3. CurrentChannelExists' /\ RightsEndWithChannel'
  BY DEF CurrentChannelExists, RightsEndWithChannel, Exists, ManagerTypeOK
<1>4. SubscriberKnows'
  BY <1>1, Sentinels DEF SubscriberKnows, SawLeft, ManagerTypeOK
<1> QED
  BY <1>2, <1>3, <1>4

LEMMA InitAccounts == Init => Accounts
<1> SUFFICES ASSUME Init PROVE Accounts
  OBVIOUS
<1>1. MembersAccounted
  <2> SUFFICES ASSUME NEW c \in Channels, NEW i \in Instances
               PROVE  members[c][i] = Occurrences(c, i)
    BY DEF MembersAccounted
  <2>1. members[c][i] = 0 /\ current[i] # c /\ owner[c] # i
    BY Sentinels DEF Init, ManagerInit, NoMembers
  <2> QED
    BY <2>1 DEF Occurrences
<1>2. CurrentChannelExists /\ RightsEndWithChannel /\ SubscriberKnows
  BY DEF Init, ManagerInit, CurrentChannelExists, RightsEndWithChannel,
         SubscriberKnows
<1> QED
  BY <1>1, <1>2 DEF Accounts

\* The default channels are only ever added.
LEMMA DefaultsKeepChannels ==
    ASSUME ManagerTypeOK, NEW c \in Channels, Exists(c)
    PROVE  WithDefaults[c] = chType[c] /\ EnsuredDefaults[c] = chType[c]
BY DEF WithDefaults, EnsuredDefaults, Created, Exists, ManagerTypeOK

\* A step that adds channels, or invitations to those there are, and leaves
\* members and owners alone.
LEMMA AddingKeepsAccounts ==
    ASSUME ManagerTypeOK, Accounts,
           \A c \in Channels : Exists(c) => chType'[c] = chType[c],
           \A c \in Channels : invites'[c] = invites[c] \/ Exists(c),
           UNCHANGED <<members, current, owner, participants, view>>
    PROVE  Accounts'
<1>1. MembersAccounted'
  BY DEF Accounts, MembersAccounted, Occurrences
<1>2. CurrentChannelExists' /\ RightsEndWithChannel'
  BY DEF Accounts, CurrentChannelExists, RightsEndWithChannel, Exists,
         ManagerTypeOK
<1>3. SubscriberKnows'
  BY DEF Accounts, SubscriberKnows
<1> QED
  BY <1>1, <1>2, <1>3 DEF Accounts

LEMMA RequestKeepsAccounts ==
    ASSUME TypeOK, Accounts, NEW i \in Instances, ChannelRequest(i)
    PROVE  Accounts'
<1> USE DEF TypeOK
<1>0. /\ \A c \in PrivateIds : c \in Channels
      /\ chType \in [Channels -> {"absent", "user", "app", "private"}]
  BY DEF Channels, ManagerTypeOK
<1>1. CASE LeaveCurrent(i)
  BY <1>1, LeaveKeepsAccounts DEF LeaveCurrent
<1>2. ASSUME NEW c \in Channels, JoinUserChannel(i, c) PROVE Accounts'
  <2>1. \A d \in Channels : Exists(d) => EnsuredDefaults[d] # "absent"
    BY DefaultsKeepChannels DEF Exists
  <2> QED
    BY <1>2, <2>1, DefaultsType, JoinKeepsAccounts DEF JoinUserChannel
<1>3. ASSUME NEW c \in PrivateIds, CreatePrivate(i, c) PROVE Accounts'
  BY <1>0, <1>3, CreatePrivateKeepsAccounts DEF CreatePrivate
<1>4. ASSUME NEW c \in PrivateIds,
             \/ JoinPrivateAsOwner(i, c)
             \/ \E t \in Tokens : JoinPrivateWithToken(i, c, t)
      PROVE  Accounts'
  <2>1. \A d \in Channels : invites'[d] = invites[d] \/ Exists(d)
    BY <1>0, <1>4 DEF JoinPrivateAsOwner, JoinPrivateWithToken, ConsumeInvite,
                      Exists, ManagerTypeOK
  <2> QED
    BY <1>0, <1>4, <2>1, JoinKeepsAccounts
    DEF JoinPrivateAsOwner, JoinPrivateWithToken, Exists
<1>5. ASSUME NEW c \in PrivateIds, LeavePrivate(i, c) PROVE Accounts'
  BY <1>5, LeaveKeepsAccounts DEF LeavePrivate
<1>6. ASSUME NEW c \in PrivateIds, DisconnectPrivate(i, c) PROVE Accounts'
  BY <1>0, <1>6, DeleteKeepsAccounts DEF DisconnectPrivate
<1>7. ASSUME NEW c \in PrivateIds, NEW t \in Tokens,
             NEW who \in Instances \cup InstanceIds \cup {Anyone},
             CreateInvitation(i, c, t, who)
      PROVE  Accounts'
  <2>1. \A d \in Channels : invites'[d] = invites[d] \/ Exists(d)
    BY <1>0, <1>7 DEF CreateInvitation, CreateInvite, Exists, ManagerTypeOK
  <2> QED
    BY <1>7, <2>1, AddingKeepsAccounts DEF CreateInvitation
<1> QED
  BY <1>1, <1>2, <1>3, <1>4, <1>5, <1>6, <1>7 DEF ChannelRequest

LEMMA AgentKeepsAccounts ==
    ASSUME TypeOK, Accounts, AgentStep
    PROVE  Accounts'
<1> USE DEF TypeOK
<1>1. CASE GetUserChannels \/ ReportChannelsState
  BY <1>1, DefaultsKeepChannels, AddingKeepsAccounts
  DEF GetUserChannels, ReportChannelsState
<1>2. ASSUME NEW c \in Channels, AdminCreateChannel(c) PROVE Accounts'
  <2>1. \A d \in Channels : Exists(d) => chType'[d] = chType[d]
    BY <1>2 DEF AdminCreateChannel, Created, Exists, ManagerTypeOK
  <2> QED
    BY <1>2, <2>1, AddingKeepsAccounts DEF AdminCreateChannel
<1>3. ASSUME NEW c \in Channels, AdminDeleteChannel(c) PROVE Accounts'
  BY <1>3, DeleteKeepsAccounts DEF AdminDeleteChannel
<1>4. ASSUME NEW c \in Channels, NEW a \in Agents, RemoteListenerUpdate(c, a)
      PROVE  Accounts'
  BY <1>4, AddingKeepsAccounts DEF RemoteListenerUpdate
<1>5. ASSUME NEW c \in Channels, NEW i \in Instances, EmitChannelEvent(c, i)
      PROVE  Accounts'
  <2> USE <1>5 DEF EmitChannelEvent
  <2>1. MembersAccounted' /\ CurrentChannelExists' /\ RightsEndWithChannel'
    BY DEF Accounts, MembersAccounted, Occurrences, CurrentChannelExists,
           RightsEndWithChannel, Exists
  <2>2. SubscriberKnows'
    BY DEF Accounts, SubscriberKnows, ManagerTypeOK
  <2> QED
    BY <2>1, <2>2 DEF Accounts
<1> QED
  BY <1>1, <1>2, <1>3, <1>4, <1>5 DEF AgentStep

LEMMA NextAccounts == TypeOK /\ Accounts /\ [Next]_vars => Accounts'
<1> SUFFICES ASSUME TypeOK, Accounts, [Next]_vars PROVE Accounts'
  OBVIOUS
<1> USE DEF TypeOK
<1>1. CASE AgentStep
  BY <1>1, AgentKeepsAccounts
<1>2. ASSUME NEW i \in Instances, ChannelRequest(i) PROVE Accounts'
  BY <1>2, RequestKeepsAccounts
<1>3. ASSUME NEW i \in Instances, Connect(i) PROVE Accounts'
  BY <1>3, AddingKeepsAccounts DEF Connect, managerVars
<1>4. ASSUME NEW i \in Instances, CleanupInstance(i) PROVE Accounts'
  BY <1>4, LeaveKeepsAccounts DEF CleanupInstance
<1>5. ASSUME NEW c \in Channels, NEW type \in ContextTypes, NEW ctx \in Contexts,
             AdminBroadcast(c, type, ctx)
      PROVE  Accounts'
  BY <1>5, AddingKeepsAccounts DEF AdminBroadcast
<1>6. CASE UNCHANGED vars
  BY <1>6, AddingKeepsAccounts DEF vars, managerVars
<1> QED
  BY <1>1, <1>2, <1>3, <1>4, <1>5, <1>6 DEF Next

LEMMA NextRegistry == RegistryInv /\ [Next]_vars => RegistryInv'
BY NextType, NextAccounts DEF RegistryInv

\* The registry invariant: types, and the four parts of Accounts.
THEOREM RegistryInvariant == Spec => []RegistryInv
<1>1. Init => RegistryInv
  BY InitType, InitAccounts DEF RegistryInv
<1> QED
  BY <1>1, NextRegistry, PTL DEF Spec

\* The member lists and the instance -> channel map never drift apart.
THEOREM MembersStayAccounted == Spec => []MembersAccounted
BY RegistryInvariant, PTL DEF RegistryInv, Accounts

\* No instance is ever on a channel that is gone.
THEOREM NobodyOnDeletedChannel == Spec => []CurrentChannelExists
BY RegistryInvariant, PTL DEF RegistryInv, Accounts

\* A channel leaves no owner, guest or invitation to a later one of its id.
THEOREM RightsEnd == Spec => []RightsEndWithChannel
BY RegistryInvariant, PTL DEF RegistryInv, Accounts

\* The events let a subscriber follow the registry exactly, except for whom
\* the admin has made up an event about.
THEOREM EventsSuffice == Spec => []SubscriberKnows
BY RegistryInvariant, PTL DEF RegistryInv, Accounts

-----------------------------------------------------------------------------
(***************************************************************************)
(* The handlers implement ChannelMembership.                               *)
(***************************************************************************)
LEMMA MembershipInit == Init => Membership!Init
BY DEF Init, ManagerInit, Membership!Init, Exists

\* Adding channels and moving nobody.
LEMMA MembershipOpen ==
    ASSUME \A c \in Channels : Exists(c) => Exists(c)',
           UNCHANGED current
    PROVE  Membership!Open
BY DEF Membership!Open, Membership!Opened

LEMMA MembershipJoin ==
    ASSUME ManagerTypeOK, NEW i \in Instances, NEW c \in Channels,
           NEW types \in [Channels -> {"absent", "user", "app", "private"}],
           \A d \in Channels : Exists(d) => types[d] # "absent",
           JoinChannel(types, i, c)
    PROVE  Membership!Next
<1>1. \A d \in Channels : Exists(d) => Exists(d)'
  BY DEF JoinChannel, Exists
<1>2. Membership!Opened
  BY <1>1 DEF Membership!Opened
<1>3. Exists(c)' /\ current' = [current EXCEPT ![i] = c]
  BY DEF JoinChannel, Exists
<1>4. Membership!Join(i, c)
  BY <1>2, <1>3 DEF Membership!Join
<1> QED
  BY <1>4 DEF Membership!Next

LEMMA MembershipLeave ==
    ASSUME NEW i \in Instances, LeaveCurrentChannel(i)
    PROVE  Membership!Next
<1>1. Membership!Leave(i)
  BY DEF LeaveCurrentChannel, Membership!Leave, Exists
<1> QED
  BY <1>1 DEF Membership!Next

LEMMA MembershipClose ==
    ASSUME ManagerTypeOK, MembersAccounted, NEW c \in Channels,
           DeleteChannel(c) \/ DestroyPrivateChannel(c)
    PROVE  Membership!Next
<1>1. /\ ForgetChannel(c)
      /\ current' = [i \in Instances |->
                        IF current[i] = c THEN NoChannel ELSE current[i]]
      /\ Exists(c)
  BY SameRelease DEF DeleteChannel, DestroyPrivateChannel
<1>2. Membership!Close(c)
  BY <1>1 DEF Membership!Close, ForgetChannel, Exists, ManagerTypeOK
<1> QED
  BY <1>2 DEF Membership!Next

\* No request moves an instance other than the one that made it, except by
\* ending a channel, which releases those who are on it and nobody else.
THEOREM ImplementsMembership == Spec => KeepsMembership
<1>1. RegistryInv /\ [Next]_vars
        => [Membership!Next]_<<{c \in Channels : Exists(c)}, current>>
  <2> SUFFICES ASSUME RegistryInv, [Next]_vars
               PROVE  \/ Membership!Next
                      \/ UNCHANGED <<{c \in Channels : Exists(c)}, current>>
    OBVIOUS
  <2> USE DEF RegistryInv, Accounts, TypeOK
  <2>0. /\ \A c \in PrivateIds : c \in Channels
        /\ chType \in [Channels -> {"absent", "user", "app", "private"}]
    BY DEF Channels, ManagerTypeOK
  <2>1. CASE GetUserChannels \/ ReportChannelsState
    <3>1. Membership!Open
      BY <2>1, DefaultsKeepChannels, MembershipOpen
      DEF GetUserChannels, ReportChannelsState, Exists
    <3> QED
      BY <3>1 DEF Membership!Next
  <2>2. ASSUME NEW c \in Channels,
               AdminCreateChannel(c) \/ \E i \in Instances : CreatePrivate(i, c)
        PROVE  Membership!Next
    <3>1. /\ \A d \in Channels : Exists(d) => Exists(d)'
          /\ UNCHANGED current
      BY <2>2 DEF AdminCreateChannel, CreatePrivate, CreatePrivateChannel,
                  Created, Exists, ManagerTypeOK
    <3>2. Membership!Open
      BY <3>1, MembershipOpen
    <3> QED
      BY <3>2 DEF Membership!Next
  <2>3. ASSUME NEW c \in Channels,
               \/ AdminDeleteChannel(c)
               \/ \E i \in Instances : DisconnectPrivate(i, c)
        PROVE  Membership!Next
    BY <2>3, MembershipClose DEF AdminDeleteChannel, DisconnectPrivate
  <2>4. ASSUME NEW i \in Instances,
               \/ LeaveCurrent(i)
               \/ CleanupInstance(i)
               \/ \E c \in PrivateIds : LeavePrivate(i, c)
        PROVE  Membership!Next
    BY <2>4, MembershipLeave DEF LeaveCurrent, CleanupInstance, LeavePrivate
  <2>5. ASSUME NEW i \in Instances, NEW c \in Channels, JoinUserChannel(i, c)
        PROVE  Membership!Next
    <3>1. \A d \in Channels : Exists(d) => EnsuredDefaults[d] # "absent"
      BY DefaultsKeepChannels DEF Exists
    <3> QED
      BY <2>5, <3>1, DefaultsType, MembershipJoin DEF JoinUserChannel
  <2>6. ASSUME NEW i \in Instances, NEW c \in PrivateIds,
               \/ JoinPrivateAsOwner(i, c)
               \/ \E t \in Tokens : JoinPrivateWithToken(i, c, t)
        PROVE  Membership!Next
    BY <2>0, <2>6, MembershipJoin
    DEF JoinPrivateAsOwner, JoinPrivateWithToken, Exists
  <2>7. ASSUME \/ UNCHANGED vars
               \/ \E i \in Instances : Connect(i)
               \/ \E i \in Instances, c \in PrivateIds, t \in Tokens,
                     who \in Instances \cup InstanceIds \cup {Anyone} :
                       CreateInvitation(i, c, t, who)
               \/ \E c \in Channels, a \in Agents : RemoteListenerUpdate(c, a)
               \/ \E c \in Channels, i \in Instances : EmitChannelEvent(c, i)
               \/ \E c \in Channels, type \in ContextTypes, ctx \in Contexts :
                     AdminBroadcast(c, type, ctx)
        PROVE  UNCHANGED <<{c \in Channels : Exists(c)}, current>>
    <3>1. UNCHANGED <<chType, current>>
      BY <2>7 DEF vars, managerVars, Connect, CreateInvitation,
                  RemoteListenerUpdate, EmitChannelEvent, AdminBroadcast
    <3> QED
      BY <3>1 DEF Exists
  <2> QED
    BY <2>0, <2>1, <2>2, <2>3, <2>4, <2>5, <2>6, <2>7
    DEF Next, AgentStep, ChannelRequest
<1> QED
  BY <1>1, MembershipInit, RegistryInvariant, PTL
  DEF Spec, KeepsMembership, Membership!Spec

-----------------------------------------------------------------------------
(***************************************************************************)
(* Invitations to private channels: a token lets one instance in, once,    *)
(* and nothing but a token or owning the channel lets anyone in.           *)
(***************************************************************************)
NotUsed == <<NoChannel, NoInstance>>

(***************************************************************************)
(* A token in some channel's table was handed out and is in no other; one  *)
(* that let somebody in was handed out and is in no table.                 *)
(***************************************************************************)
TokensTracked ==
    /\ \A c \in Channels, t \in Tokens :
          invites[c][t] # NoToken => t \in everToken
    /\ \A c, d \in Channels, t \in Tokens :
          invites[c][t] # NoToken /\ invites[d][t] # NoToken => c = d
    /\ \A t \in Tokens :
          admitted[t] # NotUsed => /\ t \in everToken
                                   /\ \A c \in Channels : invites[c][t] = NoToken

\* The type of a channel is the one its id says.
TypeFromId == \A c \in Channels : chType[c] \in {"absent", TypeOfId(c)}

InvitationInv ==
    /\ RegistryInv
    /\ TokensTracked
    /\ TypeFromId
    /\ PrivateMeansInvited

-----------------------------------------------------------------------------
LEMMA InitInvitations == Init => InvitationInv
<1> SUFFICES ASSUME Init PROVE InvitationInv
  OBVIOUS
<1>1. RegistryInv
  BY InitType, InitAccounts DEF RegistryInv
<1>2. TokensTracked
  BY DEF Init, ManagerInit, NoInvites, TokensTracked, NotUsed
<1>3. TypeFromId
  BY DEF Init, ManagerInit, TypeFromId
<1>4. PrivateMeansInvited
  BY DEF Init, ManagerInit, PrivateMeansInvited, Channels
<1> QED
  BY <1>1, <1>2, <1>3, <1>4 DEF InvitationInv

\* Every step keeps the tables or empties one of them, except for two.
LEMMA Tables ==
    ASSUME RegistryInv, [Next]_vars
    PROVE  \/ /\ UNCHANGED <<everToken, admitted>>
              /\ \A c \in Channels :
                    invites'[c] = invites[c] \/ invites'[c] = NoInvites
           \/ \E i \in Instances, c \in PrivateIds, t \in Tokens :
                 \/ JoinPrivateWithToken(i, c, t)
                 \/ \E who \in Instances \cup InstanceIds \cup {Anyone} :
                       CreateInvitation(i, c, t, who)
<1> USE DEF RegistryInv, TypeOK
<1>1. ASSUME NEW c \in Channels,
             \/ AdminDeleteChannel(c)
             \/ \E i \in Instances : DisconnectPrivate(i, c)
      PROVE  /\ UNCHANGED <<everToken, admitted>>
             /\ \A d \in Channels :
                   invites'[d] = invites[d] \/ invites'[d] = NoInvites
  BY <1>1 DEF AdminDeleteChannel, DisconnectPrivate, DeleteChannel,
              DestroyPrivateChannel, ForgetChannel, handlerVars, ManagerTypeOK
<1>2. ASSUME NEW c \in Channels, NEW i \in Instances, CreatePrivate(i, c)
      PROVE  /\ UNCHANGED <<everToken, admitted>>
             /\ \A d \in Channels :
                   invites'[d] = invites[d] \/ invites'[d] = NoInvites
  BY <1>2 DEF CreatePrivate, CreatePrivateChannel, ManagerTypeOK
<1>3. ASSUME \/ UNCHANGED vars
             \/ GetUserChannels \/ ReportChannelsState
             \/ \E i \in Instances : \/ Connect(i)
                                     \/ LeaveCurrent(i)
                                     \/ CleanupInstance(i)
             \/ \E i \in Instances, c \in Channels :
                   \/ JoinUserChannel(i, c)
                   \/ JoinPrivateAsOwner(i, c)
                   \/ LeavePrivate(i, c)
             \/ \E c \in Channels : AdminCreateChannel(c)
             \/ \E c \in Channels, a \in Agents : RemoteListenerUpdate(c, a)
             \/ \E c \in Channels, i \in Instances : EmitChannelEvent(c, i)
             \/ \E c \in Channels, type \in ContextTypes, ctx \in Contexts :
                   AdminBroadcast(c, type, ctx)
      PROVE  UNCHANGED <<invites, everToken, admitted>>
  BY <1>3 DEF vars, managerVars, handlerVars, GetUserChannels,
              ReportChannelsState, Connect, LeaveCurrent, CleanupInstance,
              LeaveCurrentChannel, JoinUserChannel, JoinPrivateAsOwner,
              LeavePrivate, AdminCreateChannel, RemoteListenerUpdate,
              EmitChannelEvent, AdminBroadcast
<1>4. \A c \in PrivateIds : c \in Channels
  BY DEF Channels
<1> QED
  BY <1>1, <1>2, <1>3, <1>4 DEF Next, AgentStep, ChannelRequest

LEMMA NextTokens ==
    ASSUME RegistryInv, TokensTracked, [Next]_vars
    PROVE  TokensTracked'
<1> USE DEF RegistryInv, TypeOK
<1>1. ASSUME UNCHANGED <<everToken, admitted>>,
             \A c \in Channels :
                invites'[c] = invites[c] \/ invites'[c] = NoInvites
      PROVE  TokensTracked'
  <2>1. \A c \in Channels, t \in Tokens :
           invites'[c][t] = invites[c][t] \/ invites'[c][t] = NoToken
    BY <1>1 DEF NoInvites
  <2> QED
    BY <1>1, <2>1 DEF TokensTracked, NotUsed
<1>2. ASSUME NEW i \in Instances, NEW c \in PrivateIds, NEW t \in Tokens,
             JoinPrivateWithToken(i, c, t)
      PROVE  TokensTracked'
  <2>1. /\ c \in Channels
        /\ invites[c][t] # NoToken
    BY <1>2, Sentinels DEF JoinPrivateWithToken, Admits, Channels
  <2>2. invites' = [invites EXCEPT ![c] = [invites[c] EXCEPT ![t] = NoToken]]
    BY <1>2, <2>1 DEF JoinPrivateWithToken, ConsumeInvite, ManagerTypeOK
  <2>3. \A d \in Channels, u \in Tokens :
           invites'[d][u] = IF d = c /\ u = t THEN NoToken ELSE invites[d][u]
    BY <2>1, <2>2 DEF ManagerTypeOK
  <2>4. /\ everToken' = everToken
        /\ \A u \in Tokens : u # t => admitted'[u] = admitted[u]
    BY <1>2 DEF JoinPrivateWithToken
  <2> QED
    BY <2>1, <2>3, <2>4 DEF TokensTracked
<1>3. ASSUME NEW i \in Instances, NEW c \in PrivateIds, NEW t \in Tokens,
             NEW who \in Instances \cup InstanceIds \cup {Anyone},
             CreateInvitation(i, c, t, who)
      PROVE  TokensTracked'
  <2>1. /\ c \in Channels
        /\ t \notin everToken
        /\ everToken' = everToken \cup {t}
        /\ admitted' = admitted
    BY <1>3 DEF CreateInvitation, Channels
  <2>2. \A d \in Channels, u \in Tokens :
           invites'[d][u] = IF d = c /\ u = t THEN who ELSE invites[d][u]
    BY <1>3, <2>1 DEF CreateInvitation, CreateInvite, ManagerTypeOK
  <2> QED
    BY <2>1, <2>2 DEF TokensTracked, NotUsed
<1> QED
  BY <1>1, <1>2, <1>3, Tables

LEMMA NextTypeFromId ==
    ASSUME RegistryInv, TypeFromId, [Next]_vars
    PROVE  TypeFromId'
<1> USE DEF RegistryInv, TypeOK
<1>1. ASSUME NEW c \in Channels,
             \/ AdminDeleteChannel(c)
             \/ \E i \in Instances : DisconnectPrivate(i, c)
      PROVE  TypeFromId'
  BY <1>1 DEF AdminDeleteChannel, DisconnectPrivate, DeleteChannel,
              DestroyPrivateChannel, ForgetChannel, TypeFromId, ManagerTypeOK
<1>2. ASSUME NEW c \in PrivateIds, NEW i \in Instances, CreatePrivate(i, c)
      PROVE  TypeFromId'
  <2>1. TypeOfId(c) = "private"
    BY SeparateIds DEF TypeOfId
  <2> QED
    BY <1>2, <2>1 DEF CreatePrivate, CreatePrivateChannel, Created, TypeFromId,
                      ManagerTypeOK
<1>3. ASSUME NEW c \in Channels, AdminCreateChannel(c)
      PROVE  TypeFromId'
  BY <1>3 DEF AdminCreateChannel, Created, TypeFromId, ManagerTypeOK
<1>4. ASSUME chType' = WithDefaults \/ chType' = EnsuredDefaults
      PROVE  TypeFromId'
  <2>1. \A c \in DefaultUserIds : TypeOfId(c) = "user"
    BY DefaultsAreUserIds DEF TypeOfId
  <2>2. \A c \in Channels : WithDefaults[c] \in {"absent", TypeOfId(c)}
    BY <2>1 DEF WithDefaults, Created, TypeFromId, ManagerTypeOK
  <2> QED
    BY <1>4, <2>2 DEF EnsuredDefaults, TypeFromId
<1>5. ASSUME \/ GetUserChannels \/ ReportChannelsState
             \/ \E i \in Instances, c \in Channels : JoinUserChannel(i, c)
      PROVE  TypeFromId'
  BY <1>4, <1>5 DEF GetUserChannels, ReportChannelsState, JoinUserChannel,
                    JoinChannel
<1>6. ASSUME \/ UNCHANGED vars
             \/ \E i \in Instances : \/ Connect(i)
                                     \/ LeaveCurrent(i)
                                     \/ CleanupInstance(i)
                                     \/ \E c \in Channels : LeavePrivate(i, c)
             \/ \E i \in Instances, c \in Channels, t \in Tokens,
                   who \in Instances \cup InstanceIds \cup {Anyone} :
                     CreateInvitation(i, c, t, who)
             \/ \E c \in Channels, a \in Agents : RemoteListenerUpdate(c, a)
             \/ \E c \in Channels, i \in Instances : EmitChannelEvent(c, i)
             \/ \E c \in Channels, type \in ContextTypes, ctx \in Contexts :
                   AdminBroadcast(c, type, ctx)
      PROVE  chType' = chType
  BY <1>6 DEF vars, managerVars, Connect, LeaveCurrent, CleanupInstance,
              LeaveCurrentChannel, LeavePrivate, CreateInvitation,
              RemoteListenerUpdate, EmitChannelEvent, AdminBroadcast
<1>9. ASSUME NEW i \in Instances, NEW c \in Channels,
             \/ JoinPrivateAsOwner(i, c)
             \/ \E t \in Tokens : JoinPrivateWithToken(i, c, t)
      PROVE  chType' = chType
  BY <1>9 DEF JoinPrivateAsOwner, JoinPrivateWithToken, JoinChannel
<1>7. chType' = chType => TypeFromId'
  BY DEF TypeFromId
<1>8. \A c \in PrivateIds : c \in Channels
  BY DEF Channels
<1> QED
  BY <1>1, <1>2, <1>3, <1>5, <1>6, <1>7, <1>8, <1>9
  DEF Next, AgentStep, ChannelRequest

\* A step that puts nobody on a channel, and ends no ownership but with the
\* channel, leaves everyone on a private channel with a reason to be there.
LEMMA StayingIsInvited ==
    ASSUME PrivateMeansInvited,
           UNCHANGED admitted,
           \A c \in PrivateIds, i \in Instances :
              current'[i] = c /\ chType'[c] = "private" =>
                 /\ current[i] = c
                 /\ chType[c] = "private"
                 /\ owner'[c] = owner[c]
    PROVE  PrivateMeansInvited'
BY DEF PrivateMeansInvited

LEMMA NextInvited ==
    ASSUME InvitationInv, [Next]_vars
    PROVE  PrivateMeansInvited'
<1> USE DEF InvitationInv, RegistryInv, TypeOK
<1>0. \A c \in PrivateIds : c \in Channels
  BY DEF Channels
<1>1. ASSUME NEW c \in Channels,
             \/ AdminDeleteChannel(c)
             \/ \E i \in Instances : DisconnectPrivate(i, c)
      PROVE  PrivateMeansInvited'
  <2>1. DeleteChannel(c) \/ DestroyPrivateChannel(c)
    BY <1>1 DEF AdminDeleteChannel, DisconnectPrivate
  <2>2. /\ ForgetChannel(c)
        /\ current' = [i \in Instances |->
                          IF current[i] = c THEN NoChannel ELSE current[i]]
    BY <2>1, SameRelease DEF Accounts
  <2>3. UNCHANGED admitted
    BY <1>1 DEF AdminDeleteChannel, DisconnectPrivate, handlerVars
  <2> QED
    BY <1>0, <2>2, <2>3, Sentinels, StayingIsInvited
    DEF ForgetChannel, ManagerTypeOK
<1>2. ASSUME NEW c \in Channels,
             AdminCreateChannel(c) \/ \E i \in Instances : CreatePrivate(i, c)
      PROVE  PrivateMeansInvited'
  <2>1. \A i \in Instances : current[i] # c
    BY <1>2, Sentinels DEF AdminCreateChannel, CreatePrivate,
      CreatePrivateChannel, Accounts, CurrentChannelExists
  <2>2. \A d \in Channels : d # c => /\ chType'[d] = chType[d]
                                     /\ owner'[d] = owner[d]
    BY <1>2 DEF AdminCreateChannel, CreatePrivate, CreatePrivateChannel,
                Created, ManagerTypeOK
  <2>3. UNCHANGED <<current, admitted>>
    BY <1>2 DEF AdminCreateChannel, CreatePrivate, CreatePrivateChannel
  <2> QED
    BY <1>0, <2>1, <2>2, <2>3, StayingIsInvited
<1>3. ASSUME NEW i \in Instances, NEW c \in Channels, JoinUserChannel(i, c)
      PROVE  PrivateMeansInvited'
  <2>1. \A d \in PrivateIds :
           EnsuredDefaults[d] = chType[d] /\ chType[d] # "user"
    BY <1>0, DefaultsAreUserIds, SeparateIds
    DEF EnsuredDefaults, WithDefaults, Created, TypeFromId, TypeOfId,
        ManagerTypeOK
  <2>2. /\ c \notin PrivateIds
        /\ \A d \in PrivateIds : chType'[d] = chType[d]
    BY <1>3, <2>1 DEF JoinUserChannel, JoinChannel
  <2>3. /\ UNCHANGED <<owner, admitted>>
        /\ current' = [current EXCEPT ![i] = c]
    BY <1>3 DEF JoinUserChannel, JoinChannel
  <2> QED
    BY <2>2, <2>3, StayingIsInvited DEF ManagerTypeOK
<1>4. ASSUME NEW i \in Instances, NEW c \in PrivateIds,
             JoinPrivateAsOwner(i, c)
      PROVE  PrivateMeansInvited'
  BY <1>4 DEF JoinPrivateAsOwner, JoinChannel, handlerVars,
              PrivateMeansInvited, ManagerTypeOK
<1>5. ASSUME NEW i \in Instances, NEW c \in PrivateIds, NEW t \in Tokens,
             JoinPrivateWithToken(i, c, t)
      PROVE  PrivateMeansInvited'
  <2>1. admitted[t] = NotUsed
    BY <1>0, <1>5, Sentinels DEF JoinPrivateWithToken, Admits, TokensTracked
  <2>2. \A d \in PrivateIds, j \in Instances : admitted[t] # <<d, j>>
    BY <2>1, <1>0, Sentinels DEF NotUsed
  <2>3. /\ UNCHANGED <<owner, chType>>
        /\ current' = [current EXCEPT ![i] = c]
        /\ admitted' = [admitted EXCEPT ![t] = <<c, i>>]
    BY <1>5 DEF JoinPrivateWithToken, JoinChannel
  <2> SUFFICES ASSUME NEW j \in Instances, NEW d \in PrivateIds,
                      current'[j] = d, chType'[d] = "private", owner'[d] # j
               PROVE  \E u \in Tokens : admitted'[u] = <<d, j>>
    BY DEF PrivateMeansInvited
  <2>4. CASE j = i
    BY <2>3, <2>4 DEF ManagerTypeOK
  <2>5. CASE j # i
    <3>1. PICK u \in Tokens : admitted[u] = <<d, j>>
      BY <2>3, <2>5 DEF PrivateMeansInvited, ManagerTypeOK
    <3>2. u # t
      BY <2>2, <3>1
    <3> QED
      BY <2>3, <3>1, <3>2
  <2> QED
    BY <2>4, <2>5
<1>6. ASSUME NEW i \in Instances,
             \/ LeaveCurrent(i)
             \/ CleanupInstance(i)
             \/ \E c \in PrivateIds : LeavePrivate(i, c)
      PROVE  PrivateMeansInvited'
  <2>1. /\ UNCHANGED <<chType, owner, admitted>>
        /\ current' = [current EXCEPT ![i] = NoChannel]
    BY <1>6 DEF LeaveCurrent, CleanupInstance, LeavePrivate,
                LeaveCurrentChannel, handlerVars
  <2> QED
    BY <1>0, <2>1, Sentinels, StayingIsInvited DEF ManagerTypeOK
<1>7. ASSUME GetUserChannels \/ ReportChannelsState
      PROVE  PrivateMeansInvited'
  <2>1. \A d \in PrivateIds : chType'[d] = chType[d]
    BY <1>0, <1>7, DefaultsAreUserIds, SeparateIds
    DEF GetUserChannels, ReportChannelsState, EnsuredDefaults, WithDefaults,
        Created, ManagerTypeOK
  <2>2. UNCHANGED <<current, owner, admitted>>
    BY <1>7 DEF GetUserChannels, ReportChannelsState, handlerVars
  <2> QED
    BY <2>1, <2>2, StayingIsInvited
<1>8. ASSUME \/ UNCHANGED vars
             \/ \E i \in Instances : Connect(i)
             \/ \E i \in Instances, c \in PrivateIds, t \in Tokens,
                   who \in Instances \cup InstanceIds \cup {Anyone} :
                     CreateInvitation(i, c, t, who)
             \/ \E c \in Channels, a \in Agents : RemoteListenerUpdate(c, a)
             \/ \E c \in Channels, i \in Instances : EmitChannelEvent(c, i)
             \/ \E c \in Channels, type \in ContextTypes, ctx \in Contexts :
                   AdminBroadcast(c, type, ctx)
      PROVE  PrivateMeansInvited'
  <2>1. UNCHANGED <<chType, current, owner, admitted>>
    BY <1>8 DEF vars, managerVars, handlerVars, Connect, CreateInvitation,
                RemoteListenerUpdate, EmitChannelEvent, AdminBroadcast
  <2> QED
    BY <2>1, StayingIsInvited
<1> QED
  BY <1>0, <1>1, <1>2, <1>3, <1>4, <1>5, <1>6, <1>7, <1>8
  DEF Next, AgentStep, ChannelRequest

-----------------------------------------------------------------------------

\* Tokens are tracked, ids have one kind of channel, and whoever is on a
\* private channel was let in: inductive together, over the registry.
THEOREM InvitationInvariant == Spec => []InvitationInv
<1>1. InvitationInv /\ [Next]_vars => InvitationInv'
  BY NextRegistry, NextTokens, NextTypeFromId, NextInvited DEF InvitationInv
<1> QED
  BY <1>1, InitInvitations, PTL DEF Spec

\* Whoever is on a private channel owns it or spent a token of it.
THEOREM OnlyInvitedOnPrivate == Spec => []PrivateMeansInvited
BY InvitationInvariant, PTL DEF InvitationInv

\* A token that let an instance in never lets another one in.
THEOREM TokensAdmitOnce == Spec => TokenAdmitsOnce
<1>1. ASSUME InvitationInv, [Next]_vars,
             NEW t \in Tokens, admitted[t] # NotUsed
      PROVE  /\ admitted'[t] = admitted[t]
             /\ \A c \in Channels : invites'[c][t] = NoToken
  <2>1. /\ t \in everToken
        /\ \A c \in Channels : invites[c][t] = NoToken
    BY <1>1 DEF InvitationInv, TokensTracked
  <2>2. ASSUME UNCHANGED <<everToken, admitted>>,
               \A c \in Channels :
                  invites'[c] = invites[c] \/ invites'[c] = NoInvites
        PROVE  /\ admitted'[t] = admitted[t]
               /\ \A c \in Channels : invites'[c][t] = NoToken
    BY <2>1, <2>2 DEF NoInvites
  <2>3. ASSUME NEW i \in Instances, NEW c \in PrivateIds, NEW u \in Tokens,
               \/ JoinPrivateWithToken(i, c, u)
               \/ \E who \in Instances \cup InstanceIds \cup {Anyone} :
                     CreateInvitation(i, c, u, who)
        PROVE  admitted'[t] = admitted[t]
    <3>1. CASE JoinPrivateWithToken(i, c, u)
      <4>1. u # t
        BY <2>1, <3>1, Sentinels DEF JoinPrivateWithToken, Admits, Channels
      <4> QED
        BY <3>1, <4>1 DEF JoinPrivateWithToken
    <3>2. ASSUME NEW who \in Instances \cup InstanceIds \cup {Anyone},
                 CreateInvitation(i, c, u, who)
          PROVE  admitted'[t] = admitted[t]
      BY <3>2 DEF CreateInvitation
    <3> QED
      BY <2>3, <3>1, <3>2
  <2>4. TokensTracked'
    BY <1>1, NextTokens DEF InvitationInv
  <2>5. CASE admitted'[t] = admitted[t]
    BY <1>1, <2>4, <2>5 DEF TokensTracked
  <2> QED
    BY <1>1, <2>2, <2>3, <2>5, Tables DEF InvitationInv
<1>2. InvitationInv /\ [Next]_vars
        => [\A t \in Tokens :
              admitted[t] # <<NoChannel, NoInstance>> =>
                 /\ admitted'[t] = admitted[t]
                 /\ \A c \in Channels : invites'[c][t] = NoToken]_vars
  BY <1>1 DEF NotUsed
<1> QED
  BY <1>2, InvitationInvariant, PTL DEF Spec, TokenAdmitsOnce

-----------------------------------------------------------------------------
(***************************************************************************)
(* Broadcasts and context listeners: the invariant of RoutingSpec.         *)
(***************************************************************************)

\* A handler that waits is that of a session (or of the bridge) and knows
\* what it has to do: a broadcast is the actor's own; on announcing, the
\* instance is on a channel.
HandlersFit ==
    \A a \in Actors :
        \/ loop[a] = Idle
        \/ /\ loop[a].at = "forwarding"
           /\ loop[a].type \in ContextTypes
           /\ loop[a].context \in 1..sent
           /\ source[loop[a].context] = a
        \/ /\ loop[a].at = "sending"
           /\ loop[a].context \in Contexts
        \/ /\ loop[a].at = "announcing"
           /\ a \in connected
           /\ loop[a].channel \in Channels
           /\ loop[a].type \in ContextTypes \cup {AnyType}

\* What a channel stores: a broadcast that was made, or a context under its
\* own type.
ContextsFit ==
    \A c \in Channels, type \in ContextTypes :
        \/ contexts[c][type] \in 1..sent
        \/ contexts[c][type] = NoContext
        \/ /\ contexts[c][type] \in OtherContexts
           /\ type = TypeOf[contexts[c][type]]

\* The audience of a context consists of live sessions.
AudienceIsConnected == \A n \in Contexts : audience[n] \subseteq connected

\* NoMissedContext, with the announcement that is meant: the one of a
\* listener for the same type on the same channel.
Found(l) == ChannelContext(listeners[l].channel, listeners[l].type)

Told(l, n) ==
    LET i == listeners[l].instance
    IN  \/ n \in received[i]
        \/ Underway(n, i)
        \/ /\ loop[i].at = "announcing"
           /\ loop[i].channel = listeners[l].channel
           /\ loop[i].type = listeners[l].type

NothingMissed ==
    \A l \in Registered :
        Found(l) \in Broadcasts /\ source[Found(l)] # listeners[l].instance
            => Told(l, Found(l))

RoutingInv ==
    /\ RoutingTypeOK
    /\ Accounts
    /\ NoListenerOfEndedSession
    /\ HandlersFit
    /\ ContextsFit
    /\ AudienceIsConnected
    /\ AudienceServed
    /\ NothingMissed

-----------------------------------------------------------------------------
(***************************************************************************)
(* Facts about the state and about steps that every action needs.          *)
(***************************************************************************)
LEMMA Apart ==
    /\ NoContext \notin Broadcasts
    /\ NoContext \notin OtherContexts
    /\ \A ctx \in OtherContexts : /\ ctx \in Contexts
                                  /\ ctx \notin Broadcasts
                                  /\ TypeOf[ctx] \in ContextTypes
    /\ NoChannel \notin Channels
BY Sentinels, BroadcastsAreContexts, ContextsHaveTypes DEF OtherContexts

LEMMA ListenersFit ==
    ASSUME RoutingTypeOK, NEW l \in Registered
    PROVE  /\ l \in ListenerUuids
           /\ listeners[l].instance \in Instances
           /\ listeners[l].type \in ContextTypes \cup {AnyType}
           /\ listeners[l].channel \in Channels \cup {NoChannel}
BY DEF RoutingTypeOK, Registered

\* A channel, or none, hands out what it stores.
LEMMA ChannelContextFits ==
    ASSUME RoutingTypeOK, ContextsFit, NEW c \in Channels \cup {NoChannel},
           NEW type \in ContextTypes \cup {AnyType}
    PROVE  /\ ChannelContext(c, type) \in Contexts \cup {NoContext}
           /\ ChannelContext(c, type) \in Broadcasts
                => ChannelContext(c, type) \in 1..sent
<1>1. \A d \in Channels, t \in ContextTypes :
         contexts[d][t] \in Contexts \cup {NoContext}
  BY DEF RoutingTypeOK, TypeOK, ManagerTypeOK
<1>2. \A d \in Channels : lastContext[d] \in ContextTypes \cup {NoContext}
  BY DEF RoutingTypeOK, TypeOK, ManagerTypeOK
<1>3. \A d \in Channels, t \in ContextTypes :
         contexts[d][t] \in Broadcasts => contexts[d][t] \in 1..sent
  BY Apart DEF ContextsFit
<1> QED
  BY <1>1, <1>2, <1>3, Apart DEF ChannelContext

\* What is on its way stays so while the handlers that send are left alone.
LEMMA UnderwayKept ==
    ASSUME NEW n, NEW i, Underway(n, i),
           \A a \in Actors : loop[a].at = "sending" => loop'[a] = loop[a]
    PROVE  Underway(n, i)'
BY DEF Underway

\* To show that no listener misses what it finds after a step.
LEMMA MissingNothing ==
    ASSUME UNCHANGED listeners,
           \A l \in Registered, n \in Broadcasts :
              n = Found(l)' /\ source'[n] # listeners[l].instance
                 => Told(l, n)'
    PROVE  NothingMissed'
BY DEF NothingMissed, Registered, Told, Underway

\* A step that stores no other broadcast where a listener looks, and that
\* takes from no listener what it was told.
LEMMA MissingKept ==
    ASSUME NothingMissed, UNCHANGED listeners,
           \A l \in Registered, n \in Broadcasts :
              n = Found(l)' => n = Found(l) /\ source'[n] = source[n],
           \A l \in Registered, n \in Broadcasts : Told(l, n) => Told(l, n)'
    PROVE  NothingMissed'
BY MissingNothing DEF NothingMissed

\* A step that changes of the registry at most the contexts, if those keep
\* their types.
LEMMA ContextsOnly ==
    ASSUME TypeOK, Accounts,
           UNCHANGED <<chType, members, current, owner, participants, invites,
                       remoteListeners, view, handlerVars>>,
           contexts' \in [Channels -> [ContextTypes -> Contexts \cup {NoContext}]],
           lastContext' \in [Channels -> ContextTypes \cup {NoContext}]
    PROVE  TypeOK' /\ Accounts'
<1>1. TypeOK'
  BY DEF TypeOK, ManagerTypeOK, handlerVars
<1>2. Accounts'
  BY AddingKeepsAccounts DEF TypeOK
<1> QED
  BY <1>1, <1>2

LEMMA RegistryAlone ==
    ASSUME TypeOK, Accounts, UNCHANGED vars
    PROVE  TypeOK' /\ Accounts'
BY NextType, NextAccounts

\* Storing one context.
LEMMA StoringFits ==
    ASSUME TypeOK, NEW c \in Channels, NEW type \in ContextTypes,
           NEW ctx \in Contexts, SetChannelContext(c, type, ctx)
    PROVE  /\ contexts' \in [Channels ->
                               [ContextTypes -> Contexts \cup {NoContext}]]
           /\ lastContext' \in [Channels -> ContextTypes \cup {NoContext}]
           /\ \A d \in Channels, t \in ContextTypes :
                 contexts'[d][t] = IF d = c /\ t = type THEN ctx
                                   ELSE contexts[d][t]
           /\ \A d \in Channels :
                 lastContext'[d] = IF d = c THEN type ELSE lastContext[d]
<1>1. /\ contexts \in [Channels ->
                         [ContextTypes -> Contexts \cup {NoContext}]]
      /\ lastContext \in [Channels -> ContextTypes \cup {NoContext}]
  BY DEF TypeOK, ManagerTypeOK
<1>2. [contexts[c] EXCEPT ![type] = ctx]
         \in [ContextTypes -> Contexts \cup {NoContext}]
  BY <1>1
<1>3. contexts' = [contexts EXCEPT ![c] = [contexts[c] EXCEPT ![type] = ctx]]
  BY <1>1 DEF SetChannelContext
<1> QED
  BY <1>1, <1>2, <1>3 DEF SetChannelContext

\* Then a listener finds what it found before, or that context.
LEMMA StoringShows ==
    ASSUME TypeOK, NEW c \in Channels, NEW type \in ContextTypes,
           NEW ctx \in Contexts, SetChannelContext(c, type, ctx),
           NEW d \in Channels \cup {NoChannel},
           NEW t \in ContextTypes \cup {AnyType}
    PROVE  \/ ChannelContext(d, t)' = ChannelContext(d, t)
           \/ ChannelContext(d, t)' = ctx /\ d = c /\ t \in {type, AnyType}
<1>1. \A e \in Channels : lastContext[e] \in ContextTypes \cup {NoContext}
  BY DEF TypeOK, ManagerTypeOK
<1>2. /\ \A e \in Channels, u \in ContextTypes :
            contexts'[e][u] = IF e = c /\ u = type THEN ctx ELSE contexts[e][u]
      /\ \A e \in Channels :
            lastContext'[e] = IF e = c THEN type ELSE lastContext[e]
  BY StoringFits
<1>3. CASE d = NoChannel
  BY <1>3 DEF ChannelContext
<1>4. CASE d \in Channels /\ d # c
  BY <1>1, <1>2, <1>4 DEF ChannelContext
<1>5. CASE d = c /\ t = AnyType
  BY <1>2, <1>5, Apart, Sentinels DEF ChannelContext
<1>6. CASE d = c /\ t # AnyType
  BY <1>2, <1>6, Apart DEF ChannelContext
<1> QED
  BY <1>3, <1>4, <1>5, <1>6

-----------------------------------------------------------------------------
(***************************************************************************)
(* The requests and events that change channels.                           *)
(***************************************************************************)

\* To the contexts of a channel they do nothing, or they empty them.
ContextsKeptOrEmptied ==
    \A c \in Channels :
        \/ contexts'[c] = contexts[c] /\ lastContext'[c] = lastContext[c]
        \/ contexts'[c] = NoContexts /\ lastContext'[c] = NoContext

LEMMA ForgettingEmpties ==
    ASSUME ManagerTypeOK, NEW c \in Channels, ForgetChannel(c)
    PROVE  ContextsKeptOrEmptied
BY DEF ForgetChannel, ManagerTypeOK, ContextsKeptOrEmptied

LEMMA RequestEffects ==
    ASSUME TypeOK, NEW i \in Instances, ChannelRequest(i)
    PROVE  ContextsKeptOrEmptied /\ UNCHANGED connected
<1>1. CASE \/ LeaveCurrent(i)
           \/ \E c \in PrivateIds : LeavePrivate(i, c)
  BY <1>1 DEF LeaveCurrent, LeavePrivate, LeaveCurrentChannel, handlerVars,
              ContextsKeptOrEmptied
<1>2. CASE \/ \E c \in Channels : JoinUserChannel(i, c)
           \/ \E c \in PrivateIds : JoinPrivateAsOwner(i, c)
           \/ \E c \in PrivateIds, t \in Tokens : JoinPrivateWithToken(i, c, t)
  BY <1>2 DEF JoinUserChannel, JoinPrivateAsOwner, JoinPrivateWithToken,
              JoinChannel, handlerVars, ContextsKeptOrEmptied
<1>3. CASE \/ \E c \in PrivateIds : CreatePrivate(i, c)
           \/ \E c \in PrivateIds, t \in Tokens,
                 who \in Instances \cup InstanceIds \cup {Anyone} :
                   CreateInvitation(i, c, t, who)
  BY <1>3 DEF CreatePrivate, CreatePrivateChannel, CreateInvitation,
              ContextsKeptOrEmptied
<1>4. ASSUME NEW c \in PrivateIds, DisconnectPrivate(i, c)
      PROVE  ContextsKeptOrEmptied /\ UNCHANGED connected
  BY <1>4, ForgettingEmpties DEF DisconnectPrivate, DestroyPrivateChannel,
                                 handlerVars, Channels, TypeOK
<1> QED
  BY <1>1, <1>2, <1>3, <1>4 DEF ChannelRequest

LEMMA AgentEffects ==
    ASSUME TypeOK, AgentStep
    PROVE  ContextsKeptOrEmptied /\ UNCHANGED connected
<1>1. CASE GetUserChannels \/ ReportChannelsState
  BY <1>1 DEF GetUserChannels, ReportChannelsState, handlerVars,
              ContextsKeptOrEmptied
<1>2. CASE \/ \E c \in Channels : AdminCreateChannel(c)
           \/ \E c \in Channels, a \in Agents : RemoteListenerUpdate(c, a)
           \/ \E c \in Channels, i \in Instances : EmitChannelEvent(c, i)
  BY <1>2 DEF AdminCreateChannel, RemoteListenerUpdate, EmitChannelEvent,
              handlerVars, ContextsKeptOrEmptied
<1>3. ASSUME NEW c \in Channels, AdminDeleteChannel(c)
      PROVE  ContextsKeptOrEmptied /\ UNCHANGED connected
  BY <1>3, ForgettingEmpties
  DEF AdminDeleteChannel, DeleteChannel, handlerVars, TypeOK
<1> QED
  BY <1>1, <1>2, <1>3 DEF AgentStep

\* Types and accounts are kept; no session ends; contexts at most go.
LEMMA ChannelStepEffects ==
    ASSUME TypeOK, Accounts, ChannelStep
    PROVE  /\ TypeOK' /\ Accounts'
           /\ ContextsKeptOrEmptied
           /\ connected \subseteq connected'
           /\ UNCHANGED routingVars
<1>1. CASE AgentStep
  BY <1>1, AgentType, AgentKeepsAccounts, AgentEffects DEF ChannelStep
<1>2. ASSUME NEW i \in Instances, ChannelRequest(i)
      PROVE  TypeOK' /\ Accounts' /\ ContextsKeptOrEmptied
             /\ connected \subseteq connected'
  BY <1>2, RequestType, RequestKeepsAccounts, RequestEffects
<1>3. ASSUME NEW i \in Instances, Connect(i)
      PROVE  TypeOK' /\ Accounts' /\ ContextsKeptOrEmptied
             /\ connected \subseteq connected'
  <2>1. Next
    BY <1>3 DEF Next
  <2> QED
    BY <1>3, <2>1, NextType, NextAccounts
    DEF Connect, managerVars, ContextsKeptOrEmptied
<1> QED
  BY <1>1, <1>2, <1>3 DEF ChannelStep

\* A listener finds what it found before, or nothing.
LEMMA EmptyingShows ==
    ASSUME RoutingTypeOK, ContextsKeptOrEmptied, NEW c \in Channels \cup {NoChannel},
           NEW type \in ContextTypes \cup {AnyType}
    PROVE  ChannelContext(c, type)' \in {ChannelContext(c, type), NoContext}
<1>1. CASE c = NoChannel
  BY <1>1 DEF ChannelContext
<1>2. CASE c \in Channels /\ contexts'[c] = contexts[c]
           /\ lastContext'[c] = lastContext[c]
  BY <1>2 DEF ChannelContext
<1>3. CASE c \in Channels /\ contexts'[c] = NoContexts
           /\ lastContext'[c] = NoContext
  BY <1>3 DEF ChannelContext, NoContexts
<1> QED
  BY <1>1, <1>2, <1>3 DEF ContextsKeptOrEmptied

\* What is stored still fits when no broadcast is forgotten.
LEMMA EmptyingFits ==
    ASSUME ContextsFit, ContextsKeptOrEmptied, UNCHANGED sent
    PROVE  ContextsFit'
<1> SUFFICES ASSUME NEW c \in Channels, NEW type \in ContextTypes
             PROVE  \/ contexts'[c][type] \in 1..sent
                    \/ contexts'[c][type] = NoContext
                    \/ /\ contexts'[c][type] \in OtherContexts
                       /\ type = TypeOf[contexts'[c][type]]
  BY DEF ContextsFit
<1>1. contexts'[c][type] \in {contexts[c][type], NoContext}
  BY DEF ContextsKeptOrEmptied, NoContexts
<1> QED
  BY <1>1 DEF ContextsFit

LEMMA ChannelStepKeepsRouting ==
    ASSUME RoutingInv, ChannelStep
    PROVE  RoutingInv'
<1>1. /\ TypeOK' /\ Accounts'
      /\ ContextsKeptOrEmptied
      /\ connected \subseteq connected'
      /\ UNCHANGED routingVars
  BY ChannelStepEffects DEF RoutingInv, RoutingTypeOK
<1>2. RoutingTypeOK'
  BY <1>1 DEF RoutingInv, RoutingTypeOK, routingVars
<1>3. NoListenerOfEndedSession' /\ AudienceIsConnected'
  BY <1>1 DEF RoutingInv, NoListenerOfEndedSession, AudienceIsConnected,
              Registered, routingVars
<1>4. HandlersFit'
  BY <1>1 DEF RoutingInv, HandlersFit, routingVars, Idle
<1>5. ContextsFit'
  BY <1>1, EmptyingFits DEF RoutingInv, routingVars
<1>6. AudienceServed'
  BY <1>1 DEF RoutingInv, AudienceServed, Underway, routingVars
<1>7. NothingMissed'
  <2>1. ASSUME NEW l \in Registered, NEW n \in Broadcasts, n = Found(l)'
        PROVE  n = Found(l)
    BY <1>1, <2>1, EmptyingShows, ListenersFit, Apart
    DEF RoutingInv, Found, ChannelContext, routingVars
  <2>2. \A l \in Registered, n \in Broadcasts : Told(l, n) => Told(l, n)'
    BY <1>1 DEF Told, Underway, routingVars
  <2> QED
    BY <1>1, <2>1, <2>2, MissingKept DEF RoutingInv, routingVars
<1> QED
  BY <1>1, <1>2, <1>3, <1>4, <1>5, <1>6, <1>7 DEF RoutingInv

-----------------------------------------------------------------------------
(***************************************************************************)
(* Contexts that no app broadcast.                                         *)
(***************************************************************************)

\* Storing a context of the admin or of another agent, under its type.
LEMMA StoringOtherFits ==
    ASSUME RoutingInv, NEW c \in Channels, NEW ctx \in OtherContexts,
           SetChannelContext(c, TypeOf[ctx], ctx),
           UNCHANGED <<chType, members, current, owner, participants, invites,
                       remoteListeners, view, handlerVars, sent>>
    PROVE  TypeOK' /\ Accounts' /\ ContextsFit'
<1>1. /\ contexts' \in [Channels -> [ContextTypes -> Contexts \cup {NoContext}]]
      /\ lastContext' \in [Channels -> ContextTypes \cup {NoContext}]
      /\ \A d \in Channels, t \in ContextTypes :
            contexts'[d][t] = IF d = c /\ t = TypeOf[ctx] THEN ctx
                              ELSE contexts[d][t]
  BY StoringFits, Apart DEF RoutingInv, RoutingTypeOK
<1>2. TypeOK' /\ Accounts'
  BY <1>1, ContextsOnly DEF RoutingInv, RoutingTypeOK
<1>3. ContextsFit'
  BY <1>1 DEF RoutingInv, ContextsFit
<1> QED
  BY <1>2, <1>3

\* It is no broadcast that a listener could have missed.
LEMMA StoringOtherMissesNothing ==
    ASSUME RoutingInv, NEW c \in Channels, NEW ctx \in OtherContexts,
           SetChannelContext(c, TypeOf[ctx], ctx),
           UNCHANGED <<listeners, source, received>>,
           \A a \in Actors : loop[a] # Idle => loop'[a] = loop[a]
    PROVE  NothingMissed'
<1>1. Idle.at = "idle"
  BY DEF Idle
<1>2. ASSUME NEW l \in Registered, NEW n \in Broadcasts, n = Found(l)'
      PROVE  n = Found(l)
  <2>1. PICK d \in Channels \cup {NoChannel}, t \in ContextTypes \cup {AnyType} :
                d = listeners[l].channel /\ t = listeners[l].type
    BY ListenersFit DEF RoutingInv
  <2>2. /\ TypeOK
        /\ TypeOf[ctx] \in ContextTypes
        /\ ctx \in Contexts
        /\ ctx \notin Broadcasts
    BY Apart DEF RoutingInv, RoutingTypeOK
  <2>3. ChannelContext(d, t)' \in {ChannelContext(d, t), ctx}
    BY <2>2, StoringShows
  <2>4. Found(l)' = ChannelContext(d, t)' /\ Found(l) = ChannelContext(d, t)
    BY <2>1 DEF Found, ChannelContext
  <2> QED
    BY <1>2, <2>2, <2>3, <2>4
<1>3. ASSUME NEW l \in Registered, NEW n \in Broadcasts, Told(l, n)
      PROVE  Told(l, n)'
  <2>1. Underway(n, listeners[l].instance)
           => Underway(n, listeners[l].instance)'
    BY <1>1, UnderwayKept
  <2>2. loop[listeners[l].instance].at = "announcing"
           => loop'[listeners[l].instance] = loop[listeners[l].instance]
    BY <1>1, ListenersFit DEF RoutingInv, Actors
  <2> QED
    BY <1>3, <2>1, <2>2 DEF Told, Underway
<1> QED
  BY <1>2, <1>3, MissingKept DEF RoutingInv

LEMMA AdminContextKeepsRouting ==
    ASSUME RoutingInv, AdminContext
    PROVE  RoutingInv'
<1> PICK c \in Channels, ctx \in OtherContexts :
            AdminBroadcast(c, TypeOf[ctx], ctx)
  BY DEF AdminContext
<1>1. /\ SetChannelContext(c, TypeOf[ctx], ctx)
      /\ UNCHANGED <<chType, members, current, owner, participants, invites,
                     remoteListeners, view, handlerVars>>
      /\ UNCHANGED routingVars
  BY DEF AdminBroadcast, AdminContext
<1>2. TypeOK' /\ Accounts' /\ ContextsFit'
  BY <1>1, StoringOtherFits DEF routingVars
<1>3. RoutingTypeOK'
  BY <1>1, <1>2 DEF RoutingInv, RoutingTypeOK, routingVars
<1>4. NoListenerOfEndedSession' /\ AudienceIsConnected'
  BY <1>1 DEF RoutingInv, NoListenerOfEndedSession, AudienceIsConnected,
              Registered, routingVars, handlerVars
<1>5. HandlersFit'
  BY <1>1 DEF RoutingInv, HandlersFit, routingVars, handlerVars, Idle
<1>6. AudienceServed'
  BY <1>1 DEF RoutingInv, AudienceServed, Underway, routingVars
<1>7. NothingMissed'
  BY <1>1, StoringOtherMissesNothing DEF routingVars
<1> QED
  BY <1>2, <1>3, <1>4, <1>5, <1>6, <1>7 DEF RoutingInv

\* Whom news reaches that is on the channel and listens is among the targets.
LEMMA NewsHasTargets ==
    ASSUME RoutingInv, NEW c \in Channels, NEW ctx \in OtherContexts,
           contexts[c][TypeOf[ctx]] # ctx,
           NEW l \in ListenersFor(TypeOf[ctx], c),
           current[listeners[l].instance] = c
    PROVE  /\ l \in ListenersForState(c, ctx)
           /\ Exists(c)
           /\ members[c][listeners[l].instance] > 0
<1>1. listeners[l].instance \in Instances
  BY ListenersFit DEF RoutingInv, ListenersFor
<1>2. Exists(c) /\ members[c][listeners[l].instance] > 0
  BY <1>1, Apart DEF RoutingInv, Accounts, CurrentChannelExists,
                     MembersAccounted, Occurrences
<1>3. ASSUME lastContext[c] # NoContext,
             contexts[c][lastContext[c]] = ctx
      PROVE  FALSE
  <2>1. lastContext[c] \in ContextTypes
    BY <1>3 DEF RoutingInv, RoutingTypeOK, TypeOK, ManagerTypeOK
  <2>2. ctx \notin 1..sent /\ ctx # NoContext
    <3>1. 1..sent \subseteq Broadcasts
      BY MaxBroadcastsIsNat DEF RoutingInv, RoutingTypeOK, Broadcasts
    <3> QED
      BY <3>1, Apart
  <2>3. lastContext[c] = TypeOf[ctx]
    BY <1>3, <2>1, <2>2 DEF RoutingInv, ContextsFit
  <2> QED
    BY <1>3, <2>3
<1> QED
  BY <1>2, <1>3 DEF ListenersForState

LEMMA ChannelsStateKeepsRouting ==
    ASSUME RoutingInv, NEW c \in Channels, NEW ctx \in OtherContexts,
           ApplyChannelsState(c, ctx)
    PROVE  RoutingInv'
<1> DEFINE type == TypeOf[ctx]
           known == Exists(c) \/ lastContext[c] # NoContext
           listening == {listeners[l].instance : l \in ListenersForState(c, ctx)}
           targets == {i \in listening : known /\ members[c][i] > 0}
           now == {i \in connected :
                      /\ contexts[c][type] # ctx
                      /\ current[i] = c
                      /\ \E l \in ListenersFor(type, c) :
                            listeners[l].instance = i}
<1>1. /\ loop[Bridge] = Idle
      /\ SetChannelContext(c, type, ctx)
      /\ loop' = IF targets = {} THEN loop
                 ELSE [loop EXCEPT ![Bridge] =
                          [at |-> "sending", channel |-> c, type |-> type,
                           context |-> ctx, targets |-> targets]]
      /\ audience' = [audience EXCEPT ![ctx] = @ \cup now]
      /\ UNCHANGED <<chType, members, current, owner, participants, invites,
                     remoteListeners, view, handlerVars, listeners, source,
                     sent, received>>
  BY DEF ApplyChannelsState
<1>2. /\ targets \subseteq Instances
      /\ now \subseteq targets
      /\ now \subseteq connected
  <2>1. listening \subseteq Instances
    BY ListenersFit DEF RoutingInv, ListenersForState, ListenersFor
  <2>2. \A l \in ListenersFor(type, c) :
           contexts[c][type] # ctx /\ current[listeners[l].instance] = c
              => listeners[l].instance \in targets
    BY NewsHasTargets
  <2> QED
    BY <2>1, <2>2
<1> HIDE DEF targets, now
<1>3. /\ type \in ContextTypes /\ ctx \in Contexts /\ Bridge \in Actors
      /\ connected \subseteq Instances
  BY Apart DEF Actors, RoutingInv, RoutingTypeOK, TypeOK
<1>4. /\ loop' \in [Actors ->
                      [at : {"idle", "forwarding", "sending", "announcing"},
                       channel : Channels \cup {NoChannel},
                       type : ContextTypes \cup {AnyType, NoContext},
                       context : Contexts \cup {NoContext},
                       targets : SUBSET Instances]]
      /\ \A a \in Actors : loop[a] # Idle => loop'[a] = loop[a]
      /\ \A a \in Actors \ {Bridge} : loop'[a] = loop[a]
      /\ targets # {} => /\ loop'[Bridge].at = "sending"
                         /\ loop'[Bridge].context = ctx
                         /\ loop'[Bridge].targets = targets
      /\ targets = {} => loop'[Bridge] = Idle
  BY <1>1, <1>2, <1>3 DEF RoutingInv, RoutingTypeOK
<1>5. TypeOK' /\ Accounts' /\ ContextsFit'
  BY <1>1, StoringOtherFits
<1>6. /\ audience' \in [Contexts -> SUBSET Instances]
      /\ \A n \in Contexts : audience'[n] = IF n = ctx THEN audience[n] \cup now
                                            ELSE audience[n]
  BY <1>1, <1>2, <1>3 DEF RoutingInv, RoutingTypeOK
<1>7. RoutingTypeOK'
  BY <1>1, <1>4, <1>5, <1>6 DEF RoutingInv, RoutingTypeOK
<1>8. NoListenerOfEndedSession' /\ AudienceIsConnected'
  BY <1>1, <1>2, <1>6 DEF RoutingInv, NoListenerOfEndedSession,
        AudienceIsConnected, Registered, handlerVars
<1>9. HandlersFit'
  <2> SUFFICES ASSUME NEW a \in Actors
               PROVE  \/ loop'[a] = Idle
                      \/ /\ loop'[a].at = "forwarding"
                         /\ loop'[a].type \in ContextTypes
                         /\ loop'[a].context \in 1..sent
                         /\ source[loop'[a].context] = a
                      \/ /\ loop'[a].at = "sending"
                         /\ loop'[a].context \in Contexts
                      \/ /\ loop'[a].at = "announcing"
                         /\ a \in connected
                         /\ loop'[a].channel \in Channels
                         /\ loop'[a].type \in ContextTypes \cup {AnyType}
    BY <1>1 DEF HandlersFit, Idle, handlerVars
  <2>1. CASE a = Bridge
    BY <1>3, <1>4, <2>1
  <2>2. CASE a # Bridge
    BY <1>4, <2>2 DEF RoutingInv, HandlersFit
  <2> QED
    BY <2>1, <2>2
<1>10. AudienceServed'
  <2> SUFFICES ASSUME NEW n \in Contexts, NEW i \in audience'[n]
               PROVE  n \in received[i] \/ Underway(n, i)'
    BY <1>1 DEF AudienceServed
  <2>1. CASE i \in audience[n]
    <3>1. n \in received[i] \/ Underway(n, i)
      BY <2>1 DEF RoutingInv, AudienceServed
    <3> QED
      BY <1>4, <3>1, UnderwayKept DEF Idle
  <2>2. CASE n = ctx /\ i \in now
    BY <1>2, <1>3, <1>4, <2>2 DEF Underway
  <2> QED
    BY <1>6, <2>1, <2>2
<1>11. NothingMissed'
  BY <1>1, <1>4, StoringOtherMissesNothing
<1> QED
  BY <1>5, <1>7, <1>8, <1>9, <1>10, <1>11 DEF RoutingInv

-----------------------------------------------------------------------------
(***************************************************************************)
(* Broadcasts of apps and of the bridge.                                   *)
(***************************************************************************)

\* The fields of a waiting handler, taken together.
Records ==
    [at : {"idle", "forwarding", "sending", "announcing"},
     channel : Channels \cup {NoChannel},
     type : ContextTypes \cup {AnyType, NoContext},
     context : Contexts \cup {NoContext},
     targets : SUBSET Instances]

\* The handlers other than that of one actor stay as they fit.
LEMMA OtherHandlersFit ==
    ASSUME RoutingInv, NEW a \in Actors, NEW h \in Records,
           loop' = [loop EXCEPT ![a] = h],
           sent' \in Nat, sent <= sent',
           \A n \in 1..sent : source'[n] = source[n],
           \A b \in Actors \ {a} : loop[b] # Idle /\ b \in connected
              => b \in connected',
           \/ h = Idle
           \/ /\ h.at = "forwarding"
              /\ h.type \in ContextTypes
              /\ h.context \in 1..sent'
              /\ source'[h.context] = a
           \/ h.at = "sending" /\ h.context \in Contexts
           \/ /\ h.at = "announcing"
              /\ a \in connected'
              /\ h.channel \in Channels
              /\ h.type \in ContextTypes \cup {AnyType}
    PROVE  loop' \in [Actors -> Records] /\ HandlersFit'
<1>1. loop \in [Actors -> Records]
  BY DEF RoutingInv, RoutingTypeOK, Records
<1>2. loop' \in [Actors -> Records] /\ loop'[a] = h
  BY <1>1
<1>3. HandlersFit'
  <2> SUFFICES ASSUME NEW b \in Actors
               PROVE  \/ loop'[b] = Idle
                      \/ /\ loop'[b].at = "forwarding"
                         /\ loop'[b].type \in ContextTypes
                         /\ loop'[b].context \in 1..sent'
                         /\ source'[loop'[b].context] = b
                      \/ /\ loop'[b].at = "sending"
                         /\ loop'[b].context \in Contexts
                      \/ /\ loop'[b].at = "announcing"
                         /\ b \in connected'
                         /\ loop'[b].channel \in Channels
                         /\ loop'[b].type \in ContextTypes \cup {AnyType}
    BY DEF HandlersFit, Idle
  <2>1. CASE b = a
    BY <1>2, <2>1
  <2>2. CASE b # a
    <3>1. loop'[b] = loop[b]
      BY <1>1, <2>2
    <3>2. sent \in Nat
      BY MaxBroadcastsIsNat DEF RoutingInv, RoutingTypeOK
    <3>3. \A n \in 1..sent : n \in 1..sent'
      BY <3>2
    <3> QED
      BY <2>2, <3>1, <3>3 DEF RoutingInv, HandlersFit
  <2> QED
    BY <2>1, <2>2
<1> QED
  BY <1>2, <1>3

LEMMA IdleFits == Idle \in Records /\ Idle.at = "idle"
BY DEF Idle, Records

\* A handler that neither sends nor announces may go on to anything.
LEMMA ToldKept ==
    ASSUME RoutingTypeOK, NEW a \in Actors, NEW h, loop' = [loop EXCEPT ![a] = h],
           loop[a].at \notin {"sending", "announcing"},
           UNCHANGED <<listeners, received>>
    PROVE  /\ \A l \in Registered, n \in Broadcasts : Told(l, n) => Told(l, n)'
           /\ \A n \in Contexts, i \in Instances :
                 Underway(n, i) => Underway(n, i)'
<1>1. \A b \in Actors :
         loop[b].at \in {"sending", "announcing"} => loop'[b] = loop[b]
  BY DEF RoutingTypeOK
<1>2. \A n, i : Underway(n, i) => Underway(n, i)'
  BY <1>1, UnderwayKept
<1>3. ASSUME NEW l \in Registered, NEW n \in Broadcasts, Told(l, n)
      PROVE  Told(l, n)'
  <2>1. listeners[l].instance \in Actors
    BY ListenersFit DEF Actors
  <2> QED
    BY <1>1, <1>2, <1>3, <2>1 DEF Told, Underway
<1> QED
  BY <1>2, <1>3

LEMMA StartKeepsRouting ==
    ASSUME RoutingInv, NEW a \in Actors, NEW c \in Channels \cup {NoChannel},
           NEW type \in ContextTypes, StartBroadcast(a, c, type)
    PROVE  RoutingInv'
<1> DEFINE h == [at |-> "forwarding", channel |-> c, type |-> type,
                 context |-> sent + 1, targets |-> {}]
<1>1. /\ loop[a] = Idle
      /\ sent < MaxBroadcasts
      /\ sent' = sent + 1
      /\ source' = [source EXCEPT ![sent + 1] = a]
      /\ loop' = [loop EXCEPT ![a] = h]
      /\ UNCHANGED <<vars, listeners, received, audience>>
  BY DEF StartBroadcast
<1>2. TypeOK' /\ Accounts' /\ connected' = connected
      /\ UNCHANGED <<contexts, lastContext>>
  BY <1>1, RegistryAlone DEF RoutingInv, RoutingTypeOK, vars, handlerVars,
                             managerVars
<1>3. sent \in Nat /\ sent + 1 \in Broadcasts
  BY <1>1, MaxBroadcastsIsNat DEF RoutingInv, RoutingTypeOK, Broadcasts
<1>4. /\ source' \in [Broadcasts -> Actors \cup {NoInstance}]
      /\ source'[sent + 1] = a
      /\ \A n \in 1..sent : source'[n] = source[n]
  BY <1>1, <1>3 DEF RoutingInv, RoutingTypeOK
<1>5. h \in Records /\ h.at = "forwarding" /\ h.type \in ContextTypes
      /\ h.context \in 1..sent' /\ source'[h.context] = a
  BY <1>1, <1>3, <1>4, BroadcastsAreContexts DEF Records
<1> HIDE DEF h
<1>6. loop' \in [Actors -> Records] /\ HandlersFit'
  <2>1. sent' \in Nat /\ sent <= sent'
    BY <1>1, <1>3
  <2>2. \A b \in Actors \ {a} : b \in connected => b \in connected'
    BY <1>2
  <2> QED
    BY <1>1, <1>4, <1>5, <2>1, <2>2, OtherHandlersFit
<1>7. RoutingTypeOK'
  BY <1>1, <1>2, <1>3, <1>4, <1>6 DEF RoutingInv, RoutingTypeOK, Records,
                                      Broadcasts
<1>8. NoListenerOfEndedSession' /\ AudienceIsConnected'
  BY <1>1, <1>2 DEF RoutingInv, NoListenerOfEndedSession, AudienceIsConnected,
                    Registered
<1>9. ContextsFit'
  <2>1. \A n \in 1..sent : n \in 1..sent'
    BY <1>1, <1>3
  <2> QED
    BY <1>2, <2>1 DEF RoutingInv, ContextsFit
<1>10. AudienceServed'
  <2>1. \A n \in Contexts, i \in Instances : Underway(n, i) => Underway(n, i)'
    BY <1>1, IdleFits, ToldKept DEF RoutingInv
  <2>2. \A n \in Contexts : audience[n] \subseteq Instances
    BY DEF RoutingInv, RoutingTypeOK
  <2> QED
    BY <1>1, <2>1, <2>2 DEF RoutingInv, AudienceServed
<1>11. NothingMissed'
  <2>1. ASSUME NEW l \in Registered, NEW n \in Broadcasts, n = Found(l)'
        PROVE  n = Found(l) /\ source'[n] = source[n]
    <3>1. n = Found(l)
      BY <1>1, <1>2, <2>1 DEF Found, ChannelContext
    <3>2. n \in 1..sent
      BY <3>1, ChannelContextFits, ListenersFit DEF RoutingInv, Found
    <3> QED
      BY <1>4, <3>1, <3>2
  <2>2. \A l \in Registered, n \in Broadcasts : Told(l, n) => Told(l, n)'
    BY <1>1, IdleFits, ToldKept DEF RoutingInv
  <2> QED
    BY <1>1, <2>1, <2>2, MissingKept DEF RoutingInv
<1> QED
  BY <1>2, <1>6, <1>7, <1>8, <1>9, <1>10, <1>11 DEF RoutingInv

\* Whoever is on the channel of a broadcast when it is routed is on the
\* member list that the router reads.
LEMMA OnChannelIsMember ==
    ASSUME ManagerTypeOK, Accounts, NEW i \in Instances, NEW c \in Channels,
           current[i] = c
    PROVE  members[c][i] > 0
BY DEF Accounts, MembersAccounted, Occurrences, ManagerTypeOK

LEMMA RouteKeepsRouting ==
    ASSUME RoutingInv, NEW a \in Actors, RouteBroadcast(a)
    PROVE  RoutingInv'
<1>1. PICK h, c, targets, on :
         /\ h = loop[a]
         /\ h.at = "forwarding"
         /\ c = IF h.channel = NoChannel /\ a # Bridge THEN current[a]
                ELSE h.channel
         /\ targets = ({listeners[l].instance : l \in ListenersFor(h.type, c)}
                        \cup (IF c = NoChannel THEN {}
                              ELSE {i \in Instances : members[c][i] > 0})) \ {a}
         /\ on = {i \in connected \ {a} : c # NoChannel /\ current[i] = c}
         /\ loop' = [loop EXCEPT ![a] =
                        IF targets = {} THEN Idle
                        ELSE [h EXCEPT !.at = "sending", !.targets = targets]]
         /\ audience' = [audience EXCEPT ![h.context] = on]
         /\ IF c = NoChannel
            THEN UNCHANGED <<contexts, lastContext>>
            ELSE SetChannelContext(c, h.type, h.context)
         /\ UNCHANGED <<chType, members, current, owner, participants, invites,
                        remoteListeners, view, handlerVars, listeners, source,
                        sent, received>>
  BY DEF RouteBroadcast
<1>2. /\ h \in Records
      /\ h.type \in ContextTypes
      /\ h.context \in 1..sent
      /\ source[h.context] = a
      /\ h # Idle
  BY <1>1, IdleFits DEF RoutingInv, RoutingTypeOK, HandlersFit, Records
<1>3. /\ 1..sent \subseteq Broadcasts
      /\ h.context \in Broadcasts
      /\ h.context \in Contexts
      /\ sent \in Nat
  <2>1. sent \in 0..MaxBroadcasts
    BY DEF RoutingInv, RoutingTypeOK
  <2>2. 1..sent \subseteq Broadcasts /\ sent \in Nat
    BY <2>1, MaxBroadcastsIsNat DEF Broadcasts
  <2> QED
    BY <1>2, <2>2, BroadcastsAreContexts
<1>4. c \in Channels \cup {NoChannel}
  BY <1>1, <1>2 DEF Records, Actors, RoutingInv, RoutingTypeOK, TypeOK,
                    ManagerTypeOK
<1>5. /\ targets \subseteq Instances
      /\ on \subseteq targets
      /\ on \subseteq connected
      /\ connected \subseteq Instances
  <2>1. connected \subseteq Instances
    BY DEF RoutingInv, RoutingTypeOK, TypeOK
  <2>2. \A l \in ListenersFor(h.type, c) : listeners[l].instance \in Instances
    BY ListenersFit DEF RoutingInv, ListenersFor
  <2>3. ASSUME NEW i \in on PROVE i \in targets
    BY <1>1, <1>4, <2>1, <2>3, OnChannelIsMember
    DEF RoutingInv, RoutingTypeOK, TypeOK
  <2> QED
    BY <1>1, <2>1, <2>2, <2>3
<1>6. PICK g \in Records :
         /\ loop' = [loop EXCEPT ![a] = g]
         /\ targets = {} => g = Idle
         /\ targets # {} => /\ g.at = "sending"
                            /\ g.context = h.context
                            /\ g.targets = targets
  <2>1. [h EXCEPT !.at = "sending", !.targets = targets] \in Records
    BY <1>2, <1>5 DEF Records
  <2>2. CASE targets = {}
    BY <1>1, <2>2, IdleFits
  <2>3. CASE targets # {}
    <3> DEFINE g == [h EXCEPT !.at = "sending", !.targets = targets]
    <3>1. g.at = "sending" /\ g.context = h.context /\ g.targets = targets
      BY <1>2 DEF Records
    <3>2. loop' = [loop EXCEPT ![a] = g]
      BY <1>1, <2>3
    <3> QED
      BY <2>1, <2>3, <3>1, <3>2
  <2> QED
    BY <2>2, <2>3
<1>7. /\ contexts' \in [Channels -> [ContextTypes -> Contexts \cup {NoContext}]]
      /\ lastContext' \in [Channels -> ContextTypes \cup {NoContext}]
      /\ \A d \in Channels, t \in ContextTypes :
            contexts'[d][t] \in {contexts[d][t], h.context}
  <2>1. CASE c = NoChannel
    BY <1>1, <2>1 DEF RoutingInv, RoutingTypeOK, TypeOK, ManagerTypeOK
  <2>2. CASE c # NoChannel
    BY <1>1, <1>2, <1>3, <1>4, <2>2, StoringFits DEF RoutingInv, RoutingTypeOK
  <2> QED
    BY <2>1, <2>2
<1>8. TypeOK' /\ Accounts'
  BY <1>1, <1>7, ContextsOnly DEF RoutingInv, RoutingTypeOK
<1>9. ContextsFit'
  BY <1>1, <1>2, <1>7 DEF RoutingInv, ContextsFit
<1>10. loop' \in [Actors -> Records] /\ HandlersFit'
  <2>1. sent' = sent /\ source' = source /\ connected' = connected
    BY <1>1 DEF handlerVars
  <2>2. g = Idle \/ (g.at = "sending" /\ g.context \in Contexts)
    BY <1>3, <1>6
  <2>3. sent' \in Nat /\ sent <= sent'
    BY <1>3, <2>1
  <2>4. /\ \A n \in 1..sent : source'[n] = source[n]
        /\ \A b \in Actors \ {a} : b \in connected => b \in connected'
    BY <2>1
  <2> QED
    BY <1>6, <2>2, <2>3, <2>4, OtherHandlersFit
<1>11. /\ audience' \in [Contexts -> SUBSET Instances]
       /\ \A n \in Contexts : audience'[n] = IF n = h.context THEN on
                                             ELSE audience[n]
  BY <1>1, <1>3, <1>5 DEF RoutingInv, RoutingTypeOK
<1>12. RoutingTypeOK'
  BY <1>1, <1>8, <1>10, <1>11 DEF RoutingInv, RoutingTypeOK, Records
<1>13. NoListenerOfEndedSession' /\ AudienceIsConnected'
  BY <1>1, <1>5, <1>11 DEF RoutingInv, NoListenerOfEndedSession,
        AudienceIsConnected, Registered, handlerVars
<1>14. /\ \A l \in Registered, n \in Broadcasts : Told(l, n) => Told(l, n)'
       /\ \A n \in Contexts, i \in Instances : Underway(n, i) => Underway(n, i)'
  BY <1>1, <1>6, ToldKept DEF RoutingInv
<1>15. \A i \in targets : Underway(h.context, i)'
  <2>1. targets # {} => loop'[a] = g
    BY <1>6 DEF RoutingInv, RoutingTypeOK
  <2> QED
    BY <1>6, <2>1 DEF Underway
<1>16. AudienceServed'
  <2> SUFFICES ASSUME NEW n \in Contexts, NEW i \in audience'[n]
               PROVE  n \in received[i] \/ Underway(n, i)'
    BY <1>1 DEF AudienceServed
  <2>1. CASE n = h.context
    BY <1>5, <1>11, <1>15, <2>1
  <2>2. CASE n # h.context
    BY <1>11, <1>14, <2>2 DEF RoutingInv, AudienceServed, RoutingTypeOK
  <2> QED
    BY <2>1, <2>2
<1>17. NothingMissed'
  <2> SUFFICES ASSUME NEW l \in Registered, NEW n \in Broadcasts,
                      n = Found(l)', source[n] # listeners[l].instance
               PROVE  Told(l, n)'
    BY <1>1, MissingNothing
  <2>1. PICK d \in Channels \cup {NoChannel}, t \in ContextTypes \cup {AnyType} :
           d = listeners[l].channel /\ t = listeners[l].type
    BY ListenersFit DEF RoutingInv
  <2>2. Found(l)' = ChannelContext(d, t)' /\ Found(l) = ChannelContext(d, t)
    BY <1>1, <2>1 DEF Found, ChannelContext
  <2>3. \/ n = Found(l)
        \/ n = h.context /\ d = c /\ c # NoChannel /\ t \in {h.type, AnyType}
    <3>1. CASE c = NoChannel
      <4>1. UNCHANGED <<contexts, lastContext>>
        BY <1>1, <3>1
      <4> QED
        BY <2>2, <4>1 DEF ChannelContext
    <3>2. CASE c # NoChannel
      <4>1. /\ SetChannelContext(c, h.type, h.context)
            /\ c \in Channels /\ h.type \in ContextTypes /\ h.context \in Contexts
            /\ TypeOK
        BY <1>1, <1>2, <1>3, <1>4, <3>2 DEF RoutingInv, RoutingTypeOK
      <4>2. \/ ChannelContext(d, t)' = ChannelContext(d, t)
            \/ ChannelContext(d, t)' = h.context /\ d = c /\ t \in {h.type, AnyType}
        BY <4>1, StoringShows
      <4> QED
        BY <2>2, <3>2, <4>2
    <3> QED
      BY <3>1, <3>2
  <2>4. CASE n = Found(l)
    BY <1>14, <2>4 DEF RoutingInv, NothingMissed
  <2>5. CASE n = h.context /\ d = c /\ c # NoChannel /\ t \in {h.type, AnyType}
    <3>1. l \in ListenersFor(h.type, c)
      BY <2>1, <2>5 DEF ListenersFor
    <3>2. PICK i \in targets : i = listeners[l].instance
      BY <1>1, <1>2, <2>5, <3>1
    <3>3. Underway(n, i)'
      BY <1>15, <2>5
    <3>4. listeners' = listeners
      BY <1>1
    <3> QED
      BY <3>2, <3>3, <3>4 DEF Told, Underway
  <2> QED
    BY <2>3, <2>4, <2>5
<1> QED
  BY <1>8, <1>9, <1>10, <1>12, <1>13, <1>16, <1>17 DEF RoutingInv

\* One send of the loop over the targets: whoever is in the audience is
\* connected, and so has received it when it is no longer a target.
LEMMA SendKeepsRouting ==
    ASSUME RoutingInv, NEW a \in Actors, NEW i \in Instances, SendBroadcast(a, i)
    PROVE  RoutingInv'
<1>1. PICK h, rest :
         /\ h = loop[a]
         /\ rest = h.targets \ {i}
         /\ h.at = "sending"
         /\ i \in h.targets
         /\ Deliver(i, h.context)
         /\ loop' = [loop EXCEPT ![a] =
                        IF rest = {} THEN Idle ELSE [h EXCEPT !.targets = rest]]
         /\ UNCHANGED <<vars, listeners, source, sent, audience>>
  BY DEF SendBroadcast, RoutingInv, RoutingTypeOK
<1>2. h \in Records /\ h.context \in Contexts /\ h # Idle
  BY <1>1, IdleFits DEF RoutingInv, RoutingTypeOK, HandlersFit, Records
<1>3. TypeOK' /\ Accounts' /\ connected' = connected
      /\ UNCHANGED <<contexts, lastContext>>
  BY <1>1, RegistryAlone DEF RoutingInv, RoutingTypeOK, vars, handlerVars,
                             managerVars
<1>4. PICK g \in Records :
         /\ loop' = [loop EXCEPT ![a] = g]
         /\ rest = {} => g = Idle
         /\ rest # {} => /\ g.at = "sending"
                         /\ g.context = h.context
                         /\ g.targets = rest
  <2>1. [h EXCEPT !.targets = rest] \in Records
    BY <1>1, <1>2 DEF Records
  <2>2. CASE rest = {}
    BY <1>1, <2>2, IdleFits
  <2>3. CASE rest # {}
    <3> DEFINE g == [h EXCEPT !.targets = rest]
    <3>1. g.at = "sending" /\ g.context = h.context /\ g.targets = rest
      BY <1>1, <1>2 DEF Records
    <3>2. loop' = [loop EXCEPT ![a] = g]
      BY <1>1, <2>3
    <3> QED
      BY <2>1, <2>3, <3>1, <3>2
  <2> QED
    BY <2>2, <2>3
<1>5. loop' \in [Actors -> Records] /\ HandlersFit'
  <2>1. sent' = sent /\ source' = source /\ sent \in Nat
    BY <1>1, MaxBroadcastsIsNat DEF RoutingInv, RoutingTypeOK
  <2>2. g = Idle \/ (g.at = "sending" /\ g.context \in Contexts)
    BY <1>2, <1>4
  <2>3. sent' \in Nat /\ sent <= sent'
    BY <2>1
  <2>4. /\ \A n \in 1..sent : source'[n] = source[n]
        /\ \A b \in Actors \ {a} : b \in connected => b \in connected'
    BY <1>3, <2>1
  <2> QED
    BY <1>4, <2>2, <2>3, <2>4, OtherHandlersFit
<1>6. /\ received' \in [Instances -> SUBSET Contexts]
      /\ \A j \in Instances : received[j] \subseteq received'[j]
      /\ i \in connected => h.context \in received'[i]
  BY <1>1, <1>2 DEF Deliver, RoutingInv, RoutingTypeOK
<1>7. RoutingTypeOK'
  BY <1>1, <1>3, <1>5, <1>6 DEF RoutingInv, RoutingTypeOK, Records
<1>8. NoListenerOfEndedSession' /\ AudienceIsConnected' /\ ContextsFit'
  BY <1>1, <1>3 DEF RoutingInv, NoListenerOfEndedSession, AudienceIsConnected,
                    ContextsFit, Registered
<1>9. ASSUME NEW n, NEW j \in connected, Underway(n, j)
      PROVE  n \in received'[j] \/ Underway(n, j)'
  <2>1. PICK b \in Actors : /\ loop[b].at = "sending"
                            /\ loop[b].context = n
                            /\ j \in loop[b].targets
    BY <1>9 DEF Underway
  <2>2. loop \in [Actors -> Records]
    BY DEF RoutingInv, RoutingTypeOK, Records
  <2>3. CASE b # a
    BY <1>4, <2>1, <2>2, <2>3 DEF Underway
  <2>4. CASE b = a /\ j = i
    BY <1>1, <1>6, <1>9, <2>1, <2>4
  <2>5. CASE b = a /\ j # i
    <3>1. j \in rest /\ n = h.context
      BY <1>1, <2>1, <2>5
    <3>2. loop'[a] = g
      BY <1>4, <2>2
    <3> QED
      BY <1>4, <3>1, <3>2 DEF Underway
  <2> QED
    BY <2>3, <2>4, <2>5
<1>10. AudienceServed'
  <2> SUFFICES ASSUME NEW n \in Contexts, NEW j \in audience[n]
               PROVE  n \in received'[j] \/ Underway(n, j)'
    BY <1>1 DEF AudienceServed
  <2>1. j \in connected /\ j \in Instances
    BY DEF RoutingInv, AudienceIsConnected, RoutingTypeOK
  <2>2. n \in received[j] \/ Underway(n, j)
    BY DEF RoutingInv, AudienceServed
  <2> QED
    BY <1>6, <1>9, <2>1, <2>2
<1>11. NothingMissed'
  <2>1. ASSUME NEW l \in Registered, NEW n \in Broadcasts, n = Found(l)'
        PROVE  n = Found(l) /\ source'[n] = source[n]
    BY <1>1, <1>3, <2>1 DEF Found, ChannelContext
  <2>2. ASSUME NEW l \in Registered, NEW n \in Broadcasts, Told(l, n)
        PROVE  Told(l, n)'
    <3>1. PICK j : j = listeners[l].instance /\ j \in Instances /\ j \in connected
      BY ListenersFit DEF RoutingInv, NoListenerOfEndedSession
    <3>2. loop[j].at = "announcing" => loop'[j] = loop[j]
      BY <1>1, <1>4, <3>1 DEF RoutingInv, RoutingTypeOK, Actors
    <3>3. Underway(n, j) => n \in received'[j] \/ Underway(n, j)'
      BY <1>9, <3>1
    <3> QED
      BY <1>1, <1>6, <2>2, <3>1, <3>2, <3>3 DEF Told, Underway
  <2> QED
    BY <1>1, <2>1, <2>2, MissingKept DEF RoutingInv
<1> QED
  BY <1>3, <1>5, <1>7, <1>8, <1>10, <1>11 DEF RoutingInv

-----------------------------------------------------------------------------
(***************************************************************************)
(* Listeners come and go.                                                  *)
(***************************************************************************)

\* The same as MissingNothing, for steps that change the listeners.
LEMMA NobodyMissing ==
    ASSUME \A l \in Registered', n \in Broadcasts :
              n = Found(l)' /\ source'[n] # listeners'[l].instance
                 => Told(l, n)'
    PROVE  NothingMissed'
BY DEF NothingMissed, Told, Underway

\* A listener that stays was told, unless a handler stops that tells it.
LEMMA ToldStays ==
    ASSUME RoutingTypeOK, NEW l \in Registered, NEW n, Told(l, n),
           listeners'[l] = listeners[l],
           \A b \in Actors : loop[b].at = "sending" => loop'[b] = loop[b],
           \A j \in Instances : received[j] \subseteq received'[j],
           loop[listeners[l].instance].at = "announcing"
              => \/ n \in received'[listeners[l].instance]
                 \/ loop'[listeners[l].instance] = loop[listeners[l].instance]
    PROVE  Told(l, n)'
<1>1. PICK i \in Instances : i = listeners[l].instance
  BY ListenersFit
<1>2. Underway(n, i) => Underway(n, i)'
  BY UnderwayKept
<1> QED
  BY <1>1, <1>2 DEF Told, Underway

\* Sending what a channel stores to an instance that is connected.
LEMMA ReplayEffect ==
    ASSUME RoutingTypeOK, ContextsFit, NEW i \in connected,
           NEW c \in Channels \cup {NoChannel},
           NEW type \in ContextTypes \cup {AnyType}, ReplayContext(i, c, type)
    PROVE  /\ received' \in [Instances -> SUBSET Contexts]
           /\ \A j \in Instances : received[j] \subseteq received'[j]
           /\ ChannelContext(c, type) \in Contexts
                 => ChannelContext(c, type) \in received'[i]
<1>1. i \in Instances
  BY DEF RoutingTypeOK, TypeOK
<1>2. PICK n \in Contexts \cup {NoContext} :
         /\ n = ChannelContext(c, type)
         /\ IF n = NoContext THEN UNCHANGED received ELSE Deliver(i, n)
  BY ChannelContextFits DEF ReplayContext
<1>3. CASE n = NoContext
  BY <1>2, <1>3, Sentinels DEF RoutingTypeOK
<1>4. CASE n # NoContext
  <2>1. received' = [received EXCEPT ![i] = received[i] \cup {n}]
    BY <1>2, <1>4 DEF Deliver
  <2> QED
    BY <1>1, <1>2, <1>4, <2>1 DEF RoutingTypeOK
<1> QED
  BY <1>3, <1>4

LEMMA AddKeepsRouting ==
    ASSUME RoutingInv, NEW i \in Instances, NEW l \in ListenerUuids,
           NEW type \in ContextTypes \cup {AnyType},
           AddContextListener(i, l, type)
    PROVE  RoutingInv'
<1>1. PICK c, new :
         /\ c = current[i]
         /\ new = [instance |-> i, type |-> type, channel |-> c]
         /\ loop[i] = Idle
         /\ i \in connected
         /\ listeners[l] = NoListener
         /\ listeners' = [listeners EXCEPT ![l] = new]
         /\ IF c # NoChannel /\ chType[c] = "private"
            THEN /\ loop' = [loop EXCEPT ![i] =
                               [at |-> "announcing", channel |-> c,
                                type |-> type, context |-> NoContext,
                                targets |-> {}]]
                 /\ UNCHANGED received
            ELSE ReplayContext(i, c, type) /\ UNCHANGED loop
         /\ UNCHANGED <<vars, source, sent, audience>>
  BY DEF AddContextListener
<1>2. c \in Channels \cup {NoChannel}
  BY <1>1 DEF RoutingInv, RoutingTypeOK, TypeOK, ManagerTypeOK
<1>3. TypeOK' /\ Accounts' /\ connected' = connected
      /\ UNCHANGED <<contexts, lastContext>>
  BY <1>1, RegistryAlone DEF RoutingInv, RoutingTypeOK, vars, handlerVars,
                             managerVars
<1>4. /\ new \in [instance : Instances,
                  type : ContextTypes \cup {AnyType},
                  channel : Channels \cup {NoChannel}]
      /\ new.instance = i /\ new.type = type /\ new.channel = c
  BY <1>1, <1>2
<1>5. /\ listeners' \in [ListenerUuids -> {NoListener} \cup
                           [instance : Instances,
                            type : ContextTypes \cup {AnyType},
                            channel : Channels \cup {NoChannel}]]
      /\ listeners'[l] = new
      /\ \A m \in ListenerUuids : m # l => listeners'[m] = listeners[m]
  BY <1>1, <1>4 DEF RoutingInv, RoutingTypeOK
<1>6. PICK h \in Records :
         /\ loop' = [loop EXCEPT ![i] = h]
         /\ \/ h = Idle
            \/ h.at = "announcing" /\ h.channel = c /\ h.type = type
               /\ c \in Channels
         /\ h = Idle => ReplayContext(i, c, type)
         /\ h # Idle => UNCHANGED received
  <2>1. CASE c # NoChannel /\ chType[c] = "private"
    <3> DEFINE h == [at |-> "announcing", channel |-> c, type |-> type,
                     context |-> NoContext, targets |-> {}]
    <3>1. h \in Records /\ h.at = "announcing" /\ h.channel = c /\ h.type = type
      BY <1>2 DEF Records
    <3>2. h # Idle
      BY <3>1, IdleFits
    <3>3. loop' = [loop EXCEPT ![i] = h] /\ UNCHANGED received
      BY <1>1, <2>1
    <3> HIDE DEF h
    <3> QED
      BY <1>2, <2>1, <3>1, <3>2, <3>3
  <2>2. CASE ~(c # NoChannel /\ chType[c] = "private")
    <3>1. ReplayContext(i, c, type) /\ loop' = loop
      BY <1>1, <2>2
    <3>2. loop' = [loop EXCEPT ![i] = Idle]
      BY <1>1, <3>1 DEF RoutingInv, RoutingTypeOK
    <3> QED
      BY <3>1, <3>2, IdleFits
  <2> QED
    BY <2>1, <2>2
<1>7. /\ received' \in [Instances -> SUBSET Contexts]
      /\ \A j \in Instances : received[j] \subseteq received'[j]
      /\ h = Idle /\ ChannelContext(c, type) \in Contexts
            => ChannelContext(c, type) \in received'[i]
  <2>1. CASE h = Idle
    BY <1>1, <1>2, <1>6, <2>1, ReplayEffect DEF RoutingInv
  <2>2. CASE h # Idle
    BY <1>6, <2>2 DEF RoutingInv, RoutingTypeOK
  <2> QED
    BY <2>1, <2>2
<1>8. loop' \in [Actors -> Records] /\ HandlersFit'
  <2>1. sent' \in Nat /\ sent <= sent'
    BY <1>1, MaxBroadcastsIsNat DEF RoutingInv, RoutingTypeOK
  <2>2. /\ \A n \in 1..sent : source'[n] = source[n]
        /\ \A b \in Actors \ {i} : b \in connected => b \in connected'
        /\ i \in Actors
    BY <1>1, <1>3 DEF Actors
  <2>3. \/ h = Idle
        \/ /\ h.at = "announcing"
           /\ i \in connected'
           /\ h.channel \in Channels
           /\ h.type \in ContextTypes \cup {AnyType}
    BY <1>1, <1>3, <1>6
  <2> QED
    BY <1>6, <2>1, <2>2, <2>3, OtherHandlersFit
<1>9. RoutingTypeOK'
  BY <1>1, <1>3, <1>5, <1>7, <1>8 DEF RoutingInv, RoutingTypeOK, Records
<1>10. NoListenerOfEndedSession'
  BY <1>1, <1>3, <1>4, <1>5
  DEF RoutingInv, NoListenerOfEndedSession, Registered
<1>11. AudienceIsConnected' /\ ContextsFit'
  BY <1>1, <1>3 DEF RoutingInv, AudienceIsConnected, ContextsFit
<1>12. \A b \in Actors :
          loop[b].at \in {"sending", "announcing"} => loop'[b] = loop[b]
  BY <1>1, <1>6, IdleFits DEF RoutingInv, RoutingTypeOK
<1>13. AudienceServed'
  <2> SUFFICES ASSUME NEW n \in Contexts, NEW j \in audience[n]
               PROVE  n \in received'[j] \/ Underway(n, j)'
    BY <1>1 DEF AudienceServed
  <2>1. n \in received[j] \/ Underway(n, j)
    BY DEF RoutingInv, AudienceServed
  <2>2. j \in Instances
    BY DEF RoutingInv, RoutingTypeOK
  <2> QED
    BY <1>7, <1>12, <2>1, <2>2, UnderwayKept
<1>14. NothingMissed'
  <2> SUFFICES ASSUME NEW m \in Registered', NEW n \in Broadcasts,
                      n = Found(m)', source[n] # listeners'[m].instance
               PROVE  Told(m, n)'
    BY <1>1, NobodyMissing
  <2>1. CASE m = l
    <3>1. n = ChannelContext(c, type)
      BY <1>3, <1>4, <1>5, <2>1 DEF Found, ChannelContext
    <3>2. CASE h = Idle
      <4>1. n \in received'[i]
        BY <1>7, <3>1, <3>2, BroadcastsAreContexts
      <4> QED
        BY <1>4, <1>5, <2>1, <4>1 DEF Told
    <3>3. CASE h # Idle
      <4>1. loop'[i] = h
        BY <1>6 DEF RoutingInv, RoutingTypeOK, Actors
      <4> QED
        BY <1>4, <1>5, <1>6, <2>1, <3>3, <4>1 DEF Told
    <3> QED
      BY <3>2, <3>3
  <2>2. CASE m # l
    <3>1. m \in Registered /\ listeners'[m] = listeners[m]
      BY <1>5, <2>2 DEF Registered
    <3>2. n = Found(m)
      BY <1>3, <3>1 DEF Found, ChannelContext
    <3>3. Told(m, n)
      BY <3>1, <3>2 DEF RoutingInv, NothingMissed
    <3>4. listeners[m].instance \in Actors
      BY <3>1, ListenersFit DEF RoutingInv, Actors
    <3> QED
      BY <1>7, <1>12, <3>1, <3>3, <3>4, ToldStays DEF RoutingInv
  <2> QED
    BY <2>1, <2>2
<1> QED
  BY <1>3, <1>8, <1>9, <1>10, <1>11, <1>13, <1>14 DEF RoutingInv

LEMMA FinishKeepsRouting ==
    ASSUME RoutingInv, NEW i \in Instances, FinishAddListener(i)
    PROVE  RoutingInv'
<1>1. PICK h : /\ h = loop[i]
               /\ h.at = "announcing"
               /\ ReplayContext(i, h.channel, h.type)
               /\ loop' = [loop EXCEPT ![i] = Idle]
               /\ UNCHANGED <<vars, listeners, source, sent, audience>>
  BY DEF FinishAddListener
<1>2. /\ i \in connected
      /\ h.channel \in Channels
      /\ h.type \in ContextTypes \cup {AnyType}
      /\ i \in Actors
  BY <1>1, IdleFits DEF RoutingInv, HandlersFit, Actors
<1>3. TypeOK' /\ Accounts' /\ connected' = connected
      /\ UNCHANGED <<contexts, lastContext>>
  BY <1>1, RegistryAlone DEF RoutingInv, RoutingTypeOK, vars, handlerVars,
                             managerVars
<1>4. /\ received' \in [Instances -> SUBSET Contexts]
      /\ \A j \in Instances : received[j] \subseteq received'[j]
      /\ ChannelContext(h.channel, h.type) \in Contexts
            => ChannelContext(h.channel, h.type) \in received'[i]
  BY <1>1, <1>2, ReplayEffect DEF RoutingInv
<1>5. loop' \in [Actors -> Records] /\ HandlersFit'
  <2>1. sent' \in Nat /\ sent <= sent'
    BY <1>1, MaxBroadcastsIsNat DEF RoutingInv, RoutingTypeOK
  <2>2. /\ \A n \in 1..sent : source'[n] = source[n]
        /\ \A b \in Actors \ {i} : b \in connected => b \in connected'
    BY <1>1, <1>3
  <2> QED
    BY <1>1, <1>2, <2>1, <2>2, IdleFits, OtherHandlersFit
<1>6. RoutingTypeOK'
  BY <1>1, <1>3, <1>4, <1>5 DEF RoutingInv, RoutingTypeOK, Records
<1>7. NoListenerOfEndedSession' /\ AudienceIsConnected' /\ ContextsFit'
  BY <1>1, <1>3 DEF RoutingInv, NoListenerOfEndedSession, AudienceIsConnected,
                    ContextsFit, Registered
<1>8. \A b \in Actors : b # i => loop'[b] = loop[b]
  BY <1>1 DEF RoutingInv, RoutingTypeOK
<1>9. \A b \in Actors : loop[b].at = "sending" => loop'[b] = loop[b]
  BY <1>1, <1>8
<1>10. AudienceServed'
  <2> SUFFICES ASSUME NEW n \in Contexts, NEW j \in audience[n]
               PROVE  n \in received'[j] \/ Underway(n, j)'
    BY <1>1 DEF AudienceServed
  <2>1. n \in received[j] \/ Underway(n, j)
    BY DEF RoutingInv, AudienceServed
  <2>2. j \in Instances
    BY DEF RoutingInv, RoutingTypeOK
  <2> QED
    BY <1>4, <1>9, <2>1, <2>2, UnderwayKept
<1>11. NothingMissed'
  <2> SUFFICES ASSUME NEW l \in Registered, NEW n \in Broadcasts,
                      n = Found(l)', source[n] # listeners[l].instance
               PROVE  Told(l, n)'
    BY <1>1, MissingNothing
  <2>1. n = Found(l) /\ listeners' = listeners
    BY <1>1, <1>3 DEF Found, ChannelContext
  <2>2. Told(l, n)
    BY <2>1 DEF RoutingInv, NothingMissed
  <2>3. PICK j \in Instances : j = listeners[l].instance
    BY ListenersFit DEF RoutingInv
  <2>4. CASE /\ j = i
             /\ h.channel = listeners[l].channel
             /\ h.type = listeners[l].type
    <3>1. n \in received'[j]
      BY <1>4, <2>1, <2>4, BroadcastsAreContexts DEF Found
    <3> QED
      BY <2>1, <2>3, <3>1 DEF Told
  <2>5. CASE ~ /\ j = i
               /\ h.channel = listeners[l].channel
               /\ h.type = listeners[l].type
    <3>1. CASE j = i
      <4>1. n \in received[j] \/ Underway(n, j)
        BY <1>1, <2>2, <2>3, <2>5, <3>1 DEF Told
      <4>2. n \in received'[j] \/ Underway(n, j)'
        BY <1>4, <1>9, <4>1, UnderwayKept
      <4> QED
        BY <2>1, <2>3, <4>2 DEF Told, Underway
    <3>2. CASE j # i
      BY <1>4, <1>8, <1>9, <2>1, <2>2, <2>3, <3>2, ToldStays
      DEF RoutingInv, Actors
    <3> QED
      BY <3>1, <3>2
  <2> QED
    BY <2>4, <2>5
<1> QED
  BY <1>3, <1>5, <1>6, <1>7, <1>10, <1>11 DEF RoutingInv

LEMMA FoundKept ==
    ASSUME NEW l, listeners'[l] = listeners[l],
           UNCHANGED <<contexts, lastContext>>
    PROVE  Found(l)' = Found(l)
BY DEF Found, ChannelContext

\* Listeners that are removed miss nothing; the others stay as they were.
LEMMA RemovingKeepsTold ==
    ASSUME RoutingInv, NEW gone,
           listeners' = [l \in ListenerUuids |->
                            IF l \in gone THEN NoListener ELSE listeners[l]],
           UNCHANGED <<loop, source, contexts, lastContext>>,
           \A l \in Registered : l \notin gone =>
              received'[listeners[l].instance] = received[listeners[l].instance]
    PROVE  /\ listeners' \in [ListenerUuids -> {NoListener} \cup
                                [instance : Instances,
                                 type : ContextTypes \cup {AnyType},
                                 channel : Channels \cup {NoChannel}]]
           /\ \A l \in Registered' : /\ l \in Registered
                                     /\ l \notin gone
                                     /\ listeners'[l] = listeners[l]
           /\ NothingMissed'
<1>1. listeners' \in [ListenerUuids -> {NoListener} \cup
                        [instance : Instances,
                         type : ContextTypes \cup {AnyType},
                         channel : Channels \cup {NoChannel}]]
  BY DEF RoutingInv, RoutingTypeOK
<1>2. \A l \in Registered' : /\ l \in Registered
                             /\ l \notin gone
                             /\ listeners'[l] = listeners[l]
  BY DEF Registered
<1>3. NothingMissed'
  <2> SUFFICES ASSUME NEW l \in Registered', NEW n \in Broadcasts,
                      n = Found(l)', source[n] # listeners'[l].instance
               PROVE  Told(l, n)'
    BY NobodyMissing
  <2>1. l \in Registered /\ l \notin gone /\ listeners'[l] = listeners[l]
    BY <1>2
  <2>2. n = Found(l)
    BY <2>1, FoundKept
  <2>3. Told(l, n)
    BY <2>1, <2>2 DEF RoutingInv, NothingMissed
  <2> QED
    BY <2>1, <2>3 DEF Told, Underway
<1> QED
  BY <1>1, <1>2, <1>3

LEMMA UnsubscribeKeepsRouting ==
    ASSUME RoutingInv, NEW i \in Instances, NEW l \in ListenerUuids,
           Unsubscribe(i, l)
    PROVE  RoutingInv'
<1>1. /\ listeners' = [m \in ListenerUuids |->
                          IF m \in {l} THEN NoListener ELSE listeners[m]]
      /\ UNCHANGED <<vars, loop, source, sent, received, audience>>
  BY DEF Unsubscribe, RoutingInv, RoutingTypeOK
<1>2. TypeOK' /\ Accounts' /\ connected' = connected
      /\ UNCHANGED <<contexts, lastContext>>
  BY <1>1, RegistryAlone DEF RoutingInv, RoutingTypeOK, vars, handlerVars,
                             managerVars
<1>3. /\ listeners' \in [ListenerUuids -> {NoListener} \cup
                           [instance : Instances,
                            type : ContextTypes \cup {AnyType},
                            channel : Channels \cup {NoChannel}]]
      /\ \A m \in Registered' : m \in Registered /\ listeners'[m] = listeners[m]
      /\ NothingMissed'
  BY <1>1, <1>2, RemovingKeepsTold
<1>4. RoutingTypeOK'
  BY <1>1, <1>2, <1>3 DEF RoutingInv, RoutingTypeOK
<1>5. NoListenerOfEndedSession'
  BY <1>2, <1>3 DEF RoutingInv, NoListenerOfEndedSession
<1>6. HandlersFit'
  BY <1>1, <1>2 DEF RoutingInv, HandlersFit, Idle
<1>7. ContextsFit' /\ AudienceIsConnected'
  BY <1>1, <1>2 DEF RoutingInv, ContextsFit, AudienceIsConnected
<1>8. AudienceServed'
  BY <1>1 DEF RoutingInv, AudienceServed, Underway
<1> QED
  BY <1>2, <1>3, <1>4, <1>5, <1>6, <1>7, <1>8 DEF RoutingInv

\* The cleanup of a closed websocket.  Its loop has nothing under way; the
\* handlers of others may still have it as a target.
LEMMA EndKeepsRouting ==
    ASSUME RoutingInv, NEW i \in Instances, EndSession(i)
    PROVE  RoutingInv'
<1>1. /\ loop[i] = Idle
      /\ CleanupInstance(i)
      /\ connected' = connected \ {i}
      /\ listeners' = [l \in ListenerUuids |->
                          IF l \in OwnedBy(i) THEN NoListener ELSE listeners[l]]
      /\ received' = [received EXCEPT ![i] = {}]
      /\ audience' = [n \in Contexts |-> audience[n] \ {i}]
      /\ UNCHANGED <<loop, source, sent, contexts, lastContext>>
  BY DEF EndSession, CleanupInstance, LeaveCurrentChannel
<1>2. TypeOK' /\ Accounts'
  <2>1. Next
    BY <1>1 DEF Next
  <2> QED
    BY <2>1, NextType, NextAccounts DEF RoutingInv, RoutingTypeOK
<1>3. \A l \in Registered : l \notin OwnedBy(i) =>
         /\ listeners[l].instance # i
         /\ received'[listeners[l].instance] = received[listeners[l].instance]
  BY <1>1, ListenersFit DEF OwnedBy, RoutingInv, RoutingTypeOK
<1>4. /\ listeners' \in [ListenerUuids -> {NoListener} \cup
                           [instance : Instances,
                            type : ContextTypes \cup {AnyType},
                            channel : Channels \cup {NoChannel}]]
      /\ \A l \in Registered' : /\ l \in Registered
                                /\ l \notin OwnedBy(i)
                                /\ listeners'[l] = listeners[l]
      /\ NothingMissed'
  BY <1>1, <1>3, RemovingKeepsTold
<1>5. RoutingTypeOK'
  BY <1>1, <1>2, <1>4 DEF RoutingInv, RoutingTypeOK
<1>6. NoListenerOfEndedSession'
  BY <1>1, <1>3, <1>4 DEF RoutingInv, NoListenerOfEndedSession
<1>7. HandlersFit'
  <2> SUFFICES ASSUME NEW a \in Actors, loop[a] # Idle
               PROVE  a \in connected => a \in connected'
    BY <1>1 DEF RoutingInv, HandlersFit, Idle
  <2> QED
    BY <1>1
<1>8. ContextsFit' /\ AudienceIsConnected'
  BY <1>1 DEF RoutingInv, ContextsFit, AudienceIsConnected
<1>9. AudienceServed'
  <2> SUFFICES ASSUME NEW n \in Contexts, NEW j \in audience[n], j # i
               PROVE  n \in received'[j] \/ Underway(n, j)'
    BY <1>1 DEF AudienceServed
  <2>1. n \in received[j] \/ Underway(n, j)
    BY DEF RoutingInv, AudienceServed
  <2>2. received'[j] = received[j]
    BY <1>1 DEF RoutingInv, RoutingTypeOK
  <2> QED
    BY <1>1, <2>1, <2>2 DEF Underway
<1> QED
  BY <1>2, <1>4, <1>5, <1>6, <1>7, <1>8, <1>9 DEF RoutingInv

-----------------------------------------------------------------------------
(***************************************************************************)
(* The theorems.                                                           *)
(***************************************************************************)
LEMMA InitRouting == RoutingInit => RoutingInv
<1> SUFFICES ASSUME RoutingInit PROVE RoutingInv
  OBVIOUS
<1> USE DEF RoutingInit
<1>1. TypeOK /\ Accounts
  BY InitType, InitAccounts
<1>2. /\ Registered = {}
      /\ \A a \in Actors : loop[a] = Idle
      /\ \A n \in Contexts : audience[n] = {}
  BY DEF Registered
<1>3. RoutingTypeOK
  <2>1. loop \in [Actors -> Records]
    BY IdleFits
  <2>2. sent \in 0..MaxBroadcasts
    BY MaxBroadcastsIsNat
  <2> QED
    BY <1>1, <2>1, <2>2 DEF RoutingTypeOK, Records
<1>4. ContextsFit
  BY DEF Init, ManagerInit, NoContexts, ContextsFit
<1> QED
  BY <1>1, <1>2, <1>3, <1>4 DEF RoutingInv, NoListenerOfEndedSession, HandlersFit,
     AudienceIsConnected, AudienceServed, NothingMissed

LEMMA NextRouting == RoutingInv /\ [RoutingNext]_allVars => RoutingInv'
<1> SUFFICES ASSUME RoutingInv, [RoutingNext]_allVars PROVE RoutingInv'
  OBVIOUS
<1>1. CASE ChannelStep
  BY <1>1, ChannelStepKeepsRouting
<1>2. CASE AdminContext
  BY <1>2, AdminContextKeepsRouting
<1>3. ASSUME NEW c \in Channels, NEW ctx \in OtherContexts,
             ApplyChannelsState(c, ctx)
      PROVE  RoutingInv'
  BY <1>3, ChannelsStateKeepsRouting
<1>4. ASSUME NEW a \in Actors, Handling(a) PROVE RoutingInv'
  BY <1>4, RouteKeepsRouting, SendKeepsRouting, FinishKeepsRouting DEF Handling
<1>5. ASSUME NEW a \in Actors, NEW c \in Channels \cup {NoChannel},
             NEW type \in ContextTypes, StartBroadcast(a, c, type)
      PROVE  RoutingInv'
  BY <1>5, StartKeepsRouting
<1>6. ASSUME NEW i \in Instances, EndSession(i) PROVE RoutingInv'
  BY <1>6, EndKeepsRouting
<1>7. ASSUME NEW i \in Instances, NEW l \in ListenerUuids, Unsubscribe(i, l)
      PROVE  RoutingInv'
  BY <1>7, UnsubscribeKeepsRouting
<1>8. ASSUME NEW i \in Instances, NEW l \in ListenerUuids,
             NEW type \in ContextTypes \cup {AnyType},
             AddContextListener(i, l, type)
      PROVE  RoutingInv'
  BY <1>8, AddKeepsRouting
<1>9. CASE UNCHANGED allVars
  <2>1. TypeOK' /\ Accounts'
    BY <1>9, RegistryAlone DEF RoutingInv, RoutingTypeOK, allVars
  <2>2. /\ UNCHANGED <<connected, contexts, lastContext>>
        /\ UNCHANGED <<listeners, loop, source, sent, received, audience>>
    BY <1>9 DEF allVars, routingVars, vars, managerVars, handlerVars
  <2>3. RoutingTypeOK' /\ NoListenerOfEndedSession' /\ AudienceIsConnected'
    BY <2>1, <2>2 DEF RoutingInv, RoutingTypeOK, NoListenerOfEndedSession,
                      AudienceIsConnected, Registered
  <2>4. HandlersFit'
    BY <2>2 DEF RoutingInv, HandlersFit, Idle
  <2>5. NothingMissed'
    BY <2>2 DEF RoutingInv, NothingMissed, Found, Told, ChannelContext,
                Underway, Registered
  <2>6. ContextsFit' /\ AudienceServed'
    BY <2>2 DEF RoutingInv, ContextsFit, AudienceServed, Underway
  <2> QED
    BY <2>1, <2>3, <2>4, <2>5, <2>6 DEF RoutingInv
<1> QED
  BY <1>1, <1>2, <1>3, <1>4, <1>5, <1>6, <1>7, <1>8, <1>9 DEF RoutingNext

\* The invariant of broadcasts and listeners.
THEOREM RoutingInvariant == RoutingSpec => []RoutingInv
BY InitRouting, NextRouting, PTL DEF RoutingSpec

\* Listeners, handlers and histories keep their types.
THEOREM RoutingTypeCorrect == RoutingSpec => []RoutingTypeOK
BY RoutingInvariant, PTL DEF RoutingInv

\* The cleanup of a websocket leaves no listener of its session behind.
THEOREM EndedSessionsDoNotListen == RoutingSpec => []NoListenerOfEndedSession
BY RoutingInvariant, PTL DEF RoutingInv

\* Whoever a broadcast finds on its channel, and whoever on it listens for what a
\* channelsState changes, was sent it or is among those it is being sent to,
\* as long as they stay connected.
THEOREM AudienceIsServed == RoutingSpec => []AudienceServed
BY RoutingInvariant, PTL DEF RoutingInv

\* Between a broadcast and a listener that is being added no context is lost.
THEOREM NoContextIsMissed == RoutingSpec => []NoMissedContext
<1>1. RoutingInv => NoMissedContext
  BY DEF RoutingInv, NothingMissed, Told, Found, NoMissedContext
<1> QED
  BY <1>1, RoutingInvariant, PTL

\* Also with broadcasts the member lists and the instance -> channel map
\* agree, nobody is on or has rights on a channel that is gone, and
\* subscribers can follow.
THEOREM AccountsHoldWithBroadcasts == RoutingSpec => []Accounts
BY RoutingInvariant, PTL DEF RoutingInv
=============================================================================
