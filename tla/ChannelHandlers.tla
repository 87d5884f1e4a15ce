--------------------------- MODULE ChannelHandlers --------------------------
(***************************************************************************)
(* Who calls the channel registry: the DACP channel handlers               *)
(* (handlers/dacp/channel.py), the GraphQL mutations (api/graphql.py), the *)
(* bridge (bridging/router.py, server/lifespan_bridge.py) and the cleanup  *)
(* of a closed websocket (server/websocket.py).                            *)
(*                                                                         *)
(* A handler changes the registry before its first await, so it is one     *)
(* step.  A request that is refused changes nothing and is not a step.     *)
(***************************************************************************)
EXTENDS ChannelManager

CONSTANT
    DefaultUserIds  \* DACPHandler.DEFAULT_USER_CHANNELS

ASSUME DefaultsAreUserIds == DefaultUserIds \subseteq UserIds

VARIABLES
    connected,     \* instances whose websocket is in its DACP phase
    defaultsReady, \* DACPHandler._default_user_channels_ready
    everPrivate,   \* private ids handed out: uuid4 never repeats one
    everToken,     \* tokens handed out, likewise
    admitted       \* history: <<channel, instance>> a token let in, if any

handlerVars == <<connected, defaultsReady, everPrivate, everToken, admitted>>
vars == <<managerVars, handlerVars>>

Init ==
    /\ ManagerInit
    /\ connected = {}
    /\ defaultsReady = FALSE
    /\ everPrivate = {}
    /\ everToken = {}
    /\ admitted = [t \in Tokens |-> <<NoChannel, NoInstance>>]

-----------------------------------------------------------------------------
\* The default channels are created when there is no user channel at all.
WithDefaults ==
    IF \E c \in Channels : chType[c] = "user"
    THEN chType
    ELSE [c \in Channels |->
             IF c \in DefaultUserIds THEN Created(chType, c, "user")[c]
             ELSE chType[c]]

\* _ensure_default_user_channels: once, whatever is deleted afterwards.
EnsuredDefaults == IF defaultsReady THEN chType ELSE WithDefaults

\* getUserChannels, getSystemChannels.
GetUserChannels ==
    /\ chType' = EnsuredDefaults
    /\ defaultsReady' = TRUE
    /\ UNCHANGED <<members, current, owner, participants, invites,
                   remoteListeners, contexts, lastContext, view,
                   connected, everPrivate, everToken, admitted>>

\* Mutant: any channel that exists will do.
JoinAnyChannel(i, c) ==
    /\ i \in connected
    /\ EnsuredDefaults[c] # "absent"
    /\ JoinChannel(EnsuredDefaults, i, c)
    /\ defaultsReady' = TRUE
    /\ UNCHANGED <<invites, connected, everPrivate, everToken, admitted>>

\* joinUserChannel and joinChannel.  The defaults are created even when the
\* channel asked for turns out not to be a user channel.
JoinUserChannel(i, c) ==
    /\ i \in connected
    /\ EnsuredDefaults[c] = "user"
    /\ JoinChannel(EnsuredDefaults, i, c)
    /\ defaultsReady' = TRUE
    /\ UNCHANGED <<invites, connected, everPrivate, everToken, admitted>>

LeaveCurrent(i) ==
    /\ i \in connected
    /\ LeaveCurrentChannel(i)
    /\ UNCHANGED handlerVars

CreatePrivate(i, c) ==
    /\ i \in connected
    /\ c \notin everPrivate
    /\ CreatePrivateChannel(i, c)
    /\ everPrivate' = everPrivate \cup {c}
    /\ UNCHANGED <<connected, defaultsReady, everToken, admitted>>

\* createPrivateChannelInvitation: `who' is payload.instanceId, handed on as
\* the instance UUID the token is restricted to.
CreateInvitation(i, c, t, who) ==
    /\ i \in connected
    /\ owner[c] = i
    /\ t \notin everToken
    /\ CreateInvite(c, t, who)
    /\ everToken' = everToken \cup {t}
    /\ UNCHANGED <<chType, members, current, owner, participants,
                   remoteListeners, contexts, lastContext, view,
                   connected, defaultsReady, everPrivate, admitted>>

\* joinPrivateChannel by the owner: no token is looked at.
JoinPrivateAsOwner(i, c) ==
    /\ i \in connected
    /\ chType[c] = "private"
    /\ owner[c] = i
    /\ JoinChannel(chType, i, c)
    /\ UNCHANGED <<invites, handlerVars>>

\* joinPrivateChannel by anyone else.
JoinPrivateWithToken(i, c, t) ==
    /\ i \in connected
    /\ chType[c] = "private"
    /\ owner[c] # i
    /\ Admits(c, t, i)
    /\ ConsumeInvite(c, t)
    /\ JoinChannel(chType, i, c)
    /\ admitted' = [admitted EXCEPT ![t] = <<c, i>>]
    /\ UNCHANGED <<connected, defaultsReady, everPrivate, everToken>>

\* leavePrivateChannel: only from the channel the instance is on.
LeavePrivate(i, c) ==
    /\ i \in connected
    /\ chType[c] = "private"
    /\ current[i] = c
    /\ LeaveCurrentChannel(i)
    /\ UNCHANGED handlerVars

\* privateChannelDisconnect: the owner or anyone on the member list ends it.
DisconnectPrivate(i, c) ==
    /\ i \in connected
    /\ chType[c] = "private"
    /\ owner[c] = i \/ members[c][i] > 0
    /\ DestroyPrivateChannel(c)
    /\ UNCHANGED handlerVars

-----------------------------------------------------------------------------
(***************************************************************************)
(* GraphQL mutations.                                                      *)
(***************************************************************************)

TypeOfId(c) == IF c \in UserIds THEN "user"
               ELSE IF c \in AppIds THEN "app" ELSE "private"

\* createChannel checks the prefix of the id against the type.  A private
\* channel made here has no owner.
AdminCreateChannel(c) ==
    /\ ~Exists(c)
    /\ chType' = Created(chType, c, TypeOfId(c))
    /\ everPrivate' = IF c \in PrivateIds THEN everPrivate \cup {c}
                      ELSE everPrivate
    /\ UNCHANGED <<members, current, owner, participants, invites,
                   remoteListeners, contexts, lastContext, view,
                   connected, defaultsReady, everToken, admitted>>

AdminDeleteChannel(c) ==
    /\ DeleteChannel(c)
    /\ UNCHANGED handlerVars

\* broadcastToChannel: stored only while the channel exists.
AdminBroadcast(c, type, ctx) ==
    /\ Exists(c)
    /\ SetChannelContext(c, type, ctx)
    /\ UNCHANGED <<chType, members, current, owner, participants, invites,
                   remoteListeners, view, handlerVars>>

\* emit_channel_event: an event of any type about any channel and instance is
\* told to the subscribers, and nothing happens to the registry.
EmitChannelEvent(c, i) ==
    /\ \/ /\ "joined" \in MadeUpEvents
          /\ view' = [view EXCEPT ![i] = MadeUp]
       \/ /\ "left" \in MadeUpEvents
          /\ view' = [view EXCEPT ![i] = IF @ = c THEN MadeUp ELSE @]
       \/ /\ "deleted" \in MadeUpEvents
          /\ view' = [j \in Instances |->
                         IF view[j] = c THEN MadeUp ELSE view[j]]
    /\ UNCHANGED <<chType, members, current, owner, participants, invites,
                   remoteListeners, contexts, lastContext, handlerVars>>

-----------------------------------------------------------------------------
(***************************************************************************)
(* The bridge.                                                             *)
(***************************************************************************)

\* privateChannelEventListenerAdded and ...Removed from a remote agent.
RemoteListenerUpdate(c, a) ==
    /\ AddRemoteListener(c, a) \/ RemoveRemoteListener(c, a)
    /\ UNCHANGED <<chType, members, current, owner, participants, invites,
                   contexts, lastContext, view, handlerVars>>

\* The channelsState of the bridge handshake makes sure of the default
\* channels too, without the latch of the DACP handler.
ReportChannelsState ==
    /\ chType' = WithDefaults
    /\ UNCHANGED <<members, current, owner, participants, invites,
                   remoteListeners, contexts, lastContext, view, handlerVars>>

-----------------------------------------------------------------------------
(***************************************************************************)
(* Sessions, as far as channels see them.                                  *)
(***************************************************************************)

Connect(i) ==
    /\ i \notin connected
    /\ connected' = connected \cup {i}
    /\ UNCHANGED <<managerVars, defaultsReady, everPrivate, everToken,
                   admitted>>

\* _cleanup_instance of a closed websocket.
CleanupInstance(i) ==
    /\ i \in connected
    /\ connected' = connected \ {i}
    /\ LeaveCurrentChannel(i)
    /\ UNCHANGED <<defaultsReady, everPrivate, everToken, admitted>>

-----------------------------------------------------------------------------
\* The requests of a session.
ChannelRequest(i) ==
    \/ LeaveCurrent(i)
    \/ \E c \in Channels : JoinUserChannel(i, c)
    \/ \E c \in PrivateIds :
          \/ CreatePrivate(i, c)
          \/ JoinPrivateAsOwner(i, c)
          \/ LeavePrivate(i, c)
          \/ DisconnectPrivate(i, c)
    \/ \E c \in PrivateIds, t \in Tokens :
          \/ JoinPrivateWithToken(i, c, t)
          \/ \E who \in Instances \cup InstanceIds \cup {Anyone} :
                CreateInvitation(i, c, t, who)

\* What happens to the channels from elsewhere.
AgentStep ==
    \/ GetUserChannels
    \/ ReportChannelsState
    \/ \E c \in Channels :
          \/ AdminCreateChannel(c)
          \/ AdminDeleteChannel(c)
          \/ \E a \in Agents : RemoteListenerUpdate(c, a)
          \/ \E i \in Instances : EmitChannelEvent(c, i)

Next ==
    \/ AgentStep
    \/ \E i \in Instances :
          \/ Connect(i)
          \/ ChannelRequest(i)
          \/ CleanupInstance(i)
    \/ \E c \in Channels, type \in ContextTypes, ctx \in Contexts :
          AdminBroadcast(c, type, ctx)

Spec == Init /\ [][Next]_vars
-----------------------------------------------------------------------------
(***************************************************************************)
(* Properties.                                                             *)
(***************************************************************************)

\* The registry and the session state hold the values they are meant to.
TypeOK ==
    /\ ManagerTypeOK
    /\ connected \subseteq Instances
    /\ defaultsReady \in BOOLEAN
    /\ everPrivate \subseteq PrivateIds
    /\ everToken \subseteq Tokens
    /\ admitted \in [Tokens -> (Channels \cup {NoChannel})
                              \X (Instances \cup {NoInstance})]

\* How often the member list of c ought to name i: once for being on the
\* channel and once for owning it.
Occurrences(c, i) ==
    (IF current[i] = c THEN 1 ELSE 0) + (IF owner[c] = i THEN 1 ELSE 0)

\* The member lists and the instance -> channel map never drift apart,
\* whatever sequence of joins, switches, leaves, deletions and disconnects
\* got there (they are two structures that every method updates by hand).
MembersAccounted ==
    \A c \in Channels, i \in Instances : members[c][i] = Occurrences(c, i)

\* No instance is on a channel that was deleted or destroyed: the destroy
\* method finds the instances to release through the member list.
CurrentChannelExists ==
    \A i \in Instances : current[i] # NoChannel => Exists(current[i])

\* Rights end with the channel, however it ends and whatever was under way:
\* an id that is created again has no owner, no guests and no invitations of
\* the channel that had it before.  (Contexts are written to ids that are gone,
\* by broadcasts and by other agents, and are no part of this.)
RightsEndWithChannel ==
    \A c \in Channels :
        ~Exists(c) => /\ owner[c] = NoInstance
                      /\ participants[c] = {}
                      /\ invites[c] = NoInvites

\* The channel events are enough to know where an instance is, however it got
\* there: what a subscriber can work out from them is the registry's own map,
\* except for those about whom the admin has made up an event since they last
\* joined a channel.
SubscriberKnows ==
    \A i \in Instances : view[i] \in {current[i], MadeUp}

\* An instance is on a private channel only if it owns it or a token of
\* that very channel was spent on it; no join, switch or re-creation of an
\* id gets around the invitation.
PrivateMeansInvited ==
    \A i \in Instances, c \in PrivateIds :
        current[i] = c /\ chType[c] = "private" =>
            owner[c] = i \/ \E t \in Tokens : admitted[t] = <<c, i>>

\* A token that let an instance in never lets another one in, nor the same
\* one again ("consumed on the first successful join").
TokenAdmitsOnce ==
    [][\A t \in Tokens :
          admitted[t] # <<NoChannel, NoInstance>> =>
              /\ admitted'[t] = admitted[t]
              /\ \A c \in Channels : invites'[c][t] = NoToken]_vars

\* The registry keeps the promise of ChannelMembership: no request moves an
\* instance other than the one that made it, except by ending a channel,
\* which releases those who are on it and nobody else.
Membership == INSTANCE ChannelMembership
                WITH existing <- {c \in Channels : Exists(c)}, on <- current

KeepsMembership == Membership!Spec
=============================================================================
