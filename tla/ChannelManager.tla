--------------------------- MODULE ChannelManager ---------------------------
(***************************************************************************)
(* The channel registry of the desktop agent: core/channel_manager.py with *)
(* core/channel_context.py and core/channel_events.py.                     *)
(*                                                                         *)
(* Every method runs under one RLock and contains no await, so each is one *)
(* step.  A method is an operator here: it says what the method does to    *)
(* the registry, and the handlers of module ChannelHandlers call it.       *)
(*                                                                         *)
(* `members' is a Python list in the code.  Only the number of times an    *)
(* instance occurs in it matters to the code (`in', append and remove of   *)
(* one occurrence), so it is a bag here.                                   *)
(***************************************************************************)
EXTENDS Naturals

CONSTANTS
    Instances,      \* instance UUIDs
    InstanceIds,    \* the instanceId values of those instances, not UUIDs
    UserIds,        \* channel ids with the "user:" prefix
    AppIds,         \* channel ids with the "app:" prefix
    PrivateIds,     \* channel ids with the "private:" prefix
    Tokens,         \* invitation tokens (uuid4().hex)
    Agents,         \* remote desktop agents, behind the bridge
    ContextTypes,   \* FDC3 context types
    Contexts,       \* context payloads
    MadeUpEvents,   \* the types of the events that the admin makes up
    MadeUp,         \* where a subscriber sees an instance because of one
    NoInstance, NoChannel, NoToken, NoContext, Anyone

Channels == UserIds \cup AppIds \cup PrivateIds

ASSUME SeparateIds ==
    /\ UserIds \cap AppIds = {}
    /\ UserIds \cap PrivateIds = {}
    /\ AppIds \cap PrivateIds = {}

ASSUME Sentinels ==
    /\ NoInstance \notin Instances
    /\ NoChannel \notin Channels
    /\ MadeUp \notin Channels \cup {NoChannel}
    /\ NoToken \notin Instances \cup InstanceIds \cup {Anyone}
    /\ NoContext \notin Contexts \cup ContextTypes
    /\ Anyone \notin Instances \cup InstanceIds

VARIABLES
    chType,           \* type of each channel of `channels', "absent" if none
    members,          \* ChannelInstance.members
    current,          \* instance_channels
    owner,            \* private_channel_owners
    participants,     \* private_channel_participants
    invites,          \* private_channel_invites
    remoteListeners,  \* remote_private_channel_listeners
    contexts,         \* channel_contexts, by type
    lastContext,      \* channel_contexts, the entry under "__last__"
    view              \* what an event subscriber makes of the events it got

managerVars == <<chType, members, current, owner, participants, invites,
                 remoteListeners, contexts, lastContext, view>>

Exists(c) == chType[c] # "absent"

NoMembers == [i \in Instances |-> 0]
NoInvites == [t \in Tokens |-> NoToken]
NoContexts == [ct \in ContextTypes |-> NoContext]

ManagerInit ==
    /\ chType = [c \in Channels |-> "absent"]
    /\ members = [c \in Channels |-> NoMembers]
    /\ current = [i \in Instances |-> NoChannel]
    /\ owner = [c \in Channels |-> NoInstance]
    /\ participants = [c \in Channels |-> {}]
    /\ invites = [c \in Channels |-> NoInvites]
    /\ remoteListeners = [c \in Channels |-> {}]
    /\ contexts = [c \in Channels |-> NoContexts]
    /\ lastContext = [c \in Channels |-> NoContext]
    /\ view = [i \in Instances |-> NoChannel]

-----------------------------------------------------------------------------
(***************************************************************************)
(* Events.  A subscriber (the GraphQL channelEvents subscription) is told  *)
(* every event in order; `view' is the instance -> channel map it can keep *)
(* from them.  The "created" and "broadcast" events leave it as it is.     *)
(* Events that the admin makes up are told like any other.  What the map   *)
(* then has of an instance is MadeUp, until the next time that it joins.   *)
(***************************************************************************)
SawLeft(v, c, i) == [v EXCEPT ![i] = IF @ = c THEN NoChannel ELSE @]

SawJoined(v, c, i) == [v EXCEPT ![i] = c]

SawGone(v, c) ==
    [i \in Instances |-> IF v[i] = c THEN NoChannel ELSE v[i]]

-----------------------------------------------------------------------------
(***************************************************************************)
(* Methods.                                                                *)
(***************************************************************************)

\* create_channel: an id that is taken keeps its channel.
Created(types, c, type) ==
    IF types[c] = "absent" THEN [types EXCEPT ![c] = type] ELSE types

\* Mutant: a filter that drops every occurrence.
RemoveAll(bag, i) == [bag EXCEPT ![i] = 0]

\* Drop one occurrence of i, as list.remove does; the code tests `in' first.
RemoveOne(bag, i) == [bag EXCEPT ![i] = IF @ > 0 THEN @ - 1 ELSE 0]

\* Mutant: the invitations are left behind.
ForgetAllButInvites(c) ==
    /\ chType' = [chType EXCEPT ![c] = "absent"]
    /\ members' = [members EXCEPT ![c] = NoMembers]
    /\ owner' = [owner EXCEPT ![c] = NoInstance]
    /\ participants' = [participants EXCEPT ![c] = {}]
    /\ remoteListeners' = [remoteListeners EXCEPT ![c] = {}]
    /\ contexts' = [contexts EXCEPT ![c] = NoContexts]
    /\ lastContext' = [lastContext EXCEPT ![c] = NoContext]
    /\ UNCHANGED invites

\* What delete_channel and destroy_private_channel both pop.
ForgetChannel(c) ==
    /\ chType' = [chType EXCEPT ![c] = "absent"]
    /\ members' = [members EXCEPT ![c] = NoMembers]
    /\ owner' = [owner EXCEPT ![c] = NoInstance]
    /\ participants' = [participants EXCEPT ![c] = {}]
    /\ invites' = [invites EXCEPT ![c] = NoInvites]
    /\ remoteListeners' = [remoteListeners EXCEPT ![c] = {}]
    /\ contexts' = [contexts EXCEPT ![c] = NoContexts]
    /\ lastContext' = [lastContext EXCEPT ![c] = NoContext]

\* delete_channel: every instance whose current channel it is loses it.
DeleteChannel(c) ==
    /\ Exists(c)
    /\ ForgetChannel(c)
    /\ current' = [i \in Instances |->
                      IF current[i] = c THEN NoChannel ELSE current[i]]
    /\ view' = SawGone(view, c)

\* Mutants of the next definition: the members stay on the channel; members
\* lose whatever channel they are on; subscribers are told nothing.
DestroyKeepingMembers(c) ==
    /\ Exists(c)
    /\ ForgetChannel(c)
    /\ UNCHANGED <<current, view>>

DestroyReleasingEverything(c) ==
    /\ Exists(c)
    /\ ForgetChannel(c)
    /\ current' = [i \in Instances |->
                      IF members[c][i] > 0 THEN NoChannel ELSE current[i]]
    /\ view' = SawGone(view, c)

DestroyQuietly(c) ==
    /\ Exists(c)
    /\ ForgetChannel(c)
    /\ current' = [i \in Instances |->
                      IF members[c][i] > 0 /\ current[i] = c
                      THEN NoChannel ELSE current[i]]
    /\ UNCHANGED view

\* destroy_private_channel: it walks the member list instead.
DestroyPrivateChannel(c) ==
    /\ Exists(c)
    /\ ForgetChannel(c)
    /\ current' = [i \in Instances |->
                      IF members[c][i] > 0 /\ current[i] = c
                      THEN NoChannel ELSE current[i]]
    /\ view' = SawGone(view, c)

\* create_private_channel: the owner is put on the member list, but the
\* channel does not become its current channel and no "joined" is emitted.
CreatePrivateChannel(i, c) ==
    /\ ~Exists(c)
    /\ chType' = Created(chType, c, "private")
    /\ members' = [members EXCEPT ![c][i] = @ + 1]
    /\ owner' = [owner EXCEPT ![c] = i]
    /\ participants' = [participants EXCEPT ![c] = {i}]
    /\ invites' = [invites EXCEPT ![c] = NoInvites]
    /\ UNCHANGED <<current, remoteListeners, contexts, lastContext, view>>

\* Mutant: the channel is noted where the guest belongs.
CreateInviteForChannel(c, t, who) ==
    /\ chType[c] = "private"
    /\ invites' = [invites EXCEPT ![c][t] = c]

\* create_private_channel_invite, for anyone or for one instance.
CreateInvite(c, t, who) ==
    /\ chType[c] = "private"
    /\ invites' = [invites EXCEPT ![c][t] = who]

\* The test of consume_private_channel_invite.
Admits(c, t, i) == invites[c][t] \in {Anyone, i}

\* Mutant: the token is tested but not taken.
PeekInvite(c, t) == UNCHANGED invites

ConsumeInvite(c, t) == invites' = [invites EXCEPT ![c][t] = NoToken]

\* join_channel, with `types' the channels when it is entered.  The old
\* channel loses one occurrence of the instance; when it was private, the
\* instance stays among its participants.
JoinChannel(types, i, c) ==
    LET old == current[i]
        leaving == old # NoChannel /\ types[old] # "absent"
        without == IF leaving
                   THEN [members EXCEPT ![old] = RemoveOne(@, i)]
                   ELSE members
    IN  /\ types[c] # "absent"
        /\ members' = [without EXCEPT ![c][i] = @ + 1]
        /\ current' = [current EXCEPT ![i] = c]
        /\ participants' = IF types[c] = "private"
                           THEN [participants EXCEPT ![c] = @ \cup {i}]
                           ELSE participants
        /\ view' = SawJoined(IF leaving THEN SawLeft(view, old, i) ELSE view,
                             c, i)
        /\ chType' = types
        /\ UNCHANGED <<owner, remoteListeners, contexts, lastContext>>

\* leave_current_channel.
LeaveCurrentChannel(i) ==
    LET c == current[i]
        known == c # NoChannel /\ Exists(c)
    IN  /\ members' = IF known THEN [members EXCEPT ![c] = RemoveOne(@, i)]
                      ELSE members
        /\ participants' = IF known /\ chType[c] = "private"
                           THEN [participants EXCEPT ![c] = @ \ {i}]
                           ELSE participants
        /\ view' = IF known THEN SawLeft(view, c, i) ELSE view
        /\ current' = [current EXCEPT ![i] = NoChannel]
        /\ UNCHANGED <<chType, owner, invites, remoteListeners, contexts,
                       lastContext>>

\* set_channel_context: nothing asks whether the channel exists.
SetChannelContext(c, type, ctx) ==
    /\ contexts' = [contexts EXCEPT ![c][type] = ctx]
    /\ lastContext' = [lastContext EXCEPT ![c] = type]

\* add_ and remove_remote_private_channel_listener, likewise.
AddRemoteListener(c, a) ==
    remoteListeners' = [remoteListeners EXCEPT ![c] = @ \cup {a}]

RemoveRemoteListener(c, a) ==
    remoteListeners' = [remoteListeners EXCEPT ![c] = @ \ {a}]

-----------------------------------------------------------------------------
ManagerTypeOK ==
    /\ chType \in [Channels -> {"absent", "user", "app", "private"}]
    /\ members \in [Channels -> [Instances -> Nat]]
    /\ current \in [Instances -> Channels \cup {NoChannel}]
    /\ owner \in [Channels -> Instances \cup {NoInstance}]
    /\ participants \in [Channels -> SUBSET Instances]
    /\ invites \in [Channels ->
                       [Tokens -> Instances \cup InstanceIds
                                    \cup {Anyone, NoToken}]]
    /\ remoteListeners \in [Channels -> SUBSET Agents]
    /\ contexts \in [Channels -> [ContextTypes -> Contexts \cup {NoContext}]]
    /\ lastContext \in [Channels -> ContextTypes \cup {NoContext}]
    /\ view \in [Instances -> Channels \cup {NoChannel, MadeUp}]
=============================================================================
