-------------------------- MODULE ChannelMembership -------------------------
(***************************************************************************)
(* What the channel registry promises the apps: an instance is on at most  *)
(* one channel, and on one that exists.  It gets onto a channel and off it *)
(* by its own requests; the only thing that moves anyone else is the end   *)
(* of the channel, and that moves exactly those who are on it.             *)
(***************************************************************************)
CONSTANTS Instances, Channels, NoChannel

VARIABLES
    existing,   \* the channels there are
    on          \* the channel each instance is on

Init ==
    /\ existing = {}
    /\ on = [i \in Instances |-> NoChannel]

Opened == \E opened \in SUBSET Channels : existing' = existing \cup opened

Open == Opened /\ UNCHANGED on

\* Joining may create the default channels first.
Join(i, c) ==
    /\ Opened
    /\ c \in existing'
    /\ on' = [on EXCEPT ![i] = c]

Leave(i) ==
    /\ on' = [on EXCEPT ![i] = NoChannel]
    /\ UNCHANGED existing

Close(c) ==
    /\ c \in existing
    /\ existing' = existing \ {c}
    /\ on' = [i \in Instances |-> IF on[i] = c THEN NoChannel ELSE on[i]]

Next ==
    \/ Open
    \/ \E c \in Channels : Close(c)
    \/ \E i \in Instances : Leave(i) \/ \E c \in Channels : Join(i, c)

Spec == Init /\ [][Next]_<<existing, on>>
=============================================================================
