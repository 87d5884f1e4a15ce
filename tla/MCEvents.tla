------------------------------- MODULE MCEvents -----------------------------
(***************************************************************************)
(* TLC instances of ChannelEvents.                                         *)
(***************************************************************************)
EXTENDS ChannelEvents
=============================================================================
