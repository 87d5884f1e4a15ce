----------------------------- MODULE MCChannels -----------------------------
(***************************************************************************)
(* TLC instances of ChannelHandlers: what a run adds to the specification. *)
(***************************************************************************)
EXTENDS ChannelHandlers, TLC

SymmetricTokens == Permutations(Tokens)
=============================================================================
