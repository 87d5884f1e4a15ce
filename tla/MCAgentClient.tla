---------------------------- MODULE MCAgentClient ---------------------------
(***************************************************************************)
(* TLC instances of AgentClient.                                           *)
(***************************************************************************)
EXTENDS AgentClient, TLC

CONSTANTS r1, r2

\* One request that registers first, one that sends first.
MCKindOf == r1 :> "dacp" @@ r2 :> "register"
=============================================================================
