---------------------------- MODULE MCAppSessions ---------------------------
(***************************************************************************)
(* TLC instances of AppSessions.                                           *)
(***************************************************************************)
EXTENDS AppSessions, TLC

\* Websockets and minted UUIDs are interchangeable; not for liveness.
Symmetric == Permutations(Sockets) \cup Permutations(LaunchUuids)
=============================================================================
