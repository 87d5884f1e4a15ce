----------------------------- MODULE MCDirectory ----------------------------
(***************************************************************************)
(* TLC instances of AppDirectory.                                          *)
(***************************************************************************)
EXTENDS AppDirectory, TLC

CONSTANTS plain, qualified      \* two ids, the second with an "@"

MCBase == [a \in Apps |-> plain]

Symmetric ==
    Permutations(Commands) \cup Permutations(Requests) \cup Permutations(Versions)
=============================================================================
