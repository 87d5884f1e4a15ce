--------------------------- MODULE MCIntentRaising --------------------------
(***************************************************************************)
(* TLC instances of IntentRaising.                                         *)
(***************************************************************************)
EXTENDS IntentRaising, TLC

CONSTANTS i1, n1, n2

\* One intent with two plugins; the other is a system intent.
MCPluginsFor == [n \in Intents |-> IF n = n1 THEN <<"p1", "p2">> ELSE <<>>]
MCDeclared == {<<n1, i1>>}
=============================================================================
