-------------------------- MODULE MCExternalIntent --------------------------
(***************************************************************************)
(* TLC instances of ExternalIntent.                                        *)
(***************************************************************************)
EXTENDS ExternalIntent

CONSTANTS h3

\* Two handlers of one priority and one of a higher.
MCPriority == [h \in Handlers |-> IF h = h3 THEN 2 ELSE 1]
=============================================================================
