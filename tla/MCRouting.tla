------------------------------ MODULE MCRouting -----------------------------
(***************************************************************************)
(* TLC instances of ContextRouting.                                        *)
(***************************************************************************)
EXTENDS ContextRouting, TLC

Symmetric == Permutations(Instances) \cup Permutations(ListenerUuids)

MCTypeOf == [ctx \in OtherContexts |-> CHOOSE type \in ContextTypes : TRUE]
=============================================================================
