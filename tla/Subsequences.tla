---------------------------- MODULE Subsequences ----------------------------
(***************************************************************************)
(* What a list comprehension with a condition leaves of a list.  (The      *)
(* SelectSeq of the standard modules, in a form to reason about.)          *)
(***************************************************************************)
EXTENDS Naturals, Sequences, FiniteSets, Functions

\* The elements of a finite set of numbers, in ascending order.
Ascending(keep) ==
    CHOOSE f \in Bijection(1..Cardinality(keep), keep) :
        \A m, n \in DOMAIN f : m < n => f[m] < f[n]

\* The elements of s at the positions in keep, in the order they have in s.
Picked(s, keep) == [n \in 1..Cardinality(keep) |-> s[Ascending(keep)[n]]]
=============================================================================
