------------------------------ MODULE Listing -------------------------------
(***************************************************************************)
(* Python's sorted(), and lists picked from lists, as one operator.        *)
(***************************************************************************)
EXTENDS Integers, FiniteSets

\* The members of a finite set as a list: before is the set of the pairs
\* <<i, j>> of members with i somewhere before j.
InOrder(S, before) ==
    [k \in 1 .. Cardinality(S) |->
        CHOOSE i \in S : Cardinality({j \in S : <<j, i>> \in before}) = k - 1]
=============================================================================
