------------------------------- MODULE Ranking -------------------------------
(***************************************************************************)
(* Sorting, by what a sort promises: a relation that puts the members of a *)
(* finite set in a row gives each of them its place, and the set listed in *)
(* that order is the one sequence that has every member at its place.      *)
(***************************************************************************)
EXTENDS Naturals, FiniteSets

\* A relation puts the members of a set in a row.
Orders(R, K) ==
    /\ \A a \in K : <<a, a>> \notin R
    /\ \A a, b, c \in K : <<a, b>> \in R /\ <<b, c>> \in R => <<a, c>> \in R
    /\ \A a, b \in K : a = b \/ <<a, b>> \in R \/ <<b, a>> \in R

\* How many members of the set come before one of them.
Rank(R, K, k) == Cardinality({l \in K : <<l, k>> \in R})

\* The members of a set in the order of a relation.
InOrder(R, K) == [i \in 1 .. Cardinality(K) |-> CHOOSE k \in K : Rank(R, K, k) = i - 1]

\* The elements of a sequence at some of its indices, in their order.
Picked(s, I) ==
    LET index == InOrder({pair \in I \X I : pair[1] < pair[2]}, I)
    IN  [k \in DOMAIN index |-> s[index[k]]]
=============================================================================
