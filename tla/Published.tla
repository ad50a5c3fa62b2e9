------------------------------ MODULE Published ------------------------------
(***************************************************************************)
(* What a refresh publishes and every view reads (internal/domain          *)
(* scoped_snapshot.go): events in reverse chronological order, the Scopes  *)
(* of the selection in their stable order, and the confirmed memberships.  *)
(* Events and Scopes are numbered in the order of their identities.        *)
(***************************************************************************)
EXTENDS Integers, FiniteSets

CONSTANTS
    Events,
    Scopes,
    OccurredAt       \* the instant of an event

Representations == Events \X Scopes

ASSUME PublishedAssumption ==
    /\ Events \subseteq Nat /\ Scopes \subseteq Nat
    /\ IsFiniteSet(Events) /\ IsFiniteSet(Scopes)
    /\ OccurredAt \in [Events -> Nat]

\* compareRainCandidates, compareInterestingCandidates and the order of Stream.
NewerEvent(d, e) ==
    \/ OccurredAt[d] > OccurredAt[e]
    \/ OccurredAt[d] = OccurredAt[e] /\ d < e

Larger(a, b) == IF a > b THEN a ELSE b
Smaller(a, b) == IF a < b THEN a ELSE b
Unbounded == -1
=============================================================================
