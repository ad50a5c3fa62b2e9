--------------------------- MODULE MCCoordinator ---------------------------
(***************************************************************************)
(* Small instances of Coordinator for TLC, and the statement of the HTTP   *)
(* budget that the code's documentation makes.                             *)
(***************************************************************************)
EXTENDS Coordinator, FiniteSetsExt

CONSTANTS c1, c2, m1, m2, p1, p2, o1, o2

MCParentOf == [c \in Commits |-> o1]

on(k) == [key |-> k, before |-> o1]

\* Pull requests that may derive the compare a push already named, or share one, with
\* one request left for what they derive or with none.
PullInputs == {<<on(p1), on(m1), on(p2)>>, <<on(p1), on(p2)>>, <<on(p1)>>}

\* A settled event, more identities than either the queue or the request bound
\* admits, and one commit named by two pushes, one not on its sole parent.
PushInputs == {<<on(NoKey), on(c1), on(m1), on(m2), [key |-> c1, before |-> o2], on(c2)>>}

\* As many identities as the request bound admits, one of them paginated.
BudgetInputs == {<<on(c1), on(m1)>>}

MCInputs == PullInputs \cup PushInputs

NoRecords == {{}}
MCRecords == {{}, {c1}, {m1, c2}}

\* bounds.go:18-22: "Every attempted request spends one before dispatch", so a
\* refresh never sends more requests than its Requests bound.
HttpWithinBudget == MapThenSumSet(LAMBDA k : sent[k], Keys) <= Requests
=============================================================================
