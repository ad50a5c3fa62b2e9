-------------------------------- MODULE Rain --------------------------------
(***************************************************************************)
(* The Rain view (src/internal/tui/rain.go, rain_window.go, rain_columns.go*)
(* rain_field.go): a bounded field of event representations that moves with*)
(* a logical clock, stops while paused, and queues what arrives meanwhile. *)
(*                                                                         *)
(* The code's transitions are functions from one rain value to the next,   *)
(* and so are the operators here.  A representation is an event and a Scope*)
(* it belongs to; field and queue are functions from representations to    *)
(* their age and phase, and the order the code stores them in is Newer.    *)
(* Scopes are numbered in their stable order.  Category, qualification and *)
(* the capacity counts do not take part in any transition and are left out.*)
(*                                                                         *)
(* A definition whose comment says "Bug:" is a plausible mistake in the    *)
(* definition after it; no specification uses it.                          *)
(***************************************************************************)
EXTENDS Published, Ranking, Sequences, Functions

CONSTANTS
    RowHash,         \* rainRowHash of a representation
    SlotHash,        \* rainSlotHash of a representation
    Windows,         \* the durations of the finite windows, shortest first
    DefaultWindow,
    ColumnCap, GlobalCap, QueueCap,
    RainStep,
    Generations,     \* the tick chain counts modulo this; 2^64 in the code
    Stride           \* rainColumnStride

ASSUME RainAssumption ==
    /\ RowHash \in [Representations -> Nat] /\ SlotHash \in [Representations -> Nat]
    /\ Windows \in Seq(Nat)
    /\ {ColumnCap, GlobalCap, QueueCap, RainStep, Stride, Generations} \subseteq Nat \ {0}
    /\ DefaultWindow \in 1 .. Len(Windows) + 1

VARIABLE rain

NoScope == -1
NoItems == [k \in {} |-> 0]

-----------------------------------------------------------------------------
(* Windows, pages and slots                                                *)

Available == Len(Windows) + 1
Admits(window, age) == window = Available \/ age < Windows[window]
\* rainWindow.stepped.  Bug: a step leaves the list of windows.
SteppedOff(window, step) == window + step
SteppedWindow(window, step) == Smaller(Larger(window + step, 1), Available)

PerPage(width, scopes) ==
    IF scopes = 0 THEN 0 ELSE Smaller(scopes, Larger(1, (width + 1) \div Stride))
\* rainPageStart.  Bug: the anchor itself begins the page.
AnchorFirst(anchor, perPage) == anchor
PageStart(anchor, perPage) == IF perPage = 0 THEN 0 ELSE (anchor \div perPage) * perPage
PageCount(scopes, perPage) ==
    IF perPage = 0 THEN 1 ELSE (scopes + perPage - 1) \div perPage
StepPage(start, scopes, perPage, step) ==
    LET pages == PageCount(scopes, perPage)
    IN  IF pages <= 1 THEN 0 ELSE ((start \div perPage + step + pages) % pages) * perPage
PageColumns(scopes, start, perPage) == Smaller(perPage, scopes - start)
ColumnWidth(width, columns, index) ==
    LET interior == Larger(width - (columns - 1), 0)
    IN  interior \div columns + (IF index < interior % columns THEN 1 ELSE 0)
Slots(interior) == IF interior = 1 THEN 1 ELSE interior \div 2
Reduce(hash, count) == IF count <= 0 THEN 0 ELSE hash % count

\* The index of a Scope in a selection, and back.
Index(scope, selection) == Cardinality({s \in selection : s < scope})
ScopeAt(index, selection) == CHOOSE s \in selection : Index(s, selection) = index

AnchoredAtStart(r) ==
    IF r.scopes = {} THEN [r EXCEPT !.anchor = NoScope]
    ELSE LET start == Smaller(r.start, Cardinality(r.scopes) - 1)
         IN  [r EXCEPT !.start = start, !.anchor = ScopeAt(start, r.scopes)]

Repaged(r) ==
    IF r.scopes = {} THEN [r EXCEPT !.anchor = NoScope, !.start = 0]
    ELSE LET scopes == Cardinality(r.scopes)
             index == IF r.anchor = NoScope THEN 0
                      ELSE IF r.anchor \in r.scopes THEN Index(r.anchor, r.scopes)
                      ELSE Smaller(r.start, scopes - 1)
         IN  AnchoredAtStart([r EXCEPT !.start = PageStart(index, PerPage(r.width, scopes))])

Resized(r, width, height) ==
    Repaged([r EXCEPT !.width = Larger(width, 0), !.height = Larger(height, 0)])
Paged(r, step) ==
    LET scopes == Cardinality(r.scopes)
    IN  AnchoredAtStart([r EXCEPT !.start =
            StepPage(@, scopes, PerPage(r.width, scopes), step)])

-----------------------------------------------------------------------------
(* Time                                                                    *)

\* advanced: one transition for the whole elapsed time.  Bug: the part of a step
\* that was left is forgotten.
StepsForgetting(total) == [steps |-> total \div RainStep, remainder |-> 0]
StepsIn(total) == [steps |-> total \div RainStep, remainder |-> total % RainStep]

Advanced(r, at) ==
    LET elapsed == at - r.cursor
        spent == StepsIn(elapsed + r.remainder)
        moved(item) == [age |-> item.age + elapsed,
                        phase |-> IF r.height = 0 THEN item.phase
                                  ELSE (item.phase + spent.steps) % r.height]
        items == [k \in DOMAIN r.items |-> moved(r.items[k])]
    IN  [r EXCEPT !.cursor = at, !.remainder = spent.remainder,
                  !.items = RestrictDomain(items, LAMBDA k : Admits(r.window, items[k].age))]

\* Bug: the first reference after a resume advances like any other.
AppliedAtOnce(r, at) ==
    IF r.paused \/ at <= r.cursor THEN r
    ELSE Advanced([r EXCEPT !.needsRebase = FALSE], at)
Applied(r, at) ==
    IF r.paused \/ at <= r.cursor THEN r
    ELSE IF r.needsRebase THEN [r EXCEPT !.cursor = at, !.needsRebase = FALSE]
    ELSE Advanced(r, at)

Ticked(r, chain, at) ==
    IF ~r.started \/ chain # r.chain \/ at <= r.cursor THEN r
    ELSE Applied([r EXCEPT !.chain = (@ + 1) % Generations], at)

-----------------------------------------------------------------------------
(* Candidates and admission                                                *)

\* compareRainCandidates within a column.
Newer(k, l) == NewerEvent(k[1], l[1])

\* What is retained in the field or in the queue keeps its phase, and its age
\* never decreases.  Bugs: it is measured again; both counts are added.
MeasuredAgain(previous, age) == age
AddedUp(previous, age) == previous + age
SurvivingAge(previous, age) == Larger(previous, age)
Candidate(r, k, first, frozenAges) ==
    LET age == Larger(r.cursor - OccurredAt[k[1]], 0)
        previous == IF k \in DOMAIN r.queue THEN r.queue[k] ELSE r.items[k]
    IN  IF k \in DOMAIN r.queue \cup DOMAIN r.items
        THEN [previous EXCEPT !.age = IF frozenAges THEN @ ELSE SurvivingAge(@, age)]
        ELSE [age |-> age, phase |-> IF first \/ k \in r.observed THEN RowHash[k] ELSE 0]

Candidates(r, confirmed, first, frozenAges) ==
    LET all == [k \in confirmed |-> Candidate(r, k, first, frozenAges)]
    IN  RestrictDomain(all, LAMBDA k : Admits(r.window, all[k].age))

\* A representation's place in its column of a list of candidates.  Only a resume
\* lists candidates that are not in the order of their columns: those standing in
\* the field come first.
Place(k, K, standing) ==
    Cardinality({l \in K : /\ l[2] = k[2]
                           /\ \/ l \in standing /\ k \notin standing
                              \/ (l \in standing <=> k \in standing) /\ Newer(l, k)})
Capped(K, standing, capacity) == {k \in K : Place(k, K, standing) < capacity}

\* roundRobin takes the candidates by rounds, and by Scope within a round.  Bug:
\* it fills one Scope after the other.
ByColumns(K, standing, capacity) ==
    {k \in K : Cardinality({l \in K :
        \/ l[2] < k[2]
        \/ l[2] = k[2] /\ Place(l, K, standing) < Place(k, K, standing)}) < capacity}
RoundRobin(K, standing, capacity) ==
    {k \in K : Cardinality({l \in K :
        \/ Place(l, K, standing) < Place(k, K, standing)
        \/ Place(l, K, standing) = Place(k, K, standing) /\ l[2] < k[2]}) < capacity}

Admitted(r, candidates, standing) ==
    LET columns == Capped(DOMAIN candidates, standing, ColumnCap)
    IN  [r EXCEPT !.items = Restrict(candidates, RoundRobin(columns, standing, GlobalCap))]

\* The arrivals the queue has room for enter at row zero.
Queued(r, arrivals, candidates) ==
    LET retained == RoundRobin(arrivals, {}, QueueCap)
    IN  [r EXCEPT !.queue = [k \in retained |-> [candidates[k] EXCEPT !.phase = 0]]]

\* Bug: a paused refresh takes over the reconciled field.
FrozenAsCandidates(r, candidates, confirmed) == Restrict(candidates, confirmed)
FrozenItems(r, candidates, confirmed) == Restrict(r.items, confirmed)
Frozen(r, candidates) ==
    LET confirmed == DOMAIN r.items \cap DOMAIN candidates
    IN  Queued([r EXCEPT !.items = FrozenItems(r, candidates, confirmed)],
               DOMAIN candidates \ DOMAIN r.items, candidates)

\* A window change while paused: the queue keeps its items, the field is filled anew.
RestoredField(r, candidates) == DOMAIN candidates \ DOMAIN r.queue
Restored(r, candidates) ==
    LET field == Restrict(candidates, RestoredField(r, candidates))
    IN  Queued(Admitted(r, field, {}),
               DOMAIN candidates \cap DOMAIN r.queue, candidates)

Rebuilt(r, confirmed, first, frozenAges, restoring) ==
    LET candidates == Candidates(r, confirmed, first, frozenAges)
        seen == [r EXCEPT !.observed = confirmed]
    IN  IF r.paused /\ restoring THEN Restored(seen, candidates)
        ELSE IF r.paused THEN Frozen(seen, candidates)
        ELSE Admitted(seen, candidates, {})

-----------------------------------------------------------------------------
(* Transitions of the view                                                 *)

Reconciled(r, scopes, confirmed, reference) ==
    LET first == ~r.started
        rebasing == r.needsRebase /\ ~r.paused /\ reference > r.cursor
        moved == IF first THEN [r EXCEPT !.started = TRUE, !.cursor = reference,
                                         !.remainder = 0]
                 ELSE Applied(r, reference)
    IN  Rebuilt(Repaged([moved EXCEPT !.scopes = scopes]), confirmed, first, rebasing, FALSE)

Windowed(r, step, scopes, confirmed) ==
    LET stepped == SteppedWindow(r.window, step)
        shifted == [r EXCEPT !.window = stepped]
    IN  IF stepped = r.window \/ ~r.started THEN shifted
        ELSE Rebuilt(Repaged([shifted EXCEPT !.scopes = scopes]), confirmed, FALSE,
                     r.paused, TRUE)

\* merged: the field is listed first, then the queue.  Bug: the queue survives.
SameQueue(r) == r.queue
EmptyQueue(r) == NoItems
Merged(r) ==
    LET all == [k \in DOMAIN r.items \cup DOMAIN r.queue |->
                   IF k \in DOMAIN r.items THEN r.items[k] ELSE r.queue[k]]
    IN  Admitted([r EXCEPT !.queue = EmptyQueue(r)], all, DOMAIN r.items)

ToggledPause(r) ==
    IF ~r.started THEN r
    ELSE IF ~r.paused THEN [r EXCEPT !.paused = TRUE]
    ELSE Merged([r EXCEPT !.paused = FALSE, !.needsRebase = TRUE])

RainInit ==
    rain = [window |-> DefaultWindow, scopes |-> {}, items |-> NoItems, queue |-> NoItems,
            observed |-> {}, cursor |-> 0, remainder |-> 0, chain |-> 0,
            started |-> FALSE, paused |-> FALSE, needsRebase |-> FALSE,
            width |-> 0, height |-> 0, anchor |-> NoScope, start |-> 0]

-----------------------------------------------------------------------------
(* The prepared page                                                       *)

\* assignRainSlots: probe right to the first free slot; a full row groups.  Bug:
\* an item whose slot is taken is grouped at once.
TakenSlot(want, taken, slots) == want
ProbedSlot(want, taken, slots) ==
    LET distance == CHOOSE d \in 0 .. slots - 1 :
                        /\ (want + d) % slots \notin taken
                        /\ \A e \in 0 .. d - 1 : (want + e) % slots \in taken
    IN  (want + distance) % slots
Seated(row, want, slots) ==
    IF Cardinality(row.taken) = slots THEN [row EXCEPT !.collisions = @ + 1]
    ELSE [row EXCEPT !.taken = @ \cup {ProbedSlot(want, @, slots)}]
AssignSlots(desired, slots) ==
    LET row[i \in 0 .. Len(desired)] ==
            IF i = 0 THEN [taken |-> {}, collisions |-> 0]
            ELSE Seated(row[i - 1], desired[i], slots)
    IN  row[Len(desired)]

\* rain.column: what one column renders, groups and hides.
RowItems(r, scope, row) ==
    {k \in DOMAIN r.items : k[2] = scope /\ Reduce(r.items[k].phase, r.height) = row}
RowSlots(items, slots) ==
    LET sorted == InOrder({pair \in items \X items : Newer(pair[1], pair[2])}, items)
    IN  AssignSlots([i \in DOMAIN sorted |-> Reduce(SlotHash[sorted[i]], slots)], slots)
Column(r, scope, interior) ==
    LET slots == Slots(interior)
        rows == 0 .. r.height - 1
        prepared == [row \in rows |-> RowSlots(RowItems(r, scope, row), slots)]
    IN  IF r.height = 0 \/ slots = 0
        THEN [rendered |-> 0, collisions |-> 0,
              hidden |-> Cardinality({k \in DOMAIN r.items : k[2] = scope})]
        ELSE [rendered |-> SumFunction([row \in rows |-> Cardinality(prepared[row].taken)]),
              collisions |-> SumFunction([row \in rows |-> prepared[row].collisions]),
              hidden |-> 0]

\* rain.field: the Scopes of the page, its columns, and what is hidden beside them.
Columns(r) ==
    LET scopes == Cardinality(r.scopes)
    IN  PageColumns(scopes, r.start, PerPage(r.width, scopes))
VisibleScopes(r) ==
    {s \in r.scopes : Index(s, r.scopes) \in r.start .. r.start + Columns(r) - 1}
Field(r) ==
    LET visible == VisibleScopes(r)
        prepared == [s \in visible |->
            Column(r, s, ColumnWidth(r.width, Columns(r), Index(s, r.scopes) - r.start))]
    IN  [rendered |-> SumFunction([s \in visible |-> prepared[s].rendered]),
         collisions |-> SumFunction([s \in visible |-> prepared[s].collisions]),
         hiddenItems |-> Cardinality({k \in DOMAIN r.items : k[2] \notin visible})
                         + SumFunction([s \in visible |-> prepared[s].hidden])]
=============================================================================
