---------------------------- MODULE ProgramProofs ----------------------------
(***************************************************************************)
(* The theorems of the program's views, for every catalogue of windows,    *)
(* every capacity, every terminal size and every published snapshot.       *)
(*                                                                         *)
(* The proofs follow the code's calls from the inside out: what the        *)
(* helpers of the rain value change at all; how candidates are ranked and  *)
(* capped; what time, a rebuild, a resize and a key make of a settled rain *)
(* value (Follows); and then that every handler of the program is one of   *)
(* these (StepViews).  The strip comes next, with its loop over the queues *)
(* of the Scopes, and then what rests on its length: the numbers of the    *)
(* rain value and the account of the field.  Pages and navigation are last.*)
(***************************************************************************)
EXTENDS Program, DataLemmas

-----------------------------------------------------------------------------
(* The rain value *)

\* A rain value has its fields, whatever they hold.
Shaped(r) ==
    r \in [window : {r.window}, scopes : {r.scopes}, items : {r.items}, queue : {r.queue},
           observed : {r.observed}, cursor : {r.cursor}, remainder : {r.remainder},
           chain : {r.chain}, started : {r.started}, paused : {r.paused},
           needsRebase : {r.needsRebase}, width : {r.width}, height : {r.height},
           anchor : {r.anchor}, start : {r.start}]

\* What a page has no part in.
Inner(r) ==
    <<r.window, r.items, r.queue, r.observed, r.cursor, r.remainder, r.chain, r.started,
      r.paused, r.needsRebase>>

\* To take up a page changes the anchor and the start.
LEMMA AnchoringKeeps ==
    ASSUME NEW r, Shaped(r)
    PROVE  LET a == AnchoredAtStart(r)
           IN  /\ Shaped(a) /\ Inner(a) = Inner(r)
               /\ a.scopes = r.scopes /\ a.width = r.width /\ a.height = r.height
BY DEF AnchoredAtStart, Shaped, Inner

LEMMA RepagingKeeps ==
    ASSUME NEW r, Shaped(r)
    PROVE  LET a == Repaged(r)
           IN  /\ Shaped(a) /\ Inner(a) = Inner(r)
               /\ a.scopes = r.scopes /\ a.width = r.width /\ a.height = r.height
<1>1. CASE r.scopes = {}
  BY <1>1 DEF Repaged, Shaped, Inner
<1>2. CASE r.scopes # {}
  <2> DEFINE s(start) == [r EXCEPT !.start = start]
  <2>1. PICK start : Repaged(r) = AnchoredAtStart(s(start))
    BY <1>2 DEF Repaged
  <2>2. /\ Shaped(s(start)) /\ Inner(s(start)) = Inner(r)
        /\ s(start).scopes = r.scopes /\ s(start).width = r.width /\ s(start).height = r.height
    BY DEF Shaped, Inner
  <2> HIDE DEF s
  <2> QED BY <2>1, <2>2, AnchoringKeeps
<1> QED BY <1>1, <1>2

LEMMA ResizingKeeps ==
    ASSUME NEW r, NEW w, NEW h, Shaped(r)
    PROVE  LET a == Resized(r, w, h)
           IN  /\ Shaped(a) /\ Inner(a) = Inner(r)
               /\ a.scopes = r.scopes /\ a.width = Larger(w, 0) /\ a.height = Larger(h, 0)
<1> DEFINE s == [r EXCEPT !.width = Larger(w, 0), !.height = Larger(h, 0)]
<1>1. /\ Shaped(s) /\ Inner(s) = Inner(r)
      /\ s.scopes = r.scopes /\ s.width = Larger(w, 0) /\ s.height = Larger(h, 0)
  BY DEF Shaped, Inner
<1>2. Resized(r, w, h) = Repaged(s) BY DEF Resized
<1> HIDE DEF s
<1> QED BY <1>1, <1>2, RepagingKeeps

LEMMA PagingKeeps ==
    ASSUME NEW r, NEW step, Shaped(r)
    PROVE  LET a == Paged(r, step)
           IN  /\ Shaped(a) /\ Inner(a) = Inner(r)
               /\ a.scopes = r.scopes /\ a.width = r.width /\ a.height = r.height
<1> DEFINE s(start) == [r EXCEPT !.start = start]
<1>1. PICK start : Paged(r, step) = AnchoredAtStart(s(start))
  BY DEF Paged
<1>2. /\ Shaped(s(start)) /\ Inner(s(start)) = Inner(r)
      /\ s(start).scopes = r.scopes /\ s(start).width = r.width /\ s(start).height = r.height
  BY DEF Shaped, Inner
<1> HIDE DEF s
<1> QED BY <1>1, <1>2, AnchoringKeeps

-----------------------------------------------------------------------------
(* The capacities of field and queue *)

\* Instants are numbers, and there are finitely many representations.
LEMMA RepresentationsOrdered ==
    /\ IsFiniteSet(Representations)
    /\ \A k \in Representations :
           k = <<k[1], k[2]>> /\ k[1] \in Nat /\ k[2] \in Nat /\ OccurredAt[k[1]] \in Nat
<1>1. IsFiniteSet(Events \X Scopes) BY PublishedAssumption, FS_Product
<1>2. ASSUME NEW k \in Events \X Scopes
      PROVE  k = <<k[1], k[2]>> /\ k[1] \in Nat /\ k[2] \in Nat /\ OccurredAt[k[1]] \in Nat
  <2>1. k = <<k[1], k[2]>> /\ k[1] \in Events /\ k[2] \in Scopes OBVIOUS
  <2> QED BY <2>1, PublishedAssumption
<1> QED BY <1>1, <1>2 DEF Representations

\* The order of a column, in which what stands in the field comes first.
Ahead(l, k, standing) ==
    \/ l \in standing /\ k \notin standing
    \/ (l \in standing <=> k \in standing) /\ Newer(l, k)
ColumnOf(K, s) == {k \in K : k[2] = s}
ColumnOrder(K, standing) == {pair \in K \X K : Ahead(pair[1], pair[2], standing)}

LEMMA ColumnOrdered ==
    ASSUME NEW K \in SUBSET Representations, NEW standing, NEW s
    PROVE  /\ IsFiniteSet(ColumnOf(K, s))
           /\ Orders(ColumnOrder(K, standing), ColumnOf(K, s))
           /\ \A k \in ColumnOf(K, s) :
                  Place(k, K, standing) = Rank(ColumnOrder(K, standing), ColumnOf(K, s), k)
<1>1. IsFiniteSet(ColumnOf(K, s))
  BY RepresentationsOrdered, FS_Subset DEF ColumnOf
<1>2. \A a, b \in K : <<a, b>> \in ColumnOrder(K, standing) <=> Ahead(a, b, standing)
  BY DEF ColumnOrder
<1>3. \A a \in ColumnOf(K, s) : ~Ahead(a, a, standing)
  BY RepresentationsOrdered DEF Ahead, Newer, NewerEvent, ColumnOf
<1>4. \A a, b, c \in ColumnOf(K, s) :
          Ahead(a, b, standing) /\ Ahead(b, c, standing) => Ahead(a, c, standing)
  BY RepresentationsOrdered DEF Ahead, Newer, NewerEvent, ColumnOf
<1>5. \A a, b \in ColumnOf(K, s) :
          a = b \/ Ahead(a, b, standing) \/ Ahead(b, a, standing)
  BY RepresentationsOrdered DEF Ahead, Newer, NewerEvent, ColumnOf
<1>6. Orders(ColumnOrder(K, standing), ColumnOf(K, s))
  <2>1. ColumnOf(K, s) \subseteq K BY DEF ColumnOf
  <2> QED BY <2>1, <1>2, <1>3, <1>4, <1>5 DEF Orders
<1>7. ASSUME NEW k \in ColumnOf(K, s)
      PROVE  Place(k, K, standing) = Rank(ColumnOrder(K, standing), ColumnOf(K, s), k)
  <2>1. {l \in K : l[2] = k[2] /\ Ahead(l, k, standing)}
            = {l \in ColumnOf(K, s) : <<l, k>> \in ColumnOrder(K, standing)}
    BY <1>2 DEF ColumnOf
  <2> QED BY <2>1 DEF Place, Rank, Ahead
<1> QED BY <1>1, <1>6, <1>7

\* No column is given more than its capacity.
LEMMA ColumnsCapped ==
    ASSUME NEW K \in SUBSET Representations, NEW standing, NEW c \in Nat, NEW s,
           NEW S \in SUBSET Capped(K, standing, c)
    PROVE  Cardinality(ColumnOf(S, s)) <= c
<1>1. ColumnOf(S, s) \in SUBSET ColumnOf(K, s)
  BY DEF Capped, ColumnOf
<1>2. \A k \in ColumnOf(S, s) :
          Rank(ColumnOrder(K, standing), ColumnOf(K, s), k) < c
  BY <1>1, ColumnOrdered DEF Capped, ColumnOf
<1> QED BY <1>1, <1>2, ColumnOrdered, RankedFew

\* What the rounds take is no more than the capacity.
LEMMA RoundsCapped ==
    ASSUME NEW K \in SUBSET Representations, NEW standing, NEW c \in Nat
    PROVE  Cardinality(RoundRobin(K, standing, c)) <= c
<1> DEFINE P(k) == Place(k, K, standing)
           Precedes(l, k) == P(l) < P(k) \/ (P(l) = P(k) /\ l[2] < k[2])
           R == {pair \in K \X K : Precedes(pair[1], pair[2])}
<1>1. IsFiniteSet(K) BY RepresentationsOrdered, FS_Subset
<1>2. \A k \in K : P(k) \in Nat /\ k[2] \in Nat
  BY <1>1, RepresentationsOrdered, FS_Subset, FS_CardinalityType DEF Place
<1>3. \A a, b \in K : a[2] = b[2] /\ P(a) = P(b) => a = b
  <2> SUFFICES ASSUME NEW a \in K, NEW b \in K, a[2] = b[2], P(a) = P(b), a # b
               PROVE  FALSE
    OBVIOUS
  <2>1. a \in ColumnOf(K, a[2]) /\ b \in ColumnOf(K, a[2]) BY DEF ColumnOf
  <2> QED BY <2>1, ColumnOrdered, RanksDiffer
<1>4. \A a, b \in K : <<a, b>> \in R <=> Precedes(a, b) OBVIOUS
<1> HIDE DEF P
<1>5. \A a \in K : ~Precedes(a, a) BY <1>2
<1>6. \A a, b, c1 \in K : Precedes(a, b) /\ Precedes(b, c1) => Precedes(a, c1) BY <1>2
<1>7. \A a, b \in K : a = b \/ Precedes(a, b) \/ Precedes(b, a) BY <1>2, <1>3
<1> HIDE DEF R
<1>8. Orders(R, K)
  <2> HIDE DEF Precedes
  <2> QED BY <1>4, <1>5, <1>6, <1>7 DEF Orders
<1>9. \A k \in K : Rank(R, K, k) = Cardinality({l \in K : Precedes(l, k)})
  <2> SUFFICES ASSUME NEW k \in K
               PROVE  {l \in K : <<l, k>> \in R} = {l \in K : Precedes(l, k)}
    BY DEF Rank
  <2> QED BY <1>4
<1>10. RoundRobin(K, standing, c) = {k \in K : Cardinality({l \in K : Precedes(l, k)}) < c}
  BY DEF RoundRobin, P
<1> HIDE DEF Precedes
<1>11. \A k \in RoundRobin(K, standing, c) : k \in K /\ Rank(R, K, k) < c BY <1>9, <1>10
<1> QED BY <1>1, <1>8, <1>11, RankedFew

-----------------------------------------------------------------------------
(* Time *)

\* Field and queue give representations an age and a phase.
Items(f) ==
    /\ f = [k \in DOMAIN f |-> f[k]]
    /\ DOMAIN f \subseteq Representations
    /\ \A k \in DOMAIN f : f[k] \in [age : Nat, phase : {f[k].phase}]

\* What time has no part in.
Outer(r) ==
    <<r.window, r.scopes, r.queue, r.observed, r.chain, r.started, r.paused, r.width,
      r.height, r.anchor, r.start>>

LEMMA AdvancingMoves ==
    ASSUME NEW r, Shaped(r), Items(r.items), r.cursor \in Nat, NEW at \in Nat, at > r.cursor
    PROVE  LET a == Advanced(r, at)
           IN  /\ Shaped(a) /\ Outer(a) = Outer(r) /\ a.needsRebase = r.needsRebase
               /\ a.cursor = at /\ Items(a.items)
               /\ DOMAIN a.items = {k \in DOMAIN r.items :
                                       Admits(r.window, r.items[k].age + (at - r.cursor))}
               /\ \A k \in DOMAIN a.items :
                      a.items[k].age = r.items[k].age + (at - r.cursor)
<1> DEFINE elapsed == at - r.cursor
           spent == StepsIn(elapsed + r.remainder)
           phase(k) == IF r.height = 0 THEN r.items[k].phase
                       ELSE (r.items[k].phase + spent.steps) % r.height
           moved(k) == [age |-> r.items[k].age + elapsed, phase |-> phase(k)]
           items == [k \in DOMAIN r.items |-> moved(k)]
           left == {k \in DOMAIN r.items : Admits(r.window, items[k].age)}
           a == [r EXCEPT !.cursor = at, !.remainder = spent.remainder,
                          !.items = [k \in left |-> items[k]]]
<1>1. Advanced(r, at) = a
  BY DEF Advanced, RestrictDomain, Restrict
<1> HIDE DEF spent, phase
<1>2. elapsed \in Nat BY DEF Shaped
<1>3. \A k \in DOMAIN r.items : r.items[k].age \in Nat BY DEF Items
<1>4. left = {k \in DOMAIN r.items : Admits(r.window, r.items[k].age + elapsed)}
  OBVIOUS
<1>5. \A k \in left : items[k] = moved(k) OBVIOUS
<1> HIDE DEF left, items
<1>6. /\ Shaped(a) /\ Outer(a) = Outer(r) /\ a.needsRebase = r.needsRebase /\ a.cursor = at
      /\ a.items = [k \in left |-> items[k]]
  BY DEF Shaped, Outer
<1> HIDE DEF a
<1>7. DOMAIN a.items = left /\ left \subseteq DOMAIN r.items BY <1>4, <1>6
<1>8. \A k \in left : a.items[k] = moved(k) BY <1>5, <1>6
<1> HIDE DEF elapsed
<1>9. \A k \in left : moved(k) \in [age : Nat, phase : {moved(k).phase}]
                      /\ moved(k).age = r.items[k].age + elapsed
  BY <1>2, <1>3, <1>7
<1> HIDE DEF moved
<1>10. Items(a.items) BY <1>6, <1>7, <1>8, <1>9 DEF Items
<1> QED BY <1>1, <1>4, <1>6, <1>7, <1>8, <1>9, <1>10 DEF elapsed

\* What a rain value is before and after an instant has been applied to it: time goes on
\* by what the cursor moved, and the items that are too old are gone.
Older(r, a) ==
    /\ a.cursor \in Nat /\ a.cursor >= r.cursor
    /\ Items(a.items)
    /\ DOMAIN a.items \subseteq DOMAIN r.items
    /\ \A k \in DOMAIN r.items :
           Admits(r.window, r.items[k].age + (a.cursor - r.cursor)) => k \in DOMAIN a.items
    /\ \A k \in DOMAIN a.items : /\ a.items[k].age >= r.items[k].age
                                 /\ a.items[k].age <= r.items[k].age + (a.cursor - r.cursor)
                                 /\ Admits(r.window, a.items[k].age)

\* What a rain value needs for that.
Timed(r) ==
    /\ Shaped(r)
    /\ r.cursor \in Nat /\ {r.started, r.paused, r.needsRebase} \subseteq BOOLEAN
    /\ Items(r.items) /\ \A k \in DOMAIN r.items : Admits(r.window, r.items[k].age)

LEMMA ApplyingAges ==
    ASSUME NEW r, Timed(r), NEW at \in Nat
    PROVE  LET a == Applied(r, at)
           IN  /\ Shaped(a) /\ Outer(a) = Outer(r) /\ Older(r, a)
               /\ r.paused => a = r
               /\ a.needsRebase \in BOOLEAN
               /\ a.needsRebase => r.needsRebase
               /\ r.needsRebase => a.items = r.items
               /\ r.needsRebase /\ ~a.needsRebase =>
                      ~r.paused /\ at > r.cursor /\ a.cursor > r.cursor
               /\ a.cursor \in {r.cursor, at}
<1>1. ASSUME r.paused \/ at <= r.cursor
      PROVE  Applied(r, at) = r /\ Older(r, r)
  <2>1. \A k \in DOMAIN r.items : r.items[k].age \in Nat BY DEF Timed, Items
  <2> QED BY <1>1, <2>1 DEF Applied, Older, Timed
<1>2. ASSUME ~r.paused, at > r.cursor, r.needsRebase
      PROVE  LET a == Applied(r, at)
             IN  /\ Shaped(a) /\ Outer(a) = Outer(r) /\ Older(r, a)
                 /\ a.items = r.items /\ ~a.needsRebase /\ a.cursor = at
                 /\ a.needsRebase \in BOOLEAN
  <2> DEFINE a == [r EXCEPT !.cursor = at, !.needsRebase = FALSE]
  <2>1. Applied(r, at) = a BY <1>2 DEF Applied, Timed
  <2>2. /\ Shaped(a) /\ Outer(a) = Outer(r) /\ a.items = r.items /\ a.needsRebase = FALSE
        /\ a.cursor = at
    BY DEF Timed, Shaped, Outer
  <2> HIDE DEF a
  <2>3. \A k \in DOMAIN r.items : r.items[k].age \in Nat BY DEF Timed, Items
  <2>4. Older(r, a) BY <1>2, <2>2, <2>3 DEF Older, Timed
  <2> QED BY <2>1, <2>2, <2>4
<1>3. ASSUME ~r.paused, at > r.cursor, ~r.needsRebase
      PROVE  LET a == Applied(r, at)
             IN  /\ Shaped(a) /\ Outer(a) = Outer(r) /\ Older(r, a)
                 /\ a.needsRebase = r.needsRebase /\ a.cursor = at
  <2> DEFINE a == Advanced(r, at)
  <2>1. Applied(r, at) = a BY <1>3 DEF Applied, Timed
  <2>2. /\ Shaped(a) /\ Outer(a) = Outer(r) /\ a.needsRebase = r.needsRebase
        /\ a.cursor = at /\ Items(a.items)
        /\ DOMAIN a.items = {k \in DOMAIN r.items :
                                Admits(r.window, r.items[k].age + (at - r.cursor))}
        /\ \A k \in DOMAIN a.items : a.items[k].age = r.items[k].age + (at - r.cursor)
    BY <1>3, AdvancingMoves DEF Timed
  <2> HIDE DEF a
  <2>3. \A k \in DOMAIN r.items : r.items[k].age \in Nat BY DEF Timed, Items
  <2>4. Older(r, a) BY <1>3, <2>2, <2>3 DEF Older, Timed
  <2> QED BY <2>1, <2>2, <2>4
<1>4. r.paused \in BOOLEAN /\ r.needsRebase \in BOOLEAN /\ r.cursor \in Nat BY DEF Timed
<1>5. CASE r.paused \/ at <= r.cursor
  <2>1. Shaped(r) BY DEF Timed
  <2> QED BY <1>1, <1>4, <1>5, <2>1
<1>6. CASE ~r.paused /\ at > r.cursor /\ r.needsRebase BY <1>2, <1>4, <1>6
<1>7. CASE ~r.paused /\ at > r.cursor /\ ~r.needsRebase BY <1>3, <1>4, <1>7
<1> QED BY <1>4, <1>5, <1>6, <1>7

-----------------------------------------------------------------------------
(* What a rebuild makes of field and queue *)

\* Field and queue are apart, keep to their capacities, and only a pause has a queue.
Held(r) ==
    /\ Shaped(r)
    /\ r.cursor \in Nat /\ {r.started, r.paused, r.needsRebase} \subseteq BOOLEAN
    /\ Items(r.items) /\ Items(r.queue)
    /\ DOMAIN r.items \cap DOMAIN r.queue = {}
    /\ Cardinality(DOMAIN r.items) <= GlobalCap
    /\ \A s \in Scopes : Cardinality({k \in DOMAIN r.items : k[2] = s}) <= ColumnCap
    /\ Cardinality(DOMAIN r.queue) <= QueueCap
    /\ ~r.paused => DOMAIN r.queue = {}

\* They hold only what is confirmed, and young enough for the window.
Shown(r, confirmed) ==
    /\ DOMAIN r.items \cup DOMAIN r.queue \subseteq confirmed
    /\ \A k \in DOMAIN r.items : Admits(r.window, r.items[k].age)
    /\ \A k \in DOMAIN r.queue : Admits(r.window, r.queue[k].age)

\* What a rebuild has no part in.
Frame(r) ==
    <<r.window, r.scopes, r.cursor, r.remainder, r.chain, r.started, r.paused,
      r.needsRebase, r.width, r.height, r.anchor, r.start>>

Previous(r, k) == IF k \in DOMAIN r.queue THEN r.queue[k] ELSE r.items[k]

\* No representation gets older than it was and than its event is.
Oldest(r, k) ==
    IF k \in DOMAIN r.items \cup DOMAIN r.queue THEN ItemOf(r, k).age ELSE 0
NotOlder(r, k, age) == age <= Oldest(r, k) \/ age <= r.cursor - OccurredAt[k[1]]

\* Candidates are confirmed and young enough, and one that is retained is no younger
\* than it was; with frozen ages it is what it was.
Succeed(C, r, confirmed, frozenAges) ==
    /\ Items(C) /\ DOMAIN C \subseteq confirmed
    /\ \A k \in DOMAIN C :
           /\ Admits(r.window, C[k].age) /\ NotOlder(r, k, C[k].age)
           /\ k \in DOMAIN r.queue \cup DOMAIN r.items =>
                  /\ C[k].age >= Previous(r, k).age
                  /\ frozenAges => C[k] = Previous(r, k)

LEMMA CandidatesSucceed ==
    ASSUME NEW r, Held(r), NEW confirmed \in SUBSET Representations,
           NEW first \in BOOLEAN, NEW frozenAges \in BOOLEAN
    PROVE  Succeed(Candidates(r, confirmed, first, frozenAges), r, confirmed, frozenAges)
<1> DEFINE c(k) == Candidate(r, k, first, frozenAges)
           all == [k \in confirmed |-> c(k)]
           left == {k \in confirmed : Admits(r.window, all[k].age)}
           C == [k \in left |-> all[k]]
<1>1. Candidates(r, confirmed, first, frozenAges) = C
  BY DEF Candidates, RestrictDomain, Restrict
<1>2. ASSUME NEW k \in confirmed
      PROVE  /\ c(k) \in [age : Nat, phase : {c(k).phase}]
             /\ NotOlder(r, k, c(k).age)
             /\ k \in DOMAIN r.queue \cup DOMAIN r.items =>
                    /\ c(k).age >= Previous(r, k).age
                    /\ frozenAges => c(k) = Previous(r, k)
  <2> DEFINE age == Larger(r.cursor - OccurredAt[k[1]], 0)
             p == Previous(r, k)
  <2>1. age \in Nat /\ (age = 0 \/ age <= r.cursor - OccurredAt[k[1]])
    <3>1. OccurredAt[k[1]] \in Nat /\ r.cursor \in Nat BY RepresentationsOrdered DEF Held
    <3> QED BY <3>1 DEF Larger
  <2>2. CASE k \in DOMAIN r.queue \cup DOMAIN r.items
    <3>1. p \in [age : Nat, phase : {p.phase}]
      BY <2>2 DEF Held, Items, Previous
    <3>2. c(k) = [p EXCEPT !.age = IF frozenAges THEN p.age ELSE Larger(p.age, age)]
      BY <2>2 DEF Candidate, SurvivingAge, Previous
    <3>3. Oldest(r, k) = p.age BY <2>2 DEF Held, Oldest, ItemOf, Previous
    <3> HIDE DEF p, age
    <3>4. c(k).age \in {p.age, age} /\ (age = 0 => c(k).age = p.age)
      BY <2>1, <3>1, <3>2 DEF Larger
    <3>5. NotOlder(r, k, c(k).age) BY <2>1, <3>1, <3>3, <3>4 DEF NotOlder
    <3> QED BY <2>1, <3>1, <3>2, <3>5 DEF Larger, p
  <2>3. CASE k \notin DOMAIN r.queue \cup DOMAIN r.items
    <3>1. PICK phase : c(k) = [age |-> age, phase |-> phase]
      BY <2>3 DEF Candidate
    <3>2. c(k).age = age /\ Oldest(r, k) = 0 BY <2>3, <3>1 DEF Oldest
    <3> HIDE DEF age
    <3>3. NotOlder(r, k, c(k).age) BY <2>1, <3>2 DEF NotOlder
    <3> QED BY <2>1, <2>3, <3>1, <3>3
  <2> QED BY <2>2, <2>3
<1> HIDE DEF c
<1>3. \A k \in left : k \in confirmed /\ all[k] = c(k) /\ Admits(r.window, c(k).age) OBVIOUS
<1>4. DOMAIN C = left /\ C = [k \in left |-> C[k]] /\ \A k \in left : C[k] = c(k) BY <1>3
<1> HIDE DEF left, C
<1>5. Items(C) BY <1>2, <1>3, <1>4 DEF Items
<1> QED BY <1>1, <1>2, <1>3, <1>4, <1>5 DEF Succeed

\* A subset of a finite set of representations is no larger.
LEMMA NoMore ==
    ASSUME NEW S \in SUBSET Representations, NEW T \in SUBSET S
    PROVE  /\ Cardinality(T) \in Nat /\ Cardinality(S) \in Nat
           /\ Cardinality(T) <= Cardinality(S)
BY RepresentationsOrdered, FS_Subset, FS_CardinalityType

\* Part of the field keeps to the capacities.
LEMMA FewerFit ==
    ASSUME NEW r, Held(r), NEW S \in SUBSET DOMAIN r.items
    PROVE  /\ Cardinality(S) <= GlobalCap
           /\ \A s \in Scopes : Cardinality(ColumnOf(S, s)) <= ColumnCap
<1>1. DOMAIN r.items \in SUBSET Representations /\ GlobalCap \in Nat /\ ColumnCap \in Nat
  BY RainAssumption DEF Held, Items
<1>2. Cardinality(S) <= GlobalCap
  <2>1. /\ Cardinality(S) <= Cardinality(DOMAIN r.items)
        /\ Cardinality(S) \in Nat /\ Cardinality(DOMAIN r.items) \in Nat
    BY <1>1, NoMore
  <2> QED BY <1>1, <2>1 DEF Held
<1>3. ASSUME NEW s \in Scopes PROVE Cardinality(ColumnOf(S, s)) <= ColumnCap
  <2>1. ColumnOf(S, s) \in SUBSET ColumnOf(DOMAIN r.items, s)
        /\ ColumnOf(DOMAIN r.items, s) \in SUBSET Representations
    BY <1>1 DEF ColumnOf
  <2>2. Cardinality(ColumnOf(DOMAIN r.items, s)) <= ColumnCap BY DEF Held, ColumnOf
  <2>3. /\ Cardinality(ColumnOf(S, s)) <= Cardinality(ColumnOf(DOMAIN r.items, s))
        /\ Cardinality(ColumnOf(S, s)) \in Nat
        /\ Cardinality(ColumnOf(DOMAIN r.items, s)) \in Nat
    BY <2>1, NoMore
  <2> QED BY <1>1, <2>2, <2>3
<1> QED BY <1>2, <1>3

\* Part of a map of items is one.
LEMMA PartOfItems ==
    ASSUME NEW f, Items(f), NEW S \in SUBSET DOMAIN f
    PROVE  LET g == Restrict(f, S)
           IN  Items(g) /\ DOMAIN g = S /\ \A k \in S : g[k] = f[k]
BY DEF Items, Restrict

\* What is admitted keeps to the capacities.
LEMMA AdmittedFits ==
    ASSUME NEW r, Shaped(r), NEW C, Items(C), NEW standing
    PROVE  LET a == Admitted(r, C, standing)
           IN  /\ Shaped(a) /\ Frame(a) = Frame(r)
               /\ a.queue = r.queue /\ a.observed = r.observed
               /\ Items(a.items) /\ DOMAIN a.items \subseteq DOMAIN C
               /\ \A k \in DOMAIN a.items : a.items[k] = C[k]
               /\ Cardinality(DOMAIN a.items) <= GlobalCap
               /\ \A s \in Scopes : Cardinality({k \in DOMAIN a.items : k[2] = s}) <= ColumnCap
<1> DEFINE columns == Capped(DOMAIN C, standing, ColumnCap)
           S == RoundRobin(columns, standing, GlobalCap)
           g == Restrict(C, S)
           a == [r EXCEPT !.items = g]
<1>1. Admitted(r, C, standing) = a BY DEF Admitted
<1>2. GlobalCap \in Nat /\ ColumnCap \in Nat BY RainAssumption
<1>3. columns \in SUBSET DOMAIN C /\ DOMAIN C \in SUBSET Representations /\ S \in SUBSET columns
  BY DEF Items, Capped, RoundRobin
<1>4. Cardinality(S) <= GlobalCap
  <2>1. columns \in SUBSET Representations BY <1>3
  <2> HIDE DEF columns
  <2> QED BY <2>1, <1>2, RoundsCapped
<1>5. \A s \in Scopes : Cardinality({k \in S : k[2] = s}) <= ColumnCap
  <2>1. S \in SUBSET Capped(DOMAIN C, standing, ColumnCap) BY <1>3
  <2>2. DOMAIN C \in SUBSET Representations BY <1>3
  <2> HIDE DEF S, columns
  <2>3. TAKE s \in Scopes
  <2>4. Cardinality(ColumnOf(S, s)) <= ColumnCap BY <1>2, <2>1, <2>2, ColumnsCapped
  <2> QED BY <2>4 DEF ColumnOf
<1> HIDE DEF S, columns
<1>6. Items(g) /\ DOMAIN g = S /\ \A k \in S : g[k] = C[k]
  BY <1>3, PartOfItems
<1> HIDE DEF g
<1>7. Shaped(a) /\ Frame(a) = Frame(r) /\ a.queue = r.queue /\ a.observed = r.observed
      /\ a.items = g
  BY DEF Shaped, Frame
<1> HIDE DEF a
<1> QED BY <1>1, <1>3, <1>4, <1>5, <1>6, <1>7

\* The queue takes no more than its capacity of the arrivals, at row zero.
LEMMA QueuedFits ==
    ASSUME NEW r, Shaped(r), NEW C, Items(C), NEW arrivals \in SUBSET DOMAIN C
    PROVE  LET a == Queued(r, arrivals, C)
           IN  /\ Shaped(a) /\ Frame(a) = Frame(r)
               /\ a.items = r.items /\ a.observed = r.observed
               /\ Items(a.queue) /\ DOMAIN a.queue \subseteq arrivals
               /\ \A k \in DOMAIN a.queue : a.queue[k].age = C[k].age
               /\ Cardinality(DOMAIN a.queue) <= QueueCap
<1> DEFINE S == RoundRobin(arrivals, {}, QueueCap)
           g == [k \in S |-> [C[k] EXCEPT !.phase = 0]]
           a == [r EXCEPT !.queue = g]
<1>1. Queued(r, arrivals, C) = a BY DEF Queued
<1>2. arrivals \in SUBSET Representations BY DEF Items
<1>3. Cardinality(S) <= QueueCap BY <1>2, RoundsCapped, RainAssumption
<1>4. S \subseteq arrivals BY DEF RoundRobin
<1> HIDE DEF S
<1>5. \A k \in S : /\ [C[k] EXCEPT !.phase = 0] \in [age : Nat, phase : {0}]
                   /\ [C[k] EXCEPT !.phase = 0].age = C[k].age
                   /\ [C[k] EXCEPT !.phase = 0].phase = 0
  BY <1>4 DEF Items
<1>6. Items(g) /\ DOMAIN g = S /\ \A k \in S : g[k].age = C[k].age
  BY <1>2, <1>4, <1>5 DEF Items
<1> HIDE DEF g
<1>7. Shaped(a) /\ Frame(a) = Frame(r) /\ a.items = r.items /\ a.observed = r.observed
      /\ a.queue = g
  BY DEF Shaped, Frame
<1> HIDE DEF a
<1> QED BY <1>1, <1>3, <1>4, <1>6, <1>7

\* The ages of what stays do not shrink, nor does anything age more than it has to; if it
\* stays still, its items are what they were.
Survives(r, a, still) ==
    /\ \A k \in DOMAIN a.items \cup DOMAIN a.queue : NotOlder(r, k, ItemOf(a, k).age)
    /\ \A k \in (DOMAIN a.items \cup DOMAIN a.queue) \cap (DOMAIN r.items \cup DOMAIN r.queue) :
           ItemOf(a, k).age >= ItemOf(r, k).age
    /\ still => \A k \in DOMAIN a.items \cap DOMAIN r.items : a.items[k] = r.items[k]

\* A rain value after a rebuild of one.
Rebuilds(r, a, confirmed, still) ==
    /\ Held(a) /\ Shown(a, confirmed) /\ Frame(a) = Frame(r) /\ Survives(r, a, still)

\* A pause keeps what is confirmed of the field, and queues what arrives.
LEMMA FreezingRebuilds ==
    ASSUME NEW r, Held(r), r.paused, NEW confirmed, NEW C, NEW frozenAges \in BOOLEAN,
           Succeed(C, r, confirmed, frozenAges),
           \A k \in DOMAIN r.items : Admits(r.window, r.items[k].age)
    PROVE  Rebuilds(r, Frozen(r, C), confirmed, TRUE)
<1> DEFINE S == DOMAIN r.items \cap DOMAIN C
           g == Restrict(r.items, S)
           b == [r EXCEPT !.items = g]
           arrivals == DOMAIN C \ DOMAIN r.items
           a == Queued(b, arrivals, C)
<1>1. Frozen(r, C) = a BY DEF Frozen, FrozenItems
<1>2. Items(g) /\ DOMAIN g = S /\ \A k \in S : g[k] = r.items[k]
  BY PartOfItems DEF Held
<1> HIDE DEF g
<1>3. Shaped(b) /\ Frame(b) = Frame(r) /\ b.items = g
  BY DEF Held, Shaped, Frame
<1> HIDE DEF b
<1>4. /\ Shaped(a) /\ Frame(a) = Frame(r) /\ a.items = g
      /\ Items(a.queue) /\ DOMAIN a.queue \subseteq arrivals
      /\ \A k \in DOMAIN a.queue : a.queue[k].age = C[k].age
      /\ Cardinality(DOMAIN a.queue) <= QueueCap
  BY <1>3, QueuedFits DEF Succeed
<1> HIDE DEF a
<1>5. /\ Cardinality(DOMAIN a.items) <= GlobalCap
      /\ \A s \in Scopes : Cardinality({k \in DOMAIN a.items : k[2] = s}) <= ColumnCap
  <2>1. DOMAIN a.items = S BY <1>2, <1>4
  <2>2. S \in SUBSET DOMAIN r.items OBVIOUS
  <2> HIDE DEF S
  <2> QED BY <2>1, <2>2, FewerFit DEF ColumnOf
<1>6. /\ a.paused = r.paused /\ a.started = r.started /\ a.needsRebase = r.needsRebase
      /\ a.cursor = r.cursor /\ a.window = r.window
  BY <1>4 DEF Frame
<1>7. Held(a)
  <2>1. DOMAIN a.items \cap DOMAIN a.queue = {} BY <1>2, <1>4
  <2> QED BY <1>2, <1>4, <1>5, <1>6, <2>1 DEF Held
<1>8. Shown(a, confirmed)
  BY <1>2, <1>4, <1>6 DEF Shown, Succeed
<1>9. Survives(r, a, TRUE)
  <2>1. \A k \in DOMAIN r.items : r.items[k].age \in Nat BY DEF Held, Items
  <2>2. ASSUME NEW k \in DOMAIN a.items, k \in DOMAIN r.items \cup DOMAIN r.queue
        PROVE  ItemOf(a, k).age >= ItemOf(r, k).age
    BY <1>2, <1>4, <2>1, <2>2 DEF ItemOf
  <2>3. ASSUME NEW k \in DOMAIN a.queue, k \in DOMAIN r.items \cup DOMAIN r.queue
        PROVE  ItemOf(a, k).age >= ItemOf(r, k).age
    BY <1>2, <1>4, <2>3 DEF ItemOf, Succeed, Previous
  <2>4. ASSUME NEW k \in DOMAIN a.items PROVE NotOlder(r, k, ItemOf(a, k).age)
    <3>1. k \in DOMAIN r.items /\ ItemOf(a, k) = r.items[k] BY <1>2, <1>4, <2>4 DEF ItemOf
    <3>2. Oldest(r, k) = r.items[k].age BY <3>1 DEF Oldest, ItemOf
    <3> QED BY <2>1, <3>1, <3>2 DEF NotOlder
  <2>5. ASSUME NEW k \in DOMAIN a.queue PROVE NotOlder(r, k, ItemOf(a, k).age)
    <3>1. k \in DOMAIN C /\ k \notin DOMAIN a.items /\ a.queue[k].age = C[k].age
      BY <1>2, <1>4, <2>5
    <3>2. NotOlder(r, k, C[k].age) BY <3>1 DEF Succeed
    <3> QED BY <3>1, <3>2 DEF ItemOf
  <2> QED BY <1>2, <1>4, <2>2, <2>3, <2>4, <2>5 DEF Survives
<1> QED BY <1>1, <1>4, <1>7, <1>8, <1>9 DEF Rebuilds

\* A window change while paused fills the field anew, beside the queue.
LEMMA RestoringRebuilds ==
    ASSUME NEW r, Held(r), r.paused, NEW confirmed, NEW C, NEW frozenAges \in BOOLEAN,
           Succeed(C, r, confirmed, frozenAges)
    PROVE  Rebuilds(r, Restored(r, C), confirmed, frozenAges)
<1> DEFINE S == DOMAIN C \ DOMAIN r.queue
           g == Restrict(C, S)
           b == Admitted(r, g, {})
           arrivals == DOMAIN C \cap DOMAIN r.queue
           a == Queued(b, arrivals, C)
<1>1. Restored(r, C) = a BY DEF Restored, RestoredField
<1>2. Items(g) /\ DOMAIN g = S /\ \A k \in S : g[k] = C[k]
  BY PartOfItems DEF Succeed
<1> HIDE DEF g
<1>3. /\ Shaped(b) /\ Frame(b) = Frame(r)
      /\ Items(b.items) /\ DOMAIN b.items \subseteq S
      /\ \A k \in DOMAIN b.items : b.items[k] = C[k]
      /\ Cardinality(DOMAIN b.items) <= GlobalCap
      /\ \A s \in Scopes : Cardinality({k \in DOMAIN b.items : k[2] = s}) <= ColumnCap
  BY <1>2, AdmittedFits DEF Held
<1> HIDE DEF b
<1>4. /\ Shaped(a) /\ Frame(a) = Frame(r) /\ a.items = b.items
      /\ Items(a.queue) /\ DOMAIN a.queue \subseteq arrivals
      /\ \A k \in DOMAIN a.queue : a.queue[k].age = C[k].age
      /\ Cardinality(DOMAIN a.queue) <= QueueCap
  BY <1>3, QueuedFits DEF Succeed
<1> HIDE DEF a
<1>6. /\ a.paused = r.paused /\ a.started = r.started /\ a.needsRebase = r.needsRebase
      /\ a.cursor = r.cursor /\ a.window = r.window
  BY <1>4 DEF Frame
<1>7. Held(a)
  <2>1. DOMAIN a.items \cap DOMAIN a.queue = {} BY <1>3, <1>4
  <2> QED BY <1>3, <1>4, <1>6, <2>1 DEF Held
<1>8. Shown(a, confirmed)
  BY <1>3, <1>4, <1>6 DEF Shown, Succeed
<1>9. Survives(r, a, frozenAges)
  <2>1. ASSUME NEW k \in DOMAIN a.items, k \in DOMAIN r.items \cup DOMAIN r.queue
        PROVE  /\ ItemOf(a, k).age >= ItemOf(r, k).age
               /\ frozenAges => a.items[k] = r.items[k]
    BY <1>3, <1>4, <2>1 DEF ItemOf, Succeed, Previous
  <2>2. ASSUME NEW k \in DOMAIN a.queue, k \in DOMAIN r.items \cup DOMAIN r.queue
        PROVE  ItemOf(a, k).age >= ItemOf(r, k).age
    <3>1. k \in DOMAIN r.queue /\ k \notin DOMAIN r.items /\ k \notin DOMAIN a.items
      BY <1>4, <1>7, <2>2 DEF Held
    <3> QED BY <1>4, <2>2, <3>1 DEF ItemOf, Succeed, Previous
  <2>3. ASSUME NEW k \in DOMAIN a.items \cup DOMAIN a.queue
        PROVE  NotOlder(r, k, ItemOf(a, k).age)
    <3>1. k \in DOMAIN C /\ ItemOf(a, k).age = C[k].age
      BY <1>2, <1>3, <1>4, <1>7 DEF Held, ItemOf
    <3>2. NotOlder(r, k, C[k].age) BY <3>1 DEF Succeed
    <3> QED BY <3>1, <3>2
  <2> QED BY <2>1, <2>2, <2>3 DEF Survives
<1> QED BY <1>1, <1>4, <1>7, <1>8, <1>9 DEF Rebuilds

\* While not paused, the field is filled with the candidates, and no queue is.
LEMMA FillingRebuilds ==
    ASSUME NEW r, Held(r), ~r.paused, NEW confirmed, NEW C, NEW frozenAges \in BOOLEAN,
           Succeed(C, r, confirmed, frozenAges)
    PROVE  Rebuilds(r, Admitted(r, C, {}), confirmed, frozenAges)
<1> DEFINE a == Admitted(r, C, {})
<1>1. /\ Shaped(a) /\ Frame(a) = Frame(r) /\ a.queue = r.queue
      /\ Items(a.items) /\ DOMAIN a.items \subseteq DOMAIN C
      /\ \A k \in DOMAIN a.items : a.items[k] = C[k]
      /\ Cardinality(DOMAIN a.items) <= GlobalCap
      /\ \A s \in Scopes : Cardinality({k \in DOMAIN a.items : k[2] = s}) <= ColumnCap
  BY AdmittedFits DEF Held, Succeed
<1> HIDE DEF a
<1>2. /\ a.paused = r.paused /\ a.started = r.started /\ a.needsRebase = r.needsRebase
      /\ a.cursor = r.cursor /\ a.window = r.window
  BY <1>1 DEF Frame
<1>3. DOMAIN r.queue = {} /\ DOMAIN a.queue = {} BY <1>1 DEF Held
<1>4. Held(a) BY <1>1, <1>2, <1>3 DEF Held
<1>5. Shown(a, confirmed) BY <1>1, <1>2, <1>3 DEF Shown, Succeed
<1>6. Survives(r, a, frozenAges)
  <2>1. \A k \in DOMAIN a.items : k \in DOMAIN C /\ ItemOf(a, k) = C[k]
    BY <1>1 DEF ItemOf
  <2>2. \A k \in DOMAIN a.items : NotOlder(r, k, ItemOf(a, k).age)
    BY <2>1 DEF Succeed
  <2> QED BY <1>1, <1>3, <2>2 DEF Survives, Succeed, Previous, ItemOf
<1> QED BY <1>1, <1>4, <1>5, <1>6 DEF Rebuilds, a

LEMMA RebuildingRebuilds ==
    ASSUME NEW r, Held(r), NEW confirmed \in SUBSET Representations,
           NEW first \in BOOLEAN, NEW frozenAges \in BOOLEAN, NEW restoring \in BOOLEAN,
           r.paused /\ ~restoring => \A k \in DOMAIN r.items : Admits(r.window, r.items[k].age)
    PROVE  Rebuilds(r, Rebuilt(r, confirmed, first, frozenAges, restoring), confirmed,
                    frozenAges \/ (r.paused /\ ~restoring))
<1> DEFINE C == Candidates(r, confirmed, first, frozenAges)
           seen == [r EXCEPT !.observed = confirmed]
           a == Rebuilt(r, confirmed, first, frozenAges, restoring)
<1>1. Succeed(C, r, confirmed, frozenAges) BY CandidatesSucceed
<1> HIDE DEF C
<1>2. a = IF r.paused /\ restoring THEN Restored(seen, C)
          ELSE IF r.paused THEN Frozen(seen, C)
          ELSE Admitted(seen, C, {})
  BY DEF Rebuilt, C
<1>3. /\ Shaped(seen) /\ Frame(seen) = Frame(r)
      /\ seen.items = r.items /\ seen.queue = r.queue
      /\ seen.paused = r.paused /\ seen.started = r.started /\ seen.window = r.window
      /\ seen.needsRebase = r.needsRebase /\ seen.cursor = r.cursor
  BY DEF Held, Shaped, Frame
<1> HIDE DEF seen
<1>4. /\ Held(seen) /\ Succeed(C, seen, confirmed, frozenAges)
      /\ \A k, age : NotOlder(seen, k, age) <=> NotOlder(r, k, age)
  <2>1. \A k, age : NotOlder(seen, k, age) <=> NotOlder(r, k, age)
    BY <1>3 DEF NotOlder, Oldest, ItemOf
  <2> QED BY <1>1, <1>3, <2>1 DEF Held, Succeed, Previous
<1>5. r.paused \in BOOLEAN BY DEF Held
<1>6. ASSUME NEW still, Rebuilds(seen, a, confirmed, still)
      PROVE  Rebuilds(r, a, confirmed, still)
  BY <1>3, <1>4, <1>6 DEF Rebuilds, Survives, ItemOf
<1> HIDE DEF a
<1>7. CASE r.paused /\ restoring
  <2>1. Rebuilds(seen, a, confirmed, frozenAges) BY <1>2, <1>3, <1>4, <1>7, RestoringRebuilds
  <2> QED BY <2>1, <1>6, <1>7 DEF Rebuilds, Survives, a
<1>8. CASE r.paused /\ ~restoring
  <2>1. Rebuilds(seen, a, confirmed, TRUE) BY <1>2, <1>3, <1>4, <1>8, FreezingRebuilds
  <2> QED BY <2>1, <1>6, <1>8 DEF Rebuilds, Survives, a
<1>9. CASE ~r.paused
  <2>1. Rebuilds(seen, a, confirmed, frozenAges) BY <1>2, <1>3, <1>4, <1>9, FillingRebuilds
  <2> QED BY <2>1, <1>6, <1>9 DEF Rebuilds, Survives, a
<1> QED BY <1>5, <1>7, <1>8, <1>9

\* A resume lets the field take in the queue.
LEMMA MergingRebuilds ==
    ASSUME NEW r, Shaped(r), Items(r.items), Items(r.queue),
           r.cursor \in Nat, {r.started, r.paused, r.needsRebase} \subseteq BOOLEAN,
           NEW confirmed, Shown(r, confirmed)
    PROVE  Rebuilds(r, Merged(r), confirmed, TRUE)
<1> DEFINE all == [k \in DOMAIN r.items \cup DOMAIN r.queue |->
                      IF k \in DOMAIN r.items THEN r.items[k] ELSE r.queue[k]]
           b == [r EXCEPT !.queue = NoItems]
           a == Admitted(b, all, DOMAIN r.items)
<1>1. Merged(r) = a BY DEF Merged, EmptyQueue
<1>2. /\ Items(all) /\ DOMAIN all = DOMAIN r.items \cup DOMAIN r.queue
      /\ \A k \in DOMAIN all : all[k] = ItemOf(r, k)
  BY DEF Items, ItemOf
<1> HIDE DEF all
<1>3. /\ Shaped(b) /\ Frame(b) = Frame(r) /\ b.queue = NoItems
  BY DEF Shaped, Frame
<1> HIDE DEF b
<1>4. /\ Shaped(a) /\ Frame(a) = Frame(r) /\ a.queue = NoItems
      /\ Items(a.items) /\ DOMAIN a.items \subseteq DOMAIN all
      /\ \A k \in DOMAIN a.items : a.items[k] = all[k]
      /\ Cardinality(DOMAIN a.items) <= GlobalCap
      /\ \A s \in Scopes : Cardinality({k \in DOMAIN a.items : k[2] = s}) <= ColumnCap
  BY <1>2, <1>3, AdmittedFits
<1> HIDE DEF a
<1>5. /\ a.paused = r.paused /\ a.started = r.started /\ a.needsRebase = r.needsRebase
      /\ a.cursor = r.cursor /\ a.window = r.window
  BY <1>4 DEF Frame
<1>6. /\ Items(NoItems) /\ DOMAIN NoItems = {} /\ Cardinality(DOMAIN NoItems) <= QueueCap
  <2>1. DOMAIN NoItems = {} BY DEF NoItems
  <2>2. Items(NoItems) BY DEF NoItems, Items
  <2>3. QueueCap \in Nat BY RainAssumption
  <2> QED BY <2>1, <2>2, <2>3, FS_EmptySet
<1>7. Held(a) BY <1>4, <1>5, <1>6 DEF Held
<1>8. Shown(a, confirmed) BY <1>2, <1>4, <1>5, <1>6 DEF Shown, ItemOf
<1>9. Survives(r, a, TRUE)
  <2>1. \A k \in DOMAIN all : ItemOf(r, k).age \in Nat BY <1>2 DEF Items
  <2>2. ASSUME NEW k \in DOMAIN a.items \cup DOMAIN a.queue
        PROVE  NotOlder(r, k, ItemOf(a, k).age)
    <3>1. k \in DOMAIN all /\ ItemOf(a, k) = ItemOf(r, k) BY <1>2, <1>4, <1>6 DEF ItemOf
    <3>2. Oldest(r, k) = ItemOf(r, k).age BY <1>2, <3>1 DEF Oldest
    <3> QED BY <2>1, <3>1, <3>2 DEF NotOlder
  <2> QED BY <1>2, <1>4, <1>6, <2>1, <2>2 DEF Survives, ItemOf
<1> QED BY <1>1, <1>4, <1>7, <1>8, <1>9 DEF Rebuilds

-----------------------------------------------------------------------------
(* The transitions *)

\* A rain value between two handlers: before it has started it is empty and not paused.
Settled(r, confirmed) ==
    /\ Held(r) /\ Shown(r, confirmed)
    /\ ~r.started => ~r.paused /\ DOMAIN r.items = {} /\ DOMAIN r.queue = {}

\* What stays ages by what the cursor moved, or gets the age of its event.
AgesOnce(r, a) ==
    \A k \in (DOMAIN a.items \cup DOMAIN a.queue) \cap (DOMAIN r.items \cup DOMAIN r.queue) :
        \/ ItemOf(a, k).age <= ItemOf(r, k).age + (a.cursor - r.cursor)
        \/ ItemOf(a, k).age <= a.cursor - OccurredAt[k[1]]

\* What a transition of the view makes of a rain value.
Follows(r, a, confirmed) ==
    /\ Settled(a, confirmed)
    \* the ages of what stays do not shrink
    /\ \A k \in (DOMAIN a.items \cup DOMAIN a.queue) \cap (DOMAIN r.items \cup DOMAIN r.queue) :
           Admits(a.window, ItemOf(r, k).age + (a.cursor - r.cursor)) =>
               ItemOf(a, k).age >= ItemOf(r, k).age
    /\ AgesOnce(r, a)
    \* paused, it stays still
    /\ r.paused /\ a.paused =>
           /\ a.cursor = r.cursor
           /\ \A k \in DOMAIN a.items \cap DOMAIN r.items : a.items[k] = r.items[k]
    \* the first step after a resume only takes over the instant
    /\ r.needsRebase /\ ~a.needsRebase =>
           /\ a.cursor > r.cursor
           /\ \A k \in DOMAIN a.items \cap DOMAIN r.items : a.items[k] = r.items[k]

\* While the cursor stands, what survives grows no older than its event.
LEMMA StandingAges ==
    ASSUME NEW r, NEW a, NEW still, Survives(r, a, still), r.cursor \in Nat, a.cursor = r.cursor,
           \A k \in DOMAIN r.items \cup DOMAIN r.queue : ItemOf(r, k).age \in Nat
    PROVE  AgesOnce(r, a)
<1> SUFFICES ASSUME NEW k \in (DOMAIN a.items \cup DOMAIN a.queue)
                               \cap (DOMAIN r.items \cup DOMAIN r.queue)
             PROVE  \/ ItemOf(a, k).age <= ItemOf(r, k).age + (a.cursor - r.cursor)
                    \/ ItemOf(a, k).age <= a.cursor - OccurredAt[k[1]]
  BY DEF AgesOnce
<1>1. NotOlder(r, k, ItemOf(a, k).age) BY DEF Survives
<1>2. Oldest(r, k) = ItemOf(r, k).age BY DEF Oldest
<1>3. ItemOf(r, k).age + (a.cursor - r.cursor) = ItemOf(r, k).age OBVIOUS
<1> QED BY <1>1, <1>2, <1>3 DEF NotOlder

\* What is in field and queue survives itself.
LEMMA StandingSurvives ==
    ASSUME NEW r, \A k \in DOMAIN r.items \cup DOMAIN r.queue : ItemOf(r, k).age \in Nat
    PROVE  Survives(r, r, TRUE)
<1>1. ASSUME NEW k \in DOMAIN r.items \cup DOMAIN r.queue
      PROVE  NotOlder(r, k, ItemOf(r, k).age) /\ ItemOf(r, k).age >= ItemOf(r, k).age
  <2>1. Oldest(r, k) = ItemOf(r, k).age BY DEF Oldest
  <2>2. ItemOf(r, k).age <= ItemOf(r, k).age /\ ItemOf(r, k).age >= ItemOf(r, k).age OBVIOUS
  <2> QED BY <2>1, <2>2 DEF NotOlder
<1> QED BY <1>1 DEF Survives

\* What survives depends on field, queue and cursor alone.
Inside(r) == <<r.items, r.queue, r.cursor>>
LEMMA SurvivesAlike ==
    ASSUME NEW r, NEW b, NEW a, NEW c, NEW still, Inside(b) = Inside(r), Survives(b, a, still),
           c.items = a.items, c.queue = a.queue
    PROVE  Survives(r, c, still)
<1>1. b.items = r.items /\ b.queue = r.queue /\ b.cursor = r.cursor BY DEF Inside
<1>2. \A k : ItemOf(b, k) = ItemOf(r, k) /\ Oldest(b, k) = Oldest(r, k)
  BY <1>1 DEF ItemOf, Oldest
<1>3. \A k, age : NotOlder(b, k, age) <=> NotOlder(r, k, age) BY <1>1, <1>2 DEF NotOlder
<1>4. \A k : ItemOf(c, k) = ItemOf(a, k) BY DEF ItemOf
<1> QED BY <1>1, <1>2, <1>3, <1>4 DEF Survives

LEMMA TogglingFollows ==
    ASSUME NEW r, NEW confirmed, Settled(r, confirmed)
    PROVE  LET a == ToggledPause(r)
           IN  /\ Follows(r, a, confirmed)
               /\ a.cursor = r.cursor /\ a.chain = r.chain /\ a.height = r.height
<1>1. /\ r.started \in BOOLEAN /\ r.paused \in BOOLEAN /\ r.needsRebase \in BOOLEAN
      /\ Held(r) /\ Shown(r, confirmed) /\ r.cursor \in Nat /\ Shaped(r)
      /\ \A k \in DOMAIN r.items : r.items[k].age \in Nat
      /\ \A k \in DOMAIN r.queue : r.queue[k].age \in Nat
      /\ \A k \in DOMAIN r.items \cup DOMAIN r.queue : ItemOf(r, k).age \in Nat
  BY DEF Settled, Held, Items, ItemOf
<1>2. Survives(r, r, TRUE) /\ AgesOnce(r, r)
  BY <1>1, StandingSurvives, StandingAges
<1>3. CASE ~r.started
  <2>1. ToggledPause(r) = r BY <1>3 DEF ToggledPause
  <2> QED BY <2>1, <1>1, <1>2 DEF Follows, Settled, Survives
<1>4. CASE r.started /\ ~r.paused
  <2> DEFINE a == [r EXCEPT !.paused = TRUE]
  <2>1. ToggledPause(r) = a BY <1>4 DEF ToggledPause
  <2>2. /\ Shaped(a) /\ a.items = r.items /\ a.queue = r.queue /\ a.cursor = r.cursor
        /\ a.started = r.started /\ a.paused = TRUE /\ a.needsRebase = r.needsRebase
        /\ a.window = r.window /\ a.chain = r.chain /\ a.height = r.height
    BY <1>1 DEF Shaped
  <2> HIDE DEF a
  <2>3. Held(a) /\ Shown(a, confirmed) BY <1>1, <2>2 DEF Held, Shown
  <2>4. Survives(r, a, TRUE) /\ AgesOnce(r, a)
    <3>1. Survives(r, a, TRUE) BY <1>2, <2>2, SurvivesAlike
    <3> QED BY <1>1, <2>2, <3>1, StandingAges
  <2> QED BY <1>1, <1>4, <2>1, <2>2, <2>3, <2>4 DEF Follows, Settled, Survives
<1>5. CASE r.started /\ r.paused
  <2> DEFINE b == [r EXCEPT !.paused = FALSE, !.needsRebase = TRUE]
             a == Merged(b)
  <2>1. ToggledPause(r) = a BY <1>1, <1>5 DEF ToggledPause
  <2>2. /\ Shaped(b) /\ b.items = r.items /\ b.queue = r.queue /\ b.cursor = r.cursor
        /\ b.started = r.started /\ b.paused = FALSE /\ b.needsRebase = TRUE
        /\ b.window = r.window /\ b.chain = r.chain /\ b.height = r.height
    BY <1>1 DEF Shaped
  <2> HIDE DEF b
  <2>3. Rebuilds(b, a, confirmed, TRUE)
    <3>1. Items(b.items) /\ Items(b.queue) /\ b.cursor \in Nat BY <1>1, <2>2 DEF Held
    <3>2. Shown(b, confirmed) BY <1>1, <2>2 DEF Shown
    <3> QED BY <1>1, <2>2, <3>1, <3>2, MergingRebuilds
  <2> HIDE DEF a
  <2>4. /\ a.cursor = r.cursor /\ a.started = r.started /\ a.paused = FALSE
        /\ a.needsRebase = TRUE /\ a.window = r.window /\ a.chain = r.chain
        /\ a.height = r.height
    BY <2>2, <2>3 DEF Rebuilds, Frame
  <2>5. Held(a) /\ Shown(a, confirmed) /\ Survives(r, a, TRUE) /\ AgesOnce(r, a)
    <3>1. Held(a) /\ Shown(a, confirmed) /\ Survives(b, a, TRUE) BY <2>3 DEF Rebuilds
    <3>2. Survives(r, a, TRUE) BY <2>2, <3>1, SurvivesAlike DEF Inside
    <3> QED BY <1>1, <2>4, <3>1, <3>2, StandingAges
  <2> QED BY <1>1, <1>5, <2>1, <2>4, <2>5 DEF Follows, Settled, Survives
<1> QED BY <1>1, <1>3, <1>4, <1>5

\* A page follows whatever it is a page of.
LEMMA PageFollows ==
    ASSUME NEW r, NEW a, NEW b, NEW confirmed, Follows(r, a, confirmed),
           Shaped(b), Inner(b) = Inner(a)
    PROVE  Follows(r, b, confirmed)
<1>1. /\ b.window = a.window /\ b.items = a.items /\ b.queue = a.queue
      /\ b.cursor = a.cursor /\ b.started = a.started /\ b.paused = a.paused
      /\ b.needsRebase = a.needsRebase
  BY DEF Inner
<1> QED BY <1>1 DEF Follows, Settled, Held, Shown, ItemOf, AgesOnce

\* A rain value follows itself.
LEMMA StandingFollows ==
    ASSUME NEW r, NEW confirmed, Settled(r, confirmed)
    PROVE  Follows(r, r, confirmed)
<1>1. /\ \A k \in DOMAIN r.items : r.items[k].age \in Nat
      /\ \A k \in DOMAIN r.queue : r.queue[k].age \in Nat
  BY DEF Settled, Held, Items
<1>2. \A k \in DOMAIN r.items \cup DOMAIN r.queue : ItemOf(r, k).age \in Nat
  BY <1>1 DEF ItemOf
<1>3. AgesOnce(r, r)
  <2>1. r.cursor \in Nat BY DEF Settled, Held
  <2> QED BY <1>2, <2>1, StandingSurvives, StandingAges
<1> QED BY <1>1, <1>3 DEF Follows, Settled, ItemOf

LEMMA WindowingFollows ==
    ASSUME NEW r, NEW confirmed \in SUBSET Representations, Settled(r, confirmed),
           NEW step, NEW scopes
    PROVE  LET a == Windowed(r, step, scopes, confirmed)
           IN  /\ Follows(r, a, confirmed)
               /\ a.cursor = r.cursor /\ a.chain = r.chain /\ a.height = r.height
<1> DEFINE stepped == SteppedWindow(r.window, step)
           shifted == [r EXCEPT !.window = stepped]
           b == [shifted EXCEPT !.scopes = scopes]
           q == Repaged(b)
           a == Windowed(r, step, scopes, confirmed)
<1>1. /\ Held(r) /\ Shown(r, confirmed) /\ Shaped(r)
      /\ r.started \in BOOLEAN /\ r.paused \in BOOLEAN /\ r.needsRebase \in BOOLEAN
      /\ \A k \in DOMAIN r.items : r.items[k].age \in Nat
      /\ \A k \in DOMAIN r.queue : r.queue[k].age \in Nat
  BY DEF Settled, Held, Items
<1>2. /\ Shaped(shifted) /\ shifted.window = stepped /\ shifted.items = r.items
      /\ shifted.queue = r.queue /\ shifted.cursor = r.cursor /\ shifted.chain = r.chain
      /\ shifted.height = r.height /\ shifted.started = r.started
      /\ shifted.paused = r.paused /\ shifted.needsRebase = r.needsRebase
  BY <1>1 DEF Shaped
<1>5. r.cursor \in Nat /\ \A k \in DOMAIN r.items \cup DOMAIN r.queue : ItemOf(r, k).age \in Nat
  BY <1>1 DEF ItemOf, Held
<1>3. CASE stepped = r.window \/ ~r.started
  <2>1. a = shifted BY <1>3 DEF Windowed
  <2> HIDE DEF shifted, stepped
  <2>2. Held(shifted) BY <1>1, <1>2 DEF Held
  <2>3. Shown(shifted, confirmed) BY <1>1, <1>2, <1>3 DEF Shown, Settled
  <2>4. Settled(shifted, confirmed) BY <1>2, <2>2, <2>3 DEF Settled
  <2>5. Survives(r, shifted, TRUE) /\ AgesOnce(r, shifted)
    <3>1. Survives(r, shifted, TRUE) BY <1>2, <1>5, StandingSurvives, SurvivesAlike
    <3> QED BY <1>1, <1>2, <1>5, <3>1, StandingAges
  <2>6. Follows(r, shifted, confirmed) BY <1>1, <1>2, <2>4, <2>5 DEF Follows, Survives
  <2> HIDE DEF a
  <2> QED BY <1>2, <2>1, <2>6 DEF a
<1>4. CASE stepped # r.window /\ r.started
  <2>1. a = Rebuilt(q, confirmed, FALSE, r.paused, TRUE) BY <1>4 DEF Windowed
  <2> HIDE DEF stepped
  <2>2. /\ Shaped(b) /\ b.items = r.items
        /\ b.queue = r.queue /\ b.cursor = r.cursor /\ b.chain = r.chain
        /\ b.height = r.height /\ b.started = r.started
        /\ b.paused = r.paused /\ b.needsRebase = r.needsRebase
    BY <1>2 DEF Shaped
  <2> HIDE DEF b
  <2>3. /\ Shaped(q) /\ q.items = r.items
        /\ q.queue = r.queue /\ q.cursor = r.cursor /\ q.chain = r.chain
        /\ q.height = r.height /\ q.started = r.started
        /\ q.paused = r.paused /\ q.needsRebase = r.needsRebase
    BY <2>2, RepagingKeeps DEF Inner
  <2> HIDE DEF q
  <2>4. Held(q) BY <1>1, <2>3 DEF Held
  <2>5. Rebuilds(q, a, confirmed, r.paused \/ (q.paused /\ ~TRUE))
    BY <1>1, <2>1, <2>4, RebuildingRebuilds
  <2> HIDE DEF a
  <2>6. /\ Held(a) /\ Shown(a, confirmed) /\ Survives(q, a, r.paused)
        /\ a.cursor = r.cursor /\ a.chain = r.chain /\ a.height = r.height
        /\ a.started = r.started /\ a.paused = r.paused /\ a.needsRebase = r.needsRebase
    BY <2>3, <2>5 DEF Rebuilds, Frame, Survives
  <2>7. Survives(r, a, r.paused) /\ AgesOnce(r, a)
    <3>1. Survives(r, a, r.paused) BY <2>3, <2>6, SurvivesAlike DEF Inside
    <3> QED BY <1>5, <2>6, <3>1, StandingAges
  <2>8. Follows(r, a, confirmed)
    BY <1>1, <1>4, <2>6, <2>7 DEF Follows, Settled, Survives
  <2> QED BY <2>6, <2>8 DEF a
<1> QED BY <1>1, <1>3, <1>4

\* What an applied instant leaves is a rain value like the one before.
LEMMA ApplyingSettles ==
    ASSUME NEW r, NEW confirmed, Settled(r, confirmed), NEW at \in Nat
    PROVE  LET a == Applied(r, at)
           IN  /\ Follows(r, a, confirmed) /\ Outer(a) = Outer(r)
               /\ a.cursor \in {r.cursor, at} /\ a.cursor >= r.cursor
               /\ r.paused \/ r.needsRebase => a.items = r.items
               /\ \A k \in DOMAIN r.items :
                      Admits(r.window, r.items[k].age + (a.cursor - r.cursor)) =>
                          k \in DOMAIN a.items
<1> DEFINE a == Applied(r, at)
<1>1. /\ Held(r) /\ Shown(r, confirmed) /\ Shaped(r) /\ r.cursor \in Nat
      /\ r.started \in BOOLEAN /\ r.paused \in BOOLEAN /\ r.needsRebase \in BOOLEAN
      /\ \A k \in DOMAIN r.items : r.items[k].age \in Nat
      /\ \A k \in DOMAIN r.queue : r.queue[k].age \in Nat
  BY DEF Settled, Held, Items
<1>2. Timed(r) BY <1>1 DEF Timed, Held, Shown
<1>3. /\ Shaped(a) /\ Outer(a) = Outer(r) /\ Older(r, a)
      /\ r.paused => a = r
      /\ a.needsRebase \in BOOLEAN
      /\ a.needsRebase => r.needsRebase
      /\ r.needsRebase => a.items = r.items
      /\ r.needsRebase /\ ~a.needsRebase =>
             ~r.paused /\ at > r.cursor /\ a.cursor > r.cursor
      /\ a.cursor \in {r.cursor, at}
  BY <1>2, ApplyingAges
<1> HIDE DEF a
<1>4. /\ a.window = r.window /\ a.queue = r.queue /\ a.started = r.started
      /\ a.paused = r.paused
  BY <1>3 DEF Outer
<1>5. Held(a)
  <2>1. /\ Cardinality(DOMAIN a.items) <= GlobalCap
        /\ \A s \in Scopes : Cardinality({k \in DOMAIN a.items : k[2] = s}) <= ColumnCap
    <3>1. DOMAIN a.items \in SUBSET DOMAIN r.items BY <1>3 DEF Older
    <3> QED BY <1>1, <3>1, FewerFit DEF ColumnOf
  <2>2. /\ Items(a.items) /\ a.cursor \in Nat /\ DOMAIN a.items \subseteq DOMAIN r.items
    BY <1>3 DEF Older
  <2> QED BY <1>1, <1>3, <1>4, <2>1, <2>2 DEF Held
<1>6. Shown(a, confirmed) BY <1>1, <1>3, <1>4 DEF Shown, Older
<1>7. Settled(a, confirmed) BY <1>3, <1>4, <1>5, <1>6 DEF Settled, Older
<1>8. \A k \in (DOMAIN a.items \cup DOMAIN a.queue) \cap (DOMAIN r.items \cup DOMAIN r.queue) :
          Admits(a.window, ItemOf(r, k).age + (a.cursor - r.cursor)) =>
              ItemOf(a, k).age >= ItemOf(r, k).age
  <2> SUFFICES ASSUME NEW k \in DOMAIN a.items \cup DOMAIN a.queue,
                      k \in DOMAIN r.items \cup DOMAIN r.queue,
                      Admits(a.window, ItemOf(r, k).age + (a.cursor - r.cursor))
               PROVE  ItemOf(a, k).age >= ItemOf(r, k).age
    OBVIOUS
  <2>1. CASE k \in DOMAIN r.items
    <3>1. ItemOf(r, k) = r.items[k] BY <2>1 DEF ItemOf
    <3>2. k \in DOMAIN a.items BY <1>3, <1>4, <2>1, <3>1 DEF Older
    <3> QED BY <1>3, <3>1, <3>2 DEF ItemOf, Older
  <2>2. CASE k \notin DOMAIN r.items
    <3>1. k \in DOMAIN r.queue /\ k \notin DOMAIN a.items BY <1>3, <2>2 DEF Older
    <3> QED BY <1>1, <1>4, <2>2, <3>1 DEF ItemOf
  <2> QED BY <2>1, <2>2
<1>9. r.paused => a.cursor = r.cursor /\ a.items = r.items BY <1>3
<1>12. AgesOnce(r, a)
  <2> SUFFICES ASSUME NEW k \in (DOMAIN a.items \cup DOMAIN a.queue)
                                 \cap (DOMAIN r.items \cup DOMAIN r.queue)
               PROVE  ItemOf(a, k).age <= ItemOf(r, k).age + (a.cursor - r.cursor)
    BY DEF AgesOnce
  <2>1. CASE k \in DOMAIN a.items BY <1>3, <2>1 DEF ItemOf, Older
  <2>2. CASE k \notin DOMAIN a.items
    <3>1. k \in DOMAIN r.queue /\ k \notin DOMAIN r.items BY <1>1, <1>4, <2>2 DEF Held
    <3>2. a.cursor \in Nat /\ a.cursor >= r.cursor BY <1>3 DEF Older
    <3> QED BY <1>1, <1>4, <2>2, <3>1, <3>2 DEF ItemOf
  <2> QED BY <2>1, <2>2
<1>10. Follows(r, a, confirmed) BY <1>3, <1>7, <1>8, <1>9, <1>12 DEF Follows
<1>11. \A k \in DOMAIN r.items :
          Admits(r.window, r.items[k].age + (a.cursor - r.cursor)) => k \in DOMAIN a.items
  BY <1>3 DEF Older
<1>13. a.cursor >= r.cursor BY <1>3 DEF Older
<1> QED BY <1>3, <1>10, <1>11, <1>13 DEF a

LEMMA TickingFollows ==
    ASSUME NEW r, NEW confirmed, Settled(r, confirmed), NEW chain, NEW at \in Nat
    PROVE  LET a == Ticked(r, chain, at)
           IN  /\ Follows(r, a, confirmed) /\ a.height = r.height
               /\ a.cursor \in {r.cursor, at}
<1> DEFINE a == Ticked(r, chain, at)
           b == [r EXCEPT !.chain = (r.chain + 1) % Generations]
<1>1. r.started \in BOOLEAN /\ Held(r) /\ Shaped(r) BY DEF Settled, Held
<1>2. CASE ~r.started \/ chain # r.chain \/ at <= r.cursor
  <2>1. a = r BY <1>2 DEF Ticked
  <2> HIDE DEF a
  <2>2. Follows(r, a, confirmed) BY <2>1, StandingFollows
  <2> QED BY <2>1, <2>2 DEF a
<1>3. CASE ~(~r.started \/ chain # r.chain \/ at <= r.cursor)
  <2>1. a = Applied(b, at) BY <1>3 DEF Ticked
  <2>2. /\ Shaped(b) /\ b.window = r.window /\ b.items = r.items /\ b.queue = r.queue
        /\ b.cursor = r.cursor /\ b.started = r.started /\ b.paused = r.paused
        /\ b.needsRebase = r.needsRebase /\ b.height = r.height
    BY <1>1 DEF Shaped
  <2> HIDE DEF b, a
  <2>3. Settled(b, confirmed) BY <2>2 DEF Settled, Held, Shown
  <2>4. Follows(b, a, confirmed) /\ Outer(a) = Outer(b) /\ a.cursor \in {b.cursor, at}
    BY <2>1, <2>3, ApplyingSettles
  <2>5. Follows(r, a, confirmed) BY <2>2, <2>4 DEF Follows, ItemOf, AgesOnce
  <2>6. a.height = r.height BY <2>2, <2>4 DEF Outer
  <2> QED BY <2>2, <2>4, <2>5, <2>6 DEF a
<1> QED BY <1>2, <1>3

LEMMA ReconcilingFollows ==
    ASSUME NEW r, NEW before, Settled(r, before), NEW scopes,
           NEW confirmed \in SUBSET Representations, NEW reference \in Nat
    PROVE  LET a == Reconciled(r, scopes, confirmed, reference)
           IN  /\ Follows(r, a, confirmed)
               /\ a.cursor \in {r.cursor, reference} /\ a.chain = r.chain
               /\ a.paused = r.paused
<1> DEFINE first == ~r.started
           rebasing == r.needsRebase /\ ~r.paused /\ reference > r.cursor
           start == [r EXCEPT !.started = TRUE, !.cursor = reference, !.remainder = 0]
           moved == IF first THEN start ELSE Applied(r, reference)
           b == [moved EXCEPT !.scopes = scopes]
           q == Repaged(b)
           a == Reconciled(r, scopes, confirmed, reference)
<1>1. a = Rebuilt(q, confirmed, first, rebasing, FALSE) BY DEF Reconciled
<1>2. /\ Held(r) /\ Shown(r, before) /\ Shaped(r) /\ r.cursor \in Nat
      /\ r.started \in BOOLEAN /\ r.paused \in BOOLEAN /\ r.needsRebase \in BOOLEAN
      /\ first \in BOOLEAN /\ rebasing \in BOOLEAN
      /\ \A k \in DOMAIN r.items : r.items[k].age \in Nat
      /\ \A k \in DOMAIN r.queue : r.queue[k].age \in Nat
  BY DEF Settled, Held, Items
<1> HIDE DEF a
<1>3. /\ Shaped(moved) /\ moved.started = TRUE /\ moved.chain = r.chain
      /\ Held(moved) /\ Shown(moved, before) /\ moved.cursor \in {r.cursor, reference}
      /\ moved.paused = r.paused /\ moved.window = r.window
      /\ ~first =>
             /\ Follows(r, moved, before) /\ moved.queue = r.queue
             /\ moved.cursor >= r.cursor
             /\ r.paused \/ r.needsRebase => moved.items = r.items
             /\ \A k \in DOMAIN r.items :
                    Admits(r.window, r.items[k].age + (moved.cursor - r.cursor)) =>
                        k \in DOMAIN moved.items
      /\ first => moved.needsRebase = r.needsRebase
  <2>1. CASE first
    <3>1. moved = start BY <2>1
    <3>2. /\ Shaped(start) /\ start.started = TRUE /\ start.chain = r.chain
          /\ start.cursor = reference /\ start.items = r.items /\ start.queue = r.queue
          /\ start.paused = r.paused /\ start.window = r.window
          /\ start.needsRebase = r.needsRebase
      BY <1>2 DEF Shaped
    <3> HIDE DEF moved, start
    <3>3. Held(start) BY <1>2, <3>2 DEF Held
    <3>4. Shown(start, before) BY <1>2, <3>2 DEF Shown
    <3> QED BY <2>1, <3>1, <3>2, <3>3, <3>4
  <2>2. CASE ~first
    <3>1. moved = Applied(r, reference) BY <2>2
    <3> HIDE DEF moved
    <3>2. /\ Follows(r, moved, before) /\ Outer(moved) = Outer(r)
          /\ moved.cursor \in {r.cursor, reference} /\ moved.cursor >= r.cursor
          /\ r.paused \/ r.needsRebase => moved.items = r.items
          /\ \A k \in DOMAIN r.items :
                 Admits(r.window, r.items[k].age + (moved.cursor - r.cursor)) =>
                     k \in DOMAIN moved.items
      BY <3>1, ApplyingSettles
    <3>3. /\ moved.queue = r.queue /\ moved.started = r.started /\ moved.chain = r.chain
          /\ moved.paused = r.paused /\ moved.window = r.window
      BY <3>2 DEF Outer
    <3>4. Held(moved) /\ Shown(moved, before) /\ Shaped(moved)
      BY <3>2 DEF Follows, Settled, Held
    <3>5. r.started = TRUE BY <1>2, <2>2
    <3> HIDE DEF first
    <3> QED BY <2>2, <3>2, <3>3, <3>4, <3>5
  <2> HIDE DEF moved
  <2> QED BY <2>1, <2>2
<1> HIDE DEF moved
<1>4. /\ Shaped(b) /\ b.items = moved.items /\ b.queue = moved.queue
      /\ b.cursor = moved.cursor /\ b.chain = moved.chain /\ b.window = moved.window
      /\ b.started = moved.started /\ b.paused = moved.paused
      /\ b.needsRebase = moved.needsRebase
  BY <1>3 DEF Shaped
<1> HIDE DEF b
<1>5. /\ Shaped(q) /\ q.items = moved.items /\ q.queue = moved.queue
      /\ q.cursor = moved.cursor /\ q.chain = moved.chain /\ q.window = moved.window
      /\ q.started = moved.started /\ q.paused = moved.paused
      /\ q.needsRebase = moved.needsRebase
  BY <1>4, RepagingKeeps DEF Inner
<1> HIDE DEF q
<1>6. Held(q) BY <1>3, <1>5 DEF Held
<1>7. \A k \in DOMAIN q.items : Admits(q.window, q.items[k].age) BY <1>3, <1>5 DEF Shown
<1> HIDE DEF first, rebasing
<1>8. Rebuilds(q, a, confirmed, rebasing \/ (q.paused /\ ~FALSE))
  BY <1>1, <1>2, <1>6, <1>7, RebuildingRebuilds
<1>9. /\ Held(a) /\ Shown(a, confirmed)
      /\ a.cursor = moved.cursor /\ a.chain = r.chain /\ a.started = TRUE
      /\ a.paused = r.paused /\ a.needsRebase = moved.needsRebase /\ a.window = r.window
  BY <1>3, <1>5, <1>8 DEF Rebuilds, Frame
<1>10. Survives(moved, a, rebasing \/ r.paused)
  <2>1. Survives(q, a, rebasing \/ r.paused)
    BY <1>3, <1>5, <1>8 DEF Rebuilds, Survives
  <2> QED BY <1>5, <2>1, SurvivesAlike DEF Inside
<1>11. Settled(a, confirmed) BY <1>9 DEF Settled
<1>12. CASE first
  <2>1. DOMAIN r.items = {} /\ DOMAIN r.queue = {} /\ ~r.paused
    BY <1>12 DEF Settled, first
  <2>2. Follows(r, a, confirmed) BY <1>3, <1>9, <1>11, <1>12, <2>1 DEF Follows, AgesOnce
  <2> QED BY <1>3, <1>9, <2>2 DEF a
<1>13. CASE ~first
  <2>1. Follows(r, moved, before) BY <1>3, <1>13
  <2>2. r.paused => a.cursor = r.cursor
    BY <1>3, <1>9, <2>1 DEF Follows
  <2>3. r.needsRebase /\ ~a.needsRebase => a.cursor > r.cursor /\ rebasing
    <3>1. r.needsRebase /\ ~a.needsRebase => moved.cursor > r.cursor
      BY <1>9, <2>1 DEF Follows
    <3>2. r.paused => moved.cursor = r.cursor BY <1>3, <2>1 DEF Follows
    <3> QED BY <1>2, <1>3, <1>9, <3>1, <3>2 DEF rebasing
  <2>4. ASSUME NEW k \in DOMAIN a.items \cap DOMAIN r.items, r.paused \/ rebasing
        PROVE  a.items[k] = r.items[k]
    <3>1. moved.items = r.items BY <1>3, <1>13, <2>4 DEF rebasing
    <3> QED BY <1>10, <2>4, <3>1 DEF Survives
  <2>5. ASSUME NEW k \in DOMAIN a.items \cup DOMAIN a.queue,
               k \in DOMAIN r.items \cup DOMAIN r.queue,
               Admits(a.window, ItemOf(r, k).age + (a.cursor - r.cursor))
        PROVE  ItemOf(a, k).age >= ItemOf(r, k).age
    <3>1. k \in DOMAIN moved.items \cup DOMAIN moved.queue
      <4>1. CASE k \in DOMAIN r.items
        <5>1. ItemOf(r, k) = r.items[k] BY <4>1 DEF ItemOf
        <5> QED BY <1>3, <1>9, <1>13, <2>5, <4>1, <5>1
      <4>2. CASE k \in DOMAIN r.queue BY <1>3, <1>13, <4>2
      <4> QED BY <2>5, <4>1, <4>2
    <3>2. ItemOf(moved, k).age >= ItemOf(r, k).age
      BY <1>3, <1>9, <2>1, <2>5, <3>1 DEF Follows
    <3>3. ItemOf(a, k).age >= ItemOf(moved, k).age BY <1>10, <2>5, <3>1 DEF Survives
    <3>4. /\ ItemOf(a, k).age \in Nat /\ ItemOf(moved, k).age \in Nat
          /\ ItemOf(r, k).age \in Nat
      BY <1>2, <1>3, <1>9, <2>5, <3>1 DEF Held, Items, ItemOf
    <3> QED BY <3>2, <3>3, <3>4
  <2>7. AgesOnce(r, a)
    <3> SUFFICES ASSUME NEW k \in (DOMAIN a.items \cup DOMAIN a.queue)
                                   \cap (DOMAIN r.items \cup DOMAIN r.queue)
                 PROVE  \/ ItemOf(a, k).age <= ItemOf(r, k).age + (a.cursor - r.cursor)
                        \/ ItemOf(a, k).age <= a.cursor - OccurredAt[k[1]]
      BY DEF AgesOnce
    <3>1. NotOlder(moved, k, ItemOf(a, k).age) BY <1>10 DEF Survives
    <3>2. k \in Representations /\ ItemOf(r, k).age \in Nat /\ ItemOf(a, k).age \in Nat
      BY <1>2, <1>9 DEF Held, Items, ItemOf
    <3>3. OccurredAt[k[1]] \in Nat BY <3>2, RepresentationsOrdered
    <3>4. /\ moved.cursor \in Nat /\ moved.cursor >= r.cursor /\ a.cursor = moved.cursor
      BY <1>3, <1>9, <1>13 DEF Held
    <3>5. CASE ItemOf(a, k).age <= moved.cursor - OccurredAt[k[1]] BY <3>4, <3>5
    <3>6. CASE ItemOf(a, k).age <= Oldest(moved, k)
      <4>1. CASE k \in DOMAIN moved.items \cup DOMAIN moved.queue
        <5>1. Oldest(moved, k) = ItemOf(moved, k).age BY <4>1 DEF Oldest
        <5>2. \/ ItemOf(moved, k).age <= ItemOf(r, k).age + (moved.cursor - r.cursor)
              \/ ItemOf(moved, k).age <= moved.cursor - OccurredAt[k[1]]
          BY <2>1, <4>1 DEF Follows, AgesOnce
        <5>3. ItemOf(moved, k).age \in Nat BY <1>3, <4>1 DEF Held, Items, ItemOf
        <5> QED BY <1>2, <3>2, <3>3, <3>4, <3>6, <5>1, <5>2, <5>3
      <4>2. CASE k \notin DOMAIN moved.items \cup DOMAIN moved.queue
        <5>1. Oldest(moved, k) = 0 BY <4>2 DEF Oldest
        <5> QED BY <1>2, <3>2, <3>4, <3>6, <5>1
      <4> QED BY <4>1, <4>2
    <3> QED BY <3>1, <3>5, <3>6 DEF NotOlder
  <2>6. Follows(r, a, confirmed)
    BY <1>9, <1>11, <2>2, <2>3, <2>4, <2>5, <2>7 DEF Follows
  <2> QED BY <1>3, <1>9, <2>6 DEF a
<1> QED BY <1>2, <1>12, <1>13

\* A resize gives the field the rows the body has left for it.
LEMMA ResizedRainFits ==
    ASSUME NEW r, Shaped(r), NEW s, NEW w, NEW h \in Int
    PROVE  LET a == ResizedRain(r, s, w, h)
               body == ContentHeight(h)
           IN  /\ Shaped(a) /\ Inner(a) = Inner(r) /\ a.scopes = r.scopes
               /\ h >= 0 => a.height = FieldRows(a, w, body, StripRows(s, StripBudget(a, w, body)))
<1> DEFINE body == ContentHeight(h)
           rows(x) == FieldRows(x, w, body, StripRows(s, StripBudget(x, w, body)))
           a == Resized(r, w, rows(r))
<1>1. ResizedRain(r, s, w, h) = a BY DEF ResizedRain
<1>2. Shaped(a) /\ Inner(a) = Inner(r) /\ a.scopes = r.scopes /\ a.height = Larger(rows(r), 0)
  BY ResizingKeeps
<1> HIDE DEF a
<1>3. ASSUME h >= 0 PROVE rows(a) = Larger(rows(r), 0)
  <2>1. body \in Nat /\ ~(body < 0) BY <1>3 DEF ContentHeight, Larger, ChromeLines
  <2> HIDE DEF body
  <2>2. FieldHeight(a, w, body) = FieldHeight(r, w, body) BY <2>1 DEF FieldHeight
  <2>3. StripBudget(a, w, body) = StripBudget(r, w, body) BY <2>1, <2>2 DEF StripBudget
  <2>4. rows(a) = rows(r) BY <2>1, <2>2, <2>3 DEF FieldRows
  <2>5. rows(r) = Larger(FieldHeight(r, w, body) - StripRows(s, StripBudget(r, w, body)), 0)
    BY <2>1 DEF FieldRows
  <2> QED BY <2>4, <2>5 DEF Larger
<1> QED BY <1>1, <1>2, <1>3

-----------------------------------------------------------------------------
(* The program *)

\* The inductive invariant.
ViewsInv ==
    /\ published \in [scopes : SUBSET Scopes, confirmed : SUBSET Representations,
                      listed : SUBSET Events,
                      freshness : {"loading", "current", "stale", "error"}]
    /\ height \in Int /\ now \in Nat
    /\ Settled(rain, published.confirmed) /\ rain.cursor <= now
    /\ FieldFits
    /\ OneRainChain

\* Before the first refresh nothing is shown.
LEMMA InitViews == Init => ViewsInv
<1> SUFFICES ASSUME Init PROVE ViewsInv OBVIOUS
<1>1. DOMAIN NoItems = {} /\ Items(NoItems) BY DEF NoItems, Items
<1>2. /\ Shaped(rain) /\ rain.items = NoItems /\ rain.queue = NoItems /\ rain.cursor = 0
      /\ rain.started = FALSE /\ rain.paused = FALSE /\ rain.needsRebase = FALSE
  BY DEF Init, RainInit, Shaped
<1>3. GlobalCap \in Nat /\ ColumnCap \in Nat /\ QueueCap \in Nat BY RainAssumption
<1>4. /\ Cardinality(DOMAIN rain.items) = 0 /\ Cardinality(DOMAIN rain.queue) = 0
      /\ \A s \in Scopes : Cardinality({k \in DOMAIN rain.items : k[2] = s}) = 0
  <2>1. DOMAIN rain.items = {} /\ DOMAIN rain.queue = {} BY <1>1, <1>2
  <2>2. \A s \in Scopes : {k \in DOMAIN rain.items : k[2] = s} = {} BY <2>1
  <2> QED BY <2>1, <2>2, FS_EmptySet
<1>5. Held(rain)
  <2>1. /\ DOMAIN rain.items = {} /\ DOMAIN rain.queue = {}
        /\ Items(rain.items) /\ Items(rain.queue)
    BY <1>1, <1>2
  <2>2. /\ Cardinality(DOMAIN rain.items) <= GlobalCap
        /\ Cardinality(DOMAIN rain.queue) <= QueueCap
        /\ \A s \in Scopes : Cardinality({k \in DOMAIN rain.items : k[2] = s}) <= ColumnCap
    BY <1>3, <1>4
  <2>3. rain.cursor \in Nat /\ {rain.started, rain.paused, rain.needsRebase} \subseteq BOOLEAN
    BY <1>2 DEF Init, RainInit
  <2>4. Shaped(rain) BY <1>2
  <2> QED BY <2>1, <2>2, <2>3, <2>4 DEF Held
<1>6. Shown(rain, published.confirmed) BY <1>1, <1>2 DEF Shown
<1>7. Settled(rain, published.confirmed) BY <1>1, <1>2, <1>5, <1>6 DEF Settled
<1>8. height \in Int /\ now \in Nat /\ rain.cursor <= now
  BY <1>2 DEF Init, Unbounded
<1>9. FieldFits BY DEF Init, FieldFits, Unbounded
<1>10. OneRainChain BY DEF Init, OneRainChain
<1> QED BY <1>7, <1>8, <1>9, <1>10 DEF ViewsInv, Init

\* What every step of the program makes of the rain value.
RainFollows ==
    Follows(rain, rain', published'.confirmed) /\ rain'.cursor <= now'

\* What handlers do that leave the rain value as it is.
LEMMA RainStands ==
    ASSUME ViewsInv, UNCHANGED <<rain, ticks, height, width, strip>>,
           now' \in Nat, now' >= now, published'.confirmed = published.confirmed,
           published' \in [scopes : SUBSET Scopes, confirmed : SUBSET Representations,
                           listed : SUBSET Events,
                           freshness : {"loading", "current", "stale", "error"}]
    PROVE  ViewsInv' /\ RainFollows
<1>1. Follows(rain, rain', published'.confirmed) /\ rain' = rain
  BY StandingFollows DEF ViewsInv
<1>2. rain'.cursor <= now' BY <1>1 DEF ViewsInv, Settled, Held
<1>3. FieldFits' /\ OneRainChain'
  BY DEF ViewsInv, FieldFits, OneRainChain, FieldRows, StripBudget, FieldHeight
<1>4. height' \in Int BY DEF ViewsInv
<1>5. Settled(rain, published.confirmed)' BY <1>1 DEF Follows
<1> QED BY <1>1, <1>2, <1>3, <1>4, <1>5 DEF ViewsInv, RainFollows

\* What the keys of Rain do, which leave its rows to it.
LEMMA RainKeyFollows ==
    ASSUME ViewsInv, NEW after, RainKey(after), Follows(rain, after, published.confirmed),
           after.cursor = rain.cursor, after.chain = rain.chain, after.height = rain.height
    PROVE  ViewsInv' /\ RainFollows
<1>1. /\ rain' = after
      /\ UNCHANGED <<strip, stream, overview, mode, width, height, published, ticks, now,
                     refreshes>>
  BY DEF RainKey
<1>2. FieldFits'
  <2> SUFFICES ASSUME height >= 0
               PROVE  rain'.height = FieldRows(rain', width, ContentHeight(height),
                          StripRows(strip, StripBudget(rain', width, ContentHeight(height))))
    BY <1>1 DEF FieldFits
  <2>1. ~(ContentHeight(height) < 0) /\ height \in Int
    BY DEF ContentHeight, Larger, ChromeLines, ViewsInv
  <2> QED BY <1>1, <2>1 DEF ViewsInv, FieldFits, FieldRows, StripBudget, FieldHeight
<1>3. OneRainChain' BY <1>1 DEF ViewsInv, OneRainChain
<1>4. Settled(rain, published.confirmed)' BY <1>1 DEF Follows
<1>5. rain'.cursor <= now' BY <1>1 DEF ViewsInv
<1> QED BY <1>1, <1>2, <1>3, <1>4, <1>5 DEF ViewsInv, RainFollows

\* What a handler does that ends in a resize of the field.
LEMMA RainResized ==
    ASSUME ViewsInv, NEW r, Follows(rain, r, published'.confirmed), r.cursor <= now',
           rain' = ResizedRain(r, strip', width', height'),
           height' \in Int, now' \in Nat,
           published' \in [scopes : SUBSET Scopes, confirmed : SUBSET Representations,
                           listed : SUBSET Events,
                           freshness : {"loading", "current", "stale", "error"}],
           \/ r.chain = rain.chain /\ ticks' = ticks
           \/ \E tick : ticks' = {tick} /\ tick.chain = rain'.chain
    PROVE  ViewsInv' /\ RainFollows
<1> DEFINE fit == FieldRows(rain', width', ContentHeight(height'),
                            StripRows(strip', StripBudget(rain', width', ContentHeight(height'))))
<1>1. /\ Shaped(rain') /\ Inner(rain') = Inner(r)
      /\ height' >= 0 => rain'.height = fit
  BY ResizedRainFits DEF Follows, Settled, Held
<1>2. Follows(rain, rain', published'.confirmed) BY <1>1, PageFollows
<1>3. rain'.cursor = r.cursor /\ rain'.chain = r.chain BY <1>1 DEF Inner
<1>4. FieldFits' BY <1>1 DEF FieldFits
<1>5. OneRainChain' BY <1>3 DEF ViewsInv, OneRainChain
<1>6. Settled(rain, published.confirmed)' BY <1>2 DEF Follows
<1> QED BY <1>2, <1>3, <1>4, <1>5, <1>6 DEF ViewsInv, RainFollows

LEMMA StepViews == ViewsInv /\ [Next]_vars => ViewsInv' /\ RainFollows
<1> SUFFICES ASSUME ViewsInv, [Next]_vars PROVE ViewsInv' /\ RainFollows OBVIOUS
<1> USE DEF ViewsInv
<1>1. CASE Resize
  <2>1. PICK size \in Sizes :
            /\ width' = size[1] /\ height' = size[2]
            /\ rain' = ResizedRain(rain, strip, width', height')
            /\ UNCHANGED <<strip, mode, published, ticks, now, refreshes>>
    BY <1>1 DEF Resize
  <2>2. height' \in Int BY <2>1, ProgramAssumption
  <2>3. Follows(rain, rain, published'.confirmed) BY <2>1, StandingFollows
  <2> QED BY <2>1, <2>2, <2>3, RainResized
<1>2. CASE RainTick
  <2>1. PICK tick \in ticks, at \in 0 .. now :
            /\ at >= tick.due
            /\ IF tick.chain # rain.chain
               THEN ticks' = ticks \ {tick} /\ UNCHANGED views
               ELSE LET ticked == Ticked(rain, tick.chain, at)
                    IN  /\ strip' = StripTicked(strip, at)
                        /\ rain' = RainAfterStrip(ticked, strip')
                        /\ ticks' = (ticks \ {tick}) \cup {Rescheduled(tick, rain')}
                        /\ UNCHANGED <<stream, overview>>
            /\ UNCHANGED <<mode, width, height, published, now, refreshes>>
    BY <1>2 DEF RainTick
  <2>2. tick.chain = rain.chain /\ ticks = {tick} BY DEF OneRainChain
  <2> DEFINE r == Ticked(rain, tick.chain, at)
  <2>3. /\ rain' = ResizedRain(r, strip', width', height')
        /\ ticks' = {Rescheduled(tick, rain')}
    BY <2>1, <2>2 DEF RainAfterStrip
  <2>4. at \in Nat /\ at <= now OBVIOUS
  <2>5. Follows(rain, r, published.confirmed) /\ r.cursor \in {rain.cursor, at}
    BY <2>4, TickingFollows
  <2> HIDE DEF r
  <2>6. Rescheduled(tick, rain').chain = rain'.chain BY DEF Rescheduled
  <2>7. r.cursor <= now' BY <2>1, <2>4, <2>5
  <2> QED BY <2>1, <2>3, <2>5, <2>6, <2>7, RainResized
<1>3. CASE Refresh
  <2>1. PICK snapshot \in Snapshots :
            /\ published' = [scopes |-> snapshot.scopes, confirmed |-> snapshot.confirmed,
                            listed |-> snapshot.listed, freshness |-> "current"]
            /\ rain' = ResizedRain(Reconciled(rain, snapshot.scopes, snapshot.confirmed, now),
                                   strip', width, height)
            /\ UNCHANGED <<mode, width, height, ticks, now>>
    BY <1>3 DEF Refresh
  <2> DEFINE r == Reconciled(rain, snapshot.scopes, snapshot.confirmed, now)
  <2>2. /\ snapshot.scopes \subseteq Scopes /\ snapshot.listed \subseteq Events
        /\ snapshot.confirmed \subseteq Representations
    BY ProgramAssumption DEF Representations
  <2>3. /\ published' \in [scopes : SUBSET Scopes, confirmed : SUBSET Representations,
                           listed : SUBSET Events,
                           freshness : {"loading", "current", "stale", "error"}]
        /\ published'.confirmed = snapshot.confirmed
    BY <2>1, <2>2
  <2>4. /\ Follows(rain, r, snapshot.confirmed) /\ r.cursor \in {rain.cursor, now}
        /\ r.chain = rain.chain
    BY <2>2, ReconcilingFollows
  <2> HIDE DEF r
  <2>5. r.cursor <= now' BY <2>1, <2>4
  <2> QED BY <2>1, <2>3, <2>4, <2>5, RainResized DEF r
<1>4. CASE RefreshFails
  <2>1. /\ published' = [published EXCEPT !.freshness =
                            IF rain.started THEN "stale" ELSE "error"]
        /\ UNCHANGED <<views, mode, width, height, ticks, now>>
    BY <1>4 DEF RefreshFails
  <2> QED BY <2>1, RainStands DEF views
<1>5. CASE SwitchView BY <1>5, RainStands DEF SwitchView, views
<1>6. CASE Scroll BY <1>6, RainStands DEF Scroll
<1>7. CASE Detail BY <1>7, RainStands DEF Detail
<1>8. CASE TogglePause
  <2>1. RainKey(ToggledPause(rain)) BY <1>8 DEF TogglePause
  <2> QED BY <2>1, TogglingFollows, RainKeyFollows
<1>9. CASE StepWindow
  <2>1. PICK step : RainKey(Windowed(rain, step, published.scopes, published.confirmed))
    BY <1>9 DEF StepWindow
  <2>2. published.confirmed \in SUBSET Representations OBVIOUS
  <2> QED BY <2>1, <2>2, WindowingFollows, RainKeyFollows
<1>10. CASE TurnPage
  <2>1. PICK step : RainKey(Paged(rain, step)) BY <1>10 DEF TurnPage
  <2>2. Shaped(rain) BY DEF Settled, Held
  <2>3. Follows(rain, rain, published.confirmed) BY StandingFollows
  <2>4. /\ Shaped(Paged(rain, step)) /\ Inner(Paged(rain, step)) = Inner(rain)
        /\ Paged(rain, step).height = rain.height
    BY <2>2, PagingKeeps
  <2>5. Follows(rain, Paged(rain, step), published.confirmed) BY <2>3, <2>4, PageFollows
  <2>6. Paged(rain, step).cursor = rain.cursor /\ Paged(rain, step).chain = rain.chain
    BY <2>4 DEF Inner
  <2> QED BY <2>1, <2>4, <2>5, <2>6, RainKeyFollows
<1>11. CASE Pass
  <2>1. /\ now' = now + 1
        /\ UNCHANGED <<views, mode, width, height, published, ticks, refreshes>>
    BY <1>11 DEF Pass
  <2> QED BY <2>1, RainStands DEF views
<1>12. CASE UNCHANGED vars BY <1>12, RainStands DEF vars, views
<1> QED BY <1>1, <1>2, <1>3, <1>4, <1>5, <1>6, <1>7, <1>8, <1>9, <1>10, <1>11, <1>12 DEF Next

\* In every state of the program the rain value is settled, its cursor has not
\* overtaken the clock, its rows are those the body leaves it, and one tick is on its
\* way: no handler of the loop leaves a part of its work undone (model.go:163-249,
\* rain.go:189-489).
THEOREM ViewsInvariance == Spec => []ViewsInv
BY InitViews, StepViews, PTL DEF Spec

\* Exactly one tick is on its way, and it has the generation the field expects: the
\* chain neither dies nor doubles (rain_tick.go:23-33).
THEOREM ChainSafe == Spec => []OneRainChain
<1>1. ViewsInv => OneRainChain BY DEF ViewsInv
<1> QED BY <1>1, ViewsInvariance, PTL

\* Field and queue hold only what the published snapshot confirms and the window
\* admits, nothing twice, and within their three capacities; only a paused field has a
\* queue (rain.go:312-323, 406-489).
THEOREM ConfirmedSafe == Spec => []FieldIsConfirmed
<1>1. ViewsInv => FieldIsConfirmed
  BY DEF ViewsInv, Settled, Held, Shown, FieldIsConfirmed, ItemOf
<1> QED BY <1>1, ViewsInvariance, PTL

\* The rows the field was placed on are those the body leaves it beside the strip,
\* after every handler (rain_render.go:110-124, model.go:227-249).
THEOREM FitsSafe == Spec => []FieldFits
<1>1. ViewsInv => FieldFits BY DEF ViewsInv
<1> QED BY <1>1, ViewsInvariance, PTL

\* While a pause lasts, nothing moves or ages, and neither does it in the first step after
\* it.  What stays never gets younger, and it ages by what the cursor moved or to the age
\* of its event, so that no interval is counted twice.  That age of the event includes the
\* pauses: the next refresh that measures it takes back what the pause held back
\* (rain.go:189-240, 263-273, 369-392, 425-461).
THEOREM PauseSafe == Spec => PauseStopsTime
<1>1. ASSUME RainFollows, ViewsInv
      PROVE  /\ [rain.paused /\ rain'.paused =>
                    /\ rain'.cursor = rain.cursor
                    /\ \A k \in DOMAIN rain.items \cap DOMAIN rain'.items :
                           rain'.items[k] = rain.items[k]]_vars
             /\ [rain.needsRebase /\ ~rain'.needsRebase =>
                    /\ rain'.cursor > rain.cursor
                    /\ \A k \in DOMAIN rain.items \cap DOMAIN rain'.items :
                           rain'.items[k] = rain.items[k]]_vars
             /\ [\A k \in Kept :
                    Admits(rain'.window, ItemOf(rain, k).age + rain'.cursor - rain.cursor) =>
                        ItemOf(rain', k).age >= ItemOf(rain, k).age]_vars
             /\ [\A k \in Kept :
                    ItemOf(rain', k).age
                        <= Larger(ItemOf(rain, k).age + (rain'.cursor - rain.cursor),
                                  rain'.cursor - OccurredAt[k[1]])]_vars
  <2>1. ASSUME NEW k \in Kept
        PROVE  ItemOf(rain', k).age
                   <= Larger(ItemOf(rain, k).age + (rain'.cursor - rain.cursor),
                             rain'.cursor - OccurredAt[k[1]])
    <3>1. AgesOnce(rain, rain') BY <1>1 DEF RainFollows, Follows
    <3>2. \/ ItemOf(rain', k).age <= ItemOf(rain, k).age + (rain'.cursor - rain.cursor)
          \/ ItemOf(rain', k).age <= rain'.cursor - OccurredAt[k[1]]
      BY <3>1 DEF AgesOnce, Kept
    <3>3. /\ k \in Representations /\ ItemOf(rain, k).age \in Nat
          /\ ItemOf(rain', k).age \in Nat /\ rain.cursor \in Nat /\ rain'.cursor \in Nat
      BY <1>1 DEF RainFollows, Follows, ViewsInv, Settled, Held, Items, Kept, ItemOf
    <3>4. OccurredAt[k[1]] \in Nat BY <3>3, RepresentationsOrdered
    <3> QED BY <3>2, <3>3, <3>4 DEF Larger
  <2> QED BY <1>1, <2>1 DEF RainFollows, Follows, Kept, ItemOf
<1>2. ViewsInv /\ [Next]_vars => RainFollows BY StepViews
<1> QED BY <1>1, <1>2, ViewsInvariance, PTL
           DEF Spec, PauseStopsTime, FrozenWhilePaused, ResumeAgesNothing, AgesNeverShrink,
               NoIntervalTwice

-----------------------------------------------------------------------------
(* What is left out of the field *)

\* The rounds take the sooner candidates: one that comes before one that is taken is taken.
LEMMA RoundsFromTheFront ==
    ASSUME NEW K \in SUBSET Representations, NEW c \in Nat,
           NEW l \in RoundRobin(K, {}, c), NEW k \in K,
           \/ Place(k, K, {}) < Place(l, K, {})
           \/ Place(k, K, {}) = Place(l, K, {}) /\ k[2] < l[2]
    PROVE  k \in RoundRobin(K, {}, c)
<1> DEFINE P(a) == Place(a, K, {})
           Precedes(a, b) == P(a) < P(b) \/ (P(a) = P(b) /\ a[2] < b[2])
           Before(b) == {a \in K : Precedes(a, b)}
<1>1. IsFiniteSet(K) BY RepresentationsOrdered, FS_Subset
<1>2. \A a \in K : P(a) \in Nat /\ a[2] \in Nat
  BY <1>1, RepresentationsOrdered, FS_Subset, FS_CardinalityType DEF Place
<1>3. l \in K /\ Cardinality(Before(l)) < c BY DEF RoundRobin
<1>4. Precedes(k, l) OBVIOUS
<1> HIDE DEF P
<1>5. Before(k) \subseteq Before(l) BY <1>2, <1>3, <1>4
<1>6. Before(l) \in SUBSET K OBVIOUS
<1> HIDE DEF Before
<1>7. Cardinality(Before(k)) \in Nat /\ Cardinality(Before(l)) \in Nat
      /\ Cardinality(Before(k)) <= Cardinality(Before(l))
  <2>1. IsFiniteSet(Before(l)) BY <1>1, <1>6, FS_Subset
  <2> QED BY <1>5, <2>1, FS_Subset, FS_CardinalityType
<1>8. Cardinality(Before(k)) < c BY <1>3, <1>7
<1> QED BY <1>8 DEF RoundRobin, Before, P

\* Whom the rounds leave out, no other column gets two more.
LEMMA RoundsAreFair ==
    ASSUME NEW K \in SUBSET Representations, NEW c \in Nat,
           NEW k \in K, k \notin RoundRobin(K, {}, c), NEW s
    PROVE  Cardinality(ColumnOf(RoundRobin(K, {}, c), s))
               <= Cardinality(ColumnOf(RoundRobin(K, {}, c), k[2])) + 1
<1> DEFINE A == RoundRobin(K, {}, c)
           O == ColumnOrder(K, {})
           P(a) == Place(a, K, {})
           own == ColumnOf(K, k[2])
           missed == own \ A
           n == Cardinality(ColumnOf(A, k[2]))
<1>1. IsFiniteSet(K) BY RepresentationsOrdered, FS_Subset
<1>2. \A a \in K : P(a) \in Nat /\ a[2] \in Nat
  BY <1>1, RepresentationsOrdered, FS_Subset, FS_CardinalityType DEF Place
<1>3. A \in SUBSET K BY DEF RoundRobin
<1>4. IsFiniteSet(A) /\ \A t : IsFiniteSet(ColumnOf(A, t)) /\ Cardinality(ColumnOf(A, t)) \in Nat
  BY <1>1, <1>3, FS_Subset, FS_CardinalityType DEF ColumnOf
<1>5. k \in missed BY DEF ColumnOf
<1>6. PICK m \in missed : \A a \in missed : P(m) <= P(a)
  <2> DEFINE places == {P(a) : a \in missed}
  <2>1. places \in SUBSET Nat /\ places # {} BY <1>2, <1>5 DEF ColumnOf
  <2>2. \E p \in places : \A q \in places : p <= q
    <3> HIDE DEF places
    <3> QED BY <2>1, LeastNumber
  <2> QED BY <2>2
<1>7. m \in K /\ m[2] = k[2] /\ m \notin A BY DEF ColumnOf
<1>8. P(m) <= n
  <2> DEFINE before == {a \in own : <<a, m>> \in O}
  <2>1. IsFiniteSet(own) /\ Orders(O, own) /\ \A a \in own : P(a) = Rank(O, own, a)
    BY ColumnOrdered
  <2>2. P(m) = Cardinality(before) BY <2>1 DEF Rank
  <2>3. \A a \in before : P(a) < P(m) BY <2>1, RanksGrow
  <2>4. before \subseteq ColumnOf(A, k[2])
    <3> SUFFICES ASSUME NEW a \in before PROVE a \in A BY DEF ColumnOf
    <3>1. P(a) < P(m) /\ a \in own BY <2>3
    <3>2. P(a) \in Nat /\ P(m) \in Nat BY <1>2, <1>7, <3>1 DEF ColumnOf
    <3>3. a \notin missed BY <1>6, <3>1, <3>2
    <3> QED BY <3>1, <3>3
  <2> HIDE DEF before
  <2> QED BY <1>4, <2>2, <2>4, FS_Subset
<1>9. ASSUME NEW l \in A PROVE P(l) < n + 1
  <2>1. P(l) \in Nat /\ P(m) \in Nat /\ n \in Nat BY <1>2, <1>3, <1>4, <1>7
  <2>2. ~(P(m) < P(l)) BY <1>7, RoundsFromTheFront
  <2> QED BY <1>8, <2>1, <2>2
<1>10. ColumnOf(A, s) \in SUBSET ColumnOf(K, s) BY <1>3 DEF ColumnOf
<1>11. \A l \in ColumnOf(A, s) : Rank(O, ColumnOf(K, s), l) < n + 1
  <2> TAKE l \in ColumnOf(A, s)
  <2>1. l \in A /\ l \in ColumnOf(K, s) BY <1>10 DEF ColumnOf
  <2>2. P(l) = Rank(O, ColumnOf(K, s), l) BY <2>1, ColumnOrdered
  <2> QED BY <1>9, <2>1, <2>2
<1>12. n + 1 \in Nat /\ IsFiniteSet(ColumnOf(K, s)) /\ Orders(O, ColumnOf(K, s))
  BY <1>4, ColumnOrdered
<1> HIDE DEF A, n, O
<1>13. Cardinality(ColumnOf(A, s)) <= n + 1 BY <1>10, <1>11, <1>12, RankedFew
<1> QED BY <1>13 DEF A, n

\* What admission leaves out of the candidates is older than all its column shows, and its
\* column is full, or no other shows two more.
LeftOut(A, k) ==
    /\ \A l \in ColumnOf(A, k[2]) : Newer(l, k)
    /\ \/ Cardinality(ColumnOf(A, k[2])) = ColumnCap
       \/ \A s \in Scopes : Cardinality(ColumnOf(A, s)) <= Cardinality(ColumnOf(A, k[2])) + 1

LEMMA AdmissionIsFair ==
    ASSUME NEW C \in SUBSET Representations, NEW k \in C,
           k \notin RoundRobin(Capped(C, {}, ColumnCap), {}, GlobalCap)
    PROVE  LeftOut(RoundRobin(Capped(C, {}, ColumnCap), {}, GlobalCap), k)
<1> DEFINE K == Capped(C, {}, ColumnCap)
           A == RoundRobin(K, {}, GlobalCap)
           O == ColumnOrder(C, {})
           column == ColumnOf(C, k[2])
<1>1. GlobalCap \in Nat /\ ColumnCap \in Nat BY RainAssumption
<1>2. K \in SUBSET C /\ K \in SUBSET Representations BY DEF Capped
<1>3. A \in SUBSET K BY DEF RoundRobin
<1>4. /\ IsFiniteSet(column) /\ Orders(O, column)
      /\ \A a \in column : Place(a, C, {}) = Rank(O, column, a)
  BY ColumnOrdered
<1>5. \A a \in column : Rank(O, column, a) \in Nat BY <1>4, RanksGrow
<1>6. k \in column BY DEF ColumnOf
<1> HIDE DEF K
<1>7. ASSUME NEW m \in K, m \notin A, m[2] = k[2], NEW s \in Scopes
      PROVE  Cardinality(ColumnOf(A, s)) <= Cardinality(ColumnOf(A, k[2])) + 1
  <2> HIDE DEF A
  <2>1. Cardinality(ColumnOf(RoundRobin(K, {}, GlobalCap), s))
          <= Cardinality(ColumnOf(RoundRobin(K, {}, GlobalCap), m[2])) + 1
    BY <1>1, <1>2, <1>7, RoundsAreFair DEF A
  <2> QED BY <1>7, <2>1 DEF A
<1>8. CASE k \in K
  <2>1. k \notin A BY DEF K
  <2>2. ASSUME NEW l \in ColumnOf(A, k[2]) PROVE Newer(l, k)
    <3>1. l \in A /\ l \in K /\ l[2] = k[2] BY <1>3 DEF ColumnOf
    <3>2. ~(Place(k, K, {}) < Place(l, K, {}))
      <4>1. l \in RoundRobin(K, {}, GlobalCap) /\ k \notin RoundRobin(K, {}, GlobalCap)
        BY <2>1, <3>1
      <4> HIDE DEF A
      <4> QED BY <1>1, <1>2, <1>8, <4>1, RoundsFromTheFront
    <3>3. /\ l \in ColumnOf(K, k[2]) /\ k \in ColumnOf(K, k[2]) /\ l # k
      BY <1>8, <2>1, <3>1 DEF ColumnOf
    <3>4. /\ IsFiniteSet(ColumnOf(K, k[2])) /\ Orders(ColumnOrder(K, {}), ColumnOf(K, k[2]))
          /\ Place(k, K, {}) = Rank(ColumnOrder(K, {}), ColumnOf(K, k[2]), k)
          /\ Place(l, K, {}) = Rank(ColumnOrder(K, {}), ColumnOf(K, k[2]), l)
      BY <1>2, <3>3, ColumnOrdered
    <3>5. <<l, k>> \in ColumnOrder(K, {})
      <4>1. /\ Place(k, K, {}) \in Nat /\ Place(l, K, {}) \in Nat
            /\ Place(k, K, {}) # Place(l, K, {})
        BY <3>3, <3>4, RanksDiffer
      <4>2. Place(l, K, {}) < Place(k, K, {}) BY <3>2, <4>1
      <4> QED BY <3>3, <3>4, <4>2, RanksGrow
    <3> QED BY <3>5 DEF ColumnOrder, Ahead
  <2> HIDE DEF A
  <2>3. LeftOut(A, k) BY <1>7, <1>8, <2>1, <2>2 DEF LeftOut
  <2> QED BY <2>3 DEF A, K
<1>9. CASE k \notin K
  <2>1. ~(Rank(O, column, k) < ColumnCap) BY <1>4, <1>6, <1>9 DEF Capped, K
  <2>2. \A a \in column : a \in K <=> Rank(O, column, a) < ColumnCap
    BY <1>4 DEF Capped, ColumnOf, K
  <2>3. ASSUME NEW l \in ColumnOf(A, k[2]) PROVE Newer(l, k)
    <3>1. l \in column /\ l \in K BY <1>2, <1>3 DEF ColumnOf
    <3>2. Rank(O, column, l) < Rank(O, column, k) BY <1>1, <1>5, <1>6, <2>1, <2>2, <3>1
    <3>3. <<l, k>> \in O BY <1>4, <1>6, <3>1, <3>2, RanksGrow
    <3> QED BY <3>3 DEF ColumnOrder, Ahead
  <2>4. Cardinality(ColumnOf(K, k[2])) = ColumnCap
    <3>1. ColumnOf(K, k[2]) = {a \in column : Rank(O, column, a) < ColumnCap}
      BY <1>2, <2>2 DEF ColumnOf
    <3>2. ColumnCap <= Cardinality(column)
      <4>1. Rank(O, column, k) \in 0 .. Cardinality(column) - 1 /\ Cardinality(column) \in Nat
        BY <1>4, <1>6, RanksTaken
      <4> QED BY <1>1, <2>1, <4>1
    <3> HIDE DEF column, O
    <3> QED BY <1>1, <1>4, <3>1, <3>2, RankedAll
  <2>5. CASE ColumnOf(K, k[2]) \subseteq A
    <3>1. ColumnOf(A, k[2]) = ColumnOf(K, k[2]) BY <1>3, <2>5 DEF ColumnOf
    <3> HIDE DEF A
    <3>2. LeftOut(A, k) BY <2>3, <2>4, <3>1 DEF LeftOut
    <3> QED BY <3>2 DEF A, K
  <2>6. CASE ~(ColumnOf(K, k[2]) \subseteq A)
    <3>1. PICK m \in K : m \notin A /\ m[2] = k[2] BY <2>6 DEF ColumnOf
    <3> HIDE DEF A
    <3>2. LeftOut(A, k) BY <1>7, <2>3, <3>1 DEF LeftOut
    <3> QED BY <3>2 DEF A, K
  <2> QED BY <2>5, <2>6
<1> QED BY <1>8, <1>9

\* Whom of the confirmed an unpaused field leaves out, the present ones aside.
LeavesFairly(r, present, confirmed) ==
    \A k \in confirmed \ (DOMAIN r.items \cup present) :
        Admits(r.window, Larger(r.cursor - OccurredAt[k[1]], 0)) =>
            LeftOut(DOMAIN r.items, k)

LEMMA FillingIsFair ==
    ASSUME NEW r, Held(r), ~r.paused, NEW confirmed \in SUBSET Representations,
           NEW first \in BOOLEAN, NEW frozenAges \in BOOLEAN
    PROVE  LeavesFairly(Rebuilt(r, confirmed, first, frozenAges, FALSE), DOMAIN r.items, confirmed)
<1> DEFINE c(k) == Candidate(r, k, first, frozenAges)
           all == [k \in confirmed |-> c(k)]
           left == {k \in confirmed : Admits(r.window, all[k].age)}
           C == Candidates(r, confirmed, first, frozenAges)
           seen == [r EXCEPT !.observed = confirmed]
           a == Rebuilt(r, confirmed, first, frozenAges, FALSE)
           A == RoundRobin(Capped(DOMAIN C, {}, ColumnCap), {}, GlobalCap)
<1>1. DOMAIN C = left BY DEF Candidates, RestrictDomain, Restrict
<1>2. a = Admitted(seen, C, {}) BY DEF Rebuilt
<1>3. Shaped(seen) /\ seen.window = r.window /\ seen.cursor = r.cursor
  BY DEF Held, Shaped
<1> HIDE DEF C, seen
<1>4. /\ DOMAIN Admitted(seen, C, {}).items = A
      /\ Admitted(seen, C, {}).window = r.window /\ Admitted(seen, C, {}).cursor = r.cursor
  BY <1>3 DEF Admitted, Restrict, Shaped
<1>5. ASSUME NEW k \in confirmed, k \notin DOMAIN r.items,
             Admits(r.window, Larger(r.cursor - OccurredAt[k[1]], 0))
      PROVE  k \in left
  <2>1. k \notin DOMAIN r.queue \cup DOMAIN r.items BY <1>5 DEF Held
  <2>2. c(k).age = Larger(r.cursor - OccurredAt[k[1]], 0) BY <2>1 DEF Candidate
  <2> HIDE DEF c
  <2> QED BY <1>5, <2>2
<1>6. DOMAIN C \in SUBSET Representations BY <1>1
<1> HIDE DEF left, a
<1>7. \A k \in DOMAIN C : k \notin A => LeftOut(A, k) BY <1>6, AdmissionIsFair
<1> HIDE DEF A
<1>8. DOMAIN a.items = A /\ a.window = r.window /\ a.cursor = r.cursor BY <1>2, <1>4
<1>9. LeavesFairly(a, DOMAIN r.items, confirmed) BY <1>1, <1>5, <1>7, <1>8 DEF LeavesFairly
<1> QED BY <1>9 DEF a

LEMMA ReconcilingIsFair ==
    ASSUME NEW r, NEW before, Settled(r, before), ~r.paused, NEW scopes,
           NEW confirmed \in SUBSET Representations, NEW reference \in Nat
    PROVE  LeavesFairly(Reconciled(r, scopes, confirmed, reference), DOMAIN r.items, confirmed)
<1> DEFINE first == ~r.started
           rebasing == r.needsRebase /\ ~r.paused /\ reference > r.cursor
           start == [r EXCEPT !.started = TRUE, !.cursor = reference, !.remainder = 0]
           moved == IF first THEN start ELSE Applied(r, reference)
           b == [moved EXCEPT !.scopes = scopes]
           q == Repaged(b)
           a == Rebuilt(q, confirmed, first, rebasing, FALSE)
<1>1. Reconciled(r, scopes, confirmed, reference) = a BY DEF Reconciled
<1>2. /\ Held(r) /\ Shaped(r) /\ r.started \in BOOLEAN /\ r.needsRebase \in BOOLEAN
      /\ first \in BOOLEAN /\ rebasing \in BOOLEAN
  BY DEF Settled, Held
<1>3. /\ Held(moved) /\ ~moved.paused /\ DOMAIN moved.items \subseteq DOMAIN r.items
  <2>1. CASE first
    <3>1. moved = start BY <2>1
    <3>2. /\ Shaped(start) /\ start.cursor = reference /\ start.started = TRUE
          /\ start.items = r.items /\ start.queue = r.queue
          /\ start.paused = r.paused /\ start.window = r.window
          /\ start.needsRebase = r.needsRebase
      BY <1>2 DEF Shaped
    <3> HIDE DEF moved, start
    <3> QED BY <1>2, <3>1, <3>2 DEF Held
  <2>2. CASE ~first
    <3>1. moved = Applied(r, reference) BY <2>2
    <3> HIDE DEF moved
    <3>2. Follows(r, moved, before) /\ Outer(moved) = Outer(r) BY <3>1, ApplyingSettles
    <3>3. Timed(r) BY <1>2 DEF Timed, Settled, Held, Shown
    <3>4. Older(r, moved) BY <3>1, <3>3, ApplyingAges
    <3>5. Held(moved) BY <3>2 DEF Follows, Settled
    <3>6. moved.paused = r.paused BY <3>2 DEF Outer
    <3>7. DOMAIN moved.items \subseteq DOMAIN r.items BY <3>4 DEF Older
    <3> QED BY <3>5, <3>6, <3>7
  <2> HIDE DEF moved, first
  <2> QED BY <2>1, <2>2
<1> HIDE DEF moved
<1>4. /\ Shaped(b) /\ Inner(b) = Inner(moved) BY <1>3 DEF Held, Shaped, Inner
<1> HIDE DEF b
<1>5. Shaped(q) /\ Inner(q) = Inner(b) BY <1>4, RepagingKeeps
<1> HIDE DEF q
<1>6. Held(q) /\ ~q.paused /\ DOMAIN q.items = DOMAIN moved.items
  BY <1>3, <1>4, <1>5 DEF Held, Inner
<1> HIDE DEF first, rebasing
<1>7. LeavesFairly(a, DOMAIN q.items, confirmed) BY <1>2, <1>6, FillingIsFair
<1> HIDE DEF a
<1>8. LeavesFairly(a, DOMAIN r.items, confirmed) BY <1>3, <1>6, <1>7 DEF LeavesFairly
<1> QED BY <1>1, <1>8

\* What an unpaused refresh leaves out of the field: only what is older than all its
\* Scope shows there, and only while its column is full or every other Scope shows at
\* most one more (rain.go:406-423, 505-543).
THEOREM FairSafe == Spec => FairShare
<1>1. ASSUME ViewsInv, [Next]_vars,
             strip' # strip, published' # published, ~rain'.paused
      PROVE  LeavesFairly(rain', DOMAIN rain.items, published'.confirmed)
  <2>1. CASE Refresh
    <3>1. PICK snapshot \in Snapshots :
              /\ published' = [scopes |-> snapshot.scopes, confirmed |-> snapshot.confirmed,
                               listed |-> snapshot.listed, freshness |-> "current"]
              /\ rain' = ResizedRain(Reconciled(rain, snapshot.scopes, snapshot.confirmed,
                                                now), strip', width, height)
      BY <2>1 DEF Refresh
    <3> DEFINE r == Reconciled(rain, snapshot.scopes, snapshot.confirmed, now)
    <3>2. /\ snapshot.confirmed \in SUBSET Representations
          /\ published'.confirmed = snapshot.confirmed
      BY <3>1, ProgramAssumption DEF Representations
    <3>3. Settled(rain, published.confirmed) /\ now \in Nat /\ height \in Int
      BY <1>1 DEF ViewsInv
    <3>4. Follows(rain, r, snapshot.confirmed) /\ r.paused = rain.paused
      BY <3>2, <3>3, ReconcilingFollows
    <3>5. ~rain.paused => LeavesFairly(r, DOMAIN rain.items, snapshot.confirmed)
      BY <3>2, <3>3, ReconcilingIsFair
    <3>6. Shaped(r) BY <3>4 DEF Follows, Settled, Held
    <3> HIDE DEF r
    <3>7. Inner(rain') = Inner(r) BY <3>1, <3>3, <3>6, ResizedRainFits DEF r
    <3>8. /\ rain'.items = r.items /\ rain'.window = r.window /\ rain'.cursor = r.cursor
          /\ rain'.paused = r.paused
      BY <3>7 DEF Inner
    <3>9. ~rain.paused BY <1>1, <3>4, <3>8
    <3> QED BY <3>2, <3>5, <3>8, <3>9 DEF LeavesFairly
  <2>2. ~RefreshFails BY <1>1 DEF RefreshFails, views
  <2> QED
    BY <1>1, <2>1, <2>2 DEF Next, Resize, RainTick, views, SwitchView, Scroll, Detail,
       TogglePause, StepWindow, TurnPage, RainKey, Pass, vars
<1>2. ASSUME ViewsInv, [Next]_vars
      PROVE  [strip' # strip /\ published' # published /\ ~rain'.paused =>
                 \A k \in published'.confirmed \ (DOMAIN rain'.items \cup Kept
                                                     \cup DOMAIN rain.items) :
                     LET column(s) == {l \in DOMAIN rain'.items : l[2] = s}
                     IN  Admits(rain'.window, Larger(rain'.cursor - OccurredAt[k[1]], 0)) =>
                             /\ \A l \in column(k[2]) : Newer(l, k)
                             /\ \/ Cardinality(column(k[2])) = ColumnCap
                                \/ \A s \in Scopes : Cardinality(column(s))
                                       <= Cardinality(column(k[2])) + 1]_vars
  BY <1>1, <1>2 DEF LeavesFairly, LeftOut, ColumnOf
<1> QED BY <1>2, ViewsInvariance, PTL DEF Spec, FairShare

-----------------------------------------------------------------------------
(* Numbers *)

\* The numbers of a rain value are in their ranges.
Phases(f) == \A k \in DOMAIN f : f[k].phase \in Nat
Numbers(r) ==
    /\ r.window \in 1 .. Available /\ r.observed \in SUBSET Representations
    /\ r.remainder \in 0 .. RainStep - 1 /\ r.chain \in 0 .. Generations - 1
    /\ r.height \in Nat
    /\ Phases(r.items) /\ Phases(r.queue)

\* What is left of a number after division, and how often the divisor goes into it.
LEMMA Division ==
    ASSUME NEW a \in Nat, NEW n \in Nat \ {0}
    PROVE  /\ a \div n \in Nat /\ a % n \in 0 .. n - 1
           /\ a = n * (a \div n) + (a % n)
OBVIOUS

LEMMA AdvancingCounts ==
    ASSUME NEW r, Timed(r), Numbers(r), NEW at \in Nat, at > r.cursor
    PROVE  Numbers(Advanced(r, at))
<1> DEFINE total == (at - r.cursor) + r.remainder
           steps == total \div RainStep
           phase(k) == IF r.height = 0 THEN r.items[k].phase
                       ELSE (r.items[k].phase + steps) % r.height
           a == Advanced(r, at)
<1>1. RainStep \in Nat \ {0} /\ r.remainder \in Nat /\ r.cursor \in Nat /\ r.height \in Nat
  BY RainAssumption DEF Numbers, Timed
<1>2. total \in Nat BY <1>1
<1> HIDE DEF total
<1>3. steps \in Nat /\ total % RainStep \in 0 .. RainStep - 1 BY <1>1, <1>2, Division
<1>4. a.remainder = total % RainStep
  BY DEF Timed, Shaped, Advanced, StepsIn, total
<1> HIDE DEF steps
<1>5. \A k \in DOMAIN r.items : phase(k) \in Nat
  <2> SUFFICES ASSUME NEW k \in DOMAIN r.items PROVE phase(k) \in Nat OBVIOUS
  <2>1. r.items[k].phase \in Nat BY DEF Numbers, Phases
  <2>2. CASE r.height = 0 BY <2>1, <2>2
  <2>3. CASE r.height # 0
    <3>1. r.items[k].phase + steps \in Nat /\ r.height \in Nat \ {0} BY <1>1, <1>3, <2>1, <2>3
    <3> QED BY <2>3, <3>1, Division
  <2> QED BY <2>2, <2>3
<1>6. \A k \in DOMAIN a.items : k \in DOMAIN r.items /\ a.items[k].phase = phase(k)
  BY DEF Timed, Shaped, Advanced, RestrictDomain, Restrict, StepsIn, total, steps
<1>7. Phases(a.items) BY <1>5, <1>6 DEF Phases
<1>8. /\ a.window = r.window /\ a.observed = r.observed /\ a.chain = r.chain
      /\ a.height = r.height /\ a.queue = r.queue
  BY DEF Timed, Shaped, Advanced
<1> HIDE DEF a
<1>9. Numbers(a) BY <1>3, <1>4, <1>7, <1>8 DEF Numbers
<1> QED BY <1>9 DEF a

LEMMA ApplyingCounts ==
    ASSUME NEW r, Timed(r), Numbers(r), NEW at \in Nat
    PROVE  Numbers(Applied(r, at))
<1>1. CASE r.paused \/ at <= r.cursor BY <1>1 DEF Applied
<1>2. CASE ~(r.paused \/ at <= r.cursor) /\ r.needsRebase
  <2> DEFINE a == [r EXCEPT !.cursor = at, !.needsRebase = FALSE]
  <2>1. Applied(r, at) = a BY <1>2 DEF Applied
  <2>2. /\ a.window = r.window /\ a.observed = r.observed /\ a.chain = r.chain
        /\ a.height = r.height /\ a.queue = r.queue /\ a.items = r.items
        /\ a.remainder = r.remainder
    BY DEF Timed, Shaped
  <2> HIDE DEF a
  <2> QED BY <2>1, <2>2 DEF Numbers
<1>3. CASE ~(r.paused \/ at <= r.cursor) /\ ~r.needsRebase
  <2>1. Applied(r, at) = Advanced(r, at) BY <1>3 DEF Applied
  <2>2. at > r.cursor BY <1>3 DEF Timed
  <2> QED BY <2>1, <2>2, AdvancingCounts
<1> QED BY <1>1, <1>2, <1>3

LEMMA CandidatesCount ==
    ASSUME NEW r, Held(r), Numbers(r), NEW confirmed \in SUBSET Representations,
           NEW first, NEW frozenAges
    PROVE  Phases(Candidates(r, confirmed, first, frozenAges))
<1> DEFINE c(k) == Candidate(r, k, first, frozenAges)
           C == Candidates(r, confirmed, first, frozenAges)
<1>1. ASSUME NEW k \in confirmed PROVE c(k).phase \in Nat
  <2> DEFINE p == Previous(r, k)
  <2>1. CASE k \in DOMAIN r.queue \cup DOMAIN r.items
    <3>1. p \in [age : Nat, phase : {p.phase}] /\ p.phase \in Nat
      BY <2>1 DEF Held, Items, Previous, Numbers, Phases
    <3>2. PICK age : c(k) = [p EXCEPT !.age = age]
      BY <2>1 DEF Candidate, Previous
    <3> HIDE DEF p
    <3> QED BY <3>1, <3>2
  <2>2. CASE k \notin DOMAIN r.queue \cup DOMAIN r.items
    <3>1. PICK age : c(k) = [age |-> age, phase |-> IF first \/ k \in r.observed
                                                  THEN RowHash[k] ELSE 0]
      BY <2>2 DEF Candidate
    <3>2. RowHash[k] \in Nat BY RainAssumption
    <3> QED BY <3>1, <3>2
  <2> QED BY <2>1, <2>2
<1> HIDE DEF c
<1>2. \A k \in DOMAIN C : k \in confirmed /\ C[k] = c(k)
  BY DEF Candidates, RestrictDomain, Restrict, c
<1> QED BY <1>1, <1>2 DEF Phases

LEMMA AdmittingCounts ==
    ASSUME NEW r, Shaped(r), Numbers(r), NEW C, Phases(C), NEW standing
    PROVE  Numbers(Admitted(r, C, standing))
<1> DEFINE S == RoundRobin(Capped(DOMAIN C, standing, ColumnCap), standing, GlobalCap)
           g == Restrict(C, S)
           a == [r EXCEPT !.items = g]
<1>1. Admitted(r, C, standing) = a BY DEF Admitted
<1>2. S \subseteq DOMAIN C BY DEF RoundRobin, Capped
<1> HIDE DEF S
<1>3. Phases(g) BY <1>2 DEF Phases, Restrict
<1> HIDE DEF g
<1>4. /\ a.window = r.window /\ a.observed = r.observed /\ a.chain = r.chain
      /\ a.height = r.height /\ a.queue = r.queue /\ a.items = g
      /\ a.remainder = r.remainder
  BY DEF Shaped
<1> HIDE DEF a
<1> QED BY <1>1, <1>3, <1>4 DEF Numbers

LEMMA QueueingCounts ==
    ASSUME NEW r, Shaped(r), Numbers(r), NEW C, Items(C), NEW arrivals \in SUBSET DOMAIN C
    PROVE  Numbers(Queued(r, arrivals, C))
<1> DEFINE S == RoundRobin(arrivals, {}, QueueCap)
           g == [k \in S |-> [C[k] EXCEPT !.phase = 0]]
           a == [r EXCEPT !.queue = g]
<1>1. Queued(r, arrivals, C) = a BY DEF Queued
<1>2. S \subseteq DOMAIN C BY DEF RoundRobin
<1> HIDE DEF S
<1>3. Phases(g) BY <1>2 DEF Phases, Items
<1> HIDE DEF g
<1>4. /\ a.window = r.window /\ a.observed = r.observed /\ a.chain = r.chain
      /\ a.height = r.height /\ a.queue = g /\ a.items = r.items
      /\ a.remainder = r.remainder
  BY DEF Shaped
<1> HIDE DEF a
<1> QED BY <1>1, <1>3, <1>4 DEF Numbers

LEMMA RebuildingCounts ==
    ASSUME NEW r, Held(r), Numbers(r), NEW confirmed \in SUBSET Representations,
           NEW first \in BOOLEAN, NEW frozenAges \in BOOLEAN, NEW restoring
    PROVE  Numbers(Rebuilt(r, confirmed, first, frozenAges, restoring))
<1> DEFINE C == Candidates(r, confirmed, first, frozenAges)
           seen == [r EXCEPT !.observed = confirmed]
           a == Rebuilt(r, confirmed, first, frozenAges, restoring)
<1>1. Items(C) /\ Phases(C) BY CandidatesSucceed, CandidatesCount DEF Succeed
<1> HIDE DEF C
<1>2. a = IF r.paused /\ restoring THEN Restored(seen, C)
          ELSE IF r.paused THEN Frozen(seen, C)
          ELSE Admitted(seen, C, {})
  BY DEF Rebuilt, C
<1>3. Shaped(seen) /\ Numbers(seen) /\ Items(seen.items)
  <2>1. /\ Shaped(seen) /\ seen.window = r.window /\ seen.observed = confirmed
        /\ seen.chain = r.chain /\ seen.height = r.height /\ seen.queue = r.queue
        /\ seen.items = r.items /\ seen.remainder = r.remainder
    BY DEF Held, Shaped
  <2> HIDE DEF seen
  <2> QED BY <2>1 DEF Numbers, Held
<1> HIDE DEF seen, a
<1>4. CASE r.paused /\ restoring
  <2> DEFINE g == Restrict(C, DOMAIN C \ DOMAIN seen.queue)
             b == Admitted(seen, g, {})
  <2>1. a = Queued(b, DOMAIN C \cap DOMAIN seen.queue, C)
    BY <1>2, <1>4 DEF Restored, RestoredField
  <2>2. Items(g) /\ Phases(g) BY <1>1, PartOfItems DEF Phases, Restrict
  <2> HIDE DEF g
  <2>3. Shaped(b) /\ Numbers(b) BY <1>3, <2>2, AdmittedFits, AdmittingCounts
  <2> HIDE DEF b
  <2> QED BY <1>1, <2>1, <2>3, QueueingCounts DEF a
<1>5. CASE r.paused /\ ~restoring
  <2> DEFINE g == Restrict(seen.items, DOMAIN seen.items \cap DOMAIN C)
             b == [seen EXCEPT !.items = g]
  <2>1. a = Queued(b, DOMAIN C \ DOMAIN seen.items, C)
    BY <1>2, <1>5 DEF Frozen, FrozenItems
  <2>2. Phases(g) BY <1>3 DEF Phases, Restrict, Numbers
  <2> HIDE DEF g
  <2>3. /\ Shaped(b) /\ b.window = seen.window /\ b.observed = seen.observed
        /\ b.chain = seen.chain /\ b.height = seen.height /\ b.queue = seen.queue
        /\ b.items = g /\ b.remainder = seen.remainder
    BY <1>3 DEF Shaped
  <2> HIDE DEF b
  <2>4. Numbers(b) BY <1>3, <2>2, <2>3 DEF Numbers
  <2> QED BY <1>1, <2>1, <2>3, <2>4, QueueingCounts DEF a
<1>6. CASE ~r.paused BY <1>1, <1>2, <1>3, <1>6, AdmittingCounts DEF a
<1>7. r.paused \in BOOLEAN BY DEF Held
<1> QED BY <1>4, <1>5, <1>6, <1>7

\* A page counts what it is a page of.
LEMMA PageCounts ==
    ASSUME NEW a, Numbers(a), NEW b, Inner(b) = Inner(a), b.height \in Nat
    PROVE  Numbers(b)
<1>1. /\ b.window = a.window /\ b.observed = a.observed /\ b.chain = a.chain
      /\ b.queue = a.queue /\ b.items = a.items /\ b.remainder = a.remainder
  BY DEF Inner
<1> QED BY <1>1 DEF Numbers

LEMMA SettledTimed ==
    ASSUME NEW r, NEW confirmed, Settled(r, confirmed)
    PROVE  Timed(r) /\ Held(r) /\ Shaped(r)
BY DEF Settled, Held, Shown, Timed

LEMMA TickingCounts ==
    ASSUME NEW r, NEW confirmed, Settled(r, confirmed), Numbers(r), NEW chain, NEW at \in Nat
    PROVE  Numbers(Ticked(r, chain, at))
<1> DEFINE b == [r EXCEPT !.chain = (r.chain + 1) % Generations]
<1>1. CASE ~r.started \/ chain # r.chain \/ at <= r.cursor BY <1>1 DEF Ticked
<1>2. CASE ~(~r.started \/ chain # r.chain \/ at <= r.cursor)
  <2>1. Ticked(r, chain, at) = Applied(b, at) BY <1>2 DEF Ticked
  <2>2. (r.chain + 1) % Generations \in 0 .. Generations - 1
    <3>1. r.chain + 1 \in Nat /\ Generations \in Nat \ {0} BY RainAssumption DEF Numbers
    <3> QED BY <3>1, Division
  <2>3. /\ Shaped(b) /\ b.window = r.window /\ b.items = r.items /\ b.queue = r.queue
        /\ b.cursor = r.cursor /\ b.started = r.started /\ b.paused = r.paused
        /\ b.needsRebase = r.needsRebase /\ b.height = r.height
        /\ b.observed = r.observed /\ b.remainder = r.remainder
        /\ b.chain = (r.chain + 1) % Generations
    BY SettledTimed DEF Shaped
  <2> HIDE DEF b
  <2>4. Timed(b) BY <2>3, SettledTimed DEF Timed
  <2>5. Numbers(b) BY <2>2, <2>3 DEF Numbers
  <2> QED BY <2>1, <2>4, <2>5, ApplyingCounts
<1> QED BY <1>1, <1>2

LEMMA ReconcilingCounts ==
    ASSUME NEW r, NEW before, Settled(r, before), Numbers(r), NEW scopes,
           NEW confirmed \in SUBSET Representations, NEW reference \in Nat
    PROVE  Numbers(Reconciled(r, scopes, confirmed, reference))
<1> DEFINE first == ~r.started
           rebasing == r.needsRebase /\ ~r.paused /\ reference > r.cursor
           start == [r EXCEPT !.started = TRUE, !.cursor = reference, !.remainder = 0]
           moved == IF first THEN start ELSE Applied(r, reference)
           b == [moved EXCEPT !.scopes = scopes]
           q == Repaged(b)
<1>1. Reconciled(r, scopes, confirmed, reference) = Rebuilt(q, confirmed, first, rebasing, FALSE)
  BY DEF Reconciled
<1>2. /\ Timed(r) /\ Held(r) /\ Shaped(r) /\ r.cursor \in Nat
      /\ r.started \in BOOLEAN /\ r.paused \in BOOLEAN /\ r.needsRebase \in BOOLEAN
      /\ first \in BOOLEAN /\ rebasing \in BOOLEAN
  BY SettledTimed DEF Timed
<1>3. Held(moved) /\ Numbers(moved)
  <2>1. CASE first
    <3>1. moved = start BY <2>1
    <3>2. /\ Shaped(start) /\ start.started = TRUE /\ start.chain = r.chain
          /\ start.cursor = reference /\ start.items = r.items /\ start.queue = r.queue
          /\ start.paused = r.paused /\ start.window = r.window
          /\ start.needsRebase = r.needsRebase /\ start.remainder = 0
          /\ start.observed = r.observed /\ start.height = r.height
      BY <1>2 DEF Shaped
    <3> HIDE DEF moved, start
    <3>3. Held(start) BY <1>2, <3>2 DEF Held
    <3>4. Numbers(start) BY <3>2, RainAssumption DEF Numbers
    <3> QED BY <3>1, <3>3, <3>4
  <2>2. CASE ~first
    <3>1. moved = Applied(r, reference) BY <2>2
    <3> HIDE DEF moved
    <3>2. Follows(r, moved, before) BY <3>1, ApplyingSettles
    <3> QED BY <1>2, <3>1, <3>2, ApplyingCounts DEF Follows, Settled
  <2> HIDE DEF moved
  <2> QED BY <2>1, <2>2
<1> HIDE DEF moved
<1>4. Shaped(b) /\ Inner(b) = Inner(moved) /\ b.height = moved.height
  BY <1>3 DEF Held, Shaped, Inner
<1> HIDE DEF b
<1>5. Shaped(q) /\ Inner(q) = Inner(moved) /\ q.height = moved.height
  BY <1>4, RepagingKeeps
<1> HIDE DEF q
<1>6. Numbers(q) BY <1>3, <1>5, PageCounts DEF Numbers
<1>7. Held(q)
  <2>1. /\ q.items = moved.items /\ q.queue = moved.queue /\ q.cursor = moved.cursor
        /\ q.started = moved.started /\ q.paused = moved.paused
        /\ q.needsRebase = moved.needsRebase
    BY <1>5 DEF Inner
  <2> QED BY <1>3, <1>5, <2>1 DEF Held
<1> HIDE DEF first, rebasing
<1> QED BY <1>1, <1>2, <1>6, <1>7, RebuildingCounts

LEMMA WindowingCounts ==
    ASSUME NEW r, NEW before, Settled(r, before), Numbers(r), NEW scopes, NEW step \in Int,
           NEW confirmed \in SUBSET Representations
    PROVE  Numbers(Windowed(r, step, scopes, confirmed))
<1> DEFINE stepped == SteppedWindow(r.window, step)
           shifted == [r EXCEPT !.window = stepped]
           b == [shifted EXCEPT !.scopes = scopes]
           q == Repaged(b)
<1>1. Held(r) /\ Shaped(r) /\ r.paused \in BOOLEAN BY SettledTimed DEF Held
<1>2. stepped \in 1 .. Available
  <2>1. Len(Windows) \in Nat BY RainAssumption
  <2> QED BY <2>1 DEF Numbers, SteppedWindow, Available, Smaller, Larger
<1>3. /\ Shaped(shifted) /\ shifted.window = stepped /\ shifted.items = r.items
      /\ shifted.queue = r.queue /\ shifted.cursor = r.cursor /\ shifted.chain = r.chain
      /\ shifted.height = r.height /\ shifted.started = r.started
      /\ shifted.paused = r.paused /\ shifted.needsRebase = r.needsRebase
      /\ shifted.observed = r.observed /\ shifted.remainder = r.remainder
  BY <1>1 DEF Shaped
<1>4. Windowed(r, step, scopes, confirmed)
          = IF stepped = r.window \/ ~r.started THEN shifted
            ELSE Rebuilt(q, confirmed, FALSE, r.paused, TRUE)
  BY DEF Windowed
<1> HIDE DEF stepped, shifted
<1>5. Numbers(shifted) BY <1>2, <1>3 DEF Numbers
<1>6. Held(shifted) BY <1>1, <1>3 DEF Held
<1>7. Shaped(b) /\ Inner(b) = Inner(shifted) /\ b.height = shifted.height
  BY <1>3 DEF Shaped, Inner
<1> HIDE DEF b
<1>8. Shaped(q) /\ Inner(q) = Inner(shifted) /\ q.height = shifted.height
  BY <1>7, RepagingKeeps
<1> HIDE DEF q
<1>9. Numbers(q) BY <1>5, <1>8, PageCounts DEF Numbers
<1>10. Held(q)
  <2>1. /\ q.items = shifted.items /\ q.queue = shifted.queue /\ q.cursor = shifted.cursor
        /\ q.started = shifted.started /\ q.paused = shifted.paused
        /\ q.needsRebase = shifted.needsRebase
    BY <1>8 DEF Inner
  <2> QED BY <1>6, <1>8, <2>1 DEF Held
<1>11. Numbers(Rebuilt(q, confirmed, FALSE, r.paused, TRUE))
  BY <1>1, <1>9, <1>10, RebuildingCounts
<1> QED BY <1>4, <1>5, <1>11

LEMMA TogglingCounts ==
    ASSUME NEW r, NEW before, Settled(r, before), Numbers(r)
    PROVE  Numbers(ToggledPause(r))
<1>1. Shaped(r) BY SettledTimed
<1>2. CASE ~r.started BY <1>2 DEF ToggledPause
<1>3. CASE r.started /\ ~r.paused
  <2> DEFINE a == [r EXCEPT !.paused = TRUE]
  <2>1. ToggledPause(r) = a BY <1>3 DEF ToggledPause
  <2>2. /\ a.items = r.items /\ a.queue = r.queue /\ a.window = r.window
        /\ a.chain = r.chain /\ a.height = r.height
        /\ a.observed = r.observed /\ a.remainder = r.remainder
    BY <1>1 DEF Shaped
  <2> HIDE DEF a
  <2> QED BY <2>1, <2>2 DEF Numbers
<1>4. CASE r.started /\ r.paused
  <2> DEFINE b == [r EXCEPT !.paused = FALSE, !.needsRebase = TRUE]
             all == [k \in DOMAIN b.items \cup DOMAIN b.queue |->
                        IF k \in DOMAIN b.items THEN b.items[k] ELSE b.queue[k]]
             c == [b EXCEPT !.queue = NoItems]
  <2>1. ToggledPause(r) = Admitted(c, all, DOMAIN b.items)
    BY <1>4 DEF ToggledPause, Merged, EmptyQueue
  <2>2. /\ Shaped(b) /\ b.items = r.items /\ b.queue = r.queue /\ b.window = r.window
        /\ b.chain = r.chain /\ b.height = r.height
        /\ b.observed = r.observed /\ b.remainder = r.remainder
    BY <1>1 DEF Shaped
  <2> HIDE DEF b
  <2>3. Phases(all) BY <2>2 DEF Numbers, Phases
  <2> HIDE DEF all
  <2>4. /\ Shaped(c) /\ c.items = r.items /\ c.queue = NoItems /\ c.window = r.window
        /\ c.chain = r.chain /\ c.height = r.height
        /\ c.observed = r.observed /\ c.remainder = r.remainder
    BY <2>2 DEF Shaped
  <2> HIDE DEF c
  <2>5. Phases(NoItems) BY DEF Phases, NoItems
  <2>6. Numbers(c) BY <2>4, <2>5 DEF Numbers
  <2> QED BY <2>1, <2>3, <2>4, <2>6, AdmittingCounts
<1> QED BY <1>2, <1>3, <1>4

\* The rows a resize gives the field are a number, if the strip has a length.
LEMMA ResizingCounts ==
    ASSUME NEW r, Shaped(r), Numbers(r), NEW s, Len(s.entries) \in Nat, NEW w, NEW h \in Int
    PROVE  Numbers(ResizedRain(r, s, w, h))
<1> DEFINE body == ContentHeight(h)
           budget == StripBudget(r, w, body)
           rows == FieldRows(r, w, body, StripRows(s, budget))
           a == Resized(r, w, rows)
<1>1. ResizedRain(r, s, w, h) = a BY DEF ResizedRain
<1>2. r.height \in Nat BY DEF Numbers
<1>3. body \in Int BY DEF ContentHeight, Larger, ChromeLines, Unbounded
<1> HIDE DEF body
<1>4. FieldHeight(r, w, body) \in Int BY <1>2, <1>3 DEF FieldHeight, RainChrome
<1>5. budget \in Int BY <1>4 DEF StripBudget, Unbounded
<1> HIDE DEF budget
<1>6. StripRows(s, budget) \in Int
  <2>1. StripVisible \in Nat BY StripAssumption
  <2> QED BY <1>5, <2>1 DEF StripRows, StripShown, Smaller, Collapse, FieldFloor
<1>7. rows \in Int BY <1>3, <1>4, <1>6 DEF FieldRows, Larger
<1> HIDE DEF rows
<1>8. Inner(a) = Inner(r) /\ a.height = Larger(rows, 0) BY ResizingKeeps
<1> HIDE DEF a
<1>9. a.height \in Nat BY <1>7, <1>8 DEF Larger
<1> QED BY <1>1, <1>8, <1>9, PageCounts

-----------------------------------------------------------------------------
(* Missed frames *)

\* A number has one quotient and one remainder.
LEMMA OneDivision ==
    ASSUME NEW n \in Nat \ {0}, NEW q \in Int, NEW p \in Int,
           NEW m \in 0 .. n - 1, NEW l \in 0 .. n - 1, n * q + m = n * p + l
    PROVE  q = p /\ m = l
<1>1. ASSUME NEW x \in Int, NEW y \in Int, x < y PROVE n * x + n <= n * y
  <2>1. PICK d \in Nat : y = (x + 1) + d
    <3>1. y - (x + 1) \in Nat /\ y = (x + 1) + (y - (x + 1)) BY <1>1
    <3> QED BY <3>1
  <2>2. n * y = n * x + n + n * d BY <2>1
  <2>3. n * d \in Nat OBVIOUS
  <2> QED BY <2>2, <2>3
<1>2. ~(q < p)
  <2> SUFFICES ASSUME q < p PROVE FALSE OBVIOUS
  <2>1. n * q + n <= n * p BY <1>1
  <2>2. n * q \in Int /\ n * p \in Int OBVIOUS
  <2> QED BY <2>1, <2>2
<1>3. ~(p < q)
  <2> SUFFICES ASSUME p < q PROVE FALSE OBVIOUS
  <2>1. n * p + n <= n * q BY <1>1
  <2>2. n * q \in Int /\ n * p \in Int OBVIOUS
  <2> QED BY <2>1, <2>2
<1>4. q = p BY <1>2, <1>3
<1> QED BY <1>4

\* Division in two goes adds up.
LEMMA DivisionInTwo ==
    ASSUME NEW n \in Nat \ {0}, NEW a \in Nat, NEW b \in Nat
    PROVE  /\ (a \div n) + (((a % n) + b) \div n) = (a + b) \div n
           /\ ((a % n) + b) % n = (a + b) % n
<1>1. PICK q \in Nat, m \in 0 .. n - 1 : a \div n = q /\ a % n = m /\ a = n * q + m
  BY Division
<1>2. m + b \in Nat BY <1>1
<1>3. PICK p \in Nat, l \in 0 .. n - 1 :
          (m + b) \div n = p /\ (m + b) % n = l /\ m + b = n * p + l
  BY <1>2, Division
<1>4. a + b \in Nat OBVIOUS
<1>5. PICK t \in Nat, k \in 0 .. n - 1 :
          (a + b) \div n = t /\ (a + b) % n = k /\ a + b = n * t + k
  BY <1>4, Division
<1>6. n * (q + p) = n * q + n * p OBVIOUS
<1>7. n * q \in Int /\ n * p \in Int /\ n * t \in Int OBVIOUS
<1>8. n * (q + p) + l = n * t + k BY <1>1, <1>3, <1>5, <1>6, <1>7
<1>9. q + p = t /\ l = k
  <2>1. q + p \in Int /\ t \in Int OBVIOUS
  <2> QED BY <1>8, <2>1, OneDivision
<1> QED BY <1>1, <1>3, <1>5, <1>9

\* The same, in the orders in which the two advances divide.
LEMMA RestAdded ==
    ASSUME NEW n \in Nat \ {0}, NEW x \in Nat, NEW y \in Nat
    PROVE  /\ (y + (x % n)) % n = (x + y) % n
           /\ (x \div n) + ((y + (x % n)) \div n) = (x + y) \div n
<1>1. PICK m \in Nat : m = x % n BY Division
<1>2. y + m = m + y BY <1>1
<1>3. /\ (x \div n) + ((m + y) \div n) = (x + y) \div n
      /\ (m + y) % n = (x + y) % n
  BY <1>1, DivisionInTwo
<1>4. /\ (x \div n) + ((y + m) \div n) = (x + y) \div n
      /\ (y + m) % n = (x + y) % n
  BY <1>2, <1>3
<1> QED BY <1>1, <1>4

LEMMA TurnedTwice ==
    ASSUME NEW n \in Nat \ {0}, NEW p \in Nat, NEW x \in Nat, NEW y \in Nat
    PROVE  (((p + x) % n) + y) % n = (p + (x + y)) % n
<1>1. p + x \in Nat OBVIOUS
<1>2. (((p + x) % n) + y) % n = ((p + x) + y) % n BY <1>1, DivisionInTwo
<1>3. (p + x) + y = p + (x + y) OBVIOUS
<1> QED BY <1>2, <1>3

\* What an advance does to the remainder and the phases.
Turned(p, elapsed, remainder, h) == (p + ((elapsed + remainder) \div RainStep)) % h

LEMMA AdvancingTurns ==
    ASSUME NEW r, Timed(r), r.height # 0, NEW at
    PROVE  LET a == Advanced(r, at)
           IN  /\ a.remainder = ((at - r.cursor) + r.remainder) % RainStep
               /\ \A k \in DOMAIN a.items :
                      a.items[k].phase =
                          Turned(r.items[k].phase, at - r.cursor, r.remainder, r.height)
BY DEF Timed, Shaped, Advanced, RestrictDomain, Restrict, StepsIn, Turned

\* To advance by way of an instant or at once makes no difference.
LEMMA AdvancingInTwo ==
    ASSUME NEW r, Timed(r), Numbers(r), r.height > 0,
           NEW via \in Nat, NEW at \in Nat, r.cursor < via, via < at
    PROVE  Advanced(Advanced(r, via), at) = Advanced(r, at)
<1> DEFINE b == Advanced(r, via)
           c == Advanced(b, at)
           a == Advanced(r, at)
           first == via - r.cursor
           rest == at - via
<1>1. /\ RainStep \in Nat \ {0} /\ r.height \in Nat \ {0} /\ r.cursor \in Nat
      /\ r.remainder \in Nat /\ first \in Nat /\ rest \in Nat
      /\ Shaped(r) /\ Items(r.items) /\ Phases(r.items)
  <2>1. Shaped(r) /\ Items(r.items) /\ r.cursor \in Nat BY DEF Timed
  <2>2. r.height \in Nat \ {0} /\ Phases(r.items) BY DEF Numbers
  <2>3. RainStep \in Nat \ {0} /\ r.remainder \in Nat BY RainAssumption DEF Numbers
  <2>4. first \in Nat /\ rest \in Nat BY <2>1
  <2> QED BY <2>1, <2>2, <2>3, <2>4
<1>2. at > r.cursor /\ at - r.cursor = first + rest BY <1>1
<1>3. /\ Shaped(b) /\ Outer(b) = Outer(r) /\ b.needsRebase = r.needsRebase
      /\ b.cursor = via /\ Items(b.items)
      /\ DOMAIN b.items = {k \in DOMAIN r.items : Admits(r.window, r.items[k].age + first)}
      /\ \A k \in DOMAIN b.items : b.items[k].age = r.items[k].age + first
  BY <1>1, AdvancingMoves
<1>4. /\ b.remainder = (first + r.remainder) % RainStep
      /\ \A k \in DOMAIN b.items :
             b.items[k].phase = Turned(r.items[k].phase, first, r.remainder, r.height)
  BY <1>1, AdvancingTurns
<1> HIDE DEF b
<1>5. /\ b.height = r.height /\ b.window = r.window /\ b.started = r.started
      /\ b.paused = r.paused
  BY <1>3 DEF Outer
<1>6. Timed(b) BY <1>1, <1>3, <1>5 DEF Timed
<1>7. /\ Shaped(c) /\ Outer(c) = Outer(b) /\ c.needsRebase = b.needsRebase
      /\ c.cursor = at /\ Items(c.items)
      /\ DOMAIN c.items = {k \in DOMAIN b.items : Admits(b.window, b.items[k].age + rest)}
      /\ \A k \in DOMAIN c.items : c.items[k].age = b.items[k].age + rest
  BY <1>3, <1>6, AdvancingMoves
<1>8. /\ c.remainder = (rest + b.remainder) % RainStep
      /\ \A k \in DOMAIN c.items :
             c.items[k].phase = Turned(b.items[k].phase, rest, b.remainder, r.height)
  BY <1>1, <1>3, <1>5, <1>6, AdvancingTurns
<1> HIDE DEF c
<1>9. /\ Shaped(a) /\ Outer(a) = Outer(r) /\ a.needsRebase = r.needsRebase
      /\ a.cursor = at /\ Items(a.items)
      /\ DOMAIN a.items = {k \in DOMAIN r.items :
                              Admits(r.window, r.items[k].age + (first + rest))}
      /\ \A k \in DOMAIN a.items : a.items[k].age = r.items[k].age + (first + rest)
  BY <1>1, <1>2, AdvancingMoves
<1>10. /\ a.remainder = ((first + rest) + r.remainder) % RainStep
       /\ \A k \in DOMAIN a.items :
              a.items[k].phase = Turned(r.items[k].phase, first + rest, r.remainder, r.height)
  BY <1>1, <1>2, AdvancingTurns
<1> HIDE DEF a, first, rest
\* The two divisions add up.
<1>11. /\ c.remainder = a.remainder
       /\ ((first + r.remainder) \div RainStep) + ((rest + b.remainder) \div RainStep)
              = ((first + rest) + r.remainder) \div RainStep
       /\ (first + r.remainder) \div RainStep \in Nat
       /\ (rest + b.remainder) \div RainStep \in Nat
  <2> DEFINE total == first + r.remainder
  <2>1. total \in Nat /\ (first + rest) + r.remainder = total + rest BY <1>1
  <2> HIDE DEF total
  <2>2. b.remainder = total % RainStep BY <1>4 DEF total
  <2>3. /\ (rest + (total % RainStep)) % RainStep = (total + rest) % RainStep
        /\ (total \div RainStep) + ((rest + (total % RainStep)) \div RainStep)
               = (total + rest) \div RainStep
    BY <1>1, <2>1, RestAdded
  <2>4. total % RainStep \in Nat /\ total \div RainStep \in Nat
    <3>1. total % RainStep \in 0 .. RainStep - 1 /\ total \div RainStep \in Nat
      BY <1>1, <2>1, Division
    <3> QED BY <1>1, <3>1
  <2>5. rest + b.remainder \in Nat BY <1>1, <2>2, <2>4
  <2>6. (rest + b.remainder) \div RainStep \in Nat BY <1>1, <2>5, Division
  <2> QED BY <1>8, <1>10, <2>1, <2>2, <2>3, <2>4, <2>6 DEF total
\* What is too old by way of the instant is too old at once.
<1>12. DOMAIN c.items = DOMAIN a.items
  <2>1. r.window = Available \/ Windows[r.window] \in Nat
    <3>1. r.window \in 1 .. Len(Windows) + 1 BY DEF Numbers, Available
    <3>2. Windows \in Seq(Nat) /\ Len(Windows) \in Nat BY RainAssumption
    <3>3. r.window = Len(Windows) + 1 \/ r.window \in 1 .. Len(Windows) BY <3>1, <3>2
    <3> QED BY <3>2, <3>3 DEF Available
  <2>2. ASSUME NEW k \in DOMAIN r.items
        PROVE  /\ Admits(r.window, r.items[k].age + (first + rest)) =>
                      Admits(r.window, r.items[k].age + first)
               /\ (r.items[k].age + first) + rest = r.items[k].age + (first + rest)
    <3>1. r.items[k].age \in Nat BY <1>1 DEF Items
    <3> QED BY <1>1, <2>1, <3>1 DEF Admits
  <2> QED BY <1>3, <1>5, <1>7, <1>9, <2>2
\* What is left has the same age and phase.
<1>13. ASSUME NEW k \in DOMAIN c.items PROVE c.items[k] = a.items[k]
  <2>1. k \in DOMAIN b.items /\ k \in DOMAIN r.items /\ k \in DOMAIN a.items
    BY <1>3, <1>7, <1>12, <1>13
  <2>2. c.items[k].age = a.items[k].age
    <3>1. r.items[k].age \in Nat BY <1>1, <2>1 DEF Items
    <3> QED BY <1>1, <1>3, <1>7, <1>9, <1>13, <2>1, <3>1
  <2>3. c.items[k].phase = a.items[k].phase
    <3> DEFINE p == r.items[k].phase
               s == (first + r.remainder) \div RainStep
               t == (rest + b.remainder) \div RainStep
    <3>1. p \in Nat /\ s \in Nat /\ t \in Nat BY <1>1, <1>11, <2>1 DEF Phases
    <3>2. b.items[k].phase = (p + s) % r.height BY <1>4, <2>1 DEF Turned
    <3>3. c.items[k].phase = (b.items[k].phase + t) % r.height BY <1>8, <2>1 DEF Turned
    <3>4. a.items[k].phase = (p + (s + t)) % r.height BY <1>10, <1>11, <2>1 DEF Turned
    <3> HIDE DEF p, s, t
    <3>5. (((p + s) % r.height) + t) % r.height = (p + (s + t)) % r.height
      BY <1>1, <3>1, TurnedTwice
    <3> QED BY <3>2, <3>3, <3>4, <3>5
  <2>4. /\ c.items[k] \in [age : Nat, phase : {c.items[k].phase}]
        /\ a.items[k] \in [age : Nat, phase : {a.items[k].phase}]
    BY <1>7, <1>9, <2>1 DEF Items
  <2> QED BY <2>2, <2>3, <2>4
<1>14. c.items = a.items BY <1>7, <1>9, <1>12, <1>13 DEF Items
<1>15. c = a BY <1>3, <1>7, <1>9, <1>11, <1>14 DEF Shaped, Outer
<1> QED BY <1>15 DEF a, c, b

-----------------------------------------------------------------------------
(* Pages *)

\* Every place of a selection has a Scope.
LEMMA PlacesTaken ==
    ASSUME NEW S \in SUBSET Nat, IsFiniteSet(S)
    PROVE  /\ Cardinality(S) \in Nat
           /\ \A s \in S : Index(s, S) \in 0 .. Cardinality(S) - 1
           /\ \A i \in 0 .. Cardinality(S) - 1 : \E s \in S : Index(s, S) = i
<1> DEFINE R == {pair \in S \X S : pair[1] < pair[2]}
<1>1. \A a, b \in S : <<a, b>> \in R <=> a < b OBVIOUS
<1> HIDE DEF R
<1>2. Orders(R, S) BY <1>1 DEF Orders
<1>3. ASSUME NEW s \in S PROVE Rank(R, S, s) = Index(s, S)
  <2>1. {l \in S : <<l, s>> \in R} = {l \in S : l < s} BY <1>1
  <2> QED BY <2>1 DEF Rank, Index
<1>4. /\ Cardinality(S) \in Nat
      /\ \A k \in S : Rank(R, S, k) \in 0 .. Cardinality(S) - 1
      /\ \A i \in 0 .. Cardinality(S) - 1 : \E k \in S : Rank(R, S, k) = i
  BY <1>2, RanksTaken
<1> QED BY <1>3, <1>4

\* A page has at least one Scope and at most all of them.
LEMMA PagesHold ==
    ASSUME NEW w \in Nat, NEW n \in Nat \ {0}
    PROVE  PerPage(w, n) \in 1 .. n
<1>1. Stride \in Nat \ {0} BY RainAssumption
<1>2. (w + 1) \div Stride \in Nat
  <2>1. w + 1 \in Nat OBVIOUS
  <2> QED BY <1>1, <2>1, Division
<1> QED BY <1>2 DEF PerPage, Smaller, Larger

\* The first place of a page is a multiple of the page.
LEMMA Multiple ==
    ASSUME NEW n \in Nat \ {0}, NEW q \in Nat
    PROVE  q * n \in Nat /\ (q * n) % n = 0 /\ (q * n) \div n = q
<1>1. q * n \in Nat /\ q * n = n * q OBVIOUS
<1>2. PICK p \in Nat, m \in 0 .. n - 1 :
          p = (q * n) \div n /\ m = (q * n) % n /\ q * n = n * p + m
  BY <1>1, Division
<1>3. n * q + 0 = n * p + m BY <1>1, <1>2
<1>4. q = p /\ 0 = m
  <2>1. 0 \in 0 .. n - 1 /\ q \in Int /\ p \in Int OBVIOUS
  <2> QED BY <1>3, <2>1, OneDivision
<1> QED BY <1>1, <1>2, <1>4

LEMMA StartsPage ==
    ASSUME NEW pp \in Nat \ {0}, NEW i \in Nat
    PROVE  /\ PageStart(i, pp) \in Nat /\ PageStart(i, pp) % pp = 0
           /\ PageStart(i, pp) <= i /\ i < PageStart(i, pp) + pp
<1>1. PICK q \in Nat, m \in 0 .. pp - 1 : q = i \div pp /\ i = pp * q + m BY Division
<1>2. q * pp \in Nat /\ (q * pp) % pp = 0 /\ q * pp = pp * q BY Multiple
<1>3. PageStart(i, pp) = q * pp BY <1>1 DEF PageStart
<1> QED BY <1>1, <1>2, <1>3

\* A step to another page ends at the first place of one.
LEMMA StepsToPage ==
    ASSUME NEW n \in Nat \ {0}, NEW pp \in 1 .. n, NEW start \in Nat, NEW step \in {-1, 1}
    PROVE  /\ StepPage(start, n, pp, step) \in 0 .. n - 1
           /\ StepPage(start, n, pp, step) % pp = 0
<1> DEFINE pages == PageCount(n, pp)
<1>1. pp \in Nat \ {0} OBVIOUS
<1>2. CASE pages <= 1
  <2>1. StepPage(start, n, pp, step) = 0 BY <1>2 DEF StepPage
  <2>2. 0 % pp = 0
    <3>1. 0 * pp = 0 BY <1>1
    <3> QED BY <1>1, <3>1, Multiple
  <2> QED BY <2>1, <2>2
<1>3. CASE ~(pages <= 1)
  <2>1. pages = (n + pp - 1) \div pp BY <1>1 DEF PageCount
  <2>2. n + pp - 1 \in Nat BY <1>1
  <2>3. PICK m \in 0 .. pp - 1 : pages \in Nat /\ n + pp - 1 = pp * pages + m
    <3> DEFINE t == n + pp - 1
    <3>1. t \in Nat /\ pages = t \div pp BY <2>1, <2>2
    <3> HIDE DEF t, pages
    <3>2. t \div pp \in Nat /\ t % pp \in 0 .. pp - 1 /\ t = pp * (t \div pp) + (t % pp)
      BY <1>1, <3>1, Division
    <3>3. t = pp * pages + (t % pp) BY <3>1, <3>2
    <3> QED BY <3>1, <3>2, <3>3 DEF t
  <2>4. start \div pp \in Nat BY <1>1, Division
  <2> HIDE DEF pages
  <2>5. pages \in Nat \ {0} /\ pages > 1 BY <1>3, <2>3
  <2>6. (start \div pp) + step + pages \in Nat BY <2>4, <2>5
  <2> DEFINE j == ((start \div pp) + step + pages) % pages
  <2>7. j \in 0 .. pages - 1 BY <2>5, <2>6, Division
  <2>8. StepPage(start, n, pp, step) = j * pp
    BY <1>3, <2>5 DEF StepPage, pages
  <2> HIDE DEF j
  <2>9. j * pp \in Nat /\ (j * pp) % pp = 0 BY <1>1, <2>7, Multiple
  <2>10. j * pp <= n - 1
    <3>1. PICK d \in Nat : pages = (j + 1) + d
      <4>1. pages - (j + 1) \in Nat /\ pages = (j + 1) + (pages - (j + 1)) BY <2>5, <2>7
      <4> QED BY <4>1
    <3>2. pp * pages = (j * pp) + pp + (pp * d) /\ pp * d \in Nat BY <1>1, <2>7, <3>1
    <3>3. pp * pages <= n + pp - 1 BY <2>2, <2>3
    <3> QED BY <1>1, <2>9, <3>2, <3>3
  <2> QED BY <2>8, <2>9, <2>10
<1> QED BY <1>2, <1>3

\* The page is one of the fixed pages, and its first Scope is the anchor.
OnPage(r) ==
    /\ r.start \in 0 .. Cardinality(r.scopes) - 1
    /\ r.start % PerPage(r.width, Cardinality(r.scopes)) = 0
    /\ r.anchor = ScopeAt(r.start, r.scopes)
Page(r) ==
    /\ r.scopes \in SUBSET Scopes /\ r.width \in Nat /\ r.start \in Nat
    /\ r.anchor \in Scopes \cup {NoScope}
    /\ r.scopes # {} => OnPage(r)
PageOf(r) == <<r.scopes, r.width, r.anchor, r.start>>

\* A selection that is not empty, and its places.
LEMMA Selection ==
    ASSUME NEW S \in SUBSET Scopes, S # {}
    PROVE  /\ S \in SUBSET Nat /\ IsFiniteSet(S) /\ Cardinality(S) \in Nat \ {0}
           /\ \A s \in S : Index(s, S) \in 0 .. Cardinality(S) - 1
           /\ \A i \in 0 .. Cardinality(S) - 1 :
                  ScopeAt(i, S) \in S /\ Index(ScopeAt(i, S), S) = i
<1>1. S \in SUBSET Nat /\ IsFiniteSet(S) BY PublishedAssumption, FS_Subset
<1>2. Cardinality(S) \in Nat \ {0}
  BY <1>1, FS_CardinalityType, FS_EmptySet
<1>3. /\ \A s \in S : Index(s, S) \in 0 .. Cardinality(S) - 1
      /\ \A i \in 0 .. Cardinality(S) - 1 : \E s \in S : Index(s, S) = i
  BY <1>1, PlacesTaken
<1>4. ASSUME NEW i \in 0 .. Cardinality(S) - 1
      PROVE  ScopeAt(i, S) \in S /\ Index(ScopeAt(i, S), S) = i
  <2>1. \E s \in S : Index(s, S) = i BY <1>3
  <2> QED BY <2>1 DEF ScopeAt
<1> QED BY <1>1, <1>2, <1>3, <1>4

\* To take up a start that is the first place of a page.
LEMMA AnchoringPages ==
    ASSUME NEW r, Shaped(r), r.scopes \in SUBSET Scopes, r.scopes # {}, r.width \in Nat,
           r.start \in 0 .. Cardinality(r.scopes) - 1,
           r.start % PerPage(r.width, Cardinality(r.scopes)) = 0
    PROVE  LET a == AnchoredAtStart(r)
           IN  Page(a) /\ a.scopes = r.scopes /\ a.width = r.width /\ a.start = r.start
<1> DEFINE n == Cardinality(r.scopes)
           a == [r EXCEPT !.start = r.start, !.anchor = ScopeAt(r.start, r.scopes)]
<1>1. n \in Nat \ {0} /\ ScopeAt(r.start, r.scopes) \in r.scopes BY Selection
<1>2. Smaller(r.start, n - 1) = r.start BY <1>1 DEF Smaller
<1>3. AnchoredAtStart(r) = a BY <1>2 DEF AnchoredAtStart
<1>4. /\ a.scopes = r.scopes /\ a.width = r.width /\ a.start = r.start
      /\ a.anchor = ScopeAt(r.start, r.scopes)
  BY DEF Shaped
<1> HIDE DEF a
<1>5. OnPage(a) BY <1>4 DEF OnPage
<1>6. Page(a) BY <1>1, <1>4, <1>5 DEF Page
<1> QED BY <1>3, <1>4, <1>6

\* The Scopes of a page are those whose places follow its start.
LEMMA PageShows ==
    ASSUME NEW r, r.scopes \in SUBSET Scopes, r.scopes # {}, r.width \in Nat,
           r.start \in 0 .. Cardinality(r.scopes) - 1, NEW s \in r.scopes,
           Index(s, r.scopes) >= r.start,
           Index(s, r.scopes) < r.start + PerPage(r.width, Cardinality(r.scopes))
    PROVE  s \in VisibleScopes(r)
<1> DEFINE n == Cardinality(r.scopes)
           pp == PerPage(r.width, n)
<1>1. n \in Nat \ {0} /\ Index(s, r.scopes) \in 0 .. n - 1 BY Selection
<1>2. pp \in 1 .. n BY <1>1, PagesHold
<1>3. Columns(r) = Smaller(pp, n - r.start) BY DEF Columns, PageColumns
<1> HIDE DEF pp, n
<1>4. Index(s, r.scopes) \in r.start .. r.start + Columns(r) - 1
  <2>1. Index(s, r.scopes) < r.start + pp BY DEF pp, n
  <2>2. r.start \in 0 .. n - 1 BY DEF n
  <2> QED BY <1>1, <1>2, <1>3, <2>1, <2>2 DEF Smaller
<1> QED BY <1>4 DEF VisibleScopes

\* A page is taken up around the anchor, if it is selected; a page stays where it is.
LEMMA RepagingPages ==
    ASSUME NEW r, Shaped(r), r.scopes \in SUBSET Scopes, r.width \in Nat, r.start \in Nat
    PROVE  LET a == Repaged(r)
           IN  /\ Page(a) /\ a.scopes = r.scopes /\ a.width = r.width
               /\ r.anchor \in r.scopes => r.anchor \in VisibleScopes(a)
               /\ r.scopes # {} /\ OnPage(r) => a.start = r.start
<1> DEFINE n == Cardinality(r.scopes)
           pp == PerPage(r.width, n)
           index == IF r.anchor = NoScope THEN 0
                    ELSE IF r.anchor \in r.scopes THEN Index(r.anchor, r.scopes)
                    ELSE Smaller(r.start, n - 1)
           start == PageStart(index, pp)
           b == [r EXCEPT !.start = start]
           a == Repaged(r)
<1>1. CASE r.scopes = {}
  <2>1. a = [r EXCEPT !.anchor = NoScope, !.start = 0] BY <1>1 DEF Repaged
  <2> HIDE DEF a
  <2>2. a.scopes = r.scopes /\ a.width = r.width /\ a.start = 0 /\ a.anchor = NoScope
    BY <2>1 DEF Shaped
  <2>3. Page(a) BY <1>1, <2>2 DEF Page
  <2> QED BY <1>1, <2>2, <2>3 DEF a
<1>2. CASE r.scopes # {}
  <2>1. a = AnchoredAtStart(b) BY <1>2 DEF Repaged
  <2>2. /\ n \in Nat \ {0} /\ pp \in 1 .. n
        /\ \A s \in r.scopes : Index(s, r.scopes) \in 0 .. n - 1
    BY <1>2, Selection, PagesHold
  <2>3. index \in 0 .. n - 1 BY <2>2 DEF Smaller
  <2> HIDE DEF index, pp, a
  <2>4. /\ start \in Nat /\ start % pp = 0 /\ start <= index /\ index < start + pp
    <3>1. pp \in Nat \ {0} /\ index \in Nat BY <2>2, <2>3
    <3> QED BY <3>1, StartsPage
  <2> HIDE DEF start
  <2>5. Shaped(b) /\ b.scopes = r.scopes /\ b.width = r.width /\ b.start = start
    BY DEF Shaped
  <2> HIDE DEF b
  <2>6. start \in 0 .. n - 1 BY <2>2, <2>3, <2>4
  <2>7. Page(a) /\ a.scopes = r.scopes /\ a.width = r.width /\ a.start = start
    BY <1>2, <2>1, <2>4, <2>5, <2>6, AnchoringPages DEF pp
  <2>8. r.anchor \in r.scopes => r.anchor \in VisibleScopes(a)
    <3> SUFFICES ASSUME r.anchor \in r.scopes PROVE r.anchor \in VisibleScopes(a) OBVIOUS
    <3>1. r.anchor # NoScope BY PublishedAssumption DEF NoScope
    <3>2. index = Index(r.anchor, r.scopes) BY <3>1 DEF index
    <3> QED BY <1>2, <2>4, <2>6, <2>7, <3>2, PageShows DEF pp
  <2>9. OnPage(r) => start = r.start
    <3> SUFFICES ASSUME OnPage(r) PROVE start = r.start OBVIOUS
    <3>1. r.anchor \in r.scopes /\ Index(r.anchor, r.scopes) = r.start
      BY <1>2, Selection DEF OnPage
    <3>2. r.anchor # NoScope BY <3>1, PublishedAssumption DEF NoScope
    <3>3. index = r.start BY <3>1, <3>2 DEF index
    <3>4. r.start % pp = 0 BY DEF OnPage, pp
    <3>5. PICK q \in Nat : q = index \div pp /\ index = pp * q + 0
      <4>1. pp \in Nat \ {0} /\ index \in Nat BY <2>2, <2>3
      <4> QED BY <3>3, <3>4, <4>1, Division
    <3>6. start = q * pp BY <2>2, <3>5 DEF start, PageStart
    <3>7. q \in Int /\ pp \in Int BY <2>2
    <3>8. q * pp = pp * q + 0 BY <3>7
    <3> QED BY <3>3, <3>5, <3>6, <3>8, Zenon
  <2> QED BY <2>7, <2>8, <2>9 DEF a
<1> QED BY <1>1, <1>2

LEMMA ResizingPages ==
    ASSUME NEW r, Shaped(r), r.scopes \in SUBSET Scopes, r.start \in Nat,
           NEW w \in Int, NEW h
    PROVE  LET a == Resized(r, w, h)
           IN  /\ Page(a) /\ a.scopes = r.scopes /\ a.width = Larger(w, 0)
               /\ r.anchor \in r.scopes => r.anchor \in VisibleScopes(a)
               /\ r.width = Larger(w, 0) /\ r.scopes # {} /\ OnPage(r) => a.start = r.start
<1> DEFINE b == [r EXCEPT !.width = Larger(w, 0), !.height = Larger(h, 0)]
           a == Resized(r, w, h)
<1>1. a = Repaged(b) BY DEF Resized
<1>2. /\ Shaped(b) /\ b.scopes = r.scopes /\ b.width = Larger(w, 0) /\ b.start = r.start
      /\ b.anchor = r.anchor
  BY DEF Shaped
<1>3. b.width \in Nat BY <1>2 DEF Larger
<1> HIDE DEF a, b
<1>4. r.width = Larger(w, 0) /\ OnPage(r) => OnPage(b) BY <1>2 DEF OnPage
<1>5. /\ Page(a) /\ a.scopes = b.scopes /\ a.width = b.width
      /\ b.anchor \in b.scopes => b.anchor \in VisibleScopes(a)
      /\ b.scopes # {} /\ OnPage(b) => a.start = b.start
  BY <1>1, <1>2, <1>3, RepagingPages
<1> QED BY <1>2, <1>4, <1>5 DEF a

LEMMA PagingPages ==
    ASSUME NEW r, Shaped(r), Page(r), NEW step \in {-1, 1}
    PROVE  Page(Paged(r, step)) /\ Paged(r, step).width = r.width
<1> DEFINE n == Cardinality(r.scopes)
           pp == PerPage(r.width, n)
           start == StepPage(r.start, n, pp, step)
           b == [r EXCEPT !.start = start]
           a == Paged(r, step)
<1>1. a = AnchoredAtStart(b) BY DEF Paged
<1>2. Shaped(b) /\ b.scopes = r.scopes /\ b.width = r.width /\ b.start = start
  BY DEF Shaped
<1>3. CASE r.scopes = {}
  <2>1. n = 0 BY <1>3, FS_EmptySet
  <2>2. start = 0 BY <2>1 DEF StepPage, PageCount, PerPage
  <2> HIDE DEF start, b
  <2>3. a = [b EXCEPT !.anchor = NoScope] BY <1>1, <1>2, <1>3 DEF AnchoredAtStart
  <2> HIDE DEF a
  <2>4. a.scopes = r.scopes /\ a.width = r.width /\ a.start = 0 /\ a.anchor = NoScope
    BY <1>2, <2>2, <2>3 DEF Shaped
  <2>5. Page(a) BY <1>3, <2>4 DEF Page
  <2> QED BY <2>4, <2>5 DEF a
<1>4. CASE r.scopes # {}
  <2>1. n \in Nat \ {0} BY <1>4, Selection DEF Page
  <2>2. pp \in 1 .. n BY <2>1, PagesHold DEF Page
  <2>3. start \in 0 .. n - 1 /\ start % pp = 0
    <3>1. r.start \in Nat BY DEF Page
    <3> HIDE DEF pp, n
    <3> QED BY <2>1, <2>2, <3>1, StepsToPage
  <2> HIDE DEF start, b, a
  <2> QED BY <1>1, <1>2, <1>4, <2>3, AnchoringPages DEF Page, a
<1> QED BY <1>3, <1>4

\* Time has no part in pages.
LEMMA TickingPages ==
    ASSUME NEW r, NEW confirmed, Settled(r, confirmed), NEW chain, NEW at \in Nat
    PROVE  PageOf(Ticked(r, chain, at)) = PageOf(r)
<1> DEFINE b == [r EXCEPT !.chain = (r.chain + 1) % Generations]
<1>1. CASE ~r.started \/ chain # r.chain \/ at <= r.cursor BY <1>1 DEF Ticked
<1>2. CASE ~(~r.started \/ chain # r.chain \/ at <= r.cursor)
  <2>1. Ticked(r, chain, at) = Applied(b, at) BY <1>2 DEF Ticked
  <2>2. /\ Shaped(b) /\ b.window = r.window /\ b.items = r.items
        /\ b.cursor = r.cursor /\ b.started = r.started /\ b.paused = r.paused
        /\ b.needsRebase = r.needsRebase /\ PageOf(b) = PageOf(r)
    BY SettledTimed DEF Shaped, PageOf
  <2> HIDE DEF b
  <2>3. Timed(b) BY <2>2, SettledTimed DEF Timed
  <2>4. Outer(Applied(b, at)) = Outer(b) BY <2>3, ApplyingAges
  <2> QED BY <2>1, <2>2, <2>4 DEF PageOf, Outer
<1> QED BY <1>1, <1>2

LEMMA TogglingPages ==
    ASSUME NEW r, NEW confirmed, Settled(r, confirmed)
    PROVE  PageOf(ToggledPause(r)) = PageOf(r)
<1>1. Shaped(r) BY SettledTimed
<1>2. CASE ~r.started BY <1>2 DEF ToggledPause
<1>3. CASE r.started /\ ~r.paused BY <1>1, <1>3 DEF ToggledPause, Shaped, PageOf
<1>4. CASE r.started /\ r.paused
  BY <1>1, <1>4 DEF ToggledPause, Merged, EmptyQueue, Admitted, Shaped, PageOf
<1> QED BY <1>2, <1>3, <1>4

LEMMA ReconcilingPages ==
    ASSUME NEW r, NEW before, Settled(r, before), Page(r), NEW scopes \in SUBSET Scopes,
           NEW confirmed \in SUBSET Representations, NEW reference \in Nat
    PROVE  LET a == Reconciled(r, scopes, confirmed, reference)
           IN  /\ Page(a) /\ a.scopes = scopes /\ a.width = r.width
               /\ r.anchor \in scopes => r.anchor \in VisibleScopes(a)
<1> DEFINE first == ~r.started
           rebasing == r.needsRebase /\ ~r.paused /\ reference > r.cursor
           start == [r EXCEPT !.started = TRUE, !.cursor = reference, !.remainder = 0]
           moved == IF first THEN start ELSE Applied(r, reference)
           b == [moved EXCEPT !.scopes = scopes]
           q == Repaged(b)
           a == Reconciled(r, scopes, confirmed, reference)
<1>1. a = Rebuilt(q, confirmed, first, rebasing, FALSE) BY DEF Reconciled
<1> HIDE DEF a
<1>2. Timed(r) /\ Held(r) /\ Shaped(r) BY SettledTimed
<1>3. Shaped(moved) /\ PageOf(moved) = PageOf(r)
  <2>1. CASE first BY <1>2, <2>1 DEF Shaped, PageOf
  <2>2. CASE ~first BY <1>2, <2>2, ApplyingAges DEF Outer, PageOf
  <2> HIDE DEF moved
  <2> QED BY <2>1, <2>2
<1> HIDE DEF moved
<1>4. /\ Shaped(b) /\ b.scopes = scopes /\ b.width = r.width /\ b.start = r.start
      /\ b.anchor = r.anchor
  BY <1>3 DEF Shaped, PageOf
<1> HIDE DEF b
<1>5. /\ Page(q) /\ q.scopes = scopes /\ q.width = r.width
      /\ r.anchor \in scopes => r.anchor \in VisibleScopes(q)
  BY <1>4, RepagingPages DEF Page
<1>6. PageOf(a) = PageOf(q) /\ VisibleScopes(a) = VisibleScopes(q)
  <2>1. Shaped(q) BY <1>4, RepagingKeeps
  <2> HIDE DEF q, first, rebasing
  <2> DEFINE C == Candidates(q, confirmed, first, rebasing)
  <2>2. PageOf(a) = PageOf(q)
    BY <1>1, <2>1 DEF Rebuilt, Frozen, Queued, Admitted, Shaped, PageOf
  <2> QED BY <2>2 DEF PageOf, VisibleScopes, Columns
<1> QED BY <1>5, <1>6 DEF PageOf, Page, OnPage, a

LEMMA WindowingPages ==
    ASSUME NEW r, NEW before, Settled(r, before), Page(r), NEW scopes \in SUBSET Scopes,
           NEW confirmed, NEW step
    PROVE  LET a == Windowed(r, step, scopes, confirmed)
           IN  Page(a) /\ a.width = r.width
<1> DEFINE stepped == SteppedWindow(r.window, step)
           shifted == [r EXCEPT !.window = stepped]
           b == [shifted EXCEPT !.scopes = scopes]
           q == Repaged(b)
           a == Windowed(r, step, scopes, confirmed)
<1>1. a = IF stepped = r.window \/ ~r.started THEN shifted
          ELSE Rebuilt(q, confirmed, FALSE, r.paused, TRUE)
  BY DEF Windowed
<1>2. Shaped(r) BY SettledTimed
<1>3. PageOf(shifted) = PageOf(r) BY <1>2 DEF Shaped, PageOf
<1>4. /\ Shaped(b) /\ b.scopes = scopes /\ b.width = r.width /\ b.start = r.start
  BY <1>2 DEF Shaped
<1> HIDE DEF a, b
<1>5. Page(q) /\ Shaped(q) /\ q.width = r.width
  BY <1>4, RepagingPages, RepagingKeeps DEF Page
<1>6. PageOf(Rebuilt(q, confirmed, FALSE, r.paused, TRUE)) = PageOf(q)
  <2> HIDE DEF q
  <2> QED BY <1>5 DEF Rebuilt, Restored, Frozen, Queued, Admitted, Shaped, PageOf
<1> HIDE DEF q, shifted, stepped
<1>7. PageOf(a) = PageOf(r) \/ PageOf(a) = PageOf(q) BY <1>1, <1>3, <1>6
<1> QED BY <1>5, <1>7 DEF PageOf, Page, OnPage, a

-----------------------------------------------------------------------------
(* The strip: queues *)

\* What the strip selects from: every Scope is listed once, and what is confirmed
\* belongs to one of them.
Sources(s) ==
    /\ s.scopes \in Seq(Scopes)
    /\ \A i, j \in DOMAIN s.scopes : s.scopes[i] = s.scopes[j] => i = j
    /\ s.confirmed \in SUBSET Representations
    /\ \A k \in s.confirmed : \E i \in DOMAIN s.scopes : s.scopes[i] = k[2]
    /\ s.reference \in Nat /\ s.start \in Nat

QueueOf(s, j) == Queue(s, s.scopes[j])
Own(s, j) == {e \in EligibleEvents(s) : <<e, s.scopes[j]>> \in s.confirmed}

\* A sequence lists a set of events once each, the newest first.
Lists(q, K) ==
    /\ IsFiniteSet(K) /\ Len(q) \in Nat /\ DOMAIN q = 1 .. Len(q)
    /\ \A i \in DOMAIN q : q[i] \in K
    /\ \A e \in K : \E i \in DOMAIN q : q[i] = e
    /\ \A i, l \in DOMAIN q : q[i] = q[l] => i = l
    /\ \A i, l \in DOMAIN q : i < l <=> NewerEvent(q[i], q[l])

LEMMA EventsOrdered ==
    ASSUME NEW K \in SUBSET Events
    PROVE  /\ IsFiniteSet(K)
           /\ Orders({pair \in K \X K : NewerEvent(pair[1], pair[2])}, K)
<1> DEFINE R == {pair \in K \X K : NewerEvent(pair[1], pair[2])}
<1>1. IsFiniteSet(K) /\ \A e \in K : e \in Nat /\ OccurredAt[e] \in Nat
  BY PublishedAssumption, FS_Subset
<1>2. \A a, b \in K : <<a, b>> \in R <=> NewerEvent(a, b) OBVIOUS
<1> HIDE DEF R
<1>3. \A a \in K : ~NewerEvent(a, a) BY <1>1 DEF NewerEvent
<1>4. \A a, b, c \in K : NewerEvent(a, b) /\ NewerEvent(b, c) => NewerEvent(a, c)
  BY <1>1 DEF NewerEvent
<1>5. ASSUME NEW a \in K, NEW b \in K
      PROVE  a = b \/ NewerEvent(a, b) \/ NewerEvent(b, a)
  <2>1. {a, b, OccurredAt[a], OccurredAt[b]} \subseteq Nat BY <1>1
  <2> QED BY <2>1 DEF NewerEvent
<1>6. Orders(R, K) BY <1>2, <1>3, <1>4, <1>5 DEF Orders
<1> QED BY <1>1, <1>6 DEF R

LEMMA EventsListed ==
    ASSUME NEW K \in SUBSET Events
    PROVE  Lists(InOrder({pair \in K \X K : NewerEvent(pair[1], pair[2])}, K), K)
<1> DEFINE R == {pair \in K \X K : NewerEvent(pair[1], pair[2])}
           q == InOrder(R, K)
<1>1. IsFiniteSet(K) /\ Orders(R, K) BY EventsOrdered
<1>2. \A a, b \in K : <<a, b>> \in R <=> NewerEvent(a, b) OBVIOUS
<1> HIDE DEF R
<1>3. /\ Len(q) = Cardinality(K) /\ Cardinality(K) \in Nat /\ DOMAIN q = 1 .. Cardinality(K)
      /\ \A i \in DOMAIN q : q[i] \in K
      /\ \A k \in K : \E i \in DOMAIN q : q[i] = k
      /\ \A i, j \in DOMAIN q : i < j <=> <<q[i], q[j]>> \in R
      /\ \A i, j \in DOMAIN q : q[i] = q[j] => i = j
  BY <1>1, InOrderLists
<1> HIDE DEF q
<1>4. Lists(q, K) BY <1>1, <1>2, <1>3 DEF Lists
<1> QED BY <1>4 DEF q, R

LEMMA QueueLists ==
    ASSUME NEW s, Sources(s), NEW j \in DOMAIN s.scopes
    PROVE  Lists(QueueOf(s, j), Own(s, j))
<1>1. Own(s, j) \in SUBSET Events
  BY DEF Own, EligibleEvents, Sources, Representations
<1>2. QueueOf(s, j)
          = InOrder({pair \in Own(s, j) \X Own(s, j) : NewerEvent(pair[1], pair[2])}, Own(s, j))
  BY DEF QueueOf, Queue, Own
<1> QED BY <1>1, <1>2, EventsListed

\* Every event that is young enough is in the queue of a Scope.
LEMMA QueuesCover ==
    ASSUME NEW s, Sources(s)
    PROVE  /\ EligibleEvents(s) \in SUBSET Events
           /\ \A e \in EligibleEvents(s) : \E j \in DOMAIN s.scopes : e \in Own(s, j)
<1>1. EligibleEvents(s) \in SUBSET Events
  BY DEF EligibleEvents, Sources, Representations
<1>2. ASSUME NEW e \in EligibleEvents(s) PROVE \E j \in DOMAIN s.scopes : e \in Own(s, j)
  <2>1. PICK k \in s.confirmed : e = k[1] BY DEF EligibleEvents
  <2>2. k = <<k[1], k[2]>> BY DEF Sources, Representations
  <2>3. PICK j \in DOMAIN s.scopes : s.scopes[j] = k[2] BY DEF Sources
  <2> QED BY <2>1, <2>2, <2>3 DEF Own
<1> QED BY <1>1, <1>2

-----------------------------------------------------------------------------
(* The strip: one turn *)

\* How many turns ago a Scope had its turn, of those that go around before the next.
Ago(n, turn, j) == IF j <= turn THEN turn - j + 1 ELSE turn - j + 1 + n

Entry == [event : Events, sponsor : Scopes]
Runs(n) == [turn : 0 .. n - 1, idle : 0 .. n, cursors : [1 .. n -> Nat],
            entries : Seq(Entry), filled : NoAnchor .. n - 1]

\* The entries are events of the queues, once each, and no more than are stored.
EntriesHold(s, entries) ==
    /\ Len(entries) <= StripStored
    /\ \A a, b \in DOMAIN entries : entries[a].event = entries[b].event => a = b
    /\ \A a \in DOMAIN entries : /\ entries[a].event \in EligibleEvents(s)
                                 /\ <<entries[a].event, entries[a].sponsor>> \in s.confirmed

\* What has been examined of a Scope is in the strip, and all of it has been if the
\* Scope was idle.
Sponsored(s, r, j) == {a \in DOMAIN r.entries : r.entries[a].sponsor = s.scopes[j]}
Examined(s, r, j) ==
    /\ r.cursors[j] <= Len(QueueOf(s, j))
    /\ \A i \in 1 .. r.cursors[j] : QueueOf(s, j)[i] \in StripOf(r.entries)
    /\ Ago(Len(s.scopes), r.turn, j) <= r.idle => r.cursors[j] = Len(QueueOf(s, j))
    /\ Cardinality(Sponsored(s, r, j)) <= r.cursors[j]

\* No Scope is more than a turn behind another while it has candidates.
InTurn(s, r, j, k) ==
    r.cursors[k] < Len(QueueOf(s, k)) =>
        r.cursors[j] <= r.cursors[k] + (IF Ago(Len(s.scopes), r.turn, j)
                                               < Ago(Len(s.scopes), r.turn, k)
                                        THEN 1 ELSE 0)

RunOk(s, r) ==
    /\ r \in Runs(Len(s.scopes)) /\ EntriesHold(s, r.entries)
    /\ \A j \in 1 .. Len(s.scopes) : Examined(s, r, j)
    /\ \A j, k \in 1 .. Len(s.scopes) : InTurn(s, r, j, k)

Stopped(s, r) == Len(r.entries) = StripStored \/ r.idle >= Len(s.scopes)
Advances(s, r, t) ==
    LET m == r.turn + 1
    IN  /\ t.turn = IF m = Len(s.scopes) THEN 0 ELSE m
        /\ t.idle = 0 /\ t.cursors = [r.cursors EXCEPT ![m] = r.cursors[m] + 1]
        /\ r.cursors[m] < Len(QueueOf(s, m))
Idles(s, r, t) ==
    LET m == r.turn + 1
    IN  /\ t.turn = IF m = Len(s.scopes) THEN 0 ELSE m
        /\ t.idle = r.idle + 1 /\ t.cursors = r.cursors
        /\ t.entries = r.entries /\ t.filled = r.filled
        /\ r.cursors[m] = Len(QueueOf(s, m))
\* The candidate whose turn it is, and what becomes of it.
Next1(s, r) == QueueOf(s, r.turn + 1)[r.cursors[r.turn + 1] + 1]
Examines(s, r, t) ==
    /\ Advances(s, r, t)
    /\ \/ /\ Next1(s, r) \in StripOf(r.entries)
          /\ t.entries = r.entries /\ t.filled = r.filled
       \/ /\ Next1(s, r) \notin StripOf(r.entries)
          /\ t.entries = Append(r.entries, [event |-> Next1(s, r),
                                            sponsor |-> s.scopes[r.turn + 1]])
          /\ t.filled = IF Len(r.entries) + 1 = StripStored THEN r.turn ELSE NoAnchor

\* A turn ends the selection, finds its Scope idle, or examines a candidate.
LEMMA TurnMoves ==
    ASSUME NEW s, Sources(s), NEW r, RunOk(s, r), s.scopes # <<>>
    PROVE  LET t == Turn(s, r)
               n == Len(s.scopes)
           IN  /\ t \in Runs(n)
               /\ \/ Stopped(s, r) /\ t = r
                  \/ ~Stopped(s, r) /\ Idles(s, r, t)
                  \/ ~Stopped(s, r) /\ Examines(s, r, t)
<1> DEFINE t == Turn(s, r)
           n == Len(s.scopes)
           m == r.turn + 1
           q == QueueOf(s, m)
           seen == r.cursors[m]
           next == IF m = n THEN 0 ELSE m
           entry == [event |-> q[seen + 1], sponsor |-> s.scopes[m]]
           taken == q[seen + 1] \in StripOf(r.entries)
           filled == IF Len(r.entries) + 1 = StripStored THEN r.turn ELSE NoAnchor
           past(entries, f) ==
               [turn |-> next, idle |-> 0, cursors |-> [r.cursors EXCEPT ![m] = seen + 1],
                entries |-> entries, filled |-> f]
<1>1. /\ n \in Nat \ {0} /\ DOMAIN s.scopes = 1 .. n /\ s.scopes \in [1 .. n -> Scopes]
      /\ r \in Runs(n) /\ m \in 1 .. n /\ seen \in Nat
  BY DEF Sources, RunOk, Runs
<1>2. (r.turn + 1) % n = next
  <2>1. m % n = next
    <3>1. m < n => m % n = m BY <1>1
    <3>2. m = n => m % n = 0 BY <1>1
    <3> QED BY <1>1, <3>1, <3>2
  <2> QED BY <2>1
<1>3. Lists(q, Own(s, m)) /\ seen <= Len(q)
  BY <1>1, QueueLists DEF RunOk, Examined
<1>4. (\E i \in DOMAIN r.entries : r.entries[i].event = q[seen + 1]) <=> taken
  BY DEF StripOf
<1>5. t = IF Stopped(s, r) THEN r
          ELSE IF seen >= Len(q) THEN [r EXCEPT !.idle = r.idle + 1, !.turn = next]
          ELSE IF taken THEN past(r.entries, r.filled)
          ELSE past(Append(r.entries, entry), filled)
  BY <1>2, <1>4 DEF Turn, QueueOf, PassesTurn, ResetIdle, Stopped
<1>6. next \in 0 .. n - 1 BY <1>1
<1>7. [r.cursors EXCEPT ![m] = seen + 1] \in [1 .. n -> Nat] BY <1>1 DEF Runs
<1> HIDE DEF next, seen, q, taken
<1>8. CASE Stopped(s, r)
  <2>1. t = r BY <1>5, <1>8
  <2> QED BY <1>1, <1>8, <2>1
<1>9. CASE ~Stopped(s, r) /\ seen >= Len(q)
  <2>1. t = [r EXCEPT !.idle = r.idle + 1, !.turn = next] BY <1>5, <1>9
  <2>2. r.idle \in 0 .. n /\ r.idle < n BY <1>1, <1>9 DEF Stopped, Runs
  <2>3. t \in Runs(n)
    <3>1. r.idle + 1 \in 0 .. n BY <1>1, <2>2
    <3> HIDE DEF t
    <3> QED BY <1>1, <1>6, <2>1, <3>1 DEF Runs
  <2>4. /\ t.turn = next /\ t.idle = r.idle + 1 /\ t.cursors = r.cursors
        /\ t.entries = r.entries /\ t.filled = r.filled
    BY <1>1, <2>1 DEF Runs
  <2>5. seen = Len(q)
    <3>1. Len(q) \in Nat BY <1>3 DEF Lists
    <3> QED BY <1>1, <1>3, <1>9, <3>1
  <2> QED BY <1>9, <2>3, <2>4, <2>5 DEF Idles, next, seen, q
<1>10. CASE ~Stopped(s, r) /\ ~(seen >= Len(q))
  <2>1. seen + 1 \in DOMAIN q /\ seen < Len(q) BY <1>1, <1>3, <1>10 DEF Lists
  <2>2. q[seen + 1] \in Events
    <3>1. q[seen + 1] \in Own(s, m) BY <1>3, <2>1 DEF Lists
    <3> QED BY <3>1, QueuesCover DEF Own
  <2>3. entry \in Entry /\ filled \in NoAnchor .. n - 1
    BY <1>1, <2>2 DEF Entry, Runs, NoAnchor
  <2>4. r.entries \in Seq(Entry) /\ r.filled \in NoAnchor .. n - 1 BY <1>1 DEF Runs
  <2> HIDE DEF entry, filled
  <2>5. Append(r.entries, entry) \in Seq(Entry) BY <2>3, <2>4
  <2>6. CASE taken
    <3>1. t = past(r.entries, r.filled) BY <1>5, <1>10, <2>6
    <3>2. t \in Runs(n) BY <1>1, <1>6, <1>7, <2>4, <3>1 DEF Runs
    <3>3. Advances(s, r, t) /\ t.entries = r.entries /\ t.filled = r.filled
      BY <2>1, <3>1 DEF Advances, next, seen, q
    <3> QED BY <1>10, <2>6, <3>2, <3>3 DEF Examines, taken, Next1, seen, q
  <2>7. CASE ~taken
    <3>1. t = past(Append(r.entries, entry), filled) BY <1>5, <1>10, <2>7
    <3>2. t \in Runs(n) BY <1>1, <1>6, <1>7, <2>3, <2>5, <3>1 DEF Runs
    <3>3. Advances(s, r, t) /\ t.entries = Append(r.entries, entry) /\ t.filled = filled
      BY <2>1, <3>1 DEF Advances, next, seen, q
    <3> QED BY <1>10, <2>7, <3>2, <3>3 DEF Examines, taken, Next1, seen, q, entry, filled
  <2> QED BY <2>6, <2>7
<1> QED BY <1>8, <1>9, <1>10

\* Where the turns of the Scopes are after one more.
Passed(n, m, before, after) ==
    \A j \in 1 .. n : /\ Ago(n, before, j) \in 1 .. n /\ Ago(n, before, m) = n
                      /\ Ago(n, after, j) = IF j = m THEN 1 ELSE Ago(n, before, j) + 1
                      /\ j # m => Ago(n, before, j) < n
LEMMA TurnsPass ==
    ASSUME NEW n \in Nat \ {0}, NEW turn \in 0 .. n - 1
    PROVE  Passed(n, turn + 1, turn, IF turn + 1 = n THEN 0 ELSE turn + 1)
BY DEF Ago, Passed

\* A turn keeps its promises when the Scope is idle.
LEMMA IdleTurn ==
    ASSUME NEW s, Sources(s), s.scopes # <<>>, NEW r, RunOk(s, r), ~Stopped(s, r),
           NEW t \in Runs(Len(s.scopes)), Idles(s, r, t)
    PROVE  RunOk(s, t)
<1> DEFINE n == Len(s.scopes)
           m == r.turn + 1
<1>1. /\ n \in Nat \ {0} /\ r.turn \in 0 .. n - 1 /\ m \in 1 .. n /\ r.idle \in 0 .. n
      /\ r.cursors \in [1 .. n -> Nat]
  BY DEF Sources, RunOk, Runs
<1>2. /\ t.turn = (IF m = n THEN 0 ELSE m) /\ t.idle = r.idle + 1 /\ t.cursors = r.cursors
      /\ t.entries = r.entries /\ r.cursors[m] = Len(QueueOf(s, m))
  BY DEF Idles
<1>p. Passed(n, m, r.turn, t.turn) BY <1>1, <1>2, TurnsPass
<1> HIDE DEF m
<1>3. EntriesHold(s, t.entries) BY <1>2 DEF RunOk
<1>4. ASSUME NEW j \in 1 .. n PROVE Examined(s, t, j)
  <2>1. Examined(s, r, j) BY DEF RunOk
  <2>2. Sponsored(s, t, j) = Sponsored(s, r, j) BY <1>2 DEF Sponsored
  <2>3. Ago(n, t.turn, j) <= t.idle => j = m \/ Ago(n, r.turn, j) <= r.idle
    <3>1. Ago(n, r.turn, j) \in 1 .. n
          /\ Ago(n, t.turn, j) = (IF j = m THEN 1 ELSE Ago(n, r.turn, j) + 1)
      BY <1>p DEF Passed
    <3> QED BY <1>1, <1>2, <3>1
  <2> QED BY <1>2, <2>1, <2>2, <2>3 DEF Examined
<1>5. ASSUME NEW j \in 1 .. n, NEW k \in 1 .. n PROVE InTurn(s, t, j, k)
  <2>1. InTurn(s, r, j, k) BY DEF RunOk
  <2>2. SUFFICES ASSUME r.cursors[k] < Len(QueueOf(s, k))
                 PROVE  r.cursors[j] <= r.cursors[k] + (IF Ago(n, t.turn, j) < Ago(n, t.turn, k)
                                                         THEN 1 ELSE 0)
    BY <1>2 DEF InTurn
  <2>3. r.cursors[j] <= r.cursors[k] + (IF Ago(n, r.turn, j) < Ago(n, r.turn, k) THEN 1 ELSE 0)
    BY <2>1, <2>2 DEF InTurn
  <2>4. k # m
    <3>1. m \in DOMAIN s.scopes
      <4>1. s.scopes \in Seq(Scopes) BY DEF Sources
      <4> QED BY <1>1, <4>1
    <3>2. Lists(QueueOf(s, m), Own(s, m)) BY <3>1, QueueLists
    <3> QED BY <1>1, <1>2, <2>2, <3>2 DEF Lists
  <2>5. r.cursors[j] \in Nat /\ r.cursors[k] \in Nat BY <1>1
  <2>6. /\ Ago(n, r.turn, j) \in 1 .. n /\ Ago(n, r.turn, k) \in 1 .. n
        /\ Ago(n, t.turn, j) = (IF j = m THEN 1 ELSE Ago(n, r.turn, j) + 1)
        /\ Ago(n, t.turn, k) = Ago(n, r.turn, k) + 1 /\ Ago(n, r.turn, m) = n
    BY <1>1, <1>2, <1>p, <2>4 DEF Passed
  <2> QED BY <2>3, <2>5, <2>6
<1> QED BY <1>3, <1>4, <1>5 DEF RunOk

\* One more entry at the end.
LEMMA EntryAppended ==
    ASSUME NEW entries \in Seq(Entry), NEW x \in Entry
    PROVE  LET w == Append(entries, x)
               l == Len(entries)
           IN  /\ l \in Nat /\ DOMAIN entries = 1 .. l /\ w \in Seq(Entry)
               /\ Len(w) = l + 1 /\ DOMAIN w = 1 .. l + 1 /\ w[l + 1] = x
               /\ \A a \in 1 .. l : w[a] = entries[a]
               /\ StripOf(w) = StripOf(entries) \cup {x.event}
<1> DEFINE w == Append(entries, x)
           l == Len(entries)
<1>1. /\ l \in Nat /\ DOMAIN entries = 1 .. l /\ w \in Seq(Entry) /\ Len(w) = l + 1
      /\ DOMAIN w = 1 .. l + 1 /\ w[l + 1] = x /\ \A a \in 1 .. l : w[a] = entries[a]
  OBVIOUS
<1> HIDE DEF w, l
<1>2. StripOf(w) = StripOf(entries) \cup {x.event}
  <2>1. \A a \in 1 .. l + 1 : a = l + 1 \/ a \in 1 .. l BY <1>1
  <2>2. l + 1 \in 1 .. l + 1 /\ \A a \in 1 .. l : a \in 1 .. l + 1 BY <1>1
  <2> QED BY <1>1, <2>1, <2>2 DEF StripOf
<1> QED BY <1>1, <1>2 DEF w, l

\* A turn keeps its promises when it examines a candidate.
LEMMA AdvancingTurn ==
    ASSUME NEW s, Sources(s), s.scopes # <<>>, NEW r, RunOk(s, r), ~Stopped(s, r),
           NEW t \in Runs(Len(s.scopes)), Examines(s, r, t)
    PROVE  RunOk(s, t)
<1> DEFINE n == Len(s.scopes)
           m == r.turn + 1
           c == r.cursors[m]
           q == QueueOf(s, m)
           e == q[c + 1]
           entry == [event |-> e, sponsor |-> s.scopes[m]]
           l == Len(r.entries)
<1>1. /\ n \in Nat \ {0} /\ r.turn \in 0 .. n - 1 /\ m \in 1 .. n
      /\ DOMAIN s.scopes = 1 .. n /\ s.scopes \in [1 .. n -> Scopes]
      /\ r.cursors \in [1 .. n -> Nat] /\ r.entries \in Seq(Entry) /\ c \in Nat
  <2>1. s.scopes \in Seq(Scopes) /\ r \in Runs(n) BY DEF Sources, RunOk
  <2>2. n \in Nat \ {0} /\ DOMAIN s.scopes = 1 .. n /\ s.scopes \in [1 .. n -> Scopes]
    BY <2>1
  <2>3. /\ r.turn \in 0 .. n - 1 /\ r.cursors \in [1 .. n -> Nat] /\ r.entries \in Seq(Entry)
    BY <2>1 DEF Runs
  <2>4. m \in 1 .. n BY <2>2, <2>3
  <2> HIDE DEF m, n
  <2> QED BY <2>2, <2>3, <2>4
<1>2. /\ t.turn = (IF m = n THEN 0 ELSE m) /\ t.idle = 0 /\ c < Len(q)
      /\ t.cursors = [r.cursors EXCEPT ![m] = c + 1]
  BY DEF Examines, Advances
<1>3. Passed(n, m, r.turn, t.turn) BY <1>1, <1>2, TurnsPass
<1>4. Lists(q, Own(s, m)) BY <1>1, QueueLists
<1>5. c + 1 \in 1 .. Len(q) /\ Len(q) \in Nat /\ e \in Own(s, m)
  <2>1. c + 1 \in 1 .. Len(q) /\ Len(q) \in Nat BY <1>1, <1>2, <1>4 DEF Lists
  <2> QED BY <1>4, <2>1 DEF Lists
<1>6. entry \in Entry /\ e \in EligibleEvents(s) /\ <<e, s.scopes[m]>> \in s.confirmed
  BY <1>1, <1>5, QueuesCover DEF Entry, Own
<1>7. \/ e \in StripOf(r.entries) /\ t.entries = r.entries
      \/ e \notin StripOf(r.entries) /\ t.entries = Append(r.entries, entry)
  BY DEF Examines, Next1
<1>8. l < StripStored /\ EntriesHold(s, r.entries) /\ l \in Nat /\ StripStored \in Nat
  <2>1. l \in Nat /\ StripStored \in Nat BY <1>1, StripAssumption
  <2>2. EntriesHold(s, r.entries) /\ l <= StripStored /\ l # StripStored
    BY DEF Stopped, RunOk, EntriesHold
  <2> QED BY <2>1, <2>2
<1>9. \A j \in 1 .. n : t.cursors[j] = IF j = m THEN c + 1 ELSE r.cursors[j] BY <1>1, <1>2
<1>10. entry.event = e /\ entry.sponsor = s.scopes[m] OBVIOUS
<1> HIDE DEF m, c, q, e, entry, l
<1>11. StripOf(r.entries) \subseteq StripOf(t.entries) /\ e \in StripOf(t.entries)
  <2>1. CASE t.entries = Append(r.entries, entry)
    <3>1. StripOf(t.entries) = StripOf(r.entries) \cup {entry.event}
      BY <1>1, <1>6, <2>1, EntryAppended
    <3> QED BY <1>10, <3>1
  <2> QED BY <1>7, <2>1
<1>12. EntriesHold(s, t.entries)
  <2>1. CASE t.entries = r.entries BY <1>8, <2>1
  <2>2. CASE e \notin StripOf(r.entries) /\ t.entries = Append(r.entries, entry)
    <3>1. /\ Len(t.entries) = l + 1 /\ DOMAIN t.entries = 1 .. l + 1 /\ DOMAIN r.entries = 1 .. l
          /\ t.entries[l + 1] = entry /\ \A a \in 1 .. l : t.entries[a] = r.entries[a]
      BY <1>1, <1>6, <2>2, EntryAppended DEF l
    <3>2. \A a \in 1 .. l : r.entries[a].event # e BY <2>2, <3>1 DEF StripOf
    <3>3. \A a \in 1 .. l + 1 : a = l + 1 \/ a \in 1 .. l BY <1>8
    <3>4. Len(t.entries) <= StripStored BY <1>8, <3>1
    <3>5. \A a, b \in DOMAIN t.entries : t.entries[a].event = t.entries[b].event => a = b
      <4> SUFFICES ASSUME NEW a \in 1 .. l + 1, NEW b \in 1 .. l + 1,
                          t.entries[a].event = t.entries[b].event
                   PROVE  a = b
        BY <3>1
      <4>1. CASE a \in 1 .. l /\ b \in 1 .. l BY <1>8, <3>1, <4>1 DEF EntriesHold
      <4>2. CASE a = l + 1 /\ b \in 1 .. l BY <1>10, <3>1, <3>2, <4>2
      <4>3. CASE b = l + 1 /\ a \in 1 .. l BY <1>10, <3>1, <3>2, <4>3
      <4> QED BY <3>3, <4>1, <4>2, <4>3
    <3>6. \A a \in DOMAIN t.entries :
              /\ t.entries[a].event \in EligibleEvents(s)
              /\ <<t.entries[a].event, t.entries[a].sponsor>> \in s.confirmed
      BY <1>6, <1>8, <1>10, <3>1, <3>3 DEF EntriesHold
    <3> QED BY <3>4, <3>5, <3>6 DEF EntriesHold
  <2> QED BY <1>7, <2>1, <2>2
<1>13. ASSUME NEW j \in 1 .. n
       PROVE  Cardinality(Sponsored(s, t, j)) <= t.cursors[j]
  <2> DEFINE A == Sponsored(s, r, j)
             B == Sponsored(s, t, j)
  <2>1. Cardinality(A) <= r.cursors[j] /\ r.cursors[j] \in Nat
    BY <1>1 DEF RunOk, Examined
  <2>2. IsFiniteSet(A) /\ Cardinality(A) \in Nat
    <3>1. A \subseteq 1 .. l BY <1>1 DEF Sponsored, l
    <3>2. IsFiniteSet(1 .. l)
      <4>1. 1 \in Int /\ l \in Int BY <1>8
      <4> QED BY <4>1, FS_Interval
    <3> QED BY <3>1, <3>2, FS_Subset, FS_CardinalityType
  <2>3. CASE t.entries = r.entries
    <3>1. B = A BY <2>3 DEF Sponsored
    <3>2. t.cursors[j] = r.cursors[j] \/ t.cursors[j] = r.cursors[j] + 1 BY <1>9 DEF c
    <3> HIDE DEF A, B
    <3>3. Cardinality(B) <= t.cursors[j] BY <2>1, <2>2, <3>1, <3>2
    <3> QED BY <3>3 DEF B
  <2>4. CASE t.entries = Append(r.entries, entry)
    <3>1. /\ DOMAIN t.entries = 1 .. l + 1 /\ DOMAIN r.entries = 1 .. l
          /\ t.entries[l + 1] = entry /\ \A a \in 1 .. l : t.entries[a] = r.entries[a]
      BY <1>1, <1>6, <2>4, EntryAppended DEF l
    <3>2. \A a \in 1 .. l + 1 : a = l + 1 \/ a \in 1 .. l BY <1>8
    <3>3. l + 1 \in 1 .. l + 1 /\ l + 1 \notin 1 .. l /\ \A a \in 1 .. l : a \in 1 .. l + 1
      BY <1>8
    <3>4. CASE j = m
      <4>1. B = A \cup {l + 1} /\ l + 1 \notin A
        BY <1>10, <3>1, <3>2, <3>3, <3>4 DEF Sponsored
      <4>2. Cardinality(A \cup {l + 1}) = Cardinality(A) + 1
        <5> HIDE DEF A, B
        <5> QED BY <2>2, <4>1, FS_AddElement
      <4>3. t.cursors[j] = r.cursors[j] + 1 BY <1>9, <3>4 DEF c
      <4> QED BY <2>1, <2>2, <4>1, <4>2, <4>3
    <3>5. CASE j # m
      <4>1. s.scopes[j] # s.scopes[m] BY <1>1, <3>5 DEF Sources
      <4>2. B = A BY <1>10, <3>1, <3>2, <3>3, <4>1 DEF Sponsored
      <4> QED BY <1>9, <2>1, <3>5, <4>2
    <3> QED BY <3>4, <3>5
  <2> QED BY <1>7, <2>3, <2>4
<1>14. ASSUME NEW j \in 1 .. n PROVE Examined(s, t, j)
  <2>1. Examined(s, r, j) BY DEF RunOk
  <2>2. ~(Ago(n, t.turn, j) <= t.idle)
    <3>1. Ago(n, r.turn, j) \in 1 .. n
          /\ Ago(n, t.turn, j) = (IF j = m THEN 1 ELSE Ago(n, r.turn, j) + 1)
      BY <1>3 DEF Passed
    <3> QED BY <1>1, <1>2, <3>1
  <2>3. CASE j = m
    <3>1. t.cursors[j] = c + 1 BY <1>9, <2>3
    <3>2. \A i \in 1 .. c + 1 : i = c + 1 \/ i \in 1 .. c BY <1>1
    <3>3. \A i \in 1 .. c : q[i] \in StripOf(r.entries) BY <2>1, <2>3 DEF Examined, q, c
    <3>4. \A i \in 1 .. c + 1 : q[i] \in StripOf(t.entries) BY <1>11, <3>2, <3>3 DEF e
    <3> QED BY <1>5, <1>13, <2>2, <2>3, <3>1, <3>4 DEF Examined, q
  <2>4. CASE j # m
    <3>1. t.cursors[j] = r.cursors[j] BY <1>9, <2>4
    <3> QED BY <1>11, <1>13, <2>1, <2>2, <3>1 DEF Examined
  <2> QED BY <2>3, <2>4
<1>15. ASSUME NEW j \in 1 .. n, NEW k \in 1 .. n PROVE InTurn(s, t, j, k)
  <2>1. InTurn(s, r, j, k) BY DEF RunOk
  <2>2. /\ Ago(n, r.turn, j) \in 1 .. n /\ Ago(n, r.turn, k) \in 1 .. n
        /\ Ago(n, t.turn, j) = (IF j = m THEN 1 ELSE Ago(n, r.turn, j) + 1)
        /\ Ago(n, t.turn, k) = (IF k = m THEN 1 ELSE Ago(n, r.turn, k) + 1)
        /\ Ago(n, r.turn, m) = n
        /\ (j # m => Ago(n, r.turn, j) < n) /\ (k # m => Ago(n, r.turn, k) < n)
    BY <1>3 DEF Passed
  <2>3. /\ r.cursors[j] \in Nat /\ r.cursors[k] \in Nat
        /\ t.cursors[j] = (IF j = m THEN r.cursors[j] + 1 ELSE r.cursors[j])
        /\ t.cursors[k] = (IF k = m THEN r.cursors[k] + 1 ELSE r.cursors[k])
    BY <1>1, <1>9 DEF c
  <2>4. SUFFICES ASSUME t.cursors[k] < Len(QueueOf(s, k))
                 PROVE  t.cursors[j] <= t.cursors[k] + (IF Ago(n, t.turn, j) < Ago(n, t.turn, k)
                                                         THEN 1 ELSE 0)
    BY DEF InTurn
  <2>5. Len(QueueOf(s, k)) \in Nat BY <1>1, QueueLists DEF Lists
  <2>6. r.cursors[k] < Len(QueueOf(s, k)) BY <2>3, <2>4, <2>5
  <2>7. r.cursors[j] <= r.cursors[k] + (IF Ago(n, r.turn, j) < Ago(n, r.turn, k) THEN 1 ELSE 0)
    BY <2>1, <2>6 DEF InTurn
  <2> QED BY <1>1, <2>2, <2>3, <2>7
<1>16. t \in Runs(n) OBVIOUS
<1> QED BY <1>12, <1>14, <1>15, <1>16 DEF RunOk

-----------------------------------------------------------------------------
(* The strip: all turns *)

\* How many candidates have been examined.
Count(s, r) == Cardinality(Points(r.cursors, 1 .. Len(s.scopes)))

\* A candidate is a confirmed membership, and it is examined once.
LEMMA CountBounded ==
    ASSUME NEW s, Sources(s), NEW r, RunOk(s, r)
    PROVE  /\ IsFiniteSet(Points(r.cursors, 1 .. Len(s.scopes))) /\ Count(s, r) \in Nat
           /\ Cardinality(s.confirmed) \in Nat /\ Count(s, r) <= Cardinality(s.confirmed)
<1> DEFINE n == Len(s.scopes)
           S == Points(r.cursors, 1 .. n)
           h == [p \in S |-> <<QueueOf(s, p[1])[p[2]], s.scopes[p[1]]>>]
<1>1. /\ s.scopes \in Seq(Scopes) /\ n \in Nat /\ DOMAIN s.scopes = 1 .. n
      /\ r.cursors \in [1 .. n -> Nat]
  BY DEF Sources, RunOk, Runs
<1>2. IsFiniteSet(s.confirmed) /\ Cardinality(s.confirmed) \in Nat
  <2>1. IsFiniteSet(Events \X Scopes) BY PublishedAssumption, FS_Product
  <2> QED BY <2>1, FS_Subset, FS_CardinalityType DEF Sources, Representations
<1>3. ASSUME NEW p \in S
      PROVE  /\ p = <<p[1], p[2]>> /\ p[1] \in 1 .. n /\ p[2] \in 1 .. r.cursors[p[1]]
             /\ Lists(QueueOf(s, p[1]), Own(s, p[1])) /\ p[2] \in DOMAIN QueueOf(s, p[1])
             /\ QueueOf(s, p[1])[p[2]] \in Own(s, p[1])
  <2>1. PICK j \in 1 .. n : p \in {j} \X (1 .. r.cursors[j]) BY DEF Points
  <2>2. p = <<p[1], p[2]>> /\ p[1] = j /\ p[2] \in 1 .. r.cursors[j] BY <2>1
  <2>3. Lists(QueueOf(s, j), Own(s, j)) BY <1>1, QueueLists
  <2>4. r.cursors[j] <= Len(QueueOf(s, j)) BY DEF RunOk, Examined
  <2>5. Len(QueueOf(s, j)) \in Nat /\ DOMAIN QueueOf(s, j) = 1 .. Len(QueueOf(s, j))
    BY <2>3 DEF Lists
  <2>6. p[2] \in DOMAIN QueueOf(s, j) BY <1>1, <2>2, <2>4, <2>5
  <2>7. QueueOf(s, j)[p[2]] \in Own(s, j) BY <2>3, <2>6 DEF Lists
  <2> QED BY <2>2, <2>3, <2>6, <2>7
<1>4. h \in Injection(S, s.confirmed)
  <2>1. h \in [S -> s.confirmed] BY <1>3 DEF Own
  <2>2. ASSUME NEW p \in S, NEW u \in S, h[p] = h[u] PROVE p = u
    <3>1. QueueOf(s, p[1])[p[2]] = QueueOf(s, u[1])[u[2]] /\ s.scopes[p[1]] = s.scopes[u[1]]
      BY <2>2
    <3>2. p[1] = u[1] BY <1>1, <1>3, <3>1 DEF Sources
    <3>3. p[2] = u[2]
      <4> DEFINE q == QueueOf(s, p[1])
      <4>1. QueueOf(s, u[1]) = q BY <3>2
      <4>2. q[p[2]] = q[u[2]] /\ p[2] \in DOMAIN q /\ u[2] \in DOMAIN q BY <1>3, <3>1, <4>1
      <4>3. Lists(q, Own(s, p[1])) BY <1>3
      <4> HIDE DEF q
      <4> QED BY <4>2, <4>3 DEF Lists
    <3> QED BY <1>3, <3>2, <3>3
  <2> HIDE DEF h, S
  <2> QED BY <2>1, <2>2 DEF Injection, IsInjective
<1>5. IsFiniteSet(S) /\ Cardinality(S) <= Cardinality(s.confirmed)
  <2> HIDE DEF h, S
  <2> QED BY <1>2, <1>4, FS_Injection
<1> QED BY <1>2, <1>5, FS_CardinalityType DEF Count

\* Until the selection ends, every turn examines a candidate or is one of less than a
\* round of idle ones.
Progress(s, r, i) ==
    Stopped(s, r) \/ i <= Count(s, r) * Len(s.scopes) + r.idle

LEMMA OneTurn ==
    ASSUME NEW s, Sources(s), s.scopes # <<>>, NEW r, RunOk(s, r),
           NEW i \in Nat, Progress(s, r, i)
    PROVE  RunOk(s, Turn(s, r)) /\ Progress(s, Turn(s, r), i + 1)
<1> DEFINE t == Turn(s, r)
           n == Len(s.scopes)
           m == r.turn + 1
           X == Count(s, r)
<1>1. /\ t \in Runs(n)
      /\ \/ Stopped(s, r) /\ t = r
         \/ ~Stopped(s, r) /\ Idles(s, r, t)
         \/ ~Stopped(s, r) /\ Examines(s, r, t)
  BY TurnMoves
<1>2. /\ n \in Nat \ {0} /\ m \in 1 .. n /\ r.idle \in 0 .. n
      /\ r.cursors \in [1 .. n -> Nat] /\ X \in Nat
      /\ IsFiniteSet(Points(r.cursors, 1 .. n))
  <2>1. X \in Nat /\ IsFiniteSet(Points(r.cursors, 1 .. n)) BY CountBounded
  <2>2. s.scopes \in Seq(Scopes) /\ r \in Runs(n) BY DEF Sources, RunOk
  <2>3. n \in Nat \ {0} BY <2>2
  <2>4. r.idle \in 0 .. n /\ r.cursors \in [1 .. n -> Nat] /\ r.turn \in 0 .. n - 1
    BY <2>2 DEF Runs
  <2> HIDE DEF n, X
  <2> QED BY <2>1, <2>3, <2>4
<1> HIDE DEF t, n, m, X
<1>3. CASE Stopped(s, r) /\ t = r BY <1>3 DEF Progress, t
<1>4. CASE ~Stopped(s, r) /\ Idles(s, r, t)
  <2>1. RunOk(s, t) BY <1>1, <1>4, IdleTurn DEF n
  <2>2. t.idle = r.idle + 1 /\ Count(s, t) = X BY <1>4 DEF Idles, Count, X
  <2>3. i <= X * n + r.idle BY <1>4 DEF Progress, X, n
  <2>4. X * n \in Nat BY <1>2
  <2>5. i + 1 <= X * n + t.idle BY <1>2, <2>2, <2>3, <2>4
  <2> QED BY <2>1, <2>2, <2>5 DEF Progress, t, n
<1>5. CASE ~Stopped(s, r) /\ Examines(s, r, t)
  <2>1. RunOk(s, t) BY <1>1, <1>5, AdvancingTurn DEF n
  <2>2. t.idle = 0 /\ t.cursors = [r.cursors EXCEPT ![m] = r.cursors[m] + 1]
    BY <1>5 DEF Examines, Advances, m
  <2>3. Count(s, t) = X + 1
    <3> DEFINE c == r.cursors[m]
               S == Points(r.cursors, 1 .. n)
               T == Points(t.cursors, 1 .. n)
    <3>1. c \in Nat /\ \A j \in 1 .. n : t.cursors[j] = IF j = m THEN c + 1 ELSE r.cursors[j]
      BY <1>2, <2>2
    <3>2. <<m, c + 1>> \notin S
      <4>1. c + 1 \notin 1 .. c BY <3>1
      <4> QED BY <4>1 DEF Points
    <3>3. T = S \cup {<<m, c + 1>>}
      <4>1. 1 .. c + 1 = (1 .. c) \cup {c + 1} BY <3>1
      <4>2. ASSUME NEW p \in T PROVE p \in S \cup {<<m, c + 1>>}
        <5>1. PICK j \in 1 .. n : p \in {j} \X (1 .. t.cursors[j]) BY DEF Points
        <5>2. CASE j = m
          <6>1. p \in {m} \X (1 .. c + 1) BY <3>1, <5>1, <5>2
          <6>2. p = <<m, c + 1>> \/ p \in {m} \X (1 .. c) BY <4>1, <6>1
          <6> QED BY <1>2, <6>2 DEF Points
        <5>3. CASE j # m
          <6>1. p \in {j} \X (1 .. r.cursors[j]) BY <3>1, <5>1, <5>3
          <6> QED BY <6>1 DEF Points
        <5> QED BY <5>2, <5>3
      <4>3. ASSUME NEW p \in S \cup {<<m, c + 1>>} PROVE p \in T
        <5>1. <<m, c + 1>> \in {m} \X (1 .. t.cursors[m]) BY <1>2, <3>1
        <5>2. <<m, c + 1>> \in T BY <1>2, <5>1 DEF Points
        <5>3. CASE p \in S
          <6>1. PICK j \in 1 .. n : p \in {j} \X (1 .. r.cursors[j]) BY <5>3 DEF Points
          <6>2. r.cursors[j] \in Nat /\ (t.cursors[j] = r.cursors[j] \/ t.cursors[j] = r.cursors[j] + 1)
            BY <1>2, <3>1
          <6>3. 1 .. r.cursors[j] \subseteq 1 .. t.cursors[j] BY <6>2
          <6>4. p \in {j} \X (1 .. t.cursors[j]) BY <6>1, <6>3
          <6> QED BY <6>4 DEF Points
        <5> QED BY <5>2, <5>3
      <4> QED BY <4>2, <4>3
    <3> HIDE DEF S, T
    <3>4. IsFiniteSet(S) BY <1>2 DEF S
    <3>5. Cardinality(T) = Cardinality(S) + 1 BY <3>2, <3>3, <3>4, FS_AddElement
    <3> QED BY <3>5 DEF S, T, Count, X, n
  <2>4. i <= X * n + r.idle /\ r.idle < n
    BY <1>2, <1>5 DEF Progress, X, n, Stopped
  <2>5. X * n \in Nat /\ (X + 1) * n = X * n + n BY <1>2
  <2>6. i + 1 <= Count(s, t) * n + t.idle BY <1>2, <2>2, <2>3, <2>4, <2>5
  <2> QED BY <2>1, <2>6 DEF Progress, t, n
<1> QED BY <1>1, <1>3, <1>4, <1>5

LEMMA FirstTurnOk ==
    ASSUME NEW s, Sources(s), s.scopes # <<>>
    PROVE  RunOk(s, FirstTurn(s)) /\ Progress(s, FirstTurn(s), 0)
<1> DEFINE r == FirstTurn(s)
           n == Len(s.scopes)
<1>1. s.scopes \in Seq(Scopes) /\ s.start \in Nat BY DEF Sources
<1>2. n \in Nat \ {0} /\ DOMAIN s.scopes = 1 .. n BY <1>1
<1>3. s.start % n \in 0 .. n - 1 BY <1>1, <1>2, Division
<1>4. /\ r.turn = s.start % n /\ r.idle = 0 /\ r.cursors = [i \in 1 .. n |-> 0]
      /\ r.entries = <<>> /\ r.filled = NoAnchor
      /\ r = [turn |-> s.start % n, idle |-> 0, cursors |-> [i \in 1 .. n |-> 0],
              entries |-> <<>>, filled |-> NoAnchor]
  BY <1>2 DEF FirstTurn
<1> HIDE DEF r, n
<1>5. r \in Runs(n)
  <2>1. 0 \in 0 .. n /\ NoAnchor \in NoAnchor .. n - 1 BY <1>2 DEF NoAnchor
  <2>2. [i \in 1 .. n |-> 0] \in [1 .. n -> Nat] /\ <<>> \in Seq(Entry) OBVIOUS
  <2> QED BY <1>3, <1>4, <2>1, <2>2 DEF Runs
<1>6. EntriesHold(s, r.entries) BY <1>4, StripAssumption DEF EntriesHold
<1>7. ASSUME NEW j \in 1 .. n PROVE Examined(s, r, j)
  <2>1. Len(QueueOf(s, j)) \in Nat BY <1>2, QueueLists DEF Lists
  <2>2. r.cursors[j] = 0 BY <1>4
  <2>3. Ago(n, r.turn, j) \in 1 .. n
    <3>1. Passed(n, r.turn + 1, r.turn, IF r.turn + 1 = n THEN 0 ELSE r.turn + 1)
      BY <1>2, <1>3, <1>4, TurnsPass
    <3> QED BY <3>1 DEF Passed
  <2>4. Cardinality(Sponsored(s, r, j)) = 0
    <3>1. Sponsored(s, r, j) = {} BY <1>4 DEF Sponsored
    <3> QED BY <3>1, FS_EmptySet
  <2>5. ~(Ago(n, r.turn, j) <= r.idle) BY <1>2, <1>4, <2>3
  <2>6. 0 <= Len(QueueOf(s, j)) /\ 1 .. 0 = {} BY <2>1
  <2> QED BY <2>2, <2>4, <2>5, <2>6 DEF Examined, n
<1>8. ASSUME NEW j \in 1 .. n, NEW k \in 1 .. n PROVE InTurn(s, r, j, k)
  <2>1. r.cursors[j] = 0 /\ r.cursors[k] = 0 BY <1>4
  <2> QED BY <2>1 DEF InTurn
<1>9. RunOk(s, r) BY <1>5, <1>6, <1>7, <1>8 DEF RunOk, n
<1>10. Progress(s, r, 0)
  <2>1. Count(s, r) \in Nat BY <1>9, CountBounded
  <2>2. Count(s, r) * n \in Nat BY <1>2, <2>1
  <2>3. 0 <= Count(s, r) * n + r.idle BY <1>4, <2>2
  <2> QED BY <2>3 DEF Progress, n
<1> QED BY <1>9, <1>10 DEF r

\* The turns of a selection, from the first one on.
RunOf(s, run) ==
    /\ run[0] = FirstTurn(s)
    /\ \A i \in 1 .. Turns(s) : run[i] = Turn(s, run[i - 1])
    /\ \A i \in 0 .. Turns(s) : RunOk(s, run[i]) /\ Progress(s, run[i], i)

\* A selection is the last of its turns.
LEMMA SelectionRuns ==
    ASSUME NEW s, Sources(s), s.scopes # <<>>, EligibleEvents(s) # {}
    PROVE  /\ Turns(s) \in Nat
           /\ \E run : RunOf(s, run) /\ SelectedFrom(s) = run[Turns(s)]
<1> DEFINE n == Turns(s)
           base == FirstTurn(s)
           P == [i \in 0 .. n |-> {r \in Runs(Len(s.scopes)) : RunOk(s, r) /\ Progress(s, r, i)}]
           next == [i \in 1 .. n |-> [r \in P[i - 1] |-> Turn(s, r)]]
           Body(f) == [i \in 0 .. n |-> IF i = 0 THEN base ELSE Turn(s, f[i - 1])]
<1>1. /\ Len(s.scopes) \in Nat \ {0} /\ Cardinality(s.confirmed) \in Nat /\ n \in Nat
      /\ n = (Cardinality(s.confirmed) + 1) * (Len(s.scopes) + 1)
  <2>1. RunOk(s, FirstTurn(s)) BY FirstTurnOk
  <2>2. Cardinality(s.confirmed) \in Nat BY <2>1, CountBounded
  <2>3. Len(s.scopes) \in Nat \ {0} BY DEF Sources
  <2>4. n = (Cardinality(s.confirmed) + 1) * (Len(s.scopes) + 1) BY DEF Turns
  <2> HIDE DEF n
  <2> QED BY <2>2, <2>3, <2>4
<1>2. base \in P[0] BY <1>1, FirstTurnOk DEF RunOk
<1>3. \A i \in 1 .. n : i - 1 \in 0 .. n /\ i \in 0 .. n /\ i - 1 \in Nat BY <1>1
<1>4. ASSUME NEW i \in 1 .. n, NEW r \in P[i - 1]
      PROVE  next[i][r] \in P[i] /\ next[i][r] = Turn(s, r)
  <2>1. RunOk(s, r) /\ Progress(s, r, i - 1) BY <1>3
  <2>2. RunOk(s, Turn(s, r)) /\ Progress(s, Turn(s, r), (i - 1) + 1)
    BY <1>3, <2>1, OneTurn
  <2>3. (i - 1) + 1 = i BY <1>3
  <2>4. Turn(s, r) \in P[i] BY <1>3, <2>2, <2>3 DEF RunOk
  <2>5. next[i] = [u \in P[i - 1] |-> Turn(s, u)] OBVIOUS
  <2>6. next[i][r] = Turn(s, r)
    <3> HIDE DEF P, next
    <3> QED BY <2>5
  <2> QED BY <2>4, <2>6
<1> HIDE DEF P, next, base, n
<1>5. PICK f : Loops(f, n, base, next) /\ \A i \in 0 .. n : f[i] \in P[i]
  <2>1. \A i \in 1 .. n : \A x \in P[i - 1] : next[i][x] \in P[i] BY <1>4
  <2> HIDE DEF Body
  <2> QED BY <1>1, <1>2, <2>1, Iterates, ZenonT(60)
<1>6. f = Body(f)
  <2>1. \A i \in 1 .. n : next[i][f[i - 1]] = Turn(s, f[i - 1])
    BY <1>3, <1>4, <1>5
  <2>2. \A i \in 0 .. n : (IF i = 0 THEN base ELSE next[i][f[i - 1]])
                          = (IF i = 0 THEN base ELSE Turn(s, f[i - 1]))
    BY <1>1, <2>1
  <2> QED BY <1>5, <2>2 DEF Loops
<1> DEFINE run == CHOOSE g : g = Body(g)
<1>7. SelectedFrom(s) = run[n] BY DEF SelectedFrom, base, n
<1>8. run = Body(run) BY <1>6
<1> HIDE DEF run
<1>9. \A i \in 0 .. n : run[i] = IF i = 0 THEN base ELSE Turn(s, run[i - 1]) BY <1>8
<1>10. \A i \in 0 .. n : run[i] \in P[i]
  <2>1. run[0] \in P[0] BY <1>1, <1>2, <1>9
  <2>2. \A i \in 1 .. n : run[i - 1] \in P[i - 1] => run[i] \in P[i]
    <3> SUFFICES ASSUME NEW i \in 1 .. n, run[i - 1] \in P[i - 1] PROVE run[i] \in P[i]
      OBVIOUS
    <3>1. i \in 0 .. n /\ i # 0 OBVIOUS
    <3>2. run[i] = Turn(s, run[i - 1]) BY <1>9, <3>1
    <3>3. next[i][run[i - 1]] \in P[i] /\ next[i][run[i - 1]] = Turn(s, run[i - 1])
      BY <1>4
    <3> QED BY <3>2, <3>3
  <2> QED BY <1>1, <2>1, <2>2, Carried, ZenonT(30)
<1>11. RunOf(s, run)
  <2>1. run[0] = FirstTurn(s) /\ \A i \in 1 .. n : run[i] = Turn(s, run[i - 1])
    BY <1>1, <1>9 DEF base
  <2>2. \A i \in 0 .. n : RunOk(s, run[i]) /\ Progress(s, run[i], i) BY <1>10 DEF P
  <2> QED BY <2>1, <2>2 DEF RunOf, n
<1> QED BY <1>1, <1>7, <1>11 DEF n

\* The turns suffice for the selection to end.
LEMMA SelectionEnds ==
    ASSUME NEW s, Sources(s), s.scopes # <<>>, EligibleEvents(s) # {}
    PROVE  RunOk(s, SelectedFrom(s)) /\ Stopped(s, SelectedFrom(s))
<1> DEFINE n == Turns(s)
           r == SelectedFrom(s)
<1>1. /\ Len(s.scopes) \in Nat \ {0} /\ Cardinality(s.confirmed) \in Nat /\ n \in Nat
      /\ n = (Cardinality(s.confirmed) + 1) * (Len(s.scopes) + 1)
  <2>1. RunOk(s, FirstTurn(s)) BY FirstTurnOk
  <2>2. Cardinality(s.confirmed) \in Nat BY <2>1, CountBounded
  <2>3. Len(s.scopes) \in Nat \ {0} BY DEF Sources
  <2>4. n = (Cardinality(s.confirmed) + 1) * (Len(s.scopes) + 1) BY DEF Turns
  <2> HIDE DEF n
  <2> QED BY <2>2, <2>3, <2>4
<1>2. RunOk(s, r) /\ Progress(s, r, n)
  <2>1. n \in 0 .. n BY <1>1
  <2> QED BY <2>1, SelectionRuns DEF RunOf
<1>3. Stopped(s, r)
  <2> DEFINE C == Cardinality(s.confirmed)
             m == Len(s.scopes)
             X == Count(s, r)
  <2>1. X \in Nat /\ X <= C BY <1>2, CountBounded
  <2>2. r.idle \in 0 .. m BY <1>2 DEF RunOk, Runs
  <2>3. C \in Nat /\ m \in Nat \ {0} /\ n = (C + 1) * (m + 1) BY <1>1
  <2>4. SUFFICES ~(n <= X * m + r.idle) BY <1>2 DEF Progress
  <2> HIDE DEF C, m, X, r
  <2>5. PICK d \in Nat : C = X + d
    <3>1. C - X \in Nat /\ C = X + (C - X) BY <2>1, <2>3
    <3> QED BY <3>1
  <2>6. X * m \in Nat /\ d * m \in Nat /\ C * m = X * m + d * m BY <2>1, <2>3, <2>5
  <2>7. n = C * m + C + m + 1 BY <2>3
  <2>8. r.idle \in Nat /\ r.idle <= m BY <2>2, <2>3
  <2> QED BY <2>1, <2>3, <2>6, <2>7, <2>8
<1> QED BY <1>2, <1>3

-----------------------------------------------------------------------------
(* The strip: where the turns begin and end *)

\* Until the first entry, as many turns have passed as were idle; the first entry is
\* the earliest there can be, and a full strip remembers the turn of its last one.
Earliest(s, entries) ==
    \A i, j \in 1 .. Len(s.scopes) :
        entries # <<>> /\ entries[1].sponsor = s.scopes[j] /\ Sooner(i, j, s.start + 1) =>
            Own(s, i) = {}
EndsAt(s, entries, filled) ==
    IF Len(entries) = StripStored
    THEN /\ filled \in 0 .. Len(s.scopes) - 1
         /\ s.scopes[filled + 1] = entries[Len(entries)].sponsor
    ELSE filled = NoAnchor
Leads(s, r) ==
    /\ r.entries = <<>> =>
           r.turn = IF s.start + r.idle < Len(s.scopes) THEN s.start + r.idle
                    ELSE s.start + r.idle - Len(s.scopes)
    /\ Earliest(s, r.entries) /\ EndsAt(s, r.entries, r.filled)

\* Whose turn was before the first entry has no candidate.
LEMMA NothingEarlier ==
    ASSUME NEW s, Sources(s), s.scopes # <<>>, s.start < Len(s.scopes),
           NEW r, RunOk(s, r), ~Stopped(s, r), Leads(s, r), r.entries = <<>>,
           NEW i \in 1 .. Len(s.scopes), Sooner(i, r.turn + 1, s.start + 1)
    PROVE  Own(s, i) = {}
<1> DEFINE n == Len(s.scopes)
<1>1. /\ n \in Nat \ {0} /\ DOMAIN s.scopes = 1 .. n /\ s.start \in 0 .. n - 1
      /\ r.turn \in 0 .. n - 1 /\ r.idle \in 0 .. n - 1 /\ r.cursors \in [1 .. n -> Nat]
  <2>1. s.scopes \in Seq(Scopes) /\ s.start \in Nat /\ r \in Runs(n) BY DEF Sources, RunOk
  <2>2. n \in Nat \ {0} /\ DOMAIN s.scopes = 1 .. n BY <2>1
  <2>3. /\ r.turn \in 0 .. n - 1 /\ r.idle \in 0 .. n /\ r.idle < n
        /\ r.cursors \in [1 .. n -> Nat]
    BY <2>1, <2>2 DEF Runs, Stopped
  <2> HIDE DEF n
  <2>4. s.start < n BY DEF n
  <2> QED BY <2>1, <2>2, <2>3, <2>4
<1>2. r.turn = IF s.start + r.idle < n THEN s.start + r.idle ELSE s.start + r.idle - n
  BY DEF Leads
<1> HIDE DEF n
<1>3. i \in 1 .. n BY DEF n
<1>4. Ago(n, r.turn, i) <= r.idle
  <2> DEFINE b == s.start
             d == r.idle
             m == r.turn
  <2>1. b \in 0 .. n - 1 /\ d \in 0 .. n - 1 /\ m \in 0 .. n - 1 BY <1>1
  <2>2. m = IF b + d < n THEN b + d ELSE b + d - n BY <1>2
  <2>3. IF b + 1 <= i THEN i < m + 1 \/ m + 1 < b + 1 ELSE i < m + 1 /\ m + 1 < b + 1
    BY DEF Sooner
  <2> HIDE DEF b, d, m
  <2>4. ASSUME b + d < n PROVE Ago(n, m, i) <= d
    BY <1>1, <1>3, <2>1, <2>2, <2>3, <2>4 DEF Ago
  <2>5. ASSUME ~(b + d < n) PROVE Ago(n, m, i) <= d
    BY <1>1, <1>3, <2>1, <2>2, <2>3, <2>5 DEF Ago
  <2>6. Ago(n, m, i) <= d BY <2>4, <2>5
  <2> QED BY <2>6 DEF m, d
<1>5. Examined(s, r, i) BY <1>3 DEF RunOk, n
<1>6. StripOf(r.entries) = {} BY DEF StripOf
<1>7. r.cursors[i] = 0
  <2>1. \A k \in 1 .. r.cursors[i] : FALSE BY <1>5, <1>6 DEF Examined
  <2>2. r.cursors[i] \in Nat BY <1>1, <1>3
  <2> QED BY <2>1, <2>2
<1>8. Len(QueueOf(s, i)) = 0 BY <1>4, <1>5, <1>7 DEF Examined, n
<1>9. Lists(QueueOf(s, i), Own(s, i)) BY <1>1, <1>3, QueueLists
<1> QED BY <1>8, <1>9 DEF Lists

LEMMA LeadingTurn ==
    ASSUME NEW s, Sources(s), s.scopes # <<>>, s.start < Len(s.scopes),
           NEW r, RunOk(s, r), Leads(s, r)
    PROVE  Leads(s, Turn(s, r))
<1> DEFINE t == Turn(s, r)
           n == Len(s.scopes)
           l == Len(r.entries)
           entry == [event |-> Next1(s, r), sponsor |-> s.scopes[r.turn + 1]]
<1>1. /\ t \in Runs(n)
      /\ \/ Stopped(s, r) /\ t = r
         \/ ~Stopped(s, r) /\ Idles(s, r, t)
         \/ ~Stopped(s, r) /\ Examines(s, r, t)
  BY TurnMoves
<1> HIDE DEF t
<1>2. /\ n \in Nat \ {0} /\ DOMAIN s.scopes = 1 .. n /\ s.start \in 0 .. n - 1
      /\ r.turn \in 0 .. n - 1 /\ r.idle \in 0 .. n /\ r.entries \in Seq(Entry)
  <2>1. s.scopes \in Seq(Scopes) /\ s.start \in Nat /\ r \in Runs(n) BY DEF Sources, RunOk
  <2>2. n \in Nat \ {0} /\ DOMAIN s.scopes = 1 .. n BY <2>1
  <2>3. r.turn \in 0 .. n - 1 /\ r.idle \in 0 .. n /\ r.entries \in Seq(Entry)
    BY <2>1, <2>2 DEF Runs
  <2> HIDE DEF n
  <2>4. s.start < n BY DEF n
  <2> QED BY <2>1, <2>2, <2>3, <2>4
<1>3. CASE Stopped(s, r) /\ t = r BY <1>3 DEF t
<1>4. CASE ~Stopped(s, r) /\ Idles(s, r, t)
  <2>1. /\ t.turn = (IF r.turn + 1 = n THEN 0 ELSE r.turn + 1) /\ t.idle = r.idle + 1
        /\ t.entries = r.entries /\ t.filled = r.filled /\ r.idle < n
    BY <1>2, <1>4 DEF Idles, Stopped
  <2>2. Earliest(s, t.entries) /\ EndsAt(s, t.entries, t.filled) BY <2>1 DEF Leads
  <2>3. ASSUME t.entries = <<>>
        PROVE  t.turn = IF s.start + t.idle < n THEN s.start + t.idle ELSE s.start + t.idle - n
    <3>1. r.turn = IF s.start + r.idle < n THEN s.start + r.idle ELSE s.start + r.idle - n
      BY <2>1, <2>3 DEF Leads
    <3> HIDE DEF n
    <3> QED BY <1>2, <2>1, <3>1
  <2> QED BY <2>2, <2>3 DEF Leads, t
<1>5. CASE /\ ~Stopped(s, r) /\ Next1(s, r) \in StripOf(r.entries)
           /\ t.entries = r.entries /\ t.filled = r.filled
  <2>1. r.entries # <<>> BY <1>5 DEF StripOf
  <2> QED BY <1>5, <2>1 DEF Leads, t
<1>6. CASE /\ ~Stopped(s, r) /\ t.entries = Append(r.entries, entry)
           /\ t.filled = IF l + 1 = StripStored THEN r.turn ELSE NoAnchor
           /\ entry \in Entry
  <2>1. /\ l \in Nat /\ DOMAIN r.entries = 1 .. l /\ Len(t.entries) = l + 1
        /\ t.entries[l + 1] = entry /\ \A a \in 1 .. l : t.entries[a] = r.entries[a]
    BY <1>2, <1>6, EntryAppended
  <2>2. t.entries # <<>>
    <3>1. l + 1 # 0 BY <2>1
    <3> QED BY <2>1, <3>1
  <2>3. entry.sponsor = s.scopes[r.turn + 1] OBVIOUS
  <2> HIDE DEF entry, n, l
  <2>4. EndsAt(s, t.entries, t.filled)
    BY <1>2, <1>6, <2>1, <2>3 DEF EndsAt, n, l
  <2>5. CASE r.entries # <<>>
    <3>1. l # 0 BY <1>2, <2>5 DEF l
    <3>2. t.entries[1] = r.entries[1] BY <2>1, <3>1
    <3>3. Earliest(s, t.entries) BY <2>5, <3>2 DEF Leads, Earliest
    <3> QED BY <2>2, <2>4, <3>3 DEF Leads, t
  <2>6. CASE r.entries = <<>>
    <3>1. l = 0 BY <2>6 DEF l
    <3>2. t.entries[1].sponsor = s.scopes[r.turn + 1] BY <2>1, <2>3, <3>1
    <3>3. ASSUME NEW i \in 1 .. n, NEW j \in 1 .. n, t.entries[1].sponsor = s.scopes[j],
                 Sooner(i, j, s.start + 1)
          PROVE  Own(s, i) = {}
      <4>1. r.turn + 1 \in DOMAIN s.scopes /\ j \in DOMAIN s.scopes BY <1>2
      <4>2. j = r.turn + 1 BY <3>2, <3>3, <4>1 DEF Sources
      <4> QED BY <1>6, <2>6, <3>3, <4>2, NothingEarlier DEF n
    <3>4. Earliest(s, t.entries) BY <3>3 DEF Earliest, n
    <3> QED BY <2>2, <2>4, <3>4 DEF Leads, t
  <2> QED BY <2>5, <2>6
<1>7. CASE ~Stopped(s, r) /\ Examines(s, r, t)
  <2>1. entry \in Entry
    <3>1. r.turn + 1 \in 1 .. n BY <1>2
    <3>2. Lists(QueueOf(s, r.turn + 1), Own(s, r.turn + 1)) BY <1>2, <3>1, QueueLists
    <3>3. r.cursors[r.turn + 1] < Len(QueueOf(s, r.turn + 1)) BY <1>7 DEF Examines, Advances
    <3>4. r.cursors[r.turn + 1] \in Nat BY <3>1 DEF RunOk, Runs
    <3>5. r.cursors[r.turn + 1] + 1 \in DOMAIN QueueOf(s, r.turn + 1)
      BY <3>2, <3>3, <3>4 DEF Lists
    <3>6. Next1(s, r) \in Own(s, r.turn + 1) BY <3>2, <3>5 DEF Lists, Next1
    <3>7. Next1(s, r) \in Events BY <3>6, QueuesCover DEF Own
    <3>8. s.scopes[r.turn + 1] \in Scopes
      <4>1. s.scopes \in [1 .. n -> Scopes] BY <1>2 DEF Sources
      <4> QED BY <3>1, <4>1
    <3> QED BY <3>7, <3>8 DEF Entry
  <2> HIDE DEF entry
  <2> QED BY <1>5, <1>6, <1>7, <2>1 DEF Examines, entry, l
<1> QED BY <1>1, <1>3, <1>4, <1>7

LEMMA SelectionLeads ==
    ASSUME NEW s, Sources(s), s.scopes # <<>>, s.start < Len(s.scopes)
    PROVE  /\ Earliest(s, SelectedFrom(s).entries)
           /\ EndsAt(s, SelectedFrom(s).entries, SelectedFrom(s).filled)
<1>1. CASE EligibleEvents(s) = {}
  <2>1. SelectedFrom(s) = [entries |-> <<>>, filled |-> NoAnchor] BY <1>1 DEF SelectedFrom
  <2>2. Len(<<>>) # StripStored BY StripAssumption
  <2> QED BY <2>1, <2>2 DEF Earliest, EndsAt
<1>2. CASE EligibleEvents(s) # {}
  <2> DEFINE n == Turns(s)
             c == FirstTurn(s)
  <2>1. PICK f : n \in Nat /\ RunOf(s, f) /\ SelectedFrom(s) = f[n] BY <1>2, SelectionRuns
  <2>2. /\ f[0] = c /\ \A i \in 1 .. n : f[i] = Turn(s, f[i - 1])
        /\ \A i \in 0 .. n : RunOk(s, f[i])
    BY <2>1 DEF RunOf
  <2>3. Leads(s, c)
    <3>1. s.start \in Nat /\ Len(s.scopes) \in Nat \ {0} BY DEF Sources
    <3>2. s.start % Len(s.scopes) = s.start BY <3>1
    <3>3. c.entries = <<>> /\ c.idle = 0 /\ c.turn = s.start /\ c.filled = NoAnchor
      BY <3>2 DEF FirstTurn
    <3> HIDE DEF c
    <3>4. Earliest(s, c.entries) /\ EndsAt(s, c.entries, c.filled)
      <4>1. Len(<<>>) # StripStored BY StripAssumption
      <4> QED BY <3>3, <4>1 DEF Earliest, EndsAt
    <3> QED BY <3>1, <3>3, <3>4 DEF Leads
  <2> HIDE DEF n, c
  <2>4. ASSUME NEW i \in 1 .. n, Leads(s, f[i - 1]) PROVE Leads(s, f[i])
    <3>1. i - 1 \in 0 .. n BY <2>1
    <3>2. RunOk(s, f[i - 1]) BY <2>2, <3>1
    <3>3. Leads(s, Turn(s, f[i - 1])) BY <2>4, <3>2, LeadingTurn
    <3> QED BY <2>2, <3>3
  <2>5. \A i \in 0 .. n : Leads(s, f[i])
    <3> DEFINE P == [i \in 0 .. n |-> {0}]
               h == [i \in 0 .. n |-> IF Leads(s, f[i]) THEN 0 ELSE 1]
    <3>1. \A i \in 1 .. n : i \in 0 .. n /\ i - 1 \in 0 .. n BY <2>1
    <3>2. 0 \in 0 .. n BY <2>1
    <3>3. h[0] \in P[0] BY <2>2, <2>3, <3>2
    <3>4. \A i \in 1 .. n : h[i - 1] \in P[i - 1] => h[i] \in P[i] BY <2>4, <3>1
    <3>5. \A i \in 0 .. n : h[i] \in P[i] => Leads(s, f[i]) OBVIOUS
    <3> HIDE DEF P, h
    <3>6. \A i \in 0 .. n : h[i] \in P[i] BY <2>1, <3>3, <3>4, Carried, ZenonT(30)
    <3> QED BY <3>5, <3>6
  <2> QED BY <2>1, <2>5 DEF Leads
<1> QED BY <1>1, <1>2

-----------------------------------------------------------------------------
(* The strip: what a selection leaves *)

\* What a selection promises of its entries.
Full(s, entries) ==
    /\ entries \in Seq(Entry) /\ StripOf(entries) \subseteq EligibleEvents(s)
    /\ Len(entries) = Smaller(Cardinality(EligibleEvents(s)), StripStored)
    /\ Cardinality(StripOf(entries)) = Len(entries)
    /\ \A i \in DOMAIN entries : <<entries[i].event, entries[i].sponsor>> \in s.confirmed
Fair(s, entries) ==
    \A k \in s.confirmed, other \in Scopes :
        Eligible(s, k[1]) /\ k[1] \notin StripOf(entries) =>
            Cardinality({i \in DOMAIN entries : entries[i].sponsor = other})
                <= Cardinality({e \in StripOf(entries) : <<e, k[2]>> \in s.confirmed}) + 1

LEMMA EntriesCounted ==
    ASSUME NEW s, NEW entries \in Seq(Entry), EntriesHold(s, entries)
    PROVE  /\ IsFiniteSet(StripOf(entries)) /\ Cardinality(StripOf(entries)) = Len(entries)
           /\ Len(entries) \in Nat /\ StripOf(entries) \subseteq EligibleEvents(s)
<1> DEFINE l == Len(entries)
           h == [a \in 1 .. l |-> entries[a].event]
<1>1. l \in Nat /\ DOMAIN entries = 1 .. l OBVIOUS
<1>2. IsFiniteSet(1 .. l) /\ Cardinality(1 .. l) = l
  <2>1. 1 \in Int /\ l \in Int BY <1>1
  <2> QED BY <1>1, <2>1, FS_Interval
<1> HIDE DEF l
<1>3. h \in Bijection(1 .. l, StripOf(entries))
  <2>1. h \in [1 .. l -> StripOf(entries)] BY <1>1 DEF StripOf
  <2>2. \A a, b \in 1 .. l : h[a] = h[b] => a = b BY <1>1 DEF EntriesHold
  <2>3. \A e \in StripOf(entries) : \E a \in 1 .. l : h[a] = e BY <1>1 DEF StripOf
  <2> HIDE DEF h
  <2> QED BY <2>1, <2>2, <2>3 DEF Bijection, Injection, IsInjective, Surjection
<1>4. IsFiniteSet(StripOf(entries)) /\ Cardinality(StripOf(entries)) = l
  BY <1>2, <1>3, FS_Bijection DEF ExistsBijection
<1>5. StripOf(entries) \subseteq EligibleEvents(s) BY DEF StripOf, EntriesHold
<1> QED BY <1>1, <1>4, <1>5 DEF l

\* A selection that has ended has what is young enough, or is full.
LEMMA SelectionFull ==
    ASSUME NEW s, Sources(s), NEW r, RunOk(s, r), Stopped(s, r)
    PROVE  Full(s, r.entries)
<1> DEFINE K == EligibleEvents(s)
           S == StripOf(r.entries)
           l == Len(r.entries)
           n == Len(s.scopes)
<1>1. /\ r.entries \in Seq(Entry) /\ EntriesHold(s, r.entries)
      /\ n \in Nat /\ DOMAIN s.scopes = 1 .. n
  BY DEF RunOk, Runs, Sources
<1>2. IsFiniteSet(S) /\ Cardinality(S) = l /\ l \in Nat /\ S \subseteq K
  BY <1>1, EntriesCounted
<1>3. IsFiniteSet(K) /\ Cardinality(K) \in Nat
  BY QueuesCover, PublishedAssumption, FS_Subset, FS_CardinalityType
<1>4. l <= Cardinality(K) BY <1>2, <1>3, FS_Subset
<1>5. l <= StripStored /\ StripStored \in Nat BY <1>1, StripAssumption DEF EntriesHold
<1>6. l = Smaller(Cardinality(K), StripStored)
  <2>1. CASE l = StripStored BY <1>2, <1>3, <1>4, <2>1 DEF Smaller
  <2>2. CASE r.idle >= n
    <3>1. ASSUME NEW e \in K PROVE e \in S
      <4>1. PICK j \in 1 .. n : e \in Own(s, j) BY <1>1, QueuesCover
      <4>2. Lists(QueueOf(s, j), Own(s, j)) BY <1>1, QueueLists
      <4>3. PICK i \in DOMAIN QueueOf(s, j) : QueueOf(s, j)[i] = e BY <4>1, <4>2 DEF Lists
      <4>4. Examined(s, r, j) BY DEF RunOk
      <4>5. Ago(n, r.turn, j) <= r.idle
        <5>1. r.turn \in 0 .. n - 1 /\ r.idle \in Nat BY <1>1 DEF RunOk, Runs
        <5>2. Ago(n, r.turn, j) \in 1 .. n BY <1>1, <5>1 DEF Ago
        <5> QED BY <1>1, <2>2, <5>1, <5>2
      <4>6. r.cursors[j] = Len(QueueOf(s, j)) BY <4>4, <4>5 DEF Examined
      <4>7. i \in 1 .. r.cursors[j] BY <4>2, <4>3, <4>6 DEF Lists
      <4> QED BY <4>3, <4>4, <4>7 DEF Examined
    <3>2. S = K BY <1>2, <3>1
    <3>3. l = Cardinality(K) BY <1>2, <3>2
    <3> QED BY <1>3, <1>5, <3>3 DEF Smaller
  <2> QED BY <2>1, <2>2 DEF Stopped
<1> QED BY <1>1, <1>2, <1>6 DEF Full, EntriesHold

\* While an event is left out, the Scopes it belongs to are not behind by two turns.
LEMMA SelectionFair ==
    ASSUME NEW s, Sources(s), NEW r, RunOk(s, r)
    PROVE  Fair(s, r.entries)
<1> DEFINE n == Len(s.scopes)
           S == StripOf(r.entries)
<1>1. /\ r.entries \in Seq(Entry) /\ EntriesHold(s, r.entries)
      /\ n \in Nat /\ DOMAIN s.scopes = 1 .. n /\ r.cursors \in [1 .. n -> Nat]
  BY DEF RunOk, Runs, Sources
<1>2. IsFiniteSet(S) BY <1>1, EntriesCounted
<1> SUFFICES ASSUME NEW k \in s.confirmed, NEW other \in Scopes,
                    Eligible(s, k[1]), k[1] \notin S
             PROVE  Cardinality({i \in DOMAIN r.entries : r.entries[i].sponsor = other})
                        <= Cardinality({e \in S : <<e, k[2]>> \in s.confirmed}) + 1
  BY DEF Fair
<1> DEFINE A == {i \in DOMAIN r.entries : r.entries[i].sponsor = other}
           B == {e \in S : <<e, k[2]>> \in s.confirmed}
<1> SUFFICES Cardinality(A) <= Cardinality(B) + 1 OBVIOUS
<1>3. PICK j \in 1 .. n : s.scopes[j] = k[2] BY <1>1 DEF Sources
<1>4. Lists(QueueOf(s, j), Own(s, j)) /\ Examined(s, r, j)
  BY <1>1, QueueLists DEF RunOk
<1> DEFINE q == QueueOf(s, j)
           c == r.cursors[j]
<1>5. c \in Nat /\ Len(q) \in Nat /\ c <= Len(q) BY <1>1, <1>4 DEF Lists, Examined
<1>6. c < Len(q)
  <2>1. k = <<k[1], k[2]>> BY DEF Sources, Representations
  <2>2. k[1] \in Own(s, j) BY <1>3, <2>1 DEF Own, EligibleEvents
  <2>3. PICK i \in DOMAIN q : q[i] = k[1] BY <1>4, <2>2 DEF Lists
  <2>4. i \in 1 .. Len(q) BY <1>4, <2>3 DEF Lists
  <2>5. i \notin 1 .. c BY <1>4, <2>3 DEF Examined
  <2> QED BY <1>5, <2>4, <2>5
<1>7. IsFiniteSet(B) /\ Cardinality(B) \in Nat BY <1>2, FS_Subset, FS_CardinalityType
<1>8. c <= Cardinality(B)
  <2> DEFINE h == [i \in 1 .. c |-> q[i]]
  <2>1. \A i \in 1 .. c : i \in DOMAIN q BY <1>4, <1>5 DEF Lists
  <2>2. \A i \in 1 .. c : q[i] \in B BY <1>3, <1>4, <2>1 DEF Examined, Lists, Own
  <2>3. \A i, o \in 1 .. c : q[i] = q[o] => i = o BY <1>4, <2>1 DEF Lists
  <2> HIDE DEF q, c, B
  <2>4. h \in Injection(1 .. c, B)
    <3>1. h \in [1 .. c -> B] BY <2>2
    <3>2. \A i, o \in 1 .. c : h[i] = h[o] => i = o BY <2>3
    <3> HIDE DEF h
    <3> QED BY <3>1, <3>2 DEF Injection, IsInjective
  <2>5. Cardinality(1 .. c) = c
    <3>1. 1 \in Int /\ c \in Int BY <1>5
    <3> QED BY <1>5, <3>1, FS_Interval
  <2> HIDE DEF h
  <2> QED BY <1>7, <2>4, <2>5, FS_Injection
<1>9. CASE \E m \in 1 .. n : s.scopes[m] = other
  <2>1. PICK m \in 1 .. n : s.scopes[m] = other BY <1>9
  <2>2. A = Sponsored(s, r, m) BY <2>1 DEF Sponsored
  <2>3. Cardinality(Sponsored(s, r, m)) <= r.cursors[m] BY DEF RunOk, Examined
  <2>4. InTurn(s, r, m, j) BY DEF RunOk
  <2>5. r.cursors[m] <= c + 1
    <3>1. r.cursors[m] <= c + (IF Ago(n, r.turn, m) < Ago(n, r.turn, j) THEN 1 ELSE 0)
      BY <1>6, <2>4 DEF InTurn
    <3>2. r.cursors[m] \in Nat BY <1>1
    <3> QED BY <1>5, <3>1, <3>2
  <2>6. IsFiniteSet(A) /\ Cardinality(A) \in Nat
    <3>1. IsFiniteSet(1 .. Len(r.entries)) /\ DOMAIN r.entries = 1 .. Len(r.entries)
      <4>1. 1 \in Int /\ Len(r.entries) \in Int /\ DOMAIN r.entries = 1 .. Len(r.entries)
        BY <1>1
      <4> QED BY <4>1, FS_Interval
    <3> QED BY <3>1, FS_Subset, FS_CardinalityType
  <2>7. r.cursors[m] \in Nat BY <1>1
  <2>8. Cardinality(A) <= r.cursors[m] BY <2>2, <2>3
  <2> HIDE DEF A, B, c
  <2> QED BY <1>5, <1>7, <1>8, <2>5, <2>6, <2>7, <2>8
<1>10. CASE ~ \E m \in 1 .. n : s.scopes[m] = other
  <2>1. A = {}
    <3> SUFFICES ASSUME NEW i \in A PROVE FALSE OBVIOUS
    <3>1. <<r.entries[i].event, other>> \in s.confirmed BY <1>1 DEF EntriesHold
    <3> QED BY <1>1, <1>10, <3>1 DEF Sources
  <2>2. Cardinality(A) = 0 BY <2>1, FS_EmptySet
  <2> HIDE DEF A, B
  <2> QED BY <1>7, <2>2
<1> QED BY <1>9, <1>10

-----------------------------------------------------------------------------
(* The strip: the program's values of it *)

Strips ==
    [scopes : Seq(Scopes), confirmed : SUBSET Representations, reference : Nat,
     started : BOOLEAN, start : Nat, nextStart : Nat, nextAnchor : Scopes \cup {NoAnchor},
     entries : Seq(Entry), eligible : Nat]
SourceOf(s) == <<s.scopes, s.confirmed, s.reference, s.start, s.started>>
\* The entries are those of a selection from what the strip has.
Chosen(s) ==
    \E c : Sources(c) /\ SourceOf(c) = SourceOf(s) /\ s.entries = SelectedFrom(c).entries
Filled(s) ==
    s \in Strips /\ Sources(s) /\ Full(s, s.entries) /\ Fair(s, s.entries) /\ Chosen(s)

\* What decides about a selection is not what a selection changes.
LEMMA SameSource ==
    ASSUME NEW s, NEW t, SourceOf(t) = SourceOf(s)
    PROVE  /\ Sources(s) <=> Sources(t)
           /\ EligibleEvents(t) = EligibleEvents(s)
           /\ \A entries : /\ Full(s, entries) <=> Full(t, entries)
                           /\ Fair(s, entries) <=> Fair(t, entries)
<1>1. /\ t.scopes = s.scopes /\ t.confirmed = s.confirmed /\ t.reference = s.reference
      /\ t.start = s.start
  BY DEF SourceOf
<1>2. \A e : Eligible(t, e) <=> Eligible(s, e) BY <1>1 DEF Eligible, StripAge
<1>3. EligibleEvents(t) = EligibleEvents(s) BY <1>1, <1>2 DEF EligibleEvents
<1>4. Sources(s) <=> Sources(t) BY <1>1 DEF Sources
<1>5. ASSUME NEW entries
      PROVE  /\ Full(s, entries) <=> Full(t, entries)
             /\ Fair(s, entries) <=> Fair(t, entries)
  BY <1>1, <1>2, <1>3 DEF Full, Fair
<1> QED BY <1>3, <1>4, <1>5

\* No candidates, no entries.
LEMMA NothingToSelect ==
    ASSUME NEW s, Sources(s), EligibleEvents(s) = {}
    PROVE  Full(s, <<>>) /\ Fair(s, <<>>)
<1>1. <<>> \in Seq(Entry) /\ Len(<<>>) = 0 /\ DOMAIN <<>> = {} OBVIOUS
<1>2. StripOf(<<>>) = {} BY <1>1 DEF StripOf
<1>3. Cardinality({}) = 0 BY FS_EmptySet
<1>4. Full(s, <<>>)
  <2>1. StripStored \in Nat \ {0} BY StripAssumption
  <2>2. Smaller(Cardinality(EligibleEvents(s)), StripStored) = 0 BY <1>3, <2>1 DEF Smaller
  <2> QED BY <1>1, <1>2, <1>3, <2>2 DEF Full
<1>5. \A k \in s.confirmed : ~Eligible(s, k[1]) BY DEF EligibleEvents
<1>6. Fair(s, <<>>) BY <1>5 DEF Fair
<1> QED BY <1>4, <1>6

LEMMA SelectionHolds ==
    ASSUME NEW s, Sources(s)
    PROVE  LET chosen == SelectedFrom(s)
           IN  /\ Full(s, chosen.entries) /\ Fair(s, chosen.entries)
               /\ chosen.filled \in NoAnchor .. Len(s.scopes) - 1
               /\ Cardinality(EligibleEvents(s)) \in Nat
<1>1. Cardinality(EligibleEvents(s)) \in Nat
  BY QueuesCover, PublishedAssumption, FS_Subset, FS_CardinalityType
<1>2. CASE s.scopes = <<>> \/ EligibleEvents(s) = {}
  <2>1. SelectedFrom(s) = [entries |-> <<>>, filled |-> NoAnchor] BY <1>2 DEF SelectedFrom
  <2>2. EligibleEvents(s) = {} BY <1>2, QueuesCover
  <2>3. NoAnchor \in NoAnchor .. Len(s.scopes) - 1
    <3>1. Len(s.scopes) \in Nat BY DEF Sources
    <3> QED BY <3>1 DEF NoAnchor
  <2> QED BY <1>1, <2>1, <2>2, <2>3, NothingToSelect
<1>3. CASE ~(s.scopes = <<>> \/ EligibleEvents(s) = {})
  <2>1. RunOk(s, SelectedFrom(s)) /\ Stopped(s, SelectedFrom(s)) BY <1>3, SelectionEnds
  <2> QED BY <1>1, <2>1, SelectionFull, SelectionFair DEF RunOk, Runs
<1> QED BY <1>2, <1>3

LEMMA AnchoringNext ==
    ASSUME NEW s \in Strips, s.scopes # <<>>, NEW index \in Nat
    PROVE  LET t == AnchoredNext(s, index)
           IN  /\ t \in Strips /\ SourceOf(t) = SourceOf(s) /\ t.entries = s.entries
               /\ t.nextStart \in Nat
<1> DEFINE n == Len(s.scopes)
           start == index % n
<1>1. s.scopes \in Seq(Scopes) BY DEF Strips
<1>2. n \in Nat \ {0} /\ DOMAIN s.scopes = 1 .. n /\ s.scopes \in [1 .. n -> Scopes] BY <1>1
<1> HIDE DEF n
<1>3. start \in 0 .. n - 1 BY <1>2, Division
<1>4. AnchoredNext(s, index) = [s EXCEPT !.nextStart = start, !.nextAnchor = s.scopes[start + 1]]
  BY DEF AnchoredNext, n
<1> HIDE DEF start
<1>5. start \in Nat /\ s.scopes[start + 1] \in Scopes BY <1>2, <1>3
<1> QED BY <1>4, <1>5 DEF Strips, SourceOf

LEMMA SelectingFills ==
    ASSUME NEW s \in Strips, Sources(s), NEW rotating \in BOOLEAN
    PROVE  Filled(Selected(s, rotating)) /\ SourceOf(Selected(s, rotating)) = SourceOf(s)
<1> DEFINE chosen == SelectedFrom(s)
           stored == [s EXCEPT !.entries = chosen.entries,
                               !.eligible = Cardinality(EligibleEvents(s))]
           t == Selected(s, rotating)
<1>1. /\ Full(s, chosen.entries) /\ Fair(s, chosen.entries)
      /\ chosen.filled \in NoAnchor .. Len(s.scopes) - 1
      /\ Cardinality(EligibleEvents(s)) \in Nat
  BY SelectionHolds
<1>2. chosen.entries \in Seq(Entry) BY <1>1 DEF Full
<1>3. t = IF rotating /\ chosen.filled # NoAnchor THEN AnchoredNext(stored, chosen.filled + 1)
          ELSE stored
  BY DEF Selected, NextTurn
<1> HIDE DEF chosen
<1>4. /\ stored \in Strips /\ SourceOf(stored) = SourceOf(s) /\ stored.entries = chosen.entries
      /\ stored.scopes = s.scopes
  BY <1>1, <1>2 DEF Strips, SourceOf
<1> HIDE DEF t, stored
<1>5. t \in Strips /\ SourceOf(t) = SourceOf(s) /\ t.entries = chosen.entries
  <2>1. CASE rotating /\ chosen.filled # NoAnchor
    <3>1. Len(s.scopes) \in Nat BY DEF Strips
    <3>2. chosen.filled + 1 \in Nat /\ Len(s.scopes) > 0 BY <1>1, <2>1, <3>1 DEF NoAnchor
    <3>3. stored.scopes # <<>> BY <1>4, <3>2
    <3> QED BY <1>3, <1>4, <2>1, <3>2, <3>3, AnchoringNext
  <2>2. CASE ~(rotating /\ chosen.filled # NoAnchor) BY <1>3, <1>4, <2>2
  <2> QED BY <2>1, <2>2
<1>6. Filled(t)
  <2>1. Sources(t) /\ Full(t, chosen.entries) /\ Fair(t, chosen.entries)
    BY <1>1, <1>5, SameSource
  <2>2. Chosen(t) BY <1>5 DEF Chosen, chosen
  <2> QED BY <1>5, <2>1, <2>2 DEF Filled
<1> QED BY <1>5, <1>6 DEF t

LEMMA RemappingKeeps ==
    ASSUME NEW s \in Strips
    PROVE  Remapped(s) \in Strips /\ SourceOf(Remapped(s)) = SourceOf(s)
<1>1. CASE s.scopes = <<>>
  <2>1. Remapped(s) = [s EXCEPT !.nextAnchor = NoAnchor, !.nextStart = 0]
    BY <1>1 DEF Remapped
  <2>2. 0 \in Nat /\ NoAnchor \in Scopes \cup {NoAnchor} OBVIOUS
  <2> DEFINE t == Remapped(s)
  <2>3. t \in Strips
    <3> HIDE DEF NoAnchor
    <3> QED BY <2>1, <2>2 DEF Strips
  <2>4. SourceOf(t) = SourceOf(s) BY <2>1 DEF Strips, SourceOf
  <2> QED BY <2>3, <2>4
<1>2. CASE s.scopes # <<>>
  <2> DEFINE at == {i \in DOMAIN s.scopes : s.scopes[i] = s.nextAnchor}
             index == IF s.nextAnchor = NoAnchor THEN 0
                      ELSE IF at # {} THEN (CHOOSE i \in at : TRUE) - 1
                      ELSE IF s.nextStart < Len(s.scopes) THEN s.nextStart
                      ELSE Len(s.scopes) - 1
  <2>1. Remapped(s) = AnchoredNext(s, index) BY <1>2 DEF Remapped
  <2>2. Len(s.scopes) \in Nat \ {0} /\ DOMAIN s.scopes = 1 .. Len(s.scopes) /\ s.nextStart \in Nat
    BY <1>2 DEF Strips
  <2>3. index \in Nat
    <3>1. at # {} => (CHOOSE i \in at : TRUE) \in 1 .. Len(s.scopes) BY <2>2
    <3> HIDE DEF at
    <3> QED BY <2>2, <3>1
  <2> HIDE DEF index
  <2> QED BY <1>2, <2>1, <2>3, AnchoringNext
<1> QED BY <1>1, <1>2

\* The Scope that is owed the turn is where the saved index says.
Anchored(s) ==
    s.nextAnchor # NoAnchor =>
        s.nextStart + 1 \in DOMAIN s.scopes /\ s.scopes[s.nextStart + 1] = s.nextAnchor

LEMMA AnchoringAnchors ==
    ASSUME NEW s \in Strips, s.scopes # <<>>, NEW index \in Nat, index <= Len(s.scopes)
    PROVE  LET t == AnchoredNext(s, index)
           IN  /\ t.nextStart \in 0 .. Len(s.scopes) - 1 /\ t.scopes = s.scopes
               /\ t.nextStart = IF index = Len(s.scopes) THEN 0 ELSE index
               /\ t.nextAnchor = s.scopes[t.nextStart + 1] /\ t.entries = s.entries
<1> DEFINE n == Len(s.scopes)
           start == index % n
<1>1. n \in Nat \ {0} BY DEF Strips
<1>2. AnchoredNext(s, index) = [s EXCEPT !.nextStart = start, !.nextAnchor = s.scopes[start + 1]]
  BY DEF AnchoredNext
<1> HIDE DEF n
<1>3. start = IF index = n THEN 0 ELSE index
  <2>1. CASE index = n BY <1>1, <2>1
  <2>2. CASE index # n
    <3>1. index < n BY <1>1, <2>2 DEF n
    <3> QED BY <1>1, <2>2, <3>1
  <2> QED BY <2>1, <2>2
<1> HIDE DEF start
<1>4. start \in 0 .. n - 1
  <2>1. index <= n BY DEF n
  <2> QED BY <1>1, <1>3, <2>1
<1> QED BY <1>2, <1>3, <1>4 DEF Strips, n

\* Whatever the selection was and is, the next round begins where it is owed to.
LEMMA RemappingOwes ==
    ASSUME NEW s, Anchored(s), NEW u \in Strips, u.scopes # <<>>,
           u.nextAnchor = s.nextAnchor, u.nextStart = s.nextStart
    PROVE  LET t == Remapped(u)
           IN  /\ t.nextStart + 1 \in DOMAIN u.scopes /\ t.scopes = u.scopes
               /\ t.nextAnchor = u.scopes[t.nextStart + 1]
               /\ OwedAt(s, u.scopes, t.nextStart + 1)
<1> DEFINE n == Len(u.scopes)
           at == {i \in DOMAIN u.scopes : u.scopes[i] = u.nextAnchor}
           index == IF u.nextAnchor = NoAnchor THEN 0
                    ELSE IF at # {} THEN (CHOOSE i \in at : TRUE) - 1
                    ELSE IF u.nextStart < n THEN u.nextStart ELSE n - 1
           t == Remapped(u)
<1>1. n \in Nat \ {0} /\ DOMAIN u.scopes = 1 .. n /\ u.nextStart \in Nat BY DEF Strips
<1>2. t = AnchoredNext(u, index) BY DEF Remapped
<1>3. at # {} => (CHOOSE i \in at : TRUE) \in at OBVIOUS
<1> HIDE DEF n
<1>4. index \in Nat /\ index < n
  <2>1. at # {} => (CHOOSE i \in at : TRUE) \in 1 .. n BY <1>1, <1>3
  <2> HIDE DEF at
  <2> QED BY <1>1, <2>1
<1>5. OwedAt(s, u.scopes, index + 1)
  <2>1. CASE u.nextAnchor = NoAnchor BY <2>1 DEF OwedAt
  <2>2. CASE u.nextAnchor # NoAnchor /\ at # {}
    <3>1. index + 1 = (CHOOSE i \in at : TRUE) BY <1>1, <1>3, <2>2
    <3>2. index + 1 \in at BY <1>3, <2>2, <3>1
    <3> QED BY <2>2, <3>2 DEF OwedAt
  <2>3. CASE u.nextAnchor # NoAnchor /\ at = {}
    <3>1. s.nextStart + 1 \in DOMAIN s.scopes /\ s.scopes[s.nextStart + 1] = s.nextAnchor
      BY <2>3 DEF Anchored
    <3>2. index + 1 = Smaller(s.nextStart + 1, n)
      <4>1. index = IF s.nextStart < n THEN s.nextStart ELSE n - 1 BY <2>3
      <4> HIDE DEF index
      <4> QED BY <1>1, <4>1 DEF Smaller
    <3> HIDE DEF index
    <3> QED BY <2>3, <3>1, <3>2 DEF OwedAt, n
  <2> QED BY <2>1, <2>2, <2>3
<1> HIDE DEF index, t
<1>6. /\ t.nextStart \in 0 .. n - 1 /\ t.scopes = u.scopes /\ t.nextStart = index
      /\ t.nextAnchor = u.scopes[t.nextStart + 1]
  BY <1>2, <1>4, AnchoringAnchors DEF n
<1>7. t.nextStart + 1 \in DOMAIN u.scopes BY <1>1, <1>6
<1> QED BY <1>5, <1>6, <1>7 DEF t

\* A selection that rotates owes the next turn to the Scope after its last one.
LEMMA SelectingOwes ==
    ASSUME NEW s \in Strips, Sources(s), s.scopes # <<>>, s.start + 1 \in DOMAIN s.scopes,
           s.nextStart = s.start, s.nextAnchor = s.scopes[s.start + 1]
    PROVE  LET t == Selected(s, TRUE)
           IN  Anchored(t) /\ BeginsAt(t, s.start + 1) /\ OwesNext(t, s.start + 1)
<1> DEFINE n == Len(s.scopes)
           chosen == SelectedFrom(s)
           stored == [s EXCEPT !.entries = chosen.entries,
                               !.eligible = Cardinality(EligibleEvents(s))]
           t == Selected(s, TRUE)
<1>1. n \in Nat \ {0} /\ DOMAIN s.scopes = 1 .. n /\ s.start \in 0 .. n - 1 BY DEF Strips
<1>2. /\ chosen.entries \in Seq(Entry) /\ Cardinality(EligibleEvents(s)) \in Nat
      /\ chosen.filled \in NoAnchor .. n - 1
  BY SelectionHolds DEF Full
<1>3. Earliest(s, chosen.entries) /\ EndsAt(s, chosen.entries, chosen.filled)
  BY <1>1, SelectionLeads
<1>4. t = IF chosen.filled # NoAnchor THEN AnchoredNext(stored, chosen.filled + 1) ELSE stored
  BY DEF Selected, NextTurn
<1>5. SourceOf(t) = SourceOf(s) /\ t.entries = chosen.entries
  <2>1. SourceOf(t) = SourceOf(s) BY SelectingFills
  <2> HIDE DEF chosen
  <2>2. stored \in Strips /\ stored.entries = chosen.entries /\ stored.scopes = s.scopes
    BY <1>2 DEF Strips
  <2> HIDE DEF stored, t
  <2>3. CASE chosen.filled # NoAnchor
    <3>1. chosen.filled + 1 \in Nat BY <1>1, <1>2, <2>3 DEF NoAnchor
    <3> QED BY <1>4, <2>1, <2>2, <2>3, <3>1, AnchoringNext
  <2> QED BY <1>4, <2>1, <2>2, <2>3
<1> HIDE DEF chosen
<1>6. /\ stored \in Strips /\ stored.scopes = s.scopes /\ stored.entries = chosen.entries
      /\ stored.nextStart = s.start /\ stored.nextAnchor = s.scopes[s.start + 1]
  BY <1>2 DEF Strips
<1>7. t.scopes = s.scopes /\ t.confirmed = s.confirmed /\ EligibleEvents(t) = EligibleEvents(s)
  BY <1>5, SameSource DEF SourceOf
<1> HIDE DEF stored, t, n
<1>8. BeginsAt(t, s.start + 1)
  <2>1. ASSUME NEW i \in 1 .. n, NEW j \in 1 .. n, chosen.entries # <<>>,
               chosen.entries[1].sponsor = s.scopes[j], Sooner(i, j, s.start + 1)
        PROVE  Own(s, i) = {}
    BY <1>3, <2>1 DEF Earliest, n
  <2> QED BY <1>1, <1>5, <1>7, <2>1 DEF BeginsAt, Own
<1>9. CASE Len(chosen.entries) = StripStored
  <2> DEFINE f == chosen.filled
  <2>1. f \in 0 .. n - 1 /\ s.scopes[f + 1] = chosen.entries[Len(chosen.entries)].sponsor
    BY <1>3, <1>9 DEF EndsAt, n
  <2>2. t = AnchoredNext(stored, f + 1)
    <3>1. f # NoAnchor BY <2>1 DEF NoAnchor
    <3> QED BY <1>4, <3>1
  <2> HIDE DEF f
  <2>3. f + 1 \in 1 .. n /\ f + 1 \in Nat /\ f + 1 <= n BY <1>1, <2>1
  <2>4. /\ t.nextStart \in 0 .. n - 1 /\ t.nextStart = (IF f + 1 = n THEN 0 ELSE f + 1)
        /\ t.nextAnchor = s.scopes[t.nextStart + 1]
    BY <1>6, <2>2, <2>3, AnchoringAnchors DEF n
  <2>5. (f + 1) % n = IF f + 1 = n THEN 0 ELSE f + 1
    <3>1. f + 1 = n => (f + 1) % n = 0 BY <1>1, <2>3
    <3>2. f + 1 < n => (f + 1) % n = f + 1 BY <1>1, <2>3
    <3> QED BY <1>1, <2>3, <3>1, <3>2
  <2>6. t.nextAnchor = s.scopes[((f + 1) % n) + 1] BY <2>4, <2>5
  <2>7. OwesNext(t, s.start + 1) BY <1>1, <1>5, <1>7, <1>9, <2>1, <2>3, <2>6 DEF OwesNext, n
  <2>8. Anchored(t) BY <1>1, <1>7, <2>4 DEF Anchored
  <2> QED BY <1>8, <2>7, <2>8 DEF t
<1>10. CASE Len(chosen.entries) # StripStored
  <2>1. chosen.filled = NoAnchor BY <1>3, <1>10 DEF EndsAt
  <2>2. t = stored BY <1>4, <2>1
  <2>3. OwesNext(t, s.start + 1) BY <1>5, <1>6, <1>10, <2>2 DEF OwesNext
  <2>4. Anchored(t) BY <1>6, <2>2 DEF Anchored
  <2> QED BY <1>8, <2>3, <2>4 DEF t
<1> QED BY <1>9, <1>10

\* The Scopes of a selection in their stable order, each of them once.
LEMMA ScopesListed ==
    ASSUME NEW K \in SUBSET Scopes
    PROVE  /\ Ascending(K) \in Seq(Scopes)
           /\ \A i, j \in DOMAIN Ascending(K) : Ascending(K)[i] = Ascending(K)[j] => i = j
           /\ \A k \in K : \E i \in DOMAIN Ascending(K) : Ascending(K)[i] = k
<1> DEFINE R == {pair \in K \X K : pair[1] < pair[2]}
           q == InOrder(R, K)
<1>1. IsFiniteSet(K) /\ K \in SUBSET Nat BY PublishedAssumption, FS_Subset
<1>2. \A a, b \in K : <<a, b>> \in R <=> a < b OBVIOUS
<1> HIDE DEF R
<1>3. Orders(R, K) BY <1>1, <1>2 DEF Orders
<1>4. /\ q \in Seq(K) /\ DOMAIN q = 1 .. Cardinality(K)
      /\ \A k \in K : \E i \in DOMAIN q : q[i] = k
      /\ \A i, j \in DOMAIN q : q[i] = q[j] => i = j
  BY <1>1, <1>3, InOrderLists
<1> HIDE DEF q
<1>5. q \in Seq(Scopes) BY <1>4
<1>6. Ascending(K) = q BY DEF Ascending, q, R
<1> QED BY <1>4, <1>5, <1>6

\* The turns of a strip go on where those of another ended.
Continues(s, t) ==
    IF t.scopes = <<>> THEN t.nextAnchor = NoAnchor
    ELSE \E first \in DOMAIN t.scopes :
             OwedAt(s, t.scopes, first) /\ BeginsAt(t, first) /\ OwesNext(t, first)

\* A refresh and a tick leave the strip filled.
LEMMA ReconcilingFills ==
    ASSUME NEW s \in Strips, Anchored(s), NEW K \in SUBSET Scopes, NEW confirmed \in SUBSET Representations,
           \A k \in confirmed : k[2] \in K, NEW at \in Nat
    PROVE  LET t == StripReconciled(s, Ascending(K), confirmed, at)
           IN  /\ Filled(t) /\ t.confirmed = confirmed /\ Anchored(t)
               /\ Continues(s, t)
<1> DEFINE scopes == Ascending(K)
           taken == [s EXCEPT !.reference = StripReference(s, at), !.started = TRUE,
                              !.scopes = scopes, !.confirmed = confirmed]
           mapped == Remapped(taken)
           turned == [mapped EXCEPT !.start = mapped.nextStart]
           t == StripReconciled(s, scopes, confirmed, at)
<1>1. /\ scopes \in Seq(Scopes)
      /\ \A i, j \in DOMAIN scopes : scopes[i] = scopes[j] => i = j
      /\ \A k \in K : \E i \in DOMAIN scopes : scopes[i] = k
  BY ScopesListed
<1> HIDE DEF scopes
<1>2. StripReference(s, at) \in Nat BY DEF StripReference, Strips
<1>3. /\ taken \in Strips /\ taken.scopes = scopes /\ taken.confirmed = confirmed
      /\ taken.nextAnchor = s.nextAnchor /\ taken.nextStart = s.nextStart
  BY <1>1, <1>2 DEF Strips
<1> HIDE DEF taken
<1>4. mapped \in Strips /\ SourceOf(mapped) = SourceOf(taken) BY <1>3, RemappingKeeps
<1>5. t = Selected(turned, TRUE) BY DEF StripReconciled, taken
<1>11. /\ scopes = <<>> => mapped.nextAnchor = NoAnchor
       /\ scopes # <<>> =>
              /\ mapped.nextStart + 1 \in DOMAIN scopes
              /\ mapped.nextAnchor = scopes[mapped.nextStart + 1]
              /\ OwedAt(s, scopes, mapped.nextStart + 1)
  <2>1. CASE scopes = <<>>
    <3>1. mapped = [taken EXCEPT !.nextAnchor = NoAnchor, !.nextStart = 0]
      BY <1>3, <2>1 DEF Remapped
    <3> HIDE DEF mapped
    <3> QED BY <1>3, <2>1, <3>1 DEF Strips
  <2>2. CASE scopes # <<>> BY <1>3, <2>2, RemappingOwes
  <2> QED BY <2>1, <2>2
<1> HIDE DEF mapped, t
<1>6. /\ turned \in Strips /\ turned.scopes = scopes /\ turned.confirmed = confirmed
      /\ turned.start = mapped.nextStart /\ turned.nextStart = mapped.nextStart
      /\ turned.nextAnchor = mapped.nextAnchor
  BY <1>3, <1>4 DEF Strips, SourceOf
<1> HIDE DEF turned
<1>7. Sources(turned)
  <2>1. turned.reference \in Nat /\ turned.start \in Nat BY <1>6 DEF Strips
  <2>2. \A k \in confirmed : \E i \in DOMAIN scopes : scopes[i] = k[2] BY <1>1
  <2> QED BY <1>1, <1>6, <2>1, <2>2 DEF Sources
<1>8. Filled(t) /\ SourceOf(t) = SourceOf(turned) BY <1>5, <1>6, <1>7, SelectingFills
<1>9. t.confirmed = confirmed BY <1>6, <1>8 DEF SourceOf
<1>12. t.scopes = scopes BY <1>6, <1>8 DEF SourceOf
<1>13. Anchored(t) /\ Continues(s, t)
  <2>1. CASE scopes = <<>>
    <3>2. t.nextAnchor = NoAnchor
      <4>1. SelectedFrom(turned).filled = NoAnchor BY <1>6, <2>1 DEF SelectedFrom
      <4>2. t = [turned EXCEPT !.entries = SelectedFrom(turned).entries,
                               !.eligible = Cardinality(EligibleEvents(turned))]
        BY <1>5, <4>1 DEF Selected
      <4> QED BY <1>6, <1>11, <2>1, <4>2 DEF Strips
    <3> QED BY <1>12, <2>1, <3>2 DEF Anchored, Continues
  <2>2. CASE scopes # <<>>
    <3>1. /\ turned.scopes # <<>> /\ turned.start + 1 \in DOMAIN turned.scopes
          /\ turned.nextStart = turned.start /\ turned.nextAnchor = turned.scopes[turned.start + 1]
          /\ OwedAt(s, scopes, turned.start + 1)
      BY <1>6, <1>11, <2>2
    <3>2. Anchored(t) /\ BeginsAt(t, turned.start + 1) /\ OwesNext(t, turned.start + 1)
      BY <1>5, <1>6, <1>7, <3>1, SelectingOwes
    <3> QED BY <1>6, <1>12, <2>2, <3>1, <3>2 DEF Continues
  <2> QED BY <2>1, <2>2
<1> QED BY <1>8, <1>9, <1>13 DEF t, scopes

LEMMA StripTickingFills ==
    ASSUME NEW s, Filled(s), Anchored(s), NEW at \in Nat
    PROVE  LET t == StripTicked(s, at)
           IN  /\ Filled(t) /\ t.confirmed = s.confirmed
               /\ Anchored(t) /\ t.nextAnchor = s.nextAnchor
<1> DEFINE later == [s EXCEPT !.reference = at]
<1>1. s \in Strips /\ Sources(s) BY DEF Filled
<1>2. StripTicked(s, at) = s \/ StripTicked(s, at) = Selected(later, FALSE)
  BY DEF StripTicked, Aged
<1>3. /\ later \in Strips /\ later.scopes = s.scopes /\ later.confirmed = s.confirmed
      /\ later.reference = at /\ later.start = s.start
  BY <1>1 DEF Strips
<1>4. Sources(later) BY <1>1, <1>3 DEF Sources
<1>7. later.nextAnchor = s.nextAnchor /\ later.nextStart = s.nextStart BY <1>1 DEF Strips
<1> HIDE DEF later
<1>8. LET t == Selected(later, FALSE)
      IN  Anchored(t) /\ t.nextAnchor = s.nextAnchor
  <2> DEFINE t == Selected(later, FALSE)
  <2>1. t = [later EXCEPT !.entries = SelectedFrom(later).entries,
                          !.eligible = Cardinality(EligibleEvents(later))]
    BY DEF Selected
  <2>2. t.nextAnchor = s.nextAnchor /\ t.nextStart = s.nextStart /\ t.scopes = s.scopes
    BY <1>3, <1>7, <2>1 DEF Strips
  <2> QED BY <2>2 DEF Anchored
<1>5. Filled(Selected(later, FALSE)) /\ SourceOf(Selected(later, FALSE)) = SourceOf(later)
  BY <1>3, <1>4, SelectingFills
<1>6. Selected(later, FALSE).confirmed = s.confirmed BY <1>3, <1>5 DEF SourceOf
<1> QED BY <1>2, <1>5, <1>6, <1>8

-----------------------------------------------------------------------------
(* The strip: what a tick leaves of it *)

\* The same strip at a later instant: whom its events are from is as before, and what
\* is still young enough was so before.
Later(s, t) ==
    /\ t.scopes = s.scopes /\ t.confirmed = s.confirmed /\ t.start = s.start
    /\ s.reference <= t.reference

LEMMA YoungStays ==
    ASSUME NEW s, NEW t, Sources(s), Sources(t), Later(s, t)
    PROVE  /\ \A e \in Events : Eligible(t, e) => Eligible(s, e)
           /\ \A d, e \in Events : NewerEvent(d, e) /\ Eligible(t, e) => Eligible(t, d)
           /\ EligibleEvents(t) = {e \in EligibleEvents(s) : Eligible(t, e)}
           /\ \A j : Own(t, j) = {e \in Own(s, j) : Eligible(t, e)}
<1>1. /\ s.reference \in Nat /\ t.reference \in Nat /\ s.reference <= t.reference
      /\ t.scopes = s.scopes /\ t.confirmed = s.confirmed
  BY DEF Sources, Later
<1>2. StripWindow \in Nat /\ \A e \in Events : OccurredAt[e] \in Nat
  BY PublishedAssumption, StripAssumption
<1>3. \A e \in Events : Eligible(t, e) => Eligible(s, e) BY <1>1, <1>2 DEF Eligible, StripAge
<1>4. \A d, e \in Events : NewerEvent(d, e) /\ Eligible(t, e) => Eligible(t, d)
  BY <1>1, <1>2 DEF Eligible, StripAge, NewerEvent
<1>5. EligibleEvents(t) = {e \in EligibleEvents(s) : Eligible(t, e)}
  <2>1. \A k \in s.confirmed : k[1] \in Events BY DEF Sources, Representations
  <2> QED BY <1>1, <1>3, <2>1 DEF EligibleEvents
<1>6. \A j : Own(t, j) = {e \in Own(s, j) : Eligible(t, e)} BY <1>1, <1>5 DEF Own
<1> QED BY <1>3, <1>4, <1>5, <1>6

\* A queue has each candidate behind those that are newer.
LEMMA QueuePlaces ==
    ASSUME NEW s, Sources(s), NEW j \in DOMAIN s.scopes
    PROVE  \A i \in DOMAIN QueueOf(s, j) :
               i = Cardinality({d \in Own(s, j) : NewerEvent(d, QueueOf(s, j)[i])}) + 1
<1> DEFINE K == Own(s, j)
           R == {pair \in K \X K : NewerEvent(pair[1], pair[2])}
           q == QueueOf(s, j)
<1>1. K \in SUBSET Events
  BY DEF Own, EligibleEvents, Sources, Representations
<1>2. q = InOrder(R, K) BY DEF QueueOf, Queue, Own
<1>3. Orders(R, K) /\ IsFiniteSet(K) BY <1>1, EventsOrdered
<1>4. DOMAIN q = 1 .. Cardinality(K) /\ Cardinality(K) \in Nat
      /\ \A i \in DOMAIN q : q[i] \in K /\ Rank(R, K, q[i]) = i - 1
  <2> HIDE DEF R, K, q
  <2> QED BY <1>2, <1>3, InOrderPlaces
<1>5. ASSUME NEW i \in DOMAIN q
      PROVE  i = Cardinality({d \in K : NewerEvent(d, q[i])}) + 1
  <2>1. {d \in K : NewerEvent(d, q[i])} = {d \in K : <<d, q[i]>> \in R} BY <1>4
  <2>2. Cardinality({d \in K : NewerEvent(d, q[i])}) = i - 1 BY <1>4, <2>1 DEF Rank
  <2>3. i \in Nat BY <1>4
  <2> QED BY <2>2, <2>3
<1> QED BY <1>5 DEF q, K

\* What a later instant leaves of a queue are its first candidates.
Shortened(q, p, t) ==
    /\ Len(p) \in Nat /\ DOMAIN p = 1 .. Len(p) /\ Len(p) <= Len(q)
    /\ \A i \in 1 .. Len(p) : p[i] = q[i] /\ Eligible(t, q[i])
    /\ \A i \in 1 .. Len(q) : Eligible(t, q[i]) => i <= Len(p)
LEMMA QueueShortens ==
    ASSUME NEW s, NEW t, Sources(s), Sources(t), Later(s, t), NEW j \in DOMAIN s.scopes
    PROVE  Shortened(QueueOf(s, j), QueueOf(t, j), t)
<1> DEFINE q == QueueOf(s, j)
           p == QueueOf(t, j)
           K == Own(s, j)
           L == Own(t, j)
<1>1. Lists(q, K) /\ Lists(p, L) BY QueueLists DEF Later
<1>2. L = {e \in K : Eligible(t, e)} /\ K \in SUBSET Events
  <2>1. K \in SUBSET Events BY QueuesCover DEF Own
  <2> QED BY <2>1, YoungStays
<1>3. /\ \A i \in DOMAIN q : i = Cardinality({d \in K : NewerEvent(d, q[i])}) + 1
      /\ \A i \in DOMAIN p : i = Cardinality({d \in L : NewerEvent(d, p[i])}) + 1
  BY QueuePlaces DEF Later
<1>4. ASSUME NEW e \in L PROVE {d \in L : NewerEvent(d, e)} = {d \in K : NewerEvent(d, e)}
  BY <1>2, YoungStays
<1>5. /\ Len(q) \in Nat /\ DOMAIN q = 1 .. Len(q) /\ \A i \in DOMAIN q : q[i] \in K
      /\ \A e \in K : \E i \in DOMAIN q : q[i] = e
  BY <1>1 DEF Lists
<1>6. /\ Len(p) \in Nat /\ DOMAIN p = 1 .. Len(p) /\ \A i \in DOMAIN p : p[i] \in L
      /\ \A e \in L : \E i \in DOMAIN p : p[i] = e
  BY <1>1 DEF Lists
<1> HIDE DEF q, p, K, L
<1>7. ASSUME NEW i \in DOMAIN q, NEW l \in DOMAIN p, q[i] = p[l] PROVE i = l
  <2>1. p[l] \in L BY <1>6
  <2>2. {d \in L : NewerEvent(d, p[l])} = {d \in K : NewerEvent(d, q[i])} BY <1>4, <1>7, <2>1
  <2> QED BY <1>3, <2>2
<1>8. ASSUME NEW i \in DOMAIN p PROVE i \in DOMAIN q /\ p[i] = q[i] /\ Eligible(t, q[i])
  <2>1. p[i] \in K /\ Eligible(t, p[i]) BY <1>2, <1>6
  <2>2. PICK l \in DOMAIN q : q[l] = p[i] BY <1>5, <2>1
  <2>3. l = i BY <1>7, <2>2
  <2> QED BY <2>1, <2>2, <2>3
<1>9. ASSUME NEW i \in DOMAIN q, Eligible(t, q[i]) PROVE i \in DOMAIN p
  <2>1. q[i] \in L BY <1>2, <1>5, <1>9
  <2>2. PICK l \in DOMAIN p : p[l] = q[i] BY <1>6, <2>1
  <2>3. l = i BY <1>7, <2>2
  <2> QED BY <2>2, <2>3
<1>10. Len(p) <= Len(q)
  <2>1. CASE Len(p) = 0 BY <1>5, <2>1
  <2>2. CASE Len(p) > 0
    <3>1. Len(p) \in DOMAIN p BY <1>6, <2>2
    <3>2. Len(p) \in 1 .. Len(q) BY <1>5, <1>8, <3>1
    <3> QED BY <1>5, <3>2
  <2> QED BY <1>6, <2>1, <2>2
<1>11. Shortened(q, p, t)
  <2>1. \A i \in 1 .. Len(p) : p[i] = q[i] /\ Eligible(t, q[i]) BY <1>6, <1>8
  <2>2. \A i \in 1 .. Len(q) : Eligible(t, q[i]) => i <= Len(p) BY <1>5, <1>6, <1>9
  <2> QED BY <1>6, <1>10, <2>1, <2>2 DEF Shortened
<1> QED BY <1>11 DEF q, p

\* What is left of some entries at an instant comes first in others, in its order; or is
\* all of them.
Keeps(t, entries, w) ==
    /\ entries \in Seq(Entry) /\ w \in Seq(Entry)
    /\ \A i \in DOMAIN entries :
           Eligible(t, entries[i].event) =>
               Left(t, entries, i) \in DOMAIN w /\ w[Left(t, entries, i)] = entries[i]
Exact(t, entries, w) ==
    /\ Keeps(t, entries, w) /\ StripOf(w) \subseteq StripOf(entries)
    /\ Len(w) = Left(t, entries, Len(entries))

LEMMA LeftCounts ==
    ASSUME NEW t, NEW entries \in Seq(Entry)
    PROVE  /\ \A i \in 0 .. Len(entries) : Left(t, entries, i) \in Nat /\ Left(t, entries, i) <= i
           /\ Left(t, entries, 0) = 0
<1>1. ASSUME NEW i \in 0 .. Len(entries)
      PROVE  Left(t, entries, i) \in Nat /\ Left(t, entries, i) <= i
  <2> DEFINE S == {j \in 1 .. i : Eligible(t, entries[j].event)}
  <2>1. i \in Nat OBVIOUS
  <2>2. IsFiniteSet(1 .. i) /\ Cardinality(1 .. i) = i
    <3>1. 1 \in Int /\ i \in Int BY <2>1
    <3>2. IsFiniteSet(1 .. i) /\ Cardinality(1 .. i) = IF 1 > i THEN 0 ELSE i - 1 + 1
      BY <3>1, FS_Interval
    <3> QED BY <2>1, <3>2
  <2>3. IsFiniteSet(S) /\ Cardinality(S) <= Cardinality(1 .. i) BY <2>2, FS_Subset
  <2>4. Cardinality(S) \in Nat BY <2>3, FS_CardinalityType
  <2> QED BY <2>2, <2>3, <2>4 DEF Left
<1>2. Left(t, entries, 0) = 0
  <2>1. {j \in 1 .. 0 : Eligible(t, entries[j].event)} = {} OBVIOUS
  <2> QED BY <2>1, FS_EmptySet DEF Left
<1> QED BY <1>1, <1>2

\* One more entry leaves the places of the others as they are.
LEMMA LeftAppended ==
    ASSUME NEW t, NEW entries \in Seq(Entry), NEW x \in Entry
    PROVE  LET v == Append(entries, x)
               l == Len(entries)
           IN  /\ \A i \in 0 .. l : Left(t, v, i) = Left(t, entries, i)
               /\ Left(t, v, l + 1)
                      = Left(t, entries, l) + (IF Eligible(t, x.event) THEN 1 ELSE 0)
<1> DEFINE v == Append(entries, x)
           l == Len(entries)
           S(i) == {j \in 1 .. i : Eligible(t, entries[j].event)}
           T(i) == {j \in 1 .. i : Eligible(t, v[j].event)}
<1>1. /\ l \in Nat /\ v[l + 1] = x /\ \A a \in 1 .. l : v[a] = entries[a]
  BY EntryAppended
<1> HIDE DEF v, l
<1>2. ASSUME NEW i \in 0 .. l PROVE T(i) = S(i)
  <2>1. \A j \in 1 .. i : j \in 1 .. l BY <1>1
  <2> QED BY <1>1, <2>1
<1>3. T(l + 1) = IF Eligible(t, x.event) THEN S(l) \cup {l + 1} ELSE S(l)
  <2>1. 1 .. l + 1 = (1 .. l) \cup {l + 1} BY <1>1
  <2> QED BY <1>1, <2>1
<1>4. IsFiniteSet(S(l)) /\ l + 1 \notin S(l) /\ Cardinality(S(l)) \in Nat
  <2>1. IsFiniteSet(1 .. l)
    <3>1. 1 \in Int /\ l \in Int BY <1>1
    <3> QED BY <3>1, FS_Interval
  <2>2. IsFiniteSet(S(l)) BY <2>1, FS_Subset
  <2> QED BY <1>1, <2>2, FS_CardinalityType
<1>5. Left(t, v, l + 1) = Left(t, entries, l) + (IF Eligible(t, x.event) THEN 1 ELSE 0)
  <2>1. CASE Eligible(t, x.event)
    <3>1. Cardinality(T(l + 1)) = Cardinality(S(l)) + 1
      <4>1. T(l + 1) = S(l) \cup {l + 1} BY <1>3, <2>1
      <4> HIDE DEF S, T
      <4> QED BY <1>4, <4>1, FS_AddElement
    <3> QED BY <2>1, <3>1 DEF Left
  <2>2. CASE ~Eligible(t, x.event)
    <3>1. T(l + 1) = S(l) BY <1>3, <2>2
    <3>2. Left(t, v, l + 1) = Cardinality(T(l + 1)) /\ Left(t, entries, l) = Cardinality(S(l))
      BY DEF Left
    <3> HIDE DEF S, T
    <3> QED BY <1>4, <2>2, <3>1, <3>2
  <2> QED BY <2>1, <2>2
<1>6. \A i \in 0 .. l : Left(t, v, i) = Left(t, entries, i) BY <1>2 DEF Left
<1> QED BY <1>5, <1>6 DEF v, l

\* Keeping what is left while either grows.
LEMMA KeepsLonger ==
    ASSUME NEW t, NEW entries, NEW w, Keeps(t, entries, w), NEW x \in Entry
    PROVE  Keeps(t, entries, Append(w, x))
<1> DEFINE v == Append(w, x)
<1>1. w \in Seq(Entry) /\ entries \in Seq(Entry) BY DEF Keeps
<1>2. /\ v \in Seq(Entry) /\ DOMAIN w = 1 .. Len(w) /\ DOMAIN v = 1 .. Len(w) + 1
      /\ Len(w) \in Nat /\ \A a \in 1 .. Len(w) : v[a] = w[a]
  BY <1>1, EntryAppended
<1>3. \A a \in DOMAIN w : a \in DOMAIN v /\ v[a] = w[a] BY <1>2
<1> HIDE DEF v
<1>4. Keeps(t, entries, v) BY <1>1, <1>2, <1>3 DEF Keeps
<1> QED BY <1>4 DEF v

LEMMA ExactOld ==
    ASSUME NEW t, NEW entries, NEW w, Exact(t, entries, w), NEW x \in Entry,
           ~Eligible(t, x.event)
    PROVE  Exact(t, Append(entries, x), w)
<1> DEFINE v == Append(entries, x)
           l == Len(entries)
<1>1. /\ w \in Seq(Entry) /\ entries \in Seq(Entry) /\ Keeps(t, entries, w)
      /\ StripOf(w) \subseteq StripOf(entries) /\ Len(w) = Left(t, entries, l)
  BY DEF Exact, Keeps
<1>2. /\ v \in Seq(Entry) /\ l \in Nat /\ DOMAIN entries = 1 .. l /\ DOMAIN v = 1 .. l + 1
      /\ v[l + 1] = x /\ \A a \in 1 .. l : v[a] = entries[a]
      /\ StripOf(v) = StripOf(entries) \cup {x.event} /\ Len(v) = l + 1
  BY <1>1, EntryAppended
<1>3. \A i \in 0 .. l : Left(t, v, i) = Left(t, entries, i) BY <1>1, LeftAppended
<1>4. Left(t, v, l + 1) = Left(t, entries, l)
  <2>1. Left(t, v, l + 1) = Left(t, entries, l) + 0 BY <1>1, LeftAppended
  <2>2. Left(t, entries, l) \in Nat BY <1>1, <1>2, LeftCounts
  <2> QED BY <2>1, <2>2
<1> HIDE DEF v, l
<1>5. ASSUME NEW i \in DOMAIN v, Eligible(t, v[i].event)
      PROVE  Left(t, v, i) \in DOMAIN w /\ w[Left(t, v, i)] = v[i]
  <2>1. i \in 1 .. l /\ i \in 0 .. l BY <1>2, <1>5
  <2>2. i \in DOMAIN entries /\ v[i] = entries[i] /\ Left(t, v, i) = Left(t, entries, i)
    BY <1>2, <1>3, <2>1
  <2> QED BY <1>1, <1>5, <2>2 DEF Keeps
<1>6. Exact(t, v, w)
  <2>1. Keeps(t, v, w) BY <1>1, <1>2, <1>5 DEF Keeps
  <2> QED BY <1>1, <1>2, <1>4, <2>1 DEF Exact
<1> QED BY <1>6 DEF v

LEMMA ExactYoung ==
    ASSUME NEW t, NEW entries, NEW w, Exact(t, entries, w), NEW x \in Entry,
           Eligible(t, x.event)
    PROVE  Exact(t, Append(entries, x), Append(w, x))
<1> DEFINE v == Append(entries, x)
           l == Len(entries)
           u == Append(w, x)
           k == Len(w)
<1>1. /\ w \in Seq(Entry) /\ entries \in Seq(Entry) /\ Keeps(t, entries, w)
      /\ StripOf(w) \subseteq StripOf(entries) /\ k = Left(t, entries, l)
  BY DEF Exact, Keeps
<1>2. /\ v \in Seq(Entry) /\ l \in Nat /\ DOMAIN entries = 1 .. l /\ DOMAIN v = 1 .. l + 1
      /\ v[l + 1] = x /\ \A a \in 1 .. l : v[a] = entries[a]
      /\ StripOf(v) = StripOf(entries) \cup {x.event} /\ Len(v) = l + 1
  BY <1>1, EntryAppended
<1>3. /\ u \in Seq(Entry) /\ k \in Nat /\ DOMAIN w = 1 .. k /\ DOMAIN u = 1 .. k + 1
      /\ u[k + 1] = x /\ \A a \in 1 .. k : u[a] = w[a]
      /\ StripOf(u) = StripOf(w) \cup {x.event} /\ Len(u) = k + 1
  BY <1>1, EntryAppended
<1>4. \A i \in 0 .. l : Left(t, v, i) = Left(t, entries, i) BY <1>1, LeftAppended
<1>5. Left(t, v, l + 1) = k + 1 BY <1>1, LeftAppended
<1> HIDE DEF v, l, u, k
<1>6. ASSUME NEW i \in DOMAIN v, Eligible(t, v[i].event)
      PROVE  Left(t, v, i) \in DOMAIN u /\ u[Left(t, v, i)] = v[i]
  <2>1. CASE i = l + 1 BY <1>2, <1>3, <1>5, <2>1
  <2>2. CASE i # l + 1
    <3>1. i \in 1 .. l /\ i \in 0 .. l BY <1>2, <2>2
    <3>2. i \in DOMAIN entries /\ v[i] = entries[i] /\ Left(t, v, i) = Left(t, entries, i)
      BY <1>2, <1>4, <3>1
    <3>3. Left(t, v, i) \in 1 .. k /\ w[Left(t, v, i)] = v[i]
      BY <1>1, <1>3, <1>6, <3>2 DEF Keeps
    <3> QED BY <1>3, <3>3
  <2> QED BY <2>1, <2>2
<1>7. Exact(t, v, u)
  <2>1. Keeps(t, v, u) BY <1>2, <1>3, <1>6 DEF Keeps
  <2> QED BY <1>1, <1>2, <1>3, <1>5, <2>1 DEF Exact
<1> QED BY <1>7 DEF v, u

\* Two selections side by side, of a strip and of the same at a later instant: they take
\* the same turns (Alongside) until one of them has ended, the earlier with what is left
\* of it already in the later (Ended), or the later with all that is young (Complete).
Alongside(s, t, r, u) ==
    /\ u.turn = r.turn /\ Exact(t, r.entries, u.entries)
    /\ \A j \in 1 .. Len(s.scopes) : u.cursors[j] = Smaller(r.cursors[j], Len(QueueOf(t, j)))
Ended(s, t, r, u) == Stopped(s, r) /\ Keeps(t, r.entries, u.entries)
Complete(t, r, u) ==
    /\ Stopped(t, u) /\ Exact(t, r.entries, u.entries)
    /\ EligibleEvents(t) \subseteq StripOf(u.entries)
Shadows(s, t, r, u) == Alongside(s, t, r, u) \/ Ended(s, t, r, u) \/ Complete(t, r, u)

\* What a turn makes of the entries.
LEMMA TurnEntries ==
    ASSUME NEW s, Sources(s), s.scopes # <<>>, NEW r, RunOk(s, r)
    PROVE  /\ r.entries \in Seq(Entry) /\ Turn(s, r).entries \in Seq(Entry)
           /\ \/ Turn(s, r).entries = r.entries
              \/ \E x \in Entry : /\ Turn(s, r).entries = Append(r.entries, x)
                                  /\ x.event \notin StripOf(r.entries)
                                  /\ x.event \in EligibleEvents(s)
<1> DEFINE v == Turn(s, r)
           n == Len(s.scopes)
           m == r.turn + 1
           e == Next1(s, r)
           x == [event |-> e, sponsor |-> s.scopes[m]]
<1>1. /\ v \in Runs(n)
      /\ \/ Stopped(s, r) /\ v = r
         \/ ~Stopped(s, r) /\ Idles(s, r, v)
         \/ ~Stopped(s, r) /\ Examines(s, r, v)
  BY TurnMoves
<1>2. r.entries \in Seq(Entry) /\ v.entries \in Seq(Entry) /\ r \in Runs(n)
  BY <1>1 DEF Runs, RunOk
<1>3. CASE Stopped(s, r) /\ v = r BY <1>2, <1>3
<1>4. CASE ~Stopped(s, r) /\ Idles(s, r, v)
  <2>1. v.entries = r.entries BY <1>4 DEF Idles
  <2> QED BY <1>2, <2>1
<1>5. CASE ~Stopped(s, r) /\ Examines(s, r, v)
  <2>1. r.cursors[m] < Len(QueueOf(s, m)) BY <1>5 DEF Examines, Advances
  <2>2. /\ n \in Nat \ {0} /\ DOMAIN s.scopes = 1 .. n /\ s.scopes \in [1 .. n -> Scopes]
    BY DEF Sources
  <2>3. m \in 1 .. n /\ r.cursors[m] \in Nat BY <1>2, <2>2 DEF Runs
  <2>4. Lists(QueueOf(s, m), Own(s, m)) BY <2>2, <2>3, QueueLists
  <2>5. e \in Own(s, m)
    <3>1. r.cursors[m] + 1 \in DOMAIN QueueOf(s, m) BY <2>1, <2>3, <2>4 DEF Lists
    <3> QED BY <2>4, <3>1 DEF Lists, Next1
  <2>6. e \in EligibleEvents(s) /\ e \in Events BY <2>5, QueuesCover DEF Own
  <2>7. x \in Entry BY <2>2, <2>3, <2>6 DEF Entry
  <2>8. v.entries = r.entries \/ (v.entries = Append(r.entries, x) /\ e \notin StripOf(r.entries))
    BY <1>5 DEF Examines
  <2> HIDE DEF v, e
  <2>9. x.event = e OBVIOUS
  <2> HIDE DEF x
  <2> QED BY <1>2, <2>6, <2>7, <2>8, <2>9 DEF v
<1> QED BY <1>1, <1>3, <1>4, <1>5

\* The earlier selection has ended.
LEMMA EndedTurns ==
    ASSUME NEW s, NEW t, Sources(s), Sources(t), s.scopes # <<>>, t.scopes # <<>>,
           NEW r, NEW u, RunOk(s, r), RunOk(t, u), Ended(s, t, r, u)
    PROVE  Ended(s, t, Turn(s, r), Turn(t, u))
<1>1. Turn(s, r) = r BY DEF Ended, Turn, Stopped
<1>2. Keeps(t, r.entries, Turn(t, u).entries)
  <2>1. Keeps(t, r.entries, u.entries) BY DEF Ended
  <2>2. CASE Turn(t, u).entries = u.entries BY <2>1, <2>2
  <2>3. CASE Turn(t, u).entries # u.entries
    <3>1. PICK x \in Entry : Turn(t, u).entries = Append(u.entries, x) BY <2>3, TurnEntries
    <3> QED BY <2>1, <3>1, KeepsLonger
  <2> QED BY <2>2, <2>3
<1> QED BY <1>1, <1>2 DEF Ended

\* The later selection has all that is young.
LEMMA CompleteTurns ==
    ASSUME NEW s, NEW t, Sources(s), Sources(t), s.scopes # <<>>, t.scopes # <<>>, Later(s, t),
           NEW r, NEW u, RunOk(s, r), RunOk(t, u), Complete(t, r, u)
    PROVE  Complete(t, Turn(s, r), Turn(t, u))
<1>1. Turn(t, u) = u BY DEF Complete, Turn, Stopped
<1>2. Exact(t, Turn(s, r).entries, u.entries)
  <2>1. CASE Turn(s, r).entries = r.entries BY <2>1 DEF Complete
  <2>2. CASE Turn(s, r).entries # r.entries
    <3>1. PICK x \in Entry : /\ Turn(s, r).entries = Append(r.entries, x)
                             /\ x.event \notin StripOf(r.entries)
                             /\ x.event \in EligibleEvents(s)
      BY <2>2, TurnEntries
    <3>2. ~Eligible(t, x.event)
      <4>1. EligibleEvents(t) = {e \in EligibleEvents(s) : Eligible(t, e)} BY YoungStays
      <4>2. StripOf(u.entries) \subseteq StripOf(r.entries) BY DEF Complete, Exact
      <4> QED BY <3>1, <4>1, <4>2 DEF Complete
    <3> QED BY <3>1, <3>2, ExactOld DEF Complete
  <2> QED BY <2>1, <2>2
<1> QED BY <1>1, <1>2 DEF Complete

\* Of two selections side by side one that has ended shows in the entries.
LEMMA AlongsideEnds ==
    ASSUME NEW s, NEW t, Sources(s), Sources(t), s.scopes # <<>>, t.scopes # <<>>,
           NEW r, NEW u, RunOk(s, r), RunOk(t, u), Alongside(s, t, r, u)
    PROVE  /\ Stopped(s, r) => Ended(s, t, r, u)
           /\ Stopped(t, u) => Ended(s, t, r, u) \/ Complete(t, r, u)
<1>1. Exact(t, r.entries, u.entries) /\ Keeps(t, r.entries, u.entries) BY DEF Alongside, Exact
<1>2. Stopped(s, r) => Ended(s, t, r, u) BY <1>1 DEF Ended
<1>3. ASSUME Len(u.entries) = StripStored PROVE Stopped(s, r)
  <2>1. /\ r.entries \in Seq(Entry) /\ Len(r.entries) <= StripStored
    BY DEF RunOk, Runs, EntriesHold
  <2>2. Len(r.entries) \in Nat /\ StripStored \in Nat BY <2>1, StripAssumption
  <2>3. Len(u.entries) = Left(t, r.entries, Len(r.entries)) BY <1>1 DEF Exact
  <2>4. Len(r.entries) \in 0 .. Len(r.entries) BY <2>2
  <2>5. Left(t, r.entries, Len(r.entries)) <= Len(r.entries) BY <2>1, <2>4, LeftCounts
  <2>6. Len(r.entries) = StripStored BY <1>3, <2>1, <2>2, <2>3, <2>5
  <2> QED BY <2>6 DEF Stopped
<1>4. ASSUME u.idle >= Len(t.scopes) PROVE EligibleEvents(t) \subseteq StripOf(u.entries)
  <2> DEFINE n == Len(t.scopes)
  <2>1. n \in Nat /\ DOMAIN t.scopes = 1 .. n BY DEF Sources
  <2>2. u.turn \in 0 .. n - 1 /\ u.idle \in Nat BY <2>1 DEF RunOk, Runs
  <2>3. \A j \in 1 .. n : Ago(n, u.turn, j) <= u.idle BY <1>4, <2>1, <2>2 DEF Ago
  <2> SUFFICES ASSUME NEW e \in EligibleEvents(t) PROVE e \in StripOf(u.entries) OBVIOUS
  <2>4. PICK j \in 1 .. n : e \in Own(t, j) BY <2>1, QueuesCover
  <2>5. Lists(QueueOf(t, j), Own(t, j)) BY <2>1, QueueLists
  <2>6. PICK i \in DOMAIN QueueOf(t, j) : QueueOf(t, j)[i] = e BY <2>4, <2>5 DEF Lists
  <2>7. Examined(t, u, j) BY DEF RunOk
  <2>8. u.cursors[j] = Len(QueueOf(t, j)) BY <2>3, <2>7 DEF Examined
  <2>9. i \in 1 .. u.cursors[j] BY <2>5, <2>6, <2>8 DEF Lists
  <2> QED BY <2>6, <2>7, <2>9 DEF Examined
<1>5. Stopped(t, u) => Ended(s, t, r, u) \/ Complete(t, r, u)
  BY <1>1, <1>2, <1>3, <1>4 DEF Stopped, Complete
<1> QED BY <1>2, <1>5

\* Two selections side by side take one more turn.
LEMMA AlongsideTurns ==
    ASSUME NEW s, NEW t, Sources(s), Sources(t), s.scopes # <<>>, t.scopes # <<>>, Later(s, t),
           NEW r, NEW u, RunOk(s, r), RunOk(t, u), Alongside(s, t, r, u),
           ~Stopped(s, r), ~Stopped(t, u)
    PROVE  Alongside(s, t, Turn(s, r), Turn(t, u))
<1> DEFINE n == Len(s.scopes)
           m == r.turn + 1
           q == QueueOf(s, m)
           p == QueueOf(t, m)
           c == r.cursors[m]
           d == u.cursors[m]
           e == q[c + 1]
           r2 == Turn(s, r)
           u2 == Turn(t, u)
           x == [event |-> e, sponsor |-> s.scopes[m]]
           next == IF m = n THEN 0 ELSE m
<1> SUFFICES Alongside(s, t, r2, u2) OBVIOUS
<1>1. /\ n \in Nat \ {0} /\ DOMAIN s.scopes = 1 .. n /\ s.scopes \in [1 .. n -> Scopes]
      /\ t.scopes = s.scopes /\ u.turn = r.turn
  BY DEF Sources, Later, Alongside
<1>2. /\ r \in Runs(n) /\ u \in Runs(n) /\ m \in 1 .. n
      /\ r.cursors \in [1 .. n -> Nat] /\ u.cursors \in [1 .. n -> Nat]
  BY <1>1 DEF RunOk, Runs
<1>3. c \in Nat /\ d \in Nat BY <1>2
<1>4. /\ Lists(q, Own(s, m)) /\ Shortened(q, p, t)
  BY <1>1, <1>2, QueueLists, QueueShortens
<1>5. Len(q) \in Nat /\ Len(p) \in Nat /\ Len(p) <= Len(q) BY <1>4 DEF Lists, Shortened
<1>6. d = Smaller(c, Len(p)) BY <1>2 DEF Alongside
<1>7. Idles(s, r, r2) \/ Examines(s, r, r2) BY TurnMoves
<1>8. Idles(t, u, u2) \/ Examines(t, u, u2) BY TurnMoves
<1>9. Exact(t, r.entries, u.entries) BY DEF Alongside
<1>10. r2.turn = next /\ u2.turn = next
  <2>1. r2.turn = next BY <1>7 DEF Idles, Examines, Advances
  <2>2. u2.turn = next BY <1>1, <1>8 DEF Idles, Examines, Advances
  <2> QED BY <2>1, <2>2
<1>11. /\ Idles(s, r, r2) => c = Len(q) /\ r2.cursors = r.cursors /\ r2.entries = r.entries
       /\ Idles(t, u, u2) => d = Len(p) /\ u2.cursors = u.cursors /\ u2.entries = u.entries
  BY <1>1 DEF Idles
<1>12. /\ Examines(s, r, r2) => c < Len(q) /\ r2.cursors = [r.cursors EXCEPT ![m] = c + 1]
       /\ Examines(t, u, u2) => d < Len(p) /\ u2.cursors = [u.cursors EXCEPT ![m] = d + 1]
  BY <1>1 DEF Examines, Advances
<1>13. Examines(s, r, r2) => \/ e \in StripOf(r.entries) /\ r2.entries = r.entries
                             \/ e \notin StripOf(r.entries) /\ r2.entries = Append(r.entries, x)
  BY DEF Examines, Next1
<1>14. Examines(t, u, u2) =>
           \/ p[d + 1] \in StripOf(u.entries) /\ u2.entries = u.entries
           \/ /\ p[d + 1] \notin StripOf(u.entries)
              /\ u2.entries = Append(u.entries, [event |-> p[d + 1], sponsor |-> s.scopes[m]])
  BY <1>1 DEF Examines, Next1
<1>15. Examines(s, r, r2) => e \in Own(s, m) /\ x \in Entry /\ x.event = e
  <2> SUFFICES ASSUME Examines(s, r, r2) PROVE e \in Own(s, m) /\ x \in Entry /\ x.event = e
    OBVIOUS
  <2>1. c + 1 \in DOMAIN q BY <1>3, <1>4, <1>5, <1>12 DEF Lists
  <2>2. e \in Own(s, m) BY <1>4, <2>1 DEF Lists
  <2>3. e \in Events BY <2>2, QueuesCover DEF Own
  <2> QED BY <1>1, <1>2, <2>2, <2>3 DEF Entry
<1> HIDE DEF r2, u2, q, p, c, d, e, x
<1>16. \A j \in 1 .. n : u.cursors[j] = Smaller(r.cursors[j], Len(QueueOf(t, j)))
  BY DEF Alongside
<1>17. r.cursors[m] = c /\ u.cursors[m] = d /\ QueueOf(t, m) = p BY DEF c, d, p
<1> HIDE DEF m, n, next
<1>18. ASSUME Exact(t, r2.entries, u2.entries),
              \A j \in 1 .. n : u2.cursors[j] = Smaller(r2.cursors[j], Len(QueueOf(t, j)))
       PROVE  Alongside(s, t, r2, u2)
  BY <1>10, <1>18 DEF Alongside, n
\* The Scope is idle at both instants.
<1>19. CASE Idles(s, r, r2)
  <2>1. d = Len(p) BY <1>5, <1>6, <1>11, <1>19 DEF Smaller
  <2>2. Idles(t, u, u2) BY <1>5, <1>8, <1>12, <2>1
  <2> QED BY <1>9, <1>11, <1>16, <1>18, <1>19, <2>2
\* The candidate is too old at the later instant.
<1>20. CASE Examines(s, r, r2) /\ c >= Len(p)
  <2>1. d = Len(p) BY <1>3, <1>5, <1>6, <1>20 DEF Smaller
  <2>2. Idles(t, u, u2) BY <1>5, <1>8, <1>12, <2>1
  <2>3. ~Eligible(t, x.event)
    <3>1. c + 1 \in 1 .. Len(q) /\ ~(c + 1 <= Len(p)) BY <1>3, <1>5, <1>12, <1>20
    <3>2. ~Eligible(t, q[c + 1]) BY <1>4, <3>1 DEF Shortened
    <3> QED BY <1>15, <1>20, <3>2 DEF e
  <2>4. Exact(t, r2.entries, u2.entries)
    BY <1>9, <1>11, <1>13, <1>15, <1>20, <2>2, <2>3, ExactOld
  <2>5. ASSUME NEW j \in 1 .. n PROVE u2.cursors[j] = Smaller(r2.cursors[j], Len(QueueOf(t, j)))
    <3>1. u2.cursors = u.cursors /\ r2.cursors = [r.cursors EXCEPT ![m] = c + 1]
      BY <1>11, <1>12, <1>20, <2>2
    <3>2. CASE j = m
      <4>1. r2.cursors[j] = c + 1 /\ u2.cursors[j] = d BY <1>2, <1>17, <3>1, <3>2
      <4>2. Smaller(c + 1, Len(p)) = Len(p) BY <1>3, <1>5, <1>20 DEF Smaller
      <4> QED BY <1>17, <2>1, <3>2, <4>1, <4>2
    <3>3. CASE j # m
      <4>1. r2.cursors[j] = r.cursors[j] BY <1>2, <3>1, <3>3
      <4> QED BY <1>16, <3>1, <4>1
    <3> QED BY <3>2, <3>3
  <2> QED BY <1>18, <2>4, <2>5
\* The candidate is young enough at both.
<1>21. CASE Examines(s, r, r2) /\ c < Len(p)
  <2>1. d = c BY <1>3, <1>5, <1>6, <1>21 DEF Smaller
  <2>2. Examines(t, u, u2)
    <3>1. d # Len(p) BY <1>3, <1>5, <1>21, <2>1
    <3> QED BY <1>8, <1>11, <3>1
  <2>3. p[d + 1] = e /\ Eligible(t, e)
    <3>1. c + 1 \in 1 .. Len(p) BY <1>3, <1>5, <1>21
    <3> QED BY <1>4, <2>1, <3>1 DEF Shortened, e
  <2>4. e \in StripOf(r.entries) <=> e \in StripOf(u.entries)
    <3>1. StripOf(u.entries) \subseteq StripOf(r.entries) BY <1>9 DEF Exact
    <3>2. ASSUME e \in StripOf(r.entries) PROVE e \in StripOf(u.entries)
      <4>1. PICK i \in DOMAIN r.entries : r.entries[i].event = e BY <3>2 DEF StripOf
      <4>2. PICK k \in DOMAIN u.entries : u.entries[k] = r.entries[i]
        BY <1>9, <2>3, <4>1 DEF Exact, Keeps
      <4> QED BY <4>1, <4>2 DEF StripOf
    <3> QED BY <3>1, <3>2
  <2>5. Exact(t, r2.entries, u2.entries)
    <3>1. CASE e \in StripOf(r.entries)
      <4>1. r2.entries = r.entries /\ u2.entries = u.entries
        BY <1>13, <1>14, <1>21, <2>2, <2>3, <2>4, <3>1
      <4> QED BY <1>9, <4>1
    <3>2. CASE e \notin StripOf(r.entries)
      <4>1. r2.entries = Append(r.entries, x) BY <1>13, <1>21, <3>2
      <4>2. u2.entries = Append(u.entries, x)
        BY <1>14, <2>2, <2>3, <2>4, <3>2 DEF x
      <4> QED BY <1>9, <1>15, <1>21, <2>3, <4>1, <4>2, ExactYoung
    <3> QED BY <3>1, <3>2
  <2>6. ASSUME NEW j \in 1 .. n PROVE u2.cursors[j] = Smaller(r2.cursors[j], Len(QueueOf(t, j)))
    <3>1. /\ u2.cursors = [u.cursors EXCEPT ![m] = c + 1]
          /\ r2.cursors = [r.cursors EXCEPT ![m] = c + 1]
      BY <1>12, <1>21, <2>1, <2>2
    <3>2. CASE j = m
      <4>1. r2.cursors[j] = c + 1 /\ u2.cursors[j] = c + 1 BY <1>2, <3>1, <3>2
      <4>2. Smaller(c + 1, Len(p)) = c + 1 BY <1>3, <1>5, <1>21 DEF Smaller
      <4> QED BY <1>17, <3>2, <4>1, <4>2
    <3>3. CASE j # m
      <4>1. r2.cursors[j] = r.cursors[j] /\ u2.cursors[j] = u.cursors[j] BY <1>2, <3>1, <3>3
      <4> QED BY <1>16, <4>1
    <3> QED BY <3>2, <3>3
  <2> QED BY <1>18, <2>5, <2>6
<1>22. c < Len(p) \/ c >= Len(p) BY <1>3, <1>5
<1> QED BY <1>7, <1>19, <1>20, <1>21, <1>22

LEMMA ShadowTurns ==
    ASSUME NEW s, NEW t, Sources(s), Sources(t), s.scopes # <<>>, t.scopes # <<>>, Later(s, t),
           NEW r, NEW u, RunOk(s, r), RunOk(t, u), Shadows(s, t, r, u)
    PROVE  Shadows(s, t, Turn(s, r), Turn(t, u))
<1>1. Ended(s, t, r, u) => Ended(s, t, Turn(s, r), Turn(t, u)) BY EndedTurns
<1>2. Complete(t, r, u) => Complete(t, Turn(s, r), Turn(t, u)) BY CompleteTurns
<1>3. CASE Alongside(s, t, r, u) /\ ~Stopped(s, r) /\ ~Stopped(t, u)
  BY <1>3, AlongsideTurns DEF Shadows
<1>4. CASE Alongside(s, t, r, u) /\ (Stopped(s, r) \/ Stopped(t, u))
  BY <1>1, <1>2, <1>4, AlongsideEnds DEF Shadows
<1> QED BY <1>1, <1>2, <1>3, <1>4 DEF Shadows

\* What a later selection leaves of an earlier one comes first in it, in its order.
LEMMA SelectionKeeps ==
    ASSUME NEW s, NEW t, Sources(s), Sources(t), Later(s, t)
    PROVE  Keeps(t, SelectedFrom(s).entries, SelectedFrom(t).entries)
<1>1. /\ SelectedFrom(s).entries \in Seq(Entry) /\ SelectedFrom(t).entries \in Seq(Entry)
      /\ StripOf(SelectedFrom(s).entries) \subseteq EligibleEvents(s)
  BY SelectionHolds DEF Full
<1>2. EligibleEvents(t) = {e \in EligibleEvents(s) : Eligible(t, e)} BY YoungStays
<1>3. CASE s.scopes = <<>> \/ EligibleEvents(t) = {}
  <2>1. SelectedFrom(s).entries = <<>> \/ EligibleEvents(t) = {} BY <1>3 DEF SelectedFrom
  <2>2. ASSUME NEW i \in DOMAIN SelectedFrom(s).entries,
               Eligible(t, SelectedFrom(s).entries[i].event)
        PROVE  FALSE
    <3>1. SelectedFrom(s).entries[i].event \in EligibleEvents(t)
      BY <1>1, <1>2, <2>2 DEF StripOf
    <3>2. SelectedFrom(s).entries = <<>> BY <2>1, <3>1
    <3> QED BY <3>2
  <2> QED BY <1>1, <2>2 DEF Keeps
<1>4. CASE s.scopes # <<>> /\ EligibleEvents(t) # {}
  <2> DEFINE n == Turns(s)
  <2>1. t.scopes # <<>> /\ EligibleEvents(s) # {} /\ Turns(t) = n
    BY <1>2, <1>4 DEF Later, Turns
  <2>2. PICK f : n \in Nat /\ RunOf(s, f) /\ SelectedFrom(s) = f[n]
    BY <1>4, <2>1, SelectionRuns
  <2>3. PICK g : RunOf(t, g) /\ SelectedFrom(t) = g[n] BY <1>4, <2>1, SelectionRuns
  <2>4. f[0] = FirstTurn(s) /\ \A i \in 1 .. n : f[i] = Turn(s, f[i - 1]) BY <2>2 DEF RunOf
  <2>5. g[0] = FirstTurn(t) /\ \A i \in 1 .. n : g[i] = Turn(t, g[i - 1])
    BY <2>1, <2>3 DEF RunOf
  <2>6. \A i \in 0 .. n : RunOk(s, f[i]) /\ RunOk(t, g[i]) BY <2>1, <2>2, <2>3 DEF RunOf
  <2> HIDE DEF n
  <2>7. Shadows(s, t, f[0], g[0])
    <3> DEFINE r == FirstTurn(s)
               u == FirstTurn(t)
    <3>1. DOMAIN s.scopes = 1 .. Len(s.scopes) BY DEF Sources
    <3>2. /\ r.turn = u.turn /\ r.entries = <<>> /\ u.entries = <<>>
          /\ \A j \in 1 .. Len(s.scopes) : r.cursors[j] = 0 /\ u.cursors[j] = 0
      BY <3>1 DEF FirstTurn, Later
    <3>3. Exact(t, <<>>, <<>>)
      <4>1. <<>> \in Seq(Entry) /\ Len(<<>>) = 0 /\ DOMAIN <<>> = {} OBVIOUS
      <4>2. Left(t, <<>>, 0) = 0 BY <4>1, LeftCounts
      <4>3. Keeps(t, <<>>, <<>>) BY <4>1 DEF Keeps
      <4> QED BY <4>1, <4>2, <4>3 DEF Exact
    <3>4. ASSUME NEW j \in 1 .. Len(s.scopes)
          PROVE  u.cursors[j] = Smaller(r.cursors[j], Len(QueueOf(t, j)))
      <4>1. Len(QueueOf(t, j)) \in Nat
        <5>1. j \in DOMAIN t.scopes BY <3>1 DEF Later
        <5> QED BY <5>1, QueueLists DEF Lists
      <4>2. Smaller(0, Len(QueueOf(t, j))) = 0 BY <4>1 DEF Smaller
      <4> QED BY <3>2, <4>2
    <3> HIDE DEF r, u
    <3>5. Alongside(s, t, r, u) BY <3>2, <3>3, <3>4 DEF Alongside
    <3> QED BY <2>4, <2>5, <3>5 DEF Shadows, r, u
  <2>8. ASSUME NEW i \in 1 .. n, Shadows(s, t, f[i - 1], g[i - 1])
        PROVE  Shadows(s, t, f[i], g[i])
    <3>1. i - 1 \in 0 .. n BY <2>2
    <3>2. RunOk(s, f[i - 1]) /\ RunOk(t, g[i - 1]) BY <2>6, <3>1
    <3>3. Shadows(s, t, Turn(s, f[i - 1]), Turn(t, g[i - 1]))
      BY <1>4, <2>1, <2>8, <3>2, ShadowTurns
    <3> QED BY <2>4, <2>5, <3>3
  <2>9. \A i \in 0 .. n : Shadows(s, t, f[i], g[i])
    <3> DEFINE P == [i \in 0 .. n |-> {0}]
               h == [i \in 0 .. n |-> IF Shadows(s, t, f[i], g[i]) THEN 0 ELSE 1]
    <3>1. \A i \in 1 .. n : i \in 0 .. n /\ i - 1 \in 0 .. n BY <2>2
    <3>2. 0 \in 0 .. n BY <2>2
    <3>3. h[0] \in P[0] BY <2>7, <3>2
    <3>4. \A i \in 1 .. n : h[i - 1] \in P[i - 1] => h[i] \in P[i] BY <2>8, <3>1
    <3>5. \A i \in 0 .. n : h[i] \in P[i] => Shadows(s, t, f[i], g[i]) OBVIOUS
    <3> HIDE DEF P, h
    <3>6. \A i \in 0 .. n : h[i] \in P[i] BY <2>2, <3>3, <3>4, Carried, ZenonT(30)
    <3> QED BY <3>5, <3>6
  <2>10. Shadows(s, t, SelectedFrom(s), SelectedFrom(t)) BY <2>2, <2>3, <2>9
  <2> QED BY <2>10 DEF Shadows, Alongside, Ended, Complete, Exact
<1> QED BY <1>3, <1>4

\* The strip at the instant of a tick.
LEMMA TickKeeps ==
    ASSUME NEW s, Filled(s), NEW at \in Nat
    PROVE  Keeps(StripTicked(s, at), s.entries, StripTicked(s, at).entries)
<1>1. s \in Strips /\ Sources(s) /\ Full(s, s.entries) /\ s.entries \in Seq(Entry)
  BY DEF Filled, Full
<1>2. ASSUME StripTicked(s, at) = s PROVE Keeps(s, s.entries, s.entries)
  <2>1. ASSUME NEW i \in DOMAIN s.entries PROVE Left(s, s.entries, i) = i
    <3>1. DOMAIN s.entries = 1 .. Len(s.entries) /\ Len(s.entries) \in Nat /\ i \in Nat
      BY <1>1
    <3>2. \A j \in 1 .. i : j \in DOMAIN s.entries BY <3>1
    <3>3. \A j \in 1 .. i : Eligible(s, s.entries[j].event)
      BY <1>1, <3>2 DEF Full, StripOf, EligibleEvents
    <3>4. {j \in 1 .. i : Eligible(s, s.entries[j].event)} = 1 .. i BY <3>3
    <3>5. Cardinality(1 .. i) = i
      <4>1. 1 \in Int /\ i \in Int BY <3>1
      <4>2. Cardinality(1 .. i) = IF 1 > i THEN 0 ELSE i - 1 + 1 BY <4>1, FS_Interval
      <4> QED BY <3>1, <4>2
    <3> QED BY <3>4, <3>5 DEF Left
  <2> QED BY <1>1, <2>1 DEF Keeps
<1>3. CASE ~s.started \/ at <= s.reference
  <2>1. StripTicked(s, at) = s BY <1>3 DEF StripTicked
  <2> QED BY <1>2, <2>1
<1>4. CASE ~(~s.started \/ at <= s.reference)
  <2> DEFINE later == [s EXCEPT !.reference = at]
             t == StripTicked(s, at)
  <2>1. t = [later EXCEPT !.entries = SelectedFrom(later).entries,
                          !.eligible = Cardinality(EligibleEvents(later))]
    BY <1>4 DEF StripTicked, Aged, Selected
  <2>2. /\ later \in Strips /\ later.scopes = s.scopes /\ later.confirmed = s.confirmed
        /\ later.reference = at /\ later.start = s.start
    BY <1>1 DEF Strips
  <2>3. Sources(later) BY <1>1, <2>2 DEF Sources
  <2> HIDE DEF later, t
  <2>4. SelectedFrom(later).entries \in Seq(Entry) /\ Cardinality(EligibleEvents(later)) \in Nat
    BY <2>3, SelectionHolds DEF Full
  <2>5. t.entries = SelectedFrom(later).entries /\ t.reference = later.reference
    BY <2>1, <2>2, <2>4 DEF Strips
  <2>6. PICK c : Sources(c) /\ SourceOf(c) = SourceOf(s) /\ s.entries = SelectedFrom(c).entries
    BY DEF Filled, Chosen
  <2>7. Later(c, later)
    <3>1. /\ c.scopes = s.scopes /\ c.confirmed = s.confirmed /\ c.start = s.start
          /\ c.reference = s.reference
      BY <2>6 DEF SourceOf
    <3>2. s.reference \in Nat BY <1>1 DEF Sources
    <3>3. s.reference <= at BY <1>4, <3>2
    <3> QED BY <2>2, <3>1, <3>3 DEF Later
  <2>8. Keeps(later, s.entries, t.entries) BY <2>3, <2>5, <2>6, <2>7, SelectionKeeps
  <2>9. \A e : Eligible(t, e) <=> Eligible(later, e) BY <2>5 DEF Eligible, StripAge
  <2>10. \A i : Left(t, s.entries, i) = Left(later, s.entries, i) BY <2>9 DEF Left
  <2>11. Keeps(t, s.entries, t.entries) BY <2>8, <2>9, <2>10 DEF Keeps
  <2> QED BY <2>11 DEF t
<1> QED BY <1>3, <1>4

-----------------------------------------------------------------------------
(* The strip of the program *)

\* The strip is filled from what is published; the refreshes are counted.
StripInv ==
    /\ Filled(strip) /\ Anchored(strip) /\ strip.confirmed = published.confirmed
    /\ refreshes \in Nat

LEMMA InitStrip == Init => StripInv
<1> SUFFICES ASSUME Init PROVE StripInv OBVIOUS
<1>1. /\ strip = [scopes |-> <<>>, confirmed |-> {}, reference |-> 0, started |-> FALSE,
                  start |-> 0, nextStart |-> 0, nextAnchor |-> NoAnchor,
                  entries |-> <<>>, eligible |-> 0]
      /\ published.confirmed = {} /\ refreshes = 0
  BY DEF Init, StripInit
<1>2. strip \in Strips BY <1>1 DEF Strips
<1>3. Sources(strip) BY <1>1 DEF Sources
<1>4. EligibleEvents(strip) = {} BY <1>1 DEF EligibleEvents
<1>5. Full(strip, <<>>) /\ Fair(strip, <<>>) BY <1>3, <1>4, NothingToSelect
<1>6. SelectedFrom(strip).entries = <<>> BY <1>4 DEF SelectedFrom
<1>7. Chosen(strip) BY <1>1, <1>3, <1>6 DEF Chosen
<1>8. Anchored(strip) BY <1>1 DEF Anchored
<1> QED BY <1>1, <1>2, <1>3, <1>5, <1>7, <1>8 DEF StripInv, Filled

LEMMA StepStrip == ViewsInv /\ StripInv /\ [Next]_vars => StripInv'
<1> SUFFICES ASSUME ViewsInv, StripInv, [Next]_vars PROVE StripInv' OBVIOUS
<1>1. /\ Filled(strip) /\ Anchored(strip) /\ strip.confirmed = published.confirmed /\ now \in Nat
      /\ refreshes \in Nat
  BY DEF StripInv, ViewsInv
<1>2. CASE /\ strip' = strip /\ published'.confirmed = published.confirmed
           /\ refreshes' = refreshes
  BY <1>1, <1>2 DEF StripInv
<1>3. CASE RainTick
  <2>1. PICK at \in 0 .. now : strip' = strip \/ strip' = StripTicked(strip, at)
    BY <1>3 DEF RainTick, views
  <2>2. published' = published /\ refreshes' = refreshes BY <1>3 DEF RainTick
  <2>3. CASE strip' = strip BY <1>2, <2>2, <2>3
  <2>4. CASE strip' = StripTicked(strip, at)
    <3>1. at \in Nat BY <1>1
    <3>2. Filled(strip') /\ Anchored(strip') /\ strip'.confirmed = strip.confirmed
      BY <1>1, <2>4, <3>1, StripTickingFills
    <3> QED BY <1>1, <2>2, <3>2 DEF StripInv
  <2> QED BY <2>1, <2>3, <2>4
<1>4. CASE Refresh
  <2>1. PICK snapshot \in Snapshots :
            /\ published' = [scopes |-> snapshot.scopes, confirmed |-> snapshot.confirmed,
                             listed |-> snapshot.listed, freshness |-> "current"]
            /\ strip' = StripReconciled(strip, Ascending(snapshot.scopes), snapshot.confirmed, now)
            /\ refreshes' = refreshes + 1
    BY <1>4 DEF Refresh
  <2>2. /\ snapshot.scopes \in SUBSET Scopes /\ snapshot.confirmed \in SUBSET Representations
        /\ \A k \in snapshot.confirmed : k[2] \in snapshot.scopes
    BY ProgramAssumption DEF Representations
  <2>3. Filled(strip') /\ Anchored(strip') /\ strip'.confirmed = snapshot.confirmed
    BY <1>1, <2>1, <2>2, ReconcilingFills DEF Filled
  <2>4. published'.confirmed = snapshot.confirmed BY <2>1
  <2> QED BY <1>1, <2>1, <2>3, <2>4 DEF StripInv
<1>5. CASE RefreshFails
  <2>1. /\ strip' = strip /\ refreshes' = refreshes + 1
        /\ published' = [published EXCEPT !.freshness = IF rain.started THEN "stale" ELSE "error"]
    BY <1>5 DEF RefreshFails, views
  <2>2. published'.confirmed = published.confirmed BY <2>1 DEF ViewsInv
  <2> QED BY <1>1, <2>1, <2>2 DEF StripInv
<1>6. CASE Resize BY <1>2, <1>6 DEF Resize
<1>7. CASE SwitchView BY <1>2, <1>7 DEF SwitchView, views
<1>8. CASE Scroll BY <1>2, <1>8 DEF Scroll
<1>9. CASE Detail BY <1>2, <1>9 DEF Detail
<1>10. CASE TogglePause BY <1>2, <1>10 DEF TogglePause, RainKey
<1>11. CASE StepWindow BY <1>2, <1>11 DEF StepWindow, RainKey
<1>12. CASE TurnPage BY <1>2, <1>12 DEF TurnPage, RainKey
<1>13. CASE Pass BY <1>2, <1>13 DEF Pass, views
<1>14. CASE UNCHANGED vars BY <1>2, <1>14 DEF vars, views
<1> QED BY <1>3, <1>4, <1>5, <1>6, <1>7, <1>8, <1>9, <1>10, <1>11, <1>12, <1>13, <1>14
        DEF Next

LEMMA StripInvariance == Spec => []StripInv
BY InitStrip, StepStrip, ViewsInvariance, PTL DEF Spec

LEMMA FilledStrip == StripInv => StripIsFull /\ StripIsFair
<1> SUFFICES ASSUME StripInv PROVE StripIsFull /\ StripIsFair OBVIOUS
<1>1. /\ strip.confirmed \in SUBSET Representations /\ strip.reference \in Nat
      /\ strip.confirmed = published.confirmed
      /\ Full(strip, strip.entries) /\ Fair(strip, strip.entries)
  BY DEF StripInv, Filled, Strips
<1> DEFINE young == {e \in {k[1] : k \in strip.confirmed} :
                        strip.reference < OccurredAt[e] + StripWindow}
<1>2. EligibleEvents(strip) = young
  <2>1. ASSUME NEW e \in {k[1] : k \in strip.confirmed}
        PROVE  Eligible(strip, e) <=> strip.reference < OccurredAt[e] + StripWindow
    <3>1. e \in Events BY <1>1 DEF Representations
    <3>2. OccurredAt[e] \in Nat /\ StripWindow \in Nat \ {0}
      BY <3>1, PublishedAssumption, StripAssumption
    <3> QED BY <1>1, <3>2 DEF Eligible, StripAge
  <2> QED BY <2>1 DEF EligibleEvents
<1>3. StripIsFull BY <1>1, <1>2 DEF Full, StripIsFull
<1>4. StripIsFair BY <1>1 DEF Fair, StripIsFair
<1> QED BY <1>3, <1>4

\* Every step that leaves what is published leaves the strip in its order.
LEMMA OrderKept ==
    ASSUME ViewsInv, StripInv, [Next]_vars, published' = published, refreshes' = refreshes
    PROVE  Keeps(strip', strip.entries, strip'.entries)
<1>1. Filled(strip) /\ now \in Nat /\ refreshes \in Nat BY DEF StripInv, ViewsInv
<1>2. CASE strip' = strip
  <2>1. strip.reference \in Nat BY <1>1 DEF Filled, Strips
  <2>2. StripTicked(strip, strip.reference) = strip BY <2>1 DEF StripTicked
  <2>3. Keeps(strip, strip.entries, strip.entries) BY <1>1, <2>1, <2>2, TickKeeps
  <2> QED BY <1>2, <2>3
<1>3. CASE RainTick
  <2>1. PICK at \in 0 .. now : strip' = strip \/ strip' = StripTicked(strip, at)
    BY <1>3 DEF RainTick, views
  <2>2. at \in Nat BY <1>1
  <2> QED BY <1>1, <1>2, <2>1, <2>2, TickKeeps
<1>4. ~Refresh /\ ~RefreshFails
  <2>1. refreshes' # refreshes + 1 BY <1>1
  <2> QED BY <2>1 DEF Refresh, RefreshFails
<1>5. CASE Resize BY <1>2, <1>5 DEF Resize
<1>6. CASE SwitchView BY <1>2, <1>6 DEF SwitchView, views
<1>7. CASE Scroll BY <1>2, <1>7 DEF Scroll
<1>8. CASE Detail BY <1>2, <1>8 DEF Detail
<1>9. CASE TogglePause BY <1>2, <1>9 DEF TogglePause, RainKey
<1>10. CASE StepWindow BY <1>2, <1>10 DEF StepWindow, RainKey
<1>11. CASE TurnPage BY <1>2, <1>11 DEF TurnPage, RainKey
<1>12. CASE Pass BY <1>2, <1>12 DEF Pass, views
<1>13. CASE UNCHANGED vars BY <1>2, <1>13 DEF vars, views
<1> QED BY <1>3, <1>4, <1>5, <1>6, <1>7, <1>8, <1>9, <1>10, <1>11, <1>12, <1>13 DEF Next

\* A refresh takes the turns up where they are owed; nothing else changes who is owed one.
LEMMA TurnsKept ==
    ASSUME ViewsInv, StripInv, [Next]_vars
    PROVE  IF Publishes THEN Continues(strip, strip') ELSE strip'.nextAnchor = strip.nextAnchor
<1>1. Filled(strip) /\ Anchored(strip) /\ now \in Nat /\ refreshes \in Nat
  BY DEF StripInv, ViewsInv
<1>2. CASE refreshes' = refreshes /\ strip' = strip BY <1>2 DEF Publishes
<1>3. CASE RainTick
  <2>1. PICK at \in 0 .. now : strip' = strip \/ strip' = StripTicked(strip, at)
    BY <1>3 DEF RainTick, views
  <2>2. refreshes' = refreshes BY <1>3 DEF RainTick
  <2>3. at \in Nat BY <1>1
  <2>4. strip'.nextAnchor = strip.nextAnchor BY <1>1, <2>1, <2>3, StripTickingFills
  <2> QED BY <2>2, <2>4 DEF Publishes
<1>4. CASE Refresh
  <2>1. PICK snapshot \in Snapshots :
            /\ published'.freshness = "current"
            /\ strip' = StripReconciled(strip, Ascending(snapshot.scopes), snapshot.confirmed, now)
            /\ refreshes' = refreshes + 1
    BY <1>4 DEF Refresh
  <2>2. /\ snapshot.scopes \in SUBSET Scopes /\ snapshot.confirmed \in SUBSET Representations
        /\ \A k \in snapshot.confirmed : k[2] \in snapshot.scopes
    BY ProgramAssumption DEF Representations
  <2>3. Continues(strip, strip') BY <1>1, <2>1, <2>2, ReconcilingFills DEF Filled
  <2>4. Publishes BY <1>1, <2>1 DEF Publishes
  <2> QED BY <2>3, <2>4
<1>5. CASE RefreshFails
  <2>1. /\ strip' = strip
        /\ published' = [published EXCEPT !.freshness = IF rain.started THEN "stale" ELSE "error"]
    BY <1>5 DEF RefreshFails, views
  <2>2. published'.freshness # "current" BY <2>1 DEF ViewsInv
  <2> QED BY <2>1, <2>2 DEF Publishes
<1>6. CASE Resize BY <1>2, <1>6 DEF Resize
<1>7. CASE SwitchView BY <1>2, <1>7 DEF SwitchView, views
<1>8. CASE Scroll BY <1>2, <1>8 DEF Scroll
<1>9. CASE Detail BY <1>2, <1>9 DEF Detail
<1>10. CASE TogglePause BY <1>2, <1>10 DEF TogglePause, RainKey
<1>11. CASE StepWindow BY <1>2, <1>11 DEF StepWindow, RainKey
<1>12. CASE TurnPage BY <1>2, <1>12 DEF TurnPage, RainKey
<1>13. CASE Pass BY <1>2, <1>13 DEF Pass, views
<1>14. CASE UNCHANGED vars BY <1>2, <1>14 DEF vars, views
<1> QED BY <1>3, <1>4, <1>5, <1>6, <1>7, <1>8, <1>9, <1>10, <1>11, <1>12, <1>13, <1>14
        DEF Next

\* Every event that is confirmed and young enough has its place in the strip, once and
\* on the turn of a Scope it belongs to, unless the strip is full; no Scope has two turns
\* more than another that still has an event left out.  A refresh begins with the Scope
\* after the one whose turn filled the strip, even if Scopes were added or removed in
\* between or that one is gone, and with the first Scope from there on that has an event;
\* and a tick, in which events of any Scope get too old and others take their places,
\* changes neither whose turn is next nor the order of what stays
\* (interesting.go:124-187, 210-213, 270-344).
THEOREM StripSafe == Spec => StripTakesTurns
<1>1. StripInv => StripIsFull /\ StripIsFair BY FilledStrip
<1>2. ViewsInv /\ StripInv /\ [Next]_vars =>
          [published' = published /\ refreshes' = refreshes =>
               \A i \in {j \in DOMAIN strip.entries : Eligible(strip', strip.entries[j].event)} :
                   LET place == Left(strip', strip.entries, i)
                   IN  /\ place \in DOMAIN strip'.entries
                       /\ strip'.entries[place] = strip.entries[i]]_vars
  BY OrderKept DEF Keeps
<1>3. ViewsInv /\ StripInv /\ [Next]_vars =>
          [IF Publishes /\ strip'.scopes # <<>>
           THEN \E first \in DOMAIN strip'.scopes :
                    /\ OwedAt(strip, strip'.scopes, first)
                    /\ BeginsAt(strip, first)' /\ OwesNext(strip, first)'
           ELSE strip'.nextAnchor = IF Publishes THEN NoAnchor ELSE strip.nextAnchor]_vars
  <2> SUFFICES ASSUME ViewsInv, StripInv, [Next]_vars
               PROVE  IF Publishes /\ strip'.scopes # <<>>
                      THEN \E first \in DOMAIN strip'.scopes :
                               /\ OwedAt(strip, strip'.scopes, first)
                               /\ BeginsAt(strip, first)' /\ OwesNext(strip, first)'
                      ELSE strip'.nextAnchor = IF Publishes THEN NoAnchor
                                               ELSE strip.nextAnchor
    OBVIOUS
  <2>1. IF Publishes THEN Continues(strip, strip') ELSE strip'.nextAnchor = strip.nextAnchor
    BY TurnsKept
  <2>2. \A first : /\ BeginsAt(strip', first) <=> BeginsAt(strip, first)'
                   /\ OwesNext(strip', first) <=> OwesNext(strip, first)'
    BY DEF BeginsAt, OwesNext, EligibleEvents, Eligible, StripAge
  <2> QED BY <2>1, <2>2 DEF Continues
<1> QED BY <1>1, <1>2, <1>3, StripInvariance, ViewsInvariance, PTL
           DEF Spec, StripTakesTurns, TicksKeepOrder, TurnsContinue

-----------------------------------------------------------------------------
(* The numbers and the pages of the program *)

LEMMA StripHasLength == StripInv => Len(strip.entries) \in Nat
BY DEF StripInv, Filled, Strips, Entry

\* The numbers of the program are in their ranges.
CountsInv == Numbers(rain) /\ now \in 0 .. MaxTime

LEMMA InitCounts == Init => CountsInv
<1> SUFFICES ASSUME Init PROVE CountsInv OBVIOUS
<1>1. /\ rain.window = DefaultWindow /\ rain.observed = {} /\ rain.remainder = 0
      /\ rain.chain = 0 /\ rain.height = 0 /\ rain.items = NoItems /\ rain.queue = NoItems
  BY DEF Init, RainInit
<1>2. Phases(NoItems) BY DEF Phases, NoItems
<1>3. now \in 0 .. MaxTime BY ProgramAssumption DEF Init
<1>4. /\ DefaultWindow \in 1 .. Available /\ 0 \in 0 .. RainStep - 1
      /\ 0 \in 0 .. Generations - 1
  BY RainAssumption DEF Available
<1> QED BY <1>1, <1>2, <1>3, <1>4 DEF CountsInv, Numbers

LEMMA StepCounts ==
    ViewsInv /\ StripInv' /\ CountsInv /\ [Next]_vars => CountsInv'
<1> SUFFICES ASSUME ViewsInv, StripInv', CountsInv, [Next]_vars PROVE CountsInv'
  OBVIOUS
<1>1. ViewsInv' BY StepViews
<1>2. Len(strip'.entries) \in Nat BY StripHasLength
<1>3. /\ Settled(rain, published.confirmed) /\ Numbers(rain) /\ height \in Int
      /\ now \in 0 .. MaxTime /\ now \in Nat /\ Shaped(rain)
      /\ published.confirmed \in SUBSET Representations
  BY SettledTimed DEF ViewsInv, CountsInv
<1>4. height' \in Int BY <1>1 DEF ViewsInv
<1>5. CASE Resize
  <2>1. rain' = ResizedRain(rain, strip', width', height') /\ now' = now BY <1>5 DEF Resize
  <2> QED BY <1>2, <1>3, <1>4, <2>1, ResizingCounts DEF CountsInv
<1>6. CASE RainTick
  <2>1. PICK tick \in ticks, at \in 0 .. now :
            /\ \/ rain' = rain
               \/ rain' = ResizedRain(Ticked(rain, tick.chain, at), strip', width, height)
            /\ now' = now
    BY <1>6 DEF RainTick, RainAfterStrip, views
  <2>2. CASE rain' = rain BY <1>3, <2>1, <2>2 DEF CountsInv
  <2>3. CASE rain' = ResizedRain(Ticked(rain, tick.chain, at), strip', width, height)
    <3> DEFINE r == Ticked(rain, tick.chain, at)
    <3>1. at \in Nat BY <1>3
    <3>2. Numbers(r) BY <1>3, <3>1, TickingCounts
    <3>3. Shaped(r) BY <1>3, <3>1, TickingFollows, SettledTimed DEF Follows
    <3> HIDE DEF r
    <3>4. Numbers(rain') BY <1>2, <1>3, <2>3, <3>2, <3>3, ResizingCounts DEF r
    <3> QED BY <1>3, <2>1, <3>4 DEF CountsInv
  <2> QED BY <2>1, <2>2, <2>3
<1>7. CASE Refresh
  <2>1. PICK snapshot \in Snapshots :
            /\ rain' = ResizedRain(Reconciled(rain, snapshot.scopes, snapshot.confirmed, now),
                                   strip', width, height)
            /\ now' = now
    BY <1>7 DEF Refresh
  <2> DEFINE r == Reconciled(rain, snapshot.scopes, snapshot.confirmed, now)
  <2>2. snapshot.confirmed \in SUBSET Representations /\ snapshot.scopes \in SUBSET Scopes
    BY ProgramAssumption DEF Representations
  <2>3. Numbers(r) BY <1>3, <2>2, ReconcilingCounts
  <2>4. Shaped(r) BY <1>3, <2>2, ReconcilingFollows, SettledTimed DEF Follows, ViewsInv
  <2> HIDE DEF r
  <2>5. Numbers(rain') BY <1>2, <1>3, <2>1, <2>3, <2>4, ResizingCounts DEF r
  <2> QED BY <1>3, <2>1, <2>5 DEF CountsInv
<1>8. CASE RefreshFails BY <1>3, <1>8 DEF RefreshFails, views, CountsInv
<1>9. CASE SwitchView BY <1>3, <1>9 DEF SwitchView, views, CountsInv
<1>10. CASE Scroll BY <1>3, <1>10 DEF Scroll, CountsInv
<1>11. CASE Detail BY <1>3, <1>11 DEF Detail, CountsInv
<1>12. CASE TogglePause
  BY <1>3, <1>12, TogglingCounts DEF TogglePause, RainKey, CountsInv
<1>13. CASE StepWindow
  <2>1. PICK step \in {-1, 1} :
            RainKey(Windowed(rain, step, published.scopes, published.confirmed))
    BY <1>13 DEF StepWindow
  <2>2. Numbers(rain') BY <1>3, <2>1, WindowingCounts DEF RainKey
  <2> QED BY <1>3, <2>1, <2>2 DEF RainKey, CountsInv
<1>14. CASE TurnPage
  <2>1. PICK step \in {-1, 1} : RainKey(Paged(rain, step)) BY <1>14 DEF TurnPage
  <2>2. Inner(Paged(rain, step)) = Inner(rain) /\ Paged(rain, step).height = rain.height
    BY <1>3, PagingKeeps
  <2>3. Numbers(Paged(rain, step)) BY <1>3, <2>2, PageCounts DEF Numbers
  <2> QED BY <1>3, <2>1, <2>3 DEF RainKey, CountsInv
<1>15. CASE Pass
  BY <1>3, <1>15, ProgramAssumption DEF Pass, views, CountsInv
<1>16. CASE UNCHANGED vars BY <1>3, <1>16 DEF vars, views, CountsInv
<1> QED BY <1>5, <1>6, <1>7, <1>8, <1>9, <1>10, <1>11, <1>12, <1>13, <1>14, <1>15, <1>16
        DEF Next

\* The page belongs to the terminal's width.
PagesInv == Page(rain) /\ width \in Int /\ rain.width = Larger(width, 0)

\* What a step does to the page: only the page keys take a Scope off it.
PageStays ==
    /\ Page(rain')
    /\ rain.anchor \in rain'.scopes /\ mode # "rain" => rain.anchor \in VisibleScopes(rain')

LEMMA InitPages == Init => PagesInv
BY DEF Init, RainInit, PagesInv, Page, Unbounded, Larger, NoScope

\* A page that stands shows its anchor.
LEMMA StandingPage ==
    ASSUME NEW r, Page(r), r.anchor \in r.scopes
    PROVE  r.anchor \in VisibleScopes(r)
<1>1. r.scopes \in SUBSET Scopes /\ r.scopes # {} /\ OnPage(r) BY DEF Page
<1>2. Index(r.anchor, r.scopes) = r.start BY <1>1, Selection DEF OnPage
<1> DEFINE pp == PerPage(r.width, Cardinality(r.scopes))
<1>3. Cardinality(r.scopes) \in Nat \ {0} BY <1>1, Selection
<1>4. pp \in 1 .. Cardinality(r.scopes) BY <1>3, PagesHold DEF Page
<1>5. r.start \in 0 .. Cardinality(r.scopes) - 1 BY <1>1 DEF OnPage
<1>6. /\ Index(r.anchor, r.scopes) >= r.start
      /\ Index(r.anchor, r.scopes) < r.start + PerPage(r.width, Cardinality(r.scopes))
  BY <1>2, <1>3, <1>4, <1>5
<1>7. r.width \in Nat BY DEF Page
<1> QED BY <1>1, <1>5, <1>6, <1>7, PageShows

\* Handlers that leave the rain value, or only its time, as it is.
LEMMA PageStands ==
    ASSUME PagesInv, PageOf(rain') = PageOf(rain), width' = width
    PROVE  PagesInv' /\ PageStays
<1>1. Page(rain') BY DEF PagesInv, PageOf, Page, OnPage
<1>2. VisibleScopes(rain') = VisibleScopes(rain) BY DEF PageOf, VisibleScopes, Columns
<1>3. rain'.scopes = rain.scopes /\ rain'.width = rain.width BY DEF PageOf
<1>4. rain.anchor \in rain.scopes => rain.anchor \in VisibleScopes(rain)
  BY StandingPage DEF PagesInv
<1> QED BY <1>1, <1>2, <1>3, <1>4 DEF PagesInv, PageStays

\* Handlers that end in a resize of the field, after what shows the anchor.
LEMMA PageResized ==
    ASSUME PagesInv, NEW r, Shaped(r), Page(r),
           rain.anchor \in r.scopes => rain.anchor \in VisibleScopes(r),
           r.anchor = rain.anchor \/ r.width = Larger(width', 0),
           width' \in Int, rain' = ResizedRain(r, strip', width', height')
    PROVE  PagesInv' /\ PageStays
<1> DEFINE rows == FieldRows(r, width', ContentHeight(height'),
                             StripRows(strip', StripBudget(r, width', ContentHeight(height'))))
<1>1. rain' = Resized(r, width', rows) BY DEF ResizedRain
<1> HIDE DEF rows
<1>2. r.scopes \in SUBSET Scopes /\ r.start \in Nat /\ (r.scopes # {} => OnPage(r))
  BY DEF Page
<1>3. /\ Page(rain') /\ rain'.scopes = r.scopes /\ rain'.width = Larger(width', 0)
      /\ r.anchor \in r.scopes => r.anchor \in VisibleScopes(rain')
      /\ r.width = Larger(width', 0) /\ r.scopes # {} => rain'.start = r.start
  BY <1>1, <1>2, ResizingPages
<1>4. ASSUME rain.anchor \in r.scopes PROVE rain.anchor \in VisibleScopes(rain')
  <2>1. CASE r.anchor = rain.anchor BY <1>3, <1>4, <2>1
  <2>2. CASE r.width = Larger(width', 0)
    <3>1. /\ rain'.start = r.start /\ rain'.scopes = r.scopes /\ rain'.width = r.width
      BY <1>3, <1>4, <2>2
    <3> QED BY <1>4, <3>1 DEF VisibleScopes, Columns
  <2> QED BY <2>1, <2>2
<1> QED BY <1>3, <1>4 DEF PagesInv, PageStays

LEMMA StepPages == ViewsInv /\ PagesInv /\ [Next]_vars => PagesInv' /\ PageStays
<1> SUFFICES ASSUME ViewsInv, PagesInv, [Next]_vars PROVE PagesInv' /\ PageStays OBVIOUS
<1>1. /\ Settled(rain, published.confirmed) /\ Shaped(rain) /\ now \in Nat
      /\ Page(rain) /\ width \in Int /\ rain.width = Larger(width, 0)
  BY SettledTimed DEF ViewsInv, PagesInv
<1>2. rain.anchor \in rain.scopes => rain.anchor \in VisibleScopes(rain)
  BY <1>1, StandingPage
<1>3. CASE Resize
  <2>1. /\ rain' = ResizedRain(rain, strip', width', height') /\ width' \in Int
    BY <1>3, ProgramAssumption DEF Resize
  <2> QED BY <1>1, <1>2, <2>1, PageResized
<1>4. CASE RainTick
  <2>1. PICK tick \in ticks, at \in 0 .. now :
            /\ \/ rain' = rain
               \/ rain' = ResizedRain(Ticked(rain, tick.chain, at), strip', width', height')
            /\ width' = width
    BY <1>4 DEF RainTick, RainAfterStrip, views
  <2>2. CASE rain' = rain BY <2>1, <2>2, PageStands
  <2>3. CASE rain' = ResizedRain(Ticked(rain, tick.chain, at), strip', width', height')
    <3> DEFINE r == Ticked(rain, tick.chain, at)
    <3>1. at \in Nat BY <1>1
    <3>2. PageOf(r) = PageOf(rain) BY <1>1, <3>1, TickingPages
    <3>3. Shaped(r) BY <1>1, <3>1, TickingFollows, SettledTimed DEF Follows
    <3> HIDE DEF r
    <3>4. Page(r) /\ r.anchor = rain.anchor /\ r.scopes = rain.scopes
      BY <1>1, <3>2 DEF PageOf, Page, OnPage
    <3>5. VisibleScopes(r) = VisibleScopes(rain) BY <3>2 DEF PageOf, VisibleScopes, Columns
    <3> QED BY <1>1, <1>2, <2>1, <2>3, <3>3, <3>4, <3>5, PageResized DEF r
  <2> QED BY <2>1, <2>2, <2>3
<1>5. CASE Refresh
  <2>1. PICK snapshot \in Snapshots :
            /\ rain' = ResizedRain(Reconciled(rain, snapshot.scopes, snapshot.confirmed, now),
                                   strip', width', height')
            /\ width' = width
    BY <1>5 DEF Refresh
  <2> DEFINE r == Reconciled(rain, snapshot.scopes, snapshot.confirmed, now)
  <2>2. snapshot.confirmed \in SUBSET Representations /\ snapshot.scopes \in SUBSET Scopes
    BY ProgramAssumption DEF Representations
  <2>3. /\ Page(r) /\ r.scopes = snapshot.scopes /\ r.width = rain.width
        /\ rain.anchor \in snapshot.scopes => rain.anchor \in VisibleScopes(r)
    BY <1>1, <2>2, ReconcilingPages
  <2>4. Shaped(r) BY <1>1, <2>2, ReconcilingFollows, SettledTimed DEF Follows, ViewsInv
  <2> HIDE DEF r
  <2> QED BY <1>1, <2>1, <2>3, <2>4, PageResized DEF r
<1>6. CASE RefreshFails BY <1>6, PageStands DEF RefreshFails, views
<1>7. CASE SwitchView BY <1>7, PageStands DEF SwitchView, views
<1>8. CASE Scroll BY <1>8, PageStands DEF Scroll
<1>9. CASE Detail BY <1>9, PageStands DEF Detail
<1>10. CASE TogglePause
  <2>1. rain' = ToggledPause(rain) /\ width' = width BY <1>10 DEF TogglePause, RainKey
  <2> QED BY <1>1, <2>1, TogglingPages, PageStands
<1>11. CASE StepWindow
  <2>1. PICK step \in {-1, 1} :
            RainKey(Windowed(rain, step, published.scopes, published.confirmed))
    BY <1>11 DEF StepWindow
  <2>2. published.scopes \in SUBSET Scopes BY DEF ViewsInv
  <2>3. Page(rain') /\ rain'.width = rain.width
    BY <1>1, <2>1, <2>2, WindowingPages DEF RainKey
  <2> QED BY <1>1, <2>1, <2>3 DEF RainKey, PagesInv, PageStays
<1>12. CASE TurnPage
  <2>1. PICK step \in {-1, 1} : RainKey(Paged(rain, step)) BY <1>12 DEF TurnPage
  <2>2. Page(rain') /\ rain'.width = rain.width BY <1>1, <2>1, PagingPages DEF RainKey
  <2> QED BY <1>1, <2>1, <2>2 DEF RainKey, PagesInv, PageStays
<1>13. CASE Pass BY <1>13, PageStands DEF Pass, views
<1>14. CASE UNCHANGED vars BY <1>14, PageStands DEF vars, views
<1> QED BY <1>3, <1>4, <1>5, <1>6, <1>7, <1>8, <1>9, <1>10, <1>11, <1>12, <1>13, <1>14
        DEF Next

-----------------------------------------------------------------------------
(* The theorems of the invariants *)

\* The page is one of the fixed pages, its first Scope is the anchor, and a refresh, a
\* tick or a resize never takes an anchor that is still selected off the page
\* (rain.go:142-178, rain_columns.go:56-80).
THEOREM AnchorSafe == Spec => AnchorStaysVisible
<1>1. ViewsInv /\ PagesInv /\ [Next]_vars =>
          [\/ rain'.scopes = {}
           \/ /\ rain'.start % PerPage(rain'.width, Cardinality(rain'.scopes)) = 0
              /\ rain'.anchor = ScopeAt(rain'.start, rain'.scopes)
              /\ rain.anchor \in rain'.scopes /\ mode # "rain" =>
                     rain.anchor \in VisibleScopes(rain')]_vars
  BY StepPages DEF PageStays, Page, OnPage
<1>2. ViewsInv /\ PagesInv /\ [Next]_vars => PagesInv' BY StepPages
<1> QED BY <1>1, <1>2, InitPages, ViewsInvariance, PTL DEF Spec, AnchorStaysVisible

\* Numbers stay numbers: the rows the field has are those the strip leaves it.
LEMMA CountsInvariance == Spec => []CountsInv
<1>1. ViewsInv /\ StripInv' /\ CountsInv /\ [Next]_vars => CountsInv' BY StepCounts
<1> QED BY <1>1, InitCounts, ViewsInvariance, StripInvariance, PTL DEF Spec

\* How often the field is advanced makes no difference: to advance to an instant at once
\* or by way of an earlier one ends in the same field, with the same phases, ages and
\* remainder (rain.go:218-240).
THEOREM FramesSafe == Spec => []MissedFramesDoNotMatter
<1>1. ViewsInv /\ CountsInv => MissedFramesDoNotMatter
  <2> SUFFICES ASSUME ViewsInv, CountsInv, rain.height > 0,
                      NEW via \in rain.cursor + 1 .. rain.cursor + RainStep,
                      NEW at \in via + 1 .. rain.cursor + RainStep + 1
               PROVE  Advanced(Advanced(rain, via), at) = Advanced(rain, at)
    BY DEF MissedFramesDoNotMatter
  <2>1. Timed(rain) /\ Numbers(rain) /\ rain.cursor \in Nat
    BY SettledTimed DEF ViewsInv, CountsInv, Timed
  <2>2. RainStep \in Nat BY RainAssumption
  <2>3. via \in Nat /\ at \in Nat /\ rain.cursor < via /\ via < at BY <2>1, <2>2
  <2> QED BY <2>1, <2>3, AdvancingInTwo
<1> QED BY <1>1, CountsInvariance, ViewsInvariance, PTL

\* Every part of the rain value is in its range: the window exists, the remainder is
\* less than a step, the cursor is behind the clock, the anchor is a Scope
\* (rain.go:84-118).
THEOREM TypesSafe == Spec => []RainTypeOK
<1>1. ViewsInv /\ PagesInv /\ CountsInv => RainTypeOK
  <2> SUFFICES ASSUME ViewsInv, PagesInv, CountsInv PROVE RainTypeOK OBVIOUS
  <2>1. /\ Held(rain) /\ Shown(rain, published.confirmed) /\ Numbers(rain) /\ Page(rain)
        /\ published.confirmed \in SUBSET Representations
        /\ rain.cursor <= now /\ now \in 0 .. MaxTime /\ MaxTime \in Nat
    BY ProgramAssumption DEF ViewsInv, PagesInv, CountsInv, Settled
  <2>2. /\ rain.window \in 1 .. Available /\ rain.scopes \subseteq Scopes
        /\ rain.observed \subseteq Representations
        /\ rain.remainder \in 0 .. RainStep - 1 /\ rain.chain \in 0 .. Generations - 1
        /\ {rain.width, rain.height, rain.start} \subseteq Nat
        /\ rain.anchor \in Scopes \cup {NoScope}
    BY <2>1 DEF Numbers, Page
  <2>3. /\ rain.cursor \in 0 .. MaxTime
        /\ {rain.started, rain.paused, rain.needsRebase} \subseteq BOOLEAN
    BY <2>1 DEF Held
  <2>4. ASSUME NEW k \in DOMAIN rain.items \cup DOMAIN rain.queue
        PROVE  k \in Representations /\ ItemOf(rain, k) \in [age : Nat, phase : Nat]
    <3>1. k \in Representations BY <2>1 DEF Shown
    <3>2. /\ Items(rain.items) /\ Items(rain.queue) BY <2>1 DEF Held
    <3>3. /\ k \in DOMAIN rain.items => rain.items[k].phase \in Nat
          /\ k \in DOMAIN rain.queue => rain.queue[k].phase \in Nat
      BY <2>1 DEF Numbers, Phases
    <3> QED BY <3>1, <3>2, <3>3 DEF Items, ItemOf
  <2> QED BY <2>2, <2>3, <2>4 DEF RainTypeOK
<1>2. ViewsInv /\ PagesInv /\ [Next]_vars => PagesInv' BY StepPages
<1> QED BY <1>1, <1>2, InitPages, CountsInvariance, ViewsInvariance, PTL DEF Spec

-----------------------------------------------------------------------------
(* The slots of a row *)

\* A row that is being placed, and how many of it have been.
Rows(slots) == [taken : SUBSET (0 .. slots - 1), collisions : Nat]
Placed(row) == Cardinality(row.taken) + row.collisions

\* A number that turns around once at most.
LEMMA TurnsAround ==
    ASSUME NEW n \in Nat \ {0}, NEW f \in 0 .. n - 1
    PROVE  f % n = f /\ (f + n) % n = f
<1>1. f \in Nat /\ f + n \in Nat OBVIOUS
<1>2. PICK q \in Nat, m \in 0 .. n - 1 : m = f % n /\ f = n * q + m
  <2>1. f \div n \in Nat /\ f % n \in 0 .. n - 1 /\ f = n * (f \div n) + (f % n)
    BY <1>1, Division
  <2> QED BY <2>1
<1>3. PICK p \in Nat, l \in 0 .. n - 1 : l = (f + n) % n /\ f + n = n * p + l
  <2> DEFINE g == f + n
  <2>1. g \in Nat BY <1>1
  <2> HIDE DEF g
  <2>2. g \div n \in Nat /\ g % n \in 0 .. n - 1 /\ g = n * (g \div n) + (g % n)
    BY <2>1, Division
  <2>3. \E p \in Nat, l \in 0 .. n - 1 : l = g % n /\ g = n * p + l BY <2>2
  <2> QED BY <2>3 DEF g
<1>4. n * 0 + f = n * q + m BY <1>2
<1>5. n * 1 + f = n * p + l BY <1>3
<1>6. f = m
  <2>1. 0 \in Int /\ q \in Int OBVIOUS
  <2> QED BY <1>4, <2>1, OneDivision
<1>7. f = l
  <2>1. 1 \in Int /\ p \in Int OBVIOUS
  <2> QED BY <1>5, <2>1, OneDivision
<1> QED BY <1>2, <1>3, <1>6, <1>7

\* While a row has a free slot, the probe finds one.
LEMMA ProbeFinds ==
    ASSUME NEW slots \in Nat \ {0}, NEW taken \in SUBSET (0 .. slots - 1),
           taken # 0 .. slots - 1, NEW want \in 0 .. slots - 1
    PROVE  ProbedSlot(want, taken, slots) \in (0 .. slots - 1) \ taken
<1> DEFINE at(d) == (want + d) % slots
           Free == {d \in 0 .. slots - 1 : at(d) \notin taken}
           first(d) == at(d) \notin taken /\ \A e \in 0 .. d - 1 : at(e) \in taken
           distance == CHOOSE d \in 0 .. slots - 1 : first(d)
<1>1. PICK f \in 0 .. slots - 1 : f \notin taken OBVIOUS
<1>2. Free # {}
  <2> DEFINE d == IF f >= want THEN f - want ELSE f - want + slots
  <2>1. d \in 0 .. slots - 1 /\ (want + d = f \/ want + d = f + slots) OBVIOUS
  <2>2. at(d) = f BY <2>1, TurnsAround
  <2> HIDE DEF d
  <2> QED BY <1>1, <2>1, <2>2
<1>3. PICK d \in Free : \A e \in Free : d <= e
  <2>1. Free \in SUBSET Nat OBVIOUS
  <2> HIDE DEF Free
  <2> QED BY <1>2, <2>1, LeastNumber
<1>4. d \in 0 .. slots - 1 /\ at(d) \notin taken BY <1>3
<1>5. \A e \in 0 .. d - 1 : e \in 0 .. slots - 1 /\ ~(d <= e) BY <1>4
<1>6. \A e \in 0 .. d - 1 : at(e) \in taken
  <2> HIDE DEF at
  <2> QED BY <1>3, <1>5
<1>7. distance \in 0 .. slots - 1 /\ first(distance)
  <2> HIDE DEF at
  <2> QED BY <1>4, <1>6
<1>8. ProbedSlot(want, taken, slots) = at(distance) BY DEF ProbedSlot
<1> HIDE DEF distance
<1>9. at(distance) \in 0 .. slots - 1 BY <1>7, Division
<1> QED BY <1>7, <1>8, <1>9

\* One more representation takes one slot, or is grouped.
LEMMA SeatingPlaces ==
    ASSUME NEW slots \in Nat \ {0}, NEW row \in Rows(slots), NEW want \in 0 .. slots - 1
    PROVE  /\ Seated(row, want, slots) \in Rows(slots)
           /\ Placed(row) \in Nat /\ Placed(Seated(row, want, slots)) = Placed(row) + 1
<1> DEFINE all == 0 .. slots - 1
           slot == ProbedSlot(want, row.taken, slots)
<1>1. IsFiniteSet(all) /\ Cardinality(all) = slots
  <2>1. 0 \in Int /\ slots - 1 \in Int /\ ~(0 > slots - 1) OBVIOUS
  <2> QED BY <2>1, FS_Interval
<1>2. row.taken \in SUBSET all /\ row.collisions \in Nat BY DEF Rows
<1>3. IsFiniteSet(row.taken) /\ Cardinality(row.taken) \in Nat
  BY <1>1, <1>2, FS_Subset, FS_CardinalityType
<1>4. CASE Cardinality(row.taken) = slots
  <2>1. Seated(row, want, slots) = [row EXCEPT !.collisions = row.collisions + 1]
    BY <1>4 DEF Seated
  <2> QED BY <1>2, <1>3, <2>1 DEF Rows, Placed
<1>5. CASE Cardinality(row.taken) # slots
  <2>1. Seated(row, want, slots) = [row EXCEPT !.taken = row.taken \cup {slot}]
    BY <1>5 DEF Seated
  <2>2. slot \in all \ row.taken BY <1>1, <1>2, <1>5, ProbeFinds
  <2>3. Cardinality(row.taken \cup {slot}) = Cardinality(row.taken) + 1
    BY <1>3, <2>2, FS_AddElement
  <2> HIDE DEF slot
  <2>4. row.taken \cup {slot} \in SUBSET all BY <1>2, <2>2
  <2> QED BY <1>2, <1>3, <2>1, <2>3, <2>4 DEF Rows, Placed
<1> QED BY <1>4, <1>5

\* All of a row is placed.
LEMMA AssigningPlaces ==
    ASSUME NEW slots \in Nat \ {0}, NEW n \in Nat, NEW desired,
           Len(desired) = n, \A i \in 1 .. n : desired[i] \in 0 .. slots - 1
    PROVE  /\ AssignSlots(desired, slots) \in Rows(slots)
           /\ Placed(AssignSlots(desired, slots)) = n
<1> DEFINE base == [taken |-> {}, collisions |-> 0]
           P == [i \in 0 .. n |-> {row \in Rows(slots) : Placed(row) = i}]
           next == [i \in 1 .. n |-> [row \in P[i - 1] |-> Seated(row, desired[i], slots)]]
           Body(f) == [i \in 0 .. n |->
                          IF i = 0 THEN base ELSE Seated(f[i - 1], desired[i], slots)]
<1>1. base \in P[0]
  <2>1. base \in Rows(slots) /\ base.taken = {} /\ base.collisions = 0 BY DEF Rows
  <2>2. Placed(base) = 0 BY <2>1, FS_EmptySet DEF Placed
  <2> HIDE DEF base
  <2> QED BY <2>1, <2>2
<1>2. \A i \in 1 .. n : i - 1 \in 0 .. n OBVIOUS
<1>3. ASSUME NEW i \in 1 .. n, NEW row \in P[i - 1]
      PROVE  next[i][row] \in P[i] /\ next[i][row] = Seated(row, desired[i], slots)
  <2>1. row \in Rows(slots) /\ Placed(row) = i - 1 BY <1>2
  <2>2. Seated(row, desired[i], slots) \in Rows(slots)
        /\ Placed(Seated(row, desired[i], slots)) = i
    BY <2>1, SeatingPlaces
  <2>3. next[i] = [r \in P[i - 1] |-> Seated(r, desired[i], slots)] OBVIOUS
  <2>4. next[i][row] = Seated(row, desired[i], slots)
    <3> HIDE DEF P, next
    <3> QED BY <2>3
  <2> HIDE DEF next
  <2> QED BY <2>2, <2>4
<1> HIDE DEF P, next, base
<1>4. PICK f : Loops(f, n, base, next) /\ \A i \in 0 .. n : f[i] \in P[i]
  <2>1. \A i \in 1 .. n : \A x \in P[i - 1] : next[i][x] \in P[i] BY <1>3
  <2> HIDE DEF Body
  <2> QED BY <1>1, <2>1, Iterates, ZenonT(60)
<1>5. f = Body(f)
  <2>1. \A i \in 1 .. n : next[i][f[i - 1]] = Seated(f[i - 1], desired[i], slots)
    BY <1>2, <1>3, <1>4
  <2>2. \A i \in 0 .. n : (IF i = 0 THEN base ELSE next[i][f[i - 1]])
                          = (IF i = 0 THEN base ELSE Seated(f[i - 1], desired[i], slots))
    BY <2>1
  <2> QED BY <1>4, <2>2 DEF Loops
<1> DEFINE run == CHOOSE g : g = Body(g)
<1>6. AssignSlots(desired, slots) = run[n] BY DEF AssignSlots, base
<1>7. run = Body(run) BY <1>5
<1> HIDE DEF run
<1>8. \A i \in 0 .. n : run[i] = IF i = 0 THEN base ELSE Seated(run[i - 1], desired[i], slots)
  BY <1>7
<1>9. \A i \in 0 .. n : run[i] \in P[i]
  <2>1. run[0] \in P[0] BY <1>1, <1>8
  <2>2. \A i \in 1 .. n : run[i - 1] \in P[i - 1] => run[i] \in P[i]
    <3> SUFFICES ASSUME NEW i \in 1 .. n, run[i - 1] \in P[i - 1] PROVE run[i] \in P[i]
      OBVIOUS
    <3>1. i \in 0 .. n /\ i # 0 OBVIOUS
    <3>2. run[i] = Seated(run[i - 1], desired[i], slots) BY <1>8, <3>1
    <3>3. next[i][run[i - 1]] \in P[i]
          /\ next[i][run[i - 1]] = Seated(run[i - 1], desired[i], slots)
      BY <1>3
    <3> QED BY <3>2, <3>3
  <2> QED BY <2>1, <2>2, Carried, ZenonT(30)
<1>10. n \in 0 .. n OBVIOUS
<1> QED BY <1>6, <1>9, <1>10 DEF P

\* A row places all its representations, each in a slot or grouped.
LEMMA RowPlaces ==
    ASSUME NEW slots \in Nat \ {0}, NEW s, NEW items \in SUBSET ColumnOf(Representations, s)
    PROVE  LET row == RowSlots(items, slots)
           IN  /\ row \in Rows(slots) /\ Placed(row) = Cardinality(items)
               /\ Cardinality(items) \in Nat /\ Cardinality(row.taken) \in Nat
               /\ row.collisions \in Nat
<1> DEFINE R == {pair \in items \X items : Newer(pair[1], pair[2])}
           sorted == InOrder(R, items)
           desired == [i \in DOMAIN sorted |-> Reduce(SlotHash[sorted[i]], slots)]
<1>0. items \in SUBSET Representations /\ \A k \in items : k[2] = s BY DEF ColumnOf
<1>1. IsFiniteSet(items) BY <1>0, RepresentationsOrdered, FS_Subset
<1>2. Orders(R, items)
  <2>1. \A a, b \in items : <<a, b>> \in R <=> Newer(a, b) OBVIOUS
  <2> HIDE DEF R
  <2>2. \A a \in items : ~Newer(a, a) BY <1>0, RepresentationsOrdered DEF Newer, NewerEvent
  <2>3. \A a, b, c \in items : Newer(a, b) /\ Newer(b, c) => Newer(a, c)
    BY <1>0, RepresentationsOrdered DEF Newer, NewerEvent
  <2>4. ASSUME NEW a \in items, NEW b \in items PROVE a = b \/ Newer(a, b) \/ Newer(b, a)
    <3>1. /\ a = <<a[1], s>> /\ b = <<b[1], s>>
          /\ {a[1], b[1], OccurredAt[a[1]], OccurredAt[b[1]]} \subseteq Nat
      BY <1>0, RepresentationsOrdered
    <3> QED BY <3>1 DEF Newer, NewerEvent
  <2> QED BY <2>1, <2>2, <2>3, <2>4 DEF Orders
<1> HIDE DEF R
<1>3. /\ Cardinality(items) \in Nat /\ DOMAIN sorted = 1 .. Cardinality(items)
      /\ \A i \in DOMAIN sorted : sorted[i] \in items
  BY <1>1, <1>2, InOrderLists
<1> HIDE DEF sorted
<1>4. /\ Len(desired) = Cardinality(items)
      /\ \A i \in 1 .. Cardinality(items) : desired[i] \in 0 .. slots - 1
  <2>1. ASSUME NEW i \in 1 .. Cardinality(items) PROVE desired[i] \in 0 .. slots - 1
    <3>1. SlotHash[sorted[i]] \in Nat BY <1>0, <1>3, RainAssumption
    <3>2. SlotHash[sorted[i]] % slots \in 0 .. slots - 1 BY <3>1, Division
    <3> QED BY <1>3, <3>2 DEF Reduce
  <2>2. DOMAIN desired = 1 .. Cardinality(items) BY <1>3
  <2>3. desired \in Seq(0 .. slots - 1)
    <3>1. desired = [i \in 1 .. Cardinality(items) |-> desired[i]] BY <2>2
    <3> HIDE DEF desired
    <3> QED BY <1>3, <2>1, <3>1
  <2> HIDE DEF desired
  <2> QED BY <1>3, <2>1, <2>2, <2>3
<1>5. RowSlots(items, slots) = AssignSlots(desired, slots)
  BY DEF RowSlots, sorted, R
<1> HIDE DEF desired
<1>6. /\ AssignSlots(desired, slots) \in Rows(slots)
      /\ Placed(AssignSlots(desired, slots)) = Cardinality(items)
  BY <1>3, <1>4, AssigningPlaces
<1>7. \A row \in Rows(slots) : row.collisions \in Nat /\ Cardinality(row.taken) \in Nat
  <2>1. IsFiniteSet(0 .. slots - 1) BY FS_Interval
  <2> QED BY <2>1, FS_Subset, FS_CardinalityType DEF Rows
<1> QED BY <1>3, <1>5, <1>6, <1>7

-----------------------------------------------------------------------------
(* Columns and the field *)

\* What a column reports of its representations.
Accounted(c, n) ==
    /\ c.rendered \in Nat /\ c.collisions \in Nat /\ c.hidden \in Nat /\ n \in Nat
    /\ c.rendered + c.collisions + c.hidden = n

LEMMA ColumnAccounts ==
    ASSUME NEW r, NEW s, NEW interior \in Nat, r.height \in Nat,
           DOMAIN r.items \in SUBSET Representations, Phases(r.items)
    PROVE  Accounted(Column(r, s, interior), Cardinality(ColumnOf(DOMAIN r.items, s)))
<1> DEFINE slots == Slots(interior)
           rows == 0 .. r.height - 1
           D == ColumnOf(DOMAIN r.items, s)
           row(i) == RowSlots(RowItems(r, s, i), slots)
           f == [i \in rows |-> Cardinality(row(i).taken)]
           g == [i \in rows |-> row(i).collisions]
           h == [i \in rows |-> Cardinality(RowItems(r, s, i))]
           v == [k \in D |-> Reduce(r.items[k].phase, r.height)]
<1>1. slots \in Nat BY DEF Slots
<1>2. D \in SUBSET Representations BY DEF ColumnOf
<1>3. IsFiniteSet(D) /\ Cardinality(D) \in Nat
  BY <1>2, RepresentationsOrdered, FS_Subset, FS_CardinalityType
<1>4. {k \in DOMAIN r.items : k[2] = s} = D BY DEF ColumnOf
<1> SUFFICES Accounted(Column(r, s, interior), Cardinality(D)) OBVIOUS
<1>5. CASE r.height = 0 \/ slots = 0
  <2>1. Column(r, s, interior) = [rendered |-> 0, collisions |-> 0, hidden |-> Cardinality(D)]
    BY <1>4, <1>5 DEF Column
  <2> HIDE DEF D
  <2> QED BY <1>3, <2>1 DEF Accounted
<1>6. CASE ~(r.height = 0 \/ slots = 0)
  <2>1. slots \in Nat \ {0} /\ r.height \in Nat \ {0} BY <1>1, <1>6
  <2> HIDE DEF slots, D
  <2>2. IsFiniteSet(rows) BY <2>1, FS_Interval
  <2>3. ASSUME NEW i \in rows
        PROVE  f[i] \in Nat /\ g[i] \in Nat /\ h[i] = f[i] + g[i]
    <3> DEFINE items == RowItems(r, s, i)
    <3>1. items \in SUBSET ColumnOf(Representations, s) BY DEF RowItems, ColumnOf
    <3> HIDE DEF items
    <3>2. /\ Placed(RowSlots(items, slots)) = Cardinality(items)
          /\ Cardinality(RowSlots(items, slots).taken) \in Nat
          /\ RowSlots(items, slots).collisions \in Nat
      BY <2>1, <3>1, RowPlaces
    <3> QED BY <3>2 DEF Placed, items
  <2>4. /\ SumFunctionOnSet(f, rows) + SumFunctionOnSet(g, rows) = SumFunctionOnSet(h, rows)
        /\ SumFunctionOnSet(f, rows) \in Nat /\ SumFunctionOnSet(g, rows) \in Nat
    <3> HIDE DEF f, g, h, rows
    <3> QED BY <2>2, <2>3, SumAdds
  <2>5. SumFunctionOnSet(h, rows) = Cardinality(D)
    <3>1. v \in [D -> rows]
      <4> SUFFICES ASSUME NEW k \in D PROVE Reduce(r.items[k].phase, r.height) \in rows
        OBVIOUS
      <4>1. r.items[k].phase \in Nat BY DEF Phases, D, ColumnOf
      <4>2. r.items[k].phase % r.height \in 0 .. r.height - 1 BY <2>1, <4>1, Division
      <4> QED BY <2>1, <4>2 DEF Reduce
    <3>2. ASSUME NEW i \in rows PROVE h[i] = Cardinality({k \in D : v[k] = i})
      <4>1. {k \in D : v[k] = i} = RowItems(r, s, i) BY DEF RowItems, D, ColumnOf
      <4> QED BY <4>1
    <3> HIDE DEF v, h, rows
    <3> QED BY <1>3, <2>2, <3>1, <3>2, SumOfFibres
  <2>6. Column(r, s, interior)
            = [rendered |-> SumFunctionOnSet(f, rows), collisions |-> SumFunctionOnSet(g, rows),
               hidden |-> 0]
    <3> DEFINE prepared == [i \in rows |-> row(i)]
               f2 == [i \in rows |-> Cardinality(prepared[i].taken)]
               g2 == [i \in rows |-> prepared[i].collisions]
    <3>1. f2 = f /\ g2 = g OBVIOUS
    <3>2. DOMAIN f2 = rows /\ DOMAIN g2 = rows OBVIOUS
    <3>3. Column(r, s, interior)
            = [rendered |-> SumFunction(f2), collisions |-> SumFunction(g2), hidden |-> 0]
      BY <1>6 DEF Column, slots
    <3> HIDE DEF f, g, f2, g2
    <3> QED BY <3>1, <3>2, <3>3 DEF SumFunction
  <2> HIDE DEF f, g, h, rows
  <2> QED BY <1>3, <2>4, <2>5, <2>6 DEF Accounted
<1> QED BY <1>5, <1>6

\* A column of the page has a width.
LEMMA ColumnsHaveWidth ==
    ASSUME NEW r, Page(r), NEW s \in VisibleScopes(r)
    PROVE  ColumnWidth(r.width, Columns(r), Index(s, r.scopes) - r.start) \in Nat
<1> DEFINE n == Cardinality(r.scopes)
           m == Columns(r)
           i == Index(s, r.scopes) - r.start
           interior == Larger(r.width - (m - 1), 0)
<1>1. /\ s \in r.scopes /\ r.scopes \in SUBSET Scopes /\ r.width \in Nat /\ OnPage(r)
      /\ Index(s, r.scopes) \in r.start .. r.start + m - 1
  BY DEF VisibleScopes, Page
<1>2. n \in Nat \ {0} /\ Index(s, r.scopes) \in 0 .. n - 1 BY <1>1, Selection
<1>3. r.start \in 0 .. n - 1 BY <1>1 DEF OnPage
<1>4. PerPage(r.width, n) \in 1 .. n BY <1>1, <1>2, PagesHold
<1>5. m \in Nat \ {0} BY <1>2, <1>3, <1>4 DEF Columns, PageColumns, Smaller
<1>6. i \in Nat BY <1>1, <1>2, <1>3
<1>7. interior \in Nat
  <2> HIDE DEF m
  <2> QED BY <1>1, <1>5 DEF Larger
<1> HIDE DEF m, i, interior
<1>8. interior \div m \in Nat /\ interior % m \in 0 .. m - 1 BY <1>5, <1>7, Division
<1>9. (interior \div m) + (IF i < interior % m THEN 1 ELSE 0) \in Nat BY <1>8
<1>10. ColumnWidth(r.width, m, i) = (interior \div m) + (IF i < interior % m THEN 1 ELSE 0)
  BY DEF ColumnWidth, interior
<1> QED BY <1>9, <1>10 DEF m, i

\* What the field draws, groups and hides are its representations.
LEMMA FieldDraws ==
    ASSUME NEW r, Page(r), r.height \in Nat, DOMAIN r.items \in SUBSET Representations,
           Phases(r.items)
    PROVE  LET field == Field(r)
           IN  field.rendered + field.collisions + field.hiddenItems
                   = Cardinality(DOMAIN r.items)
<1> DEFINE D == DOMAIN r.items
           visible == VisibleScopes(r)
           interior(s) == ColumnWidth(r.width, Columns(r), Index(s, r.scopes) - r.start)
           column(s) == Column(r, s, interior(s))
           f == [s \in visible |-> column(s).rendered]
           g == [s \in visible |-> column(s).collisions]
           fg == [s \in visible |-> column(s).rendered + column(s).collisions]
           h == [s \in visible |-> column(s).hidden]
           n == [s \in visible |-> Cardinality(ColumnOf(D, s))]
           in == {k \in D : k[2] \in visible}
           out == {k \in D : k[2] \notin visible}
           v == [k \in in |-> k[2]]
<1>1. IsFiniteSet(visible) /\ IsFiniteSet(D) /\ IsFiniteSet(in) /\ IsFiniteSet(out)
  <2>1. visible \in SUBSET Scopes /\ in \subseteq D /\ out \subseteq D
    BY DEF VisibleScopes, Page
  <2> QED BY <2>1, RepresentationsOrdered, PublishedAssumption, FS_Subset
<1>2. ASSUME NEW s \in visible PROVE Accounted(column(s), Cardinality(ColumnOf(D, s)))
  BY ColumnsHaveWidth, ColumnAccounts
<1> HIDE DEF D, visible, column
<1>3. ASSUME NEW s \in visible
      PROVE  /\ f[s] \in Nat /\ g[s] \in Nat /\ fg[s] \in Nat /\ h[s] \in Nat
             /\ fg[s] = f[s] + g[s] /\ n[s] = fg[s] + h[s]
  BY <1>2 DEF Accounted
<1>4. SumFunctionOnSet(n, visible) = Cardinality(in)
  <2>1. v \in [in -> visible] OBVIOUS
  <2>2. ASSUME NEW s \in visible PROVE n[s] = Cardinality({k \in in : v[k] = s})
    <3>1. {k \in in : v[k] = s} = ColumnOf(D, s) BY DEF ColumnOf
    <3> QED BY <3>1
  <2> HIDE DEF v, n, in
  <2> HIDE DEF f, g, fg, h, out
  <2>3. IsFiniteSet(visible) /\ IsFiniteSet(in) BY <1>1
  <2> QED BY <2>1, <2>2, <2>3, SumOfFibres
<1>5. Field(r) = [rendered |-> SumFunction(f), collisions |-> SumFunction(g),
                  hiddenItems |-> Cardinality(out) + SumFunction(h)]
  <2> DEFINE prepared == [s \in visible |-> column(s)]
             f2 == [s \in visible |-> prepared[s].rendered]
             g2 == [s \in visible |-> prepared[s].collisions]
             h2 == [s \in visible |-> prepared[s].hidden]
  <2>1. f2 = f /\ g2 = g /\ h2 = h OBVIOUS
  <2>2. Field(r) = [rendered |-> SumFunction(f2), collisions |-> SumFunction(g2),
                    hiddenItems |-> Cardinality(out) + SumFunction(h2)]
    BY DEF Field, column, visible, D
  <2> HIDE DEF f, g, h, f2, g2, h2, out
  <2> QED BY <2>1, <2>2
<1>6. DOMAIN f = visible /\ DOMAIN g = visible /\ DOMAIN h = visible OBVIOUS
<1>7. Cardinality(D) = Cardinality(in) + Cardinality(out) /\ Cardinality(out) \in Nat
  <2>1. D = in \cup out /\ in \cap out = {} OBVIOUS
  <2> HIDE DEF in, out
  <2>2. Cardinality(in \cup out) = Cardinality(in) + Cardinality(out) - Cardinality({})
    BY <1>1, <2>1, FS_Union
  <2>3. Cardinality(in) \in Nat /\ Cardinality(out) \in Nat /\ Cardinality({}) = 0
    BY <1>1, FS_CardinalityType, FS_EmptySet
  <2> QED BY <2>1, <2>2, <2>3
<1> HIDE DEF f, g, h, fg, n, in, out, v
<1>8. /\ SumFunctionOnSet(f, visible) + SumFunctionOnSet(g, visible) = SumFunctionOnSet(fg, visible)
      /\ SumFunctionOnSet(f, visible) \in Nat /\ SumFunctionOnSet(g, visible) \in Nat
  BY <1>1, <1>3, SumAdds
<1>9. /\ SumFunctionOnSet(fg, visible) + SumFunctionOnSet(h, visible) = SumFunctionOnSet(n, visible)
      /\ SumFunctionOnSet(fg, visible) \in Nat /\ SumFunctionOnSet(h, visible) \in Nat
  BY <1>1, <1>3, SumAdds
<1> QED BY <1>4, <1>5, <1>6, <1>7, <1>8, <1>9 DEF SumFunction, D

\* The field is drawn from what is confirmed and admitted, on the rows the body leaves it,
\* and what it draws, what it groups because the cells are taken, and what it hides
\* because no column has room are all it holds, once each
\* (rain_field.go:43-170, rain.go:312-323, 406-489, rain_render.go:110-124).
THEOREM FieldSound == Spec => []FieldIsSound
<1>1. ViewsInv /\ PagesInv /\ CountsInv => FieldAccounts
  <2> SUFFICES ASSUME ViewsInv, PagesInv, CountsInv PROVE FieldAccounts OBVIOUS
  <2>1. Page(rain) /\ rain.height \in Nat /\ Phases(rain.items)
    BY DEF PagesInv, CountsInv, Numbers
  <2>2. DOMAIN rain.items \in SUBSET Representations BY DEF ViewsInv, Settled, Shown
  <2> QED BY <2>1, <2>2, FieldDraws DEF FieldAccounts
<1>2. ViewsInv /\ PagesInv /\ [Next]_vars => PagesInv' BY StepPages
<1>3. Spec => []PagesInv BY <1>2, InitPages, ViewsInvariance, PTL DEF Spec
<1>4. RainTypeOK /\ FieldIsConfirmed /\ FieldAccounts /\ FieldFits => FieldIsSound
  BY DEF FieldIsSound
<1> QED BY <1>1, <1>3, <1>4, CountsInvariance, ViewsInvariance, TypesSafe, ConfirmedSafe,
           FitsSafe, PTL

-----------------------------------------------------------------------------
(* Stream and Overview *)

\* The values of Stream have their fields.
Scrolls(s) ==
    s \in [focus : Int, offset : Int,
           detail : [open : BOOLEAN, event : Events \cup {NoEvent}, offset : Nat]]

\* Every place in the list of Stream is that of one event.
LEMMA EventPlaces ==
    ASSUME NEW p, p.listed \in SUBSET Events
    PROVE  LET n == Cardinality(p.listed)
           IN  /\ n \in Nat
               /\ p.listed # {} => n > 0
               /\ \A e \in p.listed : EventIndex(p, e) \in 0 .. n - 1
               /\ \A i \in 0 .. n - 1 : /\ StreamEvents(p)[i + 1] \in p.listed
                                        /\ EventIndex(p, StreamEvents(p)[i + 1]) = i
<1> DEFINE K == p.listed
           n == Cardinality(K)
           R == {pair \in K \X K : NewerEvent(pair[1], pair[2])}
<1>1. IsFiniteSet(K) BY PublishedAssumption, FS_Subset
<1>2. \A e \in K : e \in Nat /\ OccurredAt[e] \in Nat BY PublishedAssumption
<1>3. \A a, b \in K : <<a, b>> \in R <=> NewerEvent(a, b) OBVIOUS
<1> HIDE DEF R
<1>4. Orders(R, K)
  <2>1. \A a \in K : <<a, a>> \notin R BY <1>2, <1>3 DEF NewerEvent
  <2>2. \A a, b, c \in K : <<a, b>> \in R /\ <<b, c>> \in R => <<a, c>> \in R
    BY <1>2, <1>3 DEF NewerEvent
  <2>3. ASSUME NEW a \in K, NEW b \in K PROVE a = b \/ <<a, b>> \in R \/ <<b, a>> \in R
    <3>1. a \in Nat /\ b \in Nat /\ OccurredAt[a] \in Nat /\ OccurredAt[b] \in Nat
      BY <1>2
    <3>2. a = b \/ NewerEvent(a, b) \/ NewerEvent(b, a) BY <3>1 DEF NewerEvent
    <3> QED BY <1>3, <3>2
  <2> QED BY <2>1, <2>2, <2>3 DEF Orders
<1>5. ASSUME NEW e \in K PROVE Rank(R, K, e) = EventIndex(p, e)
  <2>1. {d \in K : <<d, e>> \in R} = {d \in p.listed : NewerEvent(d, e)} BY <1>3
  <2> QED BY <2>1 DEF Rank, EventIndex
<1>6. /\ n \in Nat
      /\ \A e \in K : EventIndex(p, e) \in 0 .. n - 1
      /\ \A i \in 0 .. n - 1 : \E e \in K : EventIndex(p, e) = i
  BY <1>1, <1>4, <1>5, RanksTaken
<1>7. K # {} => n > 0 BY <1>1, <1>6, FS_EmptySet
<1>8. ASSUME NEW i \in 0 .. n - 1
      PROVE  StreamEvents(p)[i + 1] \in K /\ EventIndex(p, StreamEvents(p)[i + 1]) = i
  <2>1. i + 1 \in 1 .. n /\ (i + 1) - 1 = i BY <1>6
  <2>2. StreamEvents(p)[i + 1] = CHOOSE e \in K : EventIndex(p, e) = i
    BY <2>1 DEF StreamEvents
  <2> QED BY <1>6, <2>2
<1> QED BY <1>6, <1>7, <1>8

\* The offsets a viewport is clamped to.
LEMMA ClampedFits ==
    ASSUME NEW offset \in Int, NEW count \in Nat \ {0}, NEW h \in Int
    PROVE  /\ Clamped(offset, count, h) \in Nat
           /\ Clamped(offset, count, h) <= count - 1
           /\ h > 0 => Clamped(offset, count, h) <= Larger(count - h, 0)
           /\ Fitted(offset, count, h) \in Nat
           /\ Fitted(offset, count, h) <= count - 1
           /\ h > 0 => Fitted(offset, count, h) <= Larger(count - h, 0)
BY DEF Clamped, Fitted, Retained, Smaller, Larger

\* A list keeps its focus among its lines and in its window.
LEMMA ContainedFits ==
    ASSUME NEW s, Scrolls(s), NEW count \in Nat \ {0}, NEW h \in Int
    PROVE  LET c == Contained(s, count, h)
           IN  /\ Scrolls(c) /\ c.detail = s.detail
               /\ c.focus = Smaller(Larger(s.focus, 0), count - 1)
               /\ c.focus \in 0 .. count - 1
               /\ h > 0 => /\ c.focus \in c.offset .. c.offset + h - 1
                           /\ c.offset <= Larger(count - h, 0)
<1> DEFINE focus == Smaller(Larger(s.focus, 0), count - 1)
           offset == IF h = 0 THEN Retained(s.offset, count)
                     ELSE IF h < 0 THEN Clamped(s.offset, count, h)
                     ELSE Revealing(Clamped(s.offset, count, h), focus, h)
           c == [s EXCEPT !.focus = focus, !.offset = offset]
<1>1. Contained(s, count, h) = c
  <2>1. ~(count <= 0) OBVIOUS
  <2>2. CASE h = 0
    <3>1. Contained(s, count, h) = [s EXCEPT !.focus = focus, !.offset = Retained(s.offset, count)]
      BY <2>1, <2>2 DEF Contained
    <3> QED BY <2>2, <3>1
  <2>3. CASE h # 0
    <3>1. Contained(s, count, h) =
            [s EXCEPT !.focus = focus,
                      !.offset = IF h < 0 THEN Clamped(s.offset, count, h)
                                 ELSE Revealing(Clamped(s.offset, count, h), focus, h)]
      BY <2>1, <2>3 DEF Contained
    <3> QED BY <2>3, <3>1
  <2> QED BY <2>2, <2>3
<1>2. s.focus \in Int /\ s.offset \in Int BY DEF Scrolls
<1>3. focus \in 0 .. count - 1 BY <1>2 DEF Smaller, Larger
<1> HIDE DEF focus
<1>4. offset \in Int
  <2>1. Clamped(s.offset, count, h) \in Nat /\ Retained(s.offset, count) \in Int
    BY <1>2, ClampedFits DEF Retained, Smaller, Larger
  <2>2. Revealing(Clamped(s.offset, count, h), focus, h) \in Int
    BY <1>3, <2>1 DEF Revealing
  <2> QED BY <2>1, <2>2
<1>5. ASSUME h > 0
      PROVE  focus \in offset .. offset + h - 1 /\ offset <= Larger(count - h, 0)
  <2>1. Clamped(s.offset, count, h) \in Nat /\ Clamped(s.offset, count, h) <= Larger(count - h, 0)
    BY <1>2, <1>5, ClampedFits
  <2>2. offset = Revealing(Clamped(s.offset, count, h), focus, h) BY <1>5
  <2> HIDE DEF offset
  <2> QED BY <1>3, <1>5, <2>1, <2>2 DEF Revealing, Larger
<1> HIDE DEF offset
<1>6. focus \in Int BY <1>3
<1>7. Scrolls(c) /\ c.detail = s.detail /\ c.focus = focus /\ c.offset = offset
  BY <1>4, <1>6 DEF Scrolls
<1> HIDE DEF c
<1> QED BY <1>1, <1>3, <1>5, <1>7 DEF focus

\* What is listed, and that the lines which stand for a list are shown without one.
Listing(p) ==
    /\ p.listed \in SUBSET Events /\ p.scopes \in SUBSET Scopes
    /\ p.freshness \in {"loading", "error"} => p.listed = {}

\* What FocusVisible and DetailFollows say of a Stream and an Overview.
InWindow(s, p, h) ==
    LET rows == RowHeight(p, ContentHeight(h))
    IN  /\ s.focus \in 0 .. StreamLines(p) - 1
        /\ rows > 0 => /\ s.focus \in s.offset .. s.offset + rows - 1
                       /\ s.offset <= Larger(StreamLines(p) - rows, 0)
OnEvent(s, p, w, h) ==
    s.detail.open =>
        LET lines == DetailLines[s.detail.event, w]
        IN  /\ s.detail.event \in p.listed
            /\ s.focus = EventIndex(p, s.detail.event)
            /\ s.detail.offset < lines
            /\ ContentHeight(h) > 0 => s.detail.offset <= Larger(lines - ContentHeight(h), 0)
Navigates(s, p, w, h) == Scrolls(s) /\ InWindow(s, p, h) /\ OnEvent(s, p, w, h)
Overlooks(o, p, h) ==
    LET body == ContentHeight(h)
    IN  o \in Nat /\ (body > 0 => o <= Larger(OverviewLines(p) - body, 0))

LEMMA LinesCounted ==
    ASSUME NEW p, Listing(p)
    PROVE  /\ StreamLines(p) \in Nat \ {0} /\ OverviewLines(p) \in Nat \ {0}
           /\ StreamLines(p) = IF p.listed = {} THEN 1 ELSE Cardinality(p.listed)
           /\ HasState(p) <=> p.listed = {}
           /\ \A b \in Int : RowHeight(p, b) \in Int
<1>1. HasState(p) <=> p.listed = {} BY DEF HasState, Listing
<1>2. /\ StreamLines(p) = IF p.listed = {} THEN 1 ELSE Cardinality(p.listed)
      /\ StreamLines(p) \in Nat \ {0}
  BY <1>1, EventPlaces DEF StreamLines, Listing
<1>3. p.scopes # {} => Cardinality(p.scopes) \in Nat \ {0} BY Selection DEF Listing
<1>4. OverviewLines(p) \in Nat \ {0} BY <1>3 DEF OverviewLines
<1>5. \A b \in Int : RowHeight(p, b) \in Int BY DEF RowHeight, StreamChrome, Smaller
<1> QED BY <1>1, <1>2, <1>4, <1>5

LEMMA DetailCounted == \A e \in Events, w \in Widths : DetailLines[e, w] \in Nat \ {0}
BY DetailAssumption, ZenonT(60)

LEMMA BodyCounted == \A h \in Int : ContentHeight(h) \in Int
BY DEF ContentHeight, Larger, ChromeLines, Unbounded

LEMMA OverviewClamped ==
    ASSUME NEW o \in Nat, NEW p, Listing(p), NEW w, NEW h \in Int
    PROVE  Overlooks(ClampedOverview(o, p, w, h), p, h)
<1> DEFINE body == ContentHeight(h)
           lines == OverviewLines(p)
<1>1. body \in Int /\ lines \in Nat \ {0} BY LinesCounted, BodyCounted
<1> HIDE DEF body, lines
<1>2. /\ Fitted(o, lines, body) \in Nat
      /\ body > 0 => Fitted(o, lines, body) <= Larger(lines - body, 0)
  BY <1>1, ClampedFits
<1> QED BY <1>2 DEF ClampedOverview, Overlooks, body, lines

LEMMA OverviewScrolls ==
    ASSUME NEW o \in Nat, NEW p, Listing(p), NEW h \in Int, NEW key \in Keys
    PROVE  Overlooks(ViewportScrolled(o, key, OverviewLines(p), ContentHeight(h)), p, h)
<1> DEFINE body == ContentHeight(h)
           lines == OverviewLines(p)
           moved == Moved(Clamped(o, lines, body), key, body)
<1>1. body \in Int /\ lines \in Nat \ {0} BY LinesCounted, BodyCounted
<1> HIDE DEF body, lines
<1>2. Clamped(o, lines, body) \in Nat BY <1>1, ClampedFits
<1>3. moved \in Int BY <1>1, <1>2 DEF Moved, Keys
<1> HIDE DEF moved
<1>4. /\ Clamped(moved, lines, body) \in Nat
      /\ body > 0 => Clamped(moved, lines, body) <= Larger(lines - body, 0)
  BY <1>1, <1>3, ClampedFits
<1> QED BY <1>4 DEF ViewportScrolled, Overlooks, body, lines, moved

\* A list that is contained keeps the detail, and a detail's event the focus.
LEMMA ContainedNavigates ==
    ASSUME NEW s, Scrolls(s), NEW p, Listing(p), NEW w, NEW h \in Int, OnEvent(s, p, w, h)
    PROVE  Navigates(Contained(s, StreamLines(p), RowHeight(p, ContentHeight(h))), p, w, h)
<1> DEFINE count == StreamLines(p)
           rows == RowHeight(p, ContentHeight(h))
           c == Contained(s, count, rows)
<1>1. count \in Nat \ {0} /\ rows \in Int BY LinesCounted, BodyCounted
<1>2. /\ Scrolls(c) /\ c.detail = s.detail
      /\ c.focus = Smaller(Larger(s.focus, 0), count - 1)
      /\ c.focus \in 0 .. count - 1
      /\ rows > 0 => /\ c.focus \in c.offset .. c.offset + rows - 1
                     /\ c.offset <= Larger(count - rows, 0)
  BY <1>1, ContainedFits
<1>3. ASSUME s.detail.open PROVE c.focus = s.focus
  <2>1. s.detail.event \in p.listed /\ s.focus = EventIndex(p, s.detail.event)
    BY <1>3 DEF OnEvent
  <2>2. s.focus \in 0 .. Cardinality(p.listed) - 1 /\ Cardinality(p.listed) \in Nat
    BY <2>1, EventPlaces DEF Listing
  <2>3. count = Cardinality(p.listed) BY <2>1, LinesCounted
  <2> HIDE DEF count, c
  <2> QED BY <1>2, <2>2, <2>3 DEF Smaller, Larger
<1>4. InWindow(c, p, h) BY <1>2 DEF InWindow
<1> HIDE DEF c
<1>5. OnEvent(c, p, w, h) BY <1>2, <1>3 DEF OnEvent
<1> QED BY <1>2, <1>4, <1>5 DEF Navigates, c

\* A detail follows its event, or is closed with it.
LEMMA FollowedOnEvent ==
    ASSUME NEW s, Scrolls(s), NEW p, Listing(p), NEW w \in Widths, NEW h \in Int
    PROVE  LET f == FollowedDetail(s, p, w, ContentHeight(h))
           IN  Scrolls(f) /\ OnEvent(f, p, w, h)
<1> DEFINE body == ContentHeight(h)
           f == FollowedDetail(s, p, w, body)
<1>1. CASE ~s.detail.open BY <1>1 DEF FollowedDetail, OnEvent
<1>2. CASE s.detail.open /\ s.detail.event \notin p.listed
  <2>1. f = [s EXCEPT !.detail = ClosedDetail]
    BY <1>2 DEF FollowedDetail, DetailShows, StreamClosed
  <2>2. ClosedDetail \in [open : BOOLEAN, event : Events \cup {NoEvent}, offset : Nat]
        /\ ClosedDetail.open = FALSE
    BY DEF ClosedDetail
  <2> HIDE DEF f
  <2>3. Scrolls(f) /\ f.detail.open = FALSE BY <2>1, <2>2 DEF Scrolls
  <2> QED BY <2>3 DEF OnEvent, f
<1>3. CASE s.detail.open /\ s.detail.event \in p.listed
  <2> DEFINE lines == DetailLines[s.detail.event, w]
             offset == Fitted(s.detail.offset, lines, body)
             index == EventIndex(p, s.detail.event)
             d == [s.detail EXCEPT !.offset = offset]
             g == [s EXCEPT !.focus = index, !.detail = d]
  <2>1. f = g
    BY <1>3 DEF FollowedDetail, DetailShows, Followed
  <2>2. lines \in Nat \ {0}
    <3>1. s.detail.event \in Events BY <1>3 DEF Listing
    <3> QED BY <3>1, DetailCounted, ZenonT(60)
  <2>3. body \in Int BY BodyCounted
  <2>4. s.detail.offset \in Int BY DEF Scrolls
  <2> HIDE DEF lines, body
  <2>5. offset \in Nat /\ offset <= lines - 1 /\ (body > 0 => offset <= Larger(lines - body, 0))
    BY <2>2, <2>3, <2>4, ClampedFits
  <2> HIDE DEF offset
  <2>6. index \in Int BY <1>3, EventPlaces DEF Listing
  <2> HIDE DEF index
  <2>7. /\ d \in [open : BOOLEAN, event : Events \cup {NoEvent}, offset : Nat]
        /\ d.event = s.detail.event /\ d.offset = offset
    BY <2>5 DEF Scrolls
  <2> HIDE DEF d
  <2>8. Scrolls(g) /\ g.focus = index /\ g.detail = d BY <2>6, <2>7 DEF Scrolls
  <2>9. g.detail.event = s.detail.event /\ g.detail.offset = offset BY <2>7, <2>8
  <2> HIDE DEF g
  <2>10. offset < lines BY <2>2, <2>5
  <2>11. OnEvent(g, p, w, h)
    BY <1>3, <2>5, <2>8, <2>9, <2>10 DEF OnEvent, lines, index, body
  <2> QED BY <2>1, <2>8, <2>11 DEF body
<1> QED BY <1>1, <1>2, <1>3

LEMMA StreamClamped ==
    ASSUME NEW s, Scrolls(s), NEW p, Listing(p), NEW w \in Widths, NEW h \in Int
    PROVE  Navigates(ClampedStream(s, p, w, h), p, w, h)
<1> DEFINE f == FollowedDetail(s, p, w, ContentHeight(h))
<1>1. Scrolls(f) /\ OnEvent(f, p, w, h) BY FollowedOnEvent
<1> HIDE DEF f
<1> QED BY <1>1, ContainedNavigates DEF ClampedStream, f

\* A key moves the detail that shows, or else the focus.
LEMMA StreamScrolls ==
    ASSUME NEW s, NEW p, Listing(p), NEW w \in Widths, NEW h \in Int, NEW key \in Keys,
           Navigates(s, p, w, h)
    PROVE  Navigates(StreamScrolled(s, key, p, w, ContentHeight(h)), p, w, h)
<1> DEFINE body == ContentHeight(h)
           rows == RowHeight(p, body)
           count == StreamLines(p)
           a == StreamScrolled(s, key, p, w, body)
<1>1. Scrolls(s) /\ InWindow(s, p, h) /\ OnEvent(s, p, w, h) BY DEF Navigates
<1>2. body \in Int /\ rows \in Int /\ count \in Nat \ {0} BY LinesCounted, BodyCounted
<1>3. CASE DetailShows(s, p)
  <2> DEFINE lines == DetailLines[s.detail.event, w]
             moved == Moved(Clamped(s.detail.offset, lines, body), key, body)
             offset == Clamped(moved, lines, body)
             d == [s.detail EXCEPT !.offset = offset]
             g == [s EXCEPT !.detail = d]
  <2>1. a = g BY <1>3 DEF StreamScrolled, ViewportScrolled
  <2>2. lines \in Nat \ {0} /\ s.detail.open /\ s.detail.event \in p.listed
    <3>1. s.detail.open /\ s.detail.event \in p.listed BY <1>3 DEF DetailShows
    <3>2. s.detail.event \in Events BY <3>1 DEF Listing
    <3> QED BY <3>1, <3>2, DetailCounted, ZenonT(60)
  <2>3. s.detail.offset \in Int BY <1>1 DEF Scrolls
  <2> HIDE DEF a, lines, body
  <2>4. Clamped(s.detail.offset, lines, body) \in Nat BY <1>2, <2>2, <2>3, ClampedFits
  <2>5. moved \in Int BY <1>2, <2>4 DEF Moved, Keys
  <2> HIDE DEF moved
  <2>6. offset \in Nat /\ offset <= lines - 1 /\ (body > 0 => offset <= Larger(lines - body, 0))
    BY <1>2, <2>2, <2>5, ClampedFits
  <2> HIDE DEF offset
  <2>7. /\ d \in [open : BOOLEAN, event : Events \cup {NoEvent}, offset : Nat]
        /\ d.event = s.detail.event /\ d.offset = offset
    BY <1>1, <2>6 DEF Scrolls
  <2> HIDE DEF d
  <2>8. Scrolls(g) /\ g.focus = s.focus /\ g.offset = s.offset /\ g.detail = d
    BY <1>1, <2>7 DEF Scrolls
  <2>9. g.detail.event = s.detail.event /\ g.detail.offset = offset BY <2>7, <2>8
  <2> HIDE DEF g
  <2>10. InWindow(g, p, h) BY <1>1, <2>8 DEF InWindow
  <2>11. offset < lines BY <2>2, <2>6
  <2>12. s.focus = EventIndex(p, s.detail.event) BY <1>1, <2>2 DEF OnEvent
  <2>13. OnEvent(g, p, w, h)
    BY <2>2, <2>6, <2>8, <2>9, <2>11, <2>12 DEF OnEvent, lines, body
  <2> QED BY <2>1, <2>8, <2>10, <2>13 DEF Navigates, a, body
<1>4. CASE ~DetailShows(s, p)
  <2> DEFINE held == Contained(s, count, rows)
             focus == Moved(held.focus, key, Larger(rows, 1))
             moved == [held EXCEPT !.focus = focus]
  <2>1. a = Contained(moved, count, rows) BY <1>4 DEF StreamScrolled
  <2>2. s.detail.open = FALSE
    BY <1>1, <1>4 DEF DetailShows, OnEvent, Scrolls
  <2> HIDE DEF a, count, rows
  <2>3. /\ Scrolls(held) /\ held.detail = s.detail /\ held.focus \in Int
    BY <1>1, <1>2, ContainedFits DEF Scrolls
  <2> HIDE DEF held
  <2>4. focus \in Int BY <1>2, <2>3 DEF Moved, Keys, Larger
  <2> HIDE DEF focus
  <2>5. Scrolls(moved) /\ moved.detail = s.detail BY <2>3, <2>4 DEF Scrolls
  <2> HIDE DEF moved
  <2>6. OnEvent(moved, p, w, h) BY <2>2, <2>5 DEF OnEvent
  <2> QED BY <2>1, <2>5, <2>6, ContainedNavigates DEF a, count, rows, body
<1> QED BY <1>3, <1>4

\* A detail opens on the focused event, and closing it moves nothing.
LEMMA DetailNavigates ==
    ASSUME NEW s, NEW p, Listing(p), NEW w \in Widths, NEW h \in Int, Navigates(s, p, w, h)
    PROVE  Navigates(OpenedDetail(s, p), p, w, h) /\ Navigates(StreamClosed(s), p, w, h)
<1>1. Scrolls(s) /\ InWindow(s, p, h) /\ OnEvent(s, p, w, h) BY DEF Navigates
<1>2. ASSUME NEW d \in [open : BOOLEAN, event : Events \cup {NoEvent}, offset : Nat],
             d.open => /\ d.event \in p.listed /\ s.focus = EventIndex(p, d.event)
                       /\ d.offset = 0
      PROVE  Navigates([s EXCEPT !.detail = d], p, w, h)
  <2> DEFINE g == [s EXCEPT !.detail = d]
  <2>1. Scrolls(g) /\ g.focus = s.focus /\ g.offset = s.offset /\ g.detail = d
    BY <1>1 DEF Scrolls
  <2> HIDE DEF g
  <2>2. InWindow(g, p, h) BY <1>1, <2>1 DEF InWindow
  <2>3. ASSUME d.open
        PROVE  LET lines == DetailLines[d.event, w]
               IN  /\ d.offset < lines
                   /\ ContentHeight(h) > 0 => d.offset <= Larger(lines - ContentHeight(h), 0)
    <3> DEFINE lines == DetailLines[d.event, w]
               body == ContentHeight(h)
    <3>1. lines \in Nat \ {0}
      <4>1. d.event \in Events BY <1>2, <2>3 DEF Listing
      <4> QED BY <4>1, DetailCounted, ZenonT(60)
    <3>2. body \in Int BY BodyCounted
    <3>3. d.offset = 0 BY <1>2, <2>3
    <3> HIDE DEF lines, body
    <3>4. 0 < lines /\ (body > 0 => 0 <= Larger(lines - body, 0)) BY <3>1, <3>2 DEF Larger
    <3> QED BY <3>3, <3>4 DEF lines, body
  <2>4. OnEvent(g, p, w, h) BY <1>2, <2>1, <2>3 DEF OnEvent
  <2> QED BY <2>1, <2>2, <2>4 DEF Navigates, g
<1>3. Navigates(StreamClosed(s), p, w, h)
  <2>1. ClosedDetail \in [open : BOOLEAN, event : Events \cup {NoEvent}, offset : Nat]
        /\ ClosedDetail.open = FALSE
    BY DEF ClosedDetail
  <2> QED BY <1>2, <2>1 DEF StreamClosed
<1>4. CASE HasState(p) \/ s.focus \notin 0 .. Cardinality(p.listed) - 1
  BY <1>3, <1>4 DEF OpenedDetail
<1>5. CASE ~(HasState(p) \/ s.focus \notin 0 .. Cardinality(p.listed) - 1)
  <2> DEFINE d == [open |-> TRUE, event |-> StreamEvents(p)[s.focus + 1], offset |-> 0]
             g == [s EXCEPT !.detail = d]
  <2>1. OpenedDetail(s, p) = g BY <1>5 DEF OpenedDetail
  <2>2. /\ StreamEvents(p)[s.focus + 1] \in p.listed
        /\ EventIndex(p, StreamEvents(p)[s.focus + 1]) = s.focus
    BY <1>5, EventPlaces DEF Listing
  <2>3. /\ d \in [open : BOOLEAN, event : Events \cup {NoEvent}, offset : Nat]
        /\ d.event \in p.listed /\ s.focus = EventIndex(p, d.event) /\ d.offset = 0
    BY <2>2 DEF Listing
  <2> HIDE DEF d
  <2>4. Navigates(g, p, w, h) BY <1>2, <2>3
  <2> HIDE DEF g
  <2> QED BY <1>3, <2>1, <2>4
<1> QED BY <1>3, <1>4, <1>5

\* Only the first refresh starts the rain value.
LEMMA RainStarts ==
    ASSUME NEW r, NEW before, Settled(r, before)
    PROVE  /\ \A chain : \A at \in Nat : Ticked(r, chain, at).started = r.started
           /\ ToggledPause(r).started = r.started
           /\ \A step, scopes, confirmed :
                  Windowed(r, step, scopes, confirmed).started = r.started
           /\ \A scopes, confirmed : \A at \in Nat :
                  Reconciled(r, scopes, confirmed, at).started
<1>1. Timed(r) /\ Shaped(r) BY SettledTimed
<1>2. ASSUME NEW q, Shaped(q), NEW confirmed, NEW first, NEW frozen, NEW restoring \in BOOLEAN
      PROVE  Rebuilt(q, confirmed, first, frozen, restoring).started = q.started
  <2> DEFINE C == Candidates(q, confirmed, first, frozen)
  <2> HIDE DEF C
  <2> QED BY <1>2 DEF Rebuilt, Restored, Frozen, Queued, Admitted, Shaped, C
<1>3. ASSUME NEW b, Shaped(b) PROVE Shaped(Repaged(b)) /\ Repaged(b).started = b.started
  BY <1>3, RepagingKeeps DEF Inner
<1>4. ASSUME NEW chain, NEW at \in Nat PROVE Ticked(r, chain, at).started = r.started
  <2> DEFINE b == [r EXCEPT !.chain = (r.chain + 1) % Generations]
  <2>1. CASE ~r.started \/ chain # r.chain \/ at <= r.cursor BY <2>1 DEF Ticked
  <2>2. CASE ~(~r.started \/ chain # r.chain \/ at <= r.cursor)
    <3>1. Ticked(r, chain, at) = Applied(b, at) BY <2>2 DEF Ticked
    <3>2. /\ Shaped(b) /\ b.window = r.window /\ b.items = r.items
          /\ b.cursor = r.cursor /\ b.started = r.started /\ b.paused = r.paused
          /\ b.needsRebase = r.needsRebase
      BY <1>1 DEF Shaped
    <3> HIDE DEF b
    <3>3. Timed(b) BY <1>1, <3>2 DEF Timed
    <3>4. Outer(Applied(b, at)) = Outer(b) BY <3>3, ApplyingAges
    <3> QED BY <3>1, <3>2, <3>4 DEF Outer
  <2> QED BY <2>1, <2>2
<1>5. ToggledPause(r).started = r.started
  BY <1>1 DEF ToggledPause, Merged, EmptyQueue, Admitted, Shaped
<1>6. ASSUME NEW step, NEW scopes, NEW confirmed
      PROVE  Windowed(r, step, scopes, confirmed).started = r.started
  <2> DEFINE stepped == SteppedWindow(r.window, step)
             shifted == [r EXCEPT !.window = stepped]
             b == [shifted EXCEPT !.scopes = scopes]
  <2>1. shifted.started = r.started /\ Shaped(b) /\ b.started = r.started
    BY <1>1 DEF Shaped
  <2>2. \/ Windowed(r, step, scopes, confirmed) = shifted
        \/ Windowed(r, step, scopes, confirmed)
               = Rebuilt(Repaged(b), confirmed, FALSE, r.paused, TRUE)
    BY DEF Windowed
  <2> HIDE DEF shifted, b
  <2>3. Shaped(Repaged(b)) /\ Repaged(b).started = r.started BY <1>3, <2>1
  <2>4. Rebuilt(Repaged(b), confirmed, FALSE, r.paused, TRUE).started = Repaged(b).started
    BY <1>2, <2>3
  <2> QED BY <2>1, <2>2, <2>3, <2>4
<1>7. ASSUME NEW scopes, NEW confirmed, NEW at \in Nat
      PROVE  Reconciled(r, scopes, confirmed, at).started
  <2> DEFINE start == [r EXCEPT !.started = TRUE, !.cursor = at, !.remainder = 0]
             moved == IF ~r.started THEN start ELSE Applied(r, at)
             b == [moved EXCEPT !.scopes = scopes]
  <2>1. Reconciled(r, scopes, confirmed, at)
            = Rebuilt(Repaged(b), confirmed, ~r.started,
                      r.needsRebase /\ ~r.paused /\ at > r.cursor, FALSE)
    BY DEF Reconciled
  <2>2. Shaped(moved) /\ moved.started
    <3>1. CASE ~r.started BY <1>1, <3>1 DEF Shaped
    <3>2. CASE r.started
      <4>1. Shaped(Applied(r, at)) /\ Outer(Applied(r, at)) = Outer(r)
        BY <1>1, ApplyingAges
      <4> QED BY <3>2, <4>1 DEF Outer
    <3> QED BY <3>1, <3>2
  <2> HIDE DEF moved
  <2>3. Shaped(b) /\ b.started = moved.started BY <2>2 DEF Shaped
  <2> HIDE DEF b
  <2>4. Shaped(Repaged(b)) /\ Repaged(b).started BY <1>3, <2>2, <2>3
  <2> DEFINE first == ~r.started
             rebasing == r.needsRebase /\ ~r.paused /\ at > r.cursor
  <2> HIDE DEF first, rebasing
  <2>5. Rebuilt(Repaged(b), confirmed, first, rebasing, FALSE).started = Repaged(b).started
    BY <1>2, <2>4
  <2> QED BY <2>1, <2>4, <2>5 DEF first, rebasing
<1> QED BY <1>4, <1>5, <1>6, <1>7

\* Stream shows what is published, on a width its details are wrapped to.
StreamInv ==
    /\ width \in Widths
    /\ Listing(published)
    /\ rain.started <=> published.freshness \in {"current", "stale"}
    /\ Overlooks(overview, published, height)
    /\ Navigates(stream, published, width, height)

LEMMA InitStream == Init => StreamInv
<1> SUFFICES ASSUME Init PROVE StreamInv OBVIOUS
<1>1. /\ width = -1 /\ height = -1 /\ overview = 0 /\ rain.started = FALSE
      /\ published = [scopes |-> {}, confirmed |-> {}, listed |-> {}, freshness |-> "loading"]
      /\ stream = [focus |-> 0, offset |-> 0, detail |-> ClosedDetail]
  BY DEF Init, RainInit, StreamInit, OverviewInit, Unbounded
<1>2. width \in Widths BY <1>1, ProgramAssumption DEF Unbounded
<1>3. Listing(published) BY <1>1 DEF Listing
<1>4. ContentHeight(height) = -1 /\ StreamLines(published) = 1
      /\ RowHeight(published, -1) = -1
  BY <1>1 DEF ContentHeight, Unbounded, StreamLines, RowHeight, HasState
<1>5. Overlooks(overview, published, height) BY <1>1, <1>4 DEF Overlooks
<1>6. Scrolls(stream) /\ stream.focus = 0 /\ stream.detail.open = FALSE
  BY <1>1 DEF Scrolls, ClosedDetail
<1>7. InWindow(stream, published, height) BY <1>4, <1>6 DEF InWindow
<1>8. OnEvent(stream, published, width, height) BY <1>6 DEF OnEvent
<1> QED BY <1>1, <1>2, <1>3, <1>5, <1>6, <1>7, <1>8 DEF StreamInv, Navigates

\* A failed refresh changes the freshness, and with it no line.
LEMMA FailureKeepsLines ==
    ASSUME ViewsInv, StreamInv, UNCHANGED <<rain, stream, overview, width, height>>,
           published' = [published EXCEPT !.freshness =
                            IF rain.started THEN "stale" ELSE "error"]
    PROVE  StreamInv'
<1>1. /\ published'.listed = published.listed /\ published'.scopes = published.scopes
      /\ published'.freshness = IF rain.started THEN "stale" ELSE "error"
  BY DEF ViewsInv
<1>2. published.freshness \in {"loading", "current", "stale", "error"} BY DEF ViewsInv
<1>3. Listing(published') BY <1>1, <1>2 DEF StreamInv, Listing
<1>4. /\ HasState(published') <=> HasState(published)
      /\ StreamLines(published') = StreamLines(published)
  BY <1>1, <1>3, LinesCounted DEF StreamInv
<1>5. \A b \in Int : RowHeight(published', b) = RowHeight(published, b)
  BY <1>4 DEF RowHeight
<1>6. OverviewLines(published') = OverviewLines(published)
  BY <1>1, <1>2 DEF StreamInv, OverviewLines, Observed
<1>7. ContentHeight(height) \in Int BY BodyCounted DEF ViewsInv
<1>8. InWindow(stream, published', height)
  BY <1>4, <1>5, <1>7 DEF StreamInv, Navigates, InWindow
<1>9. \A e : EventIndex(published', e) = EventIndex(published, e) BY <1>1 DEF EventIndex
<1>10. OnEvent(stream, published', width, height)
  BY <1>1, <1>9 DEF StreamInv, Navigates, OnEvent
<1>11. Overlooks(overview, published', height) BY <1>6 DEF StreamInv, Overlooks
<1>12. rain.started <=> published'.freshness \in {"current", "stale"}
  BY <1>1
<1> QED BY <1>3, <1>8, <1>10, <1>11, <1>12 DEF StreamInv, Navigates

LEMMA StepStream == ViewsInv /\ StreamInv /\ [Next]_vars => StreamInv'
<1> SUFFICES ASSUME ViewsInv, StreamInv, [Next]_vars PROVE StreamInv' OBVIOUS
<1>1. /\ Settled(rain, published.confirmed) /\ now \in Nat /\ height \in Int
      /\ width \in Widths /\ Listing(published) /\ overview \in Nat /\ Scrolls(stream)
      /\ Navigates(stream, published, width, height)
      /\ Overlooks(overview, published, height)
      /\ rain.started <=> published.freshness \in {"current", "stale"}
  BY DEF ViewsInv, StreamInv, Overlooks, Navigates
<1>2. height' \in Int BY StepViews DEF ViewsInv
<1>3. ASSUME NEW r, NEW s, NEW w, NEW h, Shaped(r)
      PROVE  ResizedRain(r, s, w, h).started = r.started
  BY <1>3, ResizingKeeps DEF ResizedRain, Inner
<1>4. CASE Resize
  <2>1. /\ width' \in Widths
        /\ rain' = ResizedRain(rain, strip, width', height')
        /\ overview' = ClampedOverview(overview, published, width', height')
        /\ stream' = ClampedStream(stream, published, width', height')
        /\ published' = published
    BY <1>4, ProgramAssumption DEF Resize
  <2>2. rain'.started = rain.started BY <1>1, <1>3, <2>1, SettledTimed
  <2> QED BY <1>1, <1>2, <2>1, <2>2, OverviewClamped, StreamClamped DEF StreamInv
<1>5. CASE RainTick
  <2>1. PICK tick \in ticks, at \in 0 .. now :
            /\ \/ rain' = rain
               \/ rain' = ResizedRain(Ticked(rain, tick.chain, at), strip', width, height)
            /\ UNCHANGED <<stream, overview, published, width, height>>
    BY <1>5 DEF RainTick, RainAfterStrip, views
  <2>2. CASE rain' = rain BY <1>1, <2>1, <2>2 DEF StreamInv
  <2>3. CASE rain' = ResizedRain(Ticked(rain, tick.chain, at), strip', width, height)
    <3>1. at \in Nat BY <1>1
    <3>2. Shaped(Ticked(rain, tick.chain, at))
      BY <1>1, <3>1, TickingFollows, SettledTimed DEF Follows
    <3>3. rain'.started = Ticked(rain, tick.chain, at).started BY <1>3, <2>3, <3>2
    <3>4. rain'.started = rain.started
      BY <1>1, <3>1, <3>3, RainStarts
    <3> QED BY <1>1, <2>1, <3>4 DEF StreamInv
  <2> QED BY <2>1, <2>2, <2>3
<1>6. CASE Refresh
  <2>1. PICK snapshot \in Snapshots :
            /\ published' = [scopes |-> snapshot.scopes, confirmed |-> snapshot.confirmed,
                             listed |-> snapshot.listed, freshness |-> "current"]
            /\ rain' = ResizedRain(Reconciled(rain, snapshot.scopes, snapshot.confirmed, now),
                                   strip', width, height)
            /\ overview' = ClampedOverview(overview, published', width, height)
            /\ stream' = ClampedStream(stream, published', width, height)
            /\ UNCHANGED <<width, height>>
    BY <1>6 DEF Refresh, StreamAfterRefresh
  <2>2. /\ snapshot.scopes \in SUBSET Scopes /\ snapshot.listed \in SUBSET Events
        /\ snapshot.confirmed \in SUBSET Representations
    BY ProgramAssumption DEF Representations
  <2>3. Listing(published') /\ published'.freshness = "current" BY <2>1, <2>2 DEF Listing
  <2> DEFINE r == Reconciled(rain, snapshot.scopes, snapshot.confirmed, now)
  <2>4. Shaped(r) BY <1>1, <2>2, ReconcilingFollows, SettledTimed DEF Follows, ViewsInv
  <2>5. r.started BY <1>1, RainStarts
  <2> HIDE DEF r
  <2>6. rain'.started BY <1>3, <2>1, <2>4, <2>5 DEF r
  <2> QED BY <1>1, <1>2, <2>1, <2>3, <2>6, OverviewClamped, StreamClamped DEF StreamInv
<1>7. CASE RefreshFails
  BY <1>7, FailureKeepsLines DEF RefreshFails, views
<1>8. CASE SwitchView BY <1>1, <1>8 DEF SwitchView, views, StreamInv
<1>9. CASE Scroll
  <2>1. PICK key \in Keys :
            /\ \/ /\ stream' = StreamScrolled(stream, key, published, width, ContentHeight(height))
                  /\ overview' = overview
               \/ /\ overview' = ViewportScrolled(overview, key, OverviewLines(published),
                                                  ContentHeight(height))
                  /\ stream' = stream
            /\ UNCHANGED <<rain, width, height, published>>
    BY <1>9 DEF Scroll
  <2> QED BY <1>1, <2>1, OverviewScrolls, StreamScrolls DEF StreamInv
<1>10. CASE Detail
  <2>1. /\ stream' \in {OpenedDetail(stream, published), StreamClosed(stream)}
        /\ UNCHANGED <<rain, overview, width, height, published>>
    BY <1>10 DEF Detail
  <2> QED BY <1>1, <2>1, DetailNavigates DEF StreamInv
<1>11. CASE TogglePause
  <2>1. /\ rain' = ToggledPause(rain)
        /\ UNCHANGED <<stream, overview, width, height, published>>
    BY <1>11 DEF TogglePause, RainKey
  <2>2. rain'.started = rain.started BY <1>1, <2>1, RainStarts
  <2> QED BY <1>1, <2>1, <2>2 DEF StreamInv
<1>12. CASE StepWindow
  <2>1. PICK step \in {-1, 1} :
            /\ rain' = Windowed(rain, step, published.scopes, published.confirmed)
            /\ UNCHANGED <<stream, overview, width, height, published>>
    BY <1>12 DEF StepWindow, RainKey
  <2>2. rain'.started = rain.started BY <1>1, <2>1, RainStarts
  <2> QED BY <1>1, <2>1, <2>2 DEF StreamInv
<1>13. CASE TurnPage
  <2>1. PICK step \in {-1, 1} :
            /\ rain' = Paged(rain, step)
            /\ UNCHANGED <<stream, overview, width, height, published>>
    BY <1>13 DEF TurnPage, RainKey
  <2>2. rain'.started = rain.started BY <1>1, <2>1, SettledTimed, PagingKeeps DEF Inner
  <2> QED BY <1>1, <2>1, <2>2 DEF StreamInv
<1>14. CASE Pass BY <1>1, <1>14 DEF Pass, views, StreamInv
<1>15. CASE UNCHANGED vars BY <1>1, <1>15 DEF vars, views, StreamInv
<1> QED BY <1>4, <1>5, <1>6, <1>7, <1>8, <1>9, <1>10, <1>11, <1>12, <1>13, <1>14, <1>15
        DEF Next

\* Focus, detail and page stay with what they show, whatever is published, resized or
\* typed: the focused row is in the window, an open detail's event is published and has
\* the focus, and the page holds its anchor (model.go:251-269, stream.go:468-495,
\* rain.go:149-176).
THEOREM NavigationSafe == Spec => NavigationHolds
<1>1. StreamInv => FocusVisible /\ DetailFollows
  BY DEF StreamInv, Navigates, InWindow, OnEvent, Overlooks, FocusVisible, DetailFollows
<1>2. ViewsInv /\ StreamInv /\ [Next]_vars => StreamInv' BY StepStream
<1> QED BY <1>1, <1>2, InitStream, ViewsInvariance, AnchorSafe, PTL DEF Spec, NavigationHolds
=============================================================================
