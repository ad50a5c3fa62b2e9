--------------------------- MODULE SnapshotProofs ---------------------------
(***************************************************************************)
(* The theorems of a published snapshot, for every selection of Scopes,    *)
(* every activity, every outcome and every bound: what retention keeps,    *)
(* what the rows count, what decides a membership, what the stream shows.  *)
(*                                                                         *)
(* Retention and settling are inductive as they stand (Retained, Settled). *)
(* The snapshot is a function of what they left behind (Published), so the *)
(* rest is about that function: which Scopes hold an event (Memberships),  *)
(* and how the sets of events a Scope holds add up.                        *)
(*                                                                         *)
(* Then the loop that decides whether a segment of a path is selected      *)
(* (Matching).  What a segment means is a sequence of offsets the tokens   *)
(* lead through (LeadsAcross); the loop knows one way to where it stands   *)
(* and none that its last wildcard would have to leave earlier (Decides).  *)
(*                                                                         *)
(* The last part is about the command line (Arguments): the scans of it    *)
(* go through alike states (Alike), the values are gathered as they come   *)
(* (Understood), and the Scopes of the product have distinct keys, so that *)
(* their count is the product of two counts (LineInv).                     *)
(***************************************************************************)
EXTENDS Snapshot, Matching, Arguments, DataLemmas

-----------------------------------------------------------------------------
(* Scopes *)

ScopeType == [repository : Nat, matcher : Nat]

\* The selected Scopes are Scopes, each selected once.
Selected ==
    scopes # Absent => /\ scopes \in Seq(ScopeType)
                       /\ \A k, l \in DOMAIN scopes : scopes[k] = scopes[l] => k = l

\* The first occurrences are there, in order, and no two have the same key.
LEMMA FirstOnes ==
    ASSUME NEW T, NEW s \in Seq(T), NEW keys, DOMAIN keys = DOMAIN s
    PROVE  /\ FirstOf(s, keys) \in Seq(T)
           /\ FirstIndices(keys) \in SUBSET DOMAIN s
           /\ \A k, l \in FirstIndices(keys) : keys[k] = keys[l] => k = l
           /\ \A k \in DOMAIN s : \E l \in FirstIndices(keys) : keys[l] = keys[k]
           /\ \E index : Takes(FirstOf(s, keys), s, FirstIndices(keys), index)
<1> DEFINE F == FirstIndices(keys)
<1>1. F \in SUBSET DOMAIN s /\ DOMAIN s = 1 .. Len(s) /\ Len(s) \in Nat BY DEF FirstIndices
<1>2. ASSUME NEW k \in F, NEW l \in F, keys[k] = keys[l] PROVE k = l
  <2>1. k \in Nat /\ l \in Nat /\ k >= 1 /\ l >= 1 BY <1>1
  <2>2. ~(k < l) /\ ~(l < k) BY <1>2, <2>1 DEF FirstIndices
  <2> QED BY <2>1, <2>2
<1>3. ASSUME NEW k \in DOMAIN s PROVE \E l \in F : keys[l] = keys[k]
  <2> DEFINE Same == {l \in 1 .. Len(s) : keys[l] = keys[k]}
  <2>1. Same \in SUBSET Nat /\ Same # {} OBVIOUS
  <2>2. PICK l \in Same : \A m \in Same : l <= m
    <3> HIDE DEF Same
    <3> QED BY <2>1, LeastNumber
  <2>3. l \in 1 .. Len(s) /\ keys[l] = keys[k] OBVIOUS
  <2>4. ASSUME NEW m \in 1 .. l - 1 PROVE keys[m] # keys[l]
    <3>1. m \in 1 .. Len(s) /\ ~(l <= m) BY <1>1, <2>3
    <3>2. m \notin Same
      <4> HIDE DEF Same
      <4> QED BY <2>2, <3>1
    <3> QED BY <2>3, <3>1, <3>2
  <2> QED BY <1>1, <2>3, <2>4 DEF FirstIndices
<1> HIDE DEF F
<1>4. FirstOf(s, keys) \in Seq(T) /\ \E index : Takes(FirstOf(s, keys), s, F, index)
  BY <1>1, PickedKeeps DEF FirstOf, F
<1> QED BY <1>1, <1>2, <1>3, <1>4 DEF F

\* A ScopeSet has every requested Scope once.
LEMMA SelectingKeeps ==
    ASSUME Selected, NEW wanted \in Selections, NewScopeSet(wanted)
    PROVE  Selected'
<1> DEFINE set == FirstOf(wanted, wanted)
           F == FirstIndices(wanted)
<1>1. wanted \in Seq(ScopeType) BY SnapshotAssumption DEF ScopeType
<1>2. /\ set \in Seq(ScopeType) /\ F \in SUBSET DOMAIN wanted
      /\ \A k, l \in F : wanted[k] = wanted[l] => k = l
      /\ \E index : Takes(set, wanted, F, index)
  BY <1>1, FirstOnes
<1>3. scopes' = set \/ scopes' = <<>> BY DEF NewScopeSet
<1> HIDE DEF set, F
<1>4. ASSUME NEW k \in DOMAIN set, NEW l \in DOMAIN set, set[k] = set[l] PROVE k = l
  <2>1. PICK index : Takes(set, wanted, F, index) BY <1>2
  <2>2. index[k] = index[l] BY <1>2, <1>4, <2>1 DEF Takes
  <2>3. F \in SUBSET Nat /\ DOMAIN set \subseteq Nat BY <1>1, <1>2
  <2> QED BY <2>1, <2>2, <2>3, TakesOnce
<1>5. CASE scopes' = set BY <1>2, <1>4, <1>5 DEF Selected
<1>6. CASE scopes' = <<>> BY <1>6 DEF Selected
<1> QED BY <1>3, <1>5, <1>6

\* The order of the Scopes.
ScopeOrder(all) == {pair \in all \X all : ScopeBefore(pair[1], pair[2])}

LEMMA ScopesOrdered ==
    ASSUME NEW all \in SUBSET ScopeType
    PROVE  /\ Orders(ScopeOrder(all), all)
           /\ \A a, b \in all : <<a, b>> \in ScopeOrder(all) <=> ScopeBefore(a, b)
<1>1. \A a, b \in all : <<a, b>> \in ScopeOrder(all) <=> ScopeBefore(a, b) BY DEF ScopeOrder
<1>2. \A a \in all : ~ScopeBefore(a, a) BY DEF ScopeBefore, ScopeType
<1>3. \A a, b, c \in all : ScopeBefore(a, b) /\ ScopeBefore(b, c) => ScopeBefore(a, c)
  BY DEF ScopeBefore, ScopeType
<1>4. \A a, b \in all : a = b \/ ScopeBefore(a, b) \/ ScopeBefore(b, a)
  BY DEF ScopeBefore, ScopeType
<1> QED BY <1>1, <1>2, <1>3, <1>4 DEF Orders

\* A selection is finite, and has as many Scopes as places.
LEMMA SelectionIsFinite ==
    ASSUME Selected, scopes # Absent
    PROVE  /\ Range(scopes) \in SUBSET ScopeType /\ IsFiniteSet(Range(scopes))
           /\ Cardinality(Range(scopes)) = Len(scopes)
<1>1. /\ scopes \in Seq(ScopeType) /\ DOMAIN scopes = 1 .. Len(scopes) /\ Len(scopes) \in Nat
      /\ \A k, l \in DOMAIN scopes : scopes[k] = scopes[l] => k = l
  BY DEF Selected
<1>2. scopes \in Bijection(1 .. Len(scopes), Range(scopes))
  BY <1>1 DEF Bijection, Injection, IsInjective, Surjection, Range
<1>3. PICK n \in Nat : n = Len(scopes) BY <1>1
<1>4. 1 \in Int /\ n \in Int OBVIOUS
<1>5. IsFiniteSet(1 .. n) /\ Cardinality(1 .. n) = IF 1 > n THEN 0 ELSE n - 1 + 1
  BY <1>4, FS_Interval
<1>6. ExistsBijection(1 .. n, Range(scopes)) BY <1>2, <1>3 DEF ExistsBijection
<1>7. IsFiniteSet(Range(scopes)) /\ Cardinality(Range(scopes)) = Cardinality(1 .. n)
  BY <1>5, <1>6, FS_Bijection
<1>8. Range(scopes) \in SUBSET ScopeType BY <1>1 DEF Range
<1> QED BY <1>3, <1>5, <1>7, <1>8

-----------------------------------------------------------------------------
(* Retention *)

\* The order of events of different IDs.
Recency(all) == {pair \in all \X all : NewerThan(pair[1], pair[2])}

LEMMA RecencyOrders ==
    ASSUME NEW all \in SUBSET Delivered, \A a, b \in all : a.id = b.id => a = b
    PROVE  /\ Orders(Recency(all), all)
           /\ \A a, b \in all : <<a, b>> \in Recency(all) <=> NewerThan(a, b)
<1>1. \A a, b \in all : <<a, b>> \in Recency(all) <=> NewerThan(a, b) BY DEF Recency
<1>2. \A a \in all : a.id \in Nat /\ a.at \in Nat BY SnapshotAssumption
<1>3. \A a \in all : ~NewerThan(a, a) BY <1>2 DEF NewerThan
<1>4. \A a, b, c \in all : NewerThan(a, b) /\ NewerThan(b, c) => NewerThan(a, c)
  BY <1>2 DEF NewerThan
<1>5. \A a, b \in all : a = b \/ NewerThan(a, b) \/ NewerThan(b, a) BY <1>2 DEF NewerThan
<1> QED BY <1>1, <1>3, <1>4, <1>5 DEF Orders

\* Sorting the first copies by recency lists one event for each ID, the newest first.
LEMMA CandidatesSorted ==
    ASSUME NEW c \in Seq(Delivered)
    PROVE  LET b == SortByRecency(Deduplicate(c))
               ids == {e.id : e \in Range(c)}
           IN  /\ b \in Seq(Delivered) /\ Len(b) \in Nat /\ DOMAIN b = 1 .. Len(b)
               /\ Len(b) = Cardinality(ids)
               /\ \A i, j \in DOMAIN b : b[i].id = b[j].id => i = j
               /\ \A i, j \in DOMAIN b : i < j => b[i].at >= b[j].at
               /\ \A k \in DOMAIN c : (\A l \in 1 .. k - 1 : c[l].id # c[k].id) =>
                    \E i \in DOMAIN b : b[i] = c[k]
<1> DEFINE keys == [k \in DOMAIN c |-> c[k].id]
           d == Deduplicate(c)
           F == FirstIndices(keys)
           all == Range(d)
           b == SortByRecency(d)
           ids == {e.id : e \in Range(c)}
<1>1. d = FirstOf(c, keys) BY DEF Deduplicate
<1>2. DOMAIN keys = DOMAIN c /\ \A k \in DOMAIN c : keys[k] = c[k].id /\ c[k] \in Delivered
  OBVIOUS
<1>3. F = {k \in DOMAIN c : \A l \in 1 .. k - 1 : c[l].id # c[k].id}
  <2>1. \A k \in DOMAIN c : \A l \in 1 .. k - 1 : l \in DOMAIN c OBVIOUS
  <2> QED BY <1>2, <2>1 DEF FirstIndices
<1>4. b = InOrder(Recency(all), all) BY DEF SortByRecency, Recency
<1> HIDE DEF keys, F, d
<1>5. /\ d \in Seq(Delivered) /\ F \in SUBSET DOMAIN c
      /\ \A k, l \in F : keys[k] = keys[l] => k = l
      /\ \A k \in DOMAIN c : \E l \in F : keys[l] = keys[k]
      /\ \E index : Takes(d, c, F, index)
  BY <1>1, <1>2, FirstOnes DEF F
<1>6. PICK index : Takes(d, c, F, index) BY <1>5
<1>7. /\ \A e \in all : \E k \in F : e = c[k]
      /\ \A k \in F : c[k] \in all
  BY <1>6 DEF Takes, Range
<1>8. all \in SUBSET Delivered /\ \A x, y \in all : x.id = y.id => x = y
  <2>1. \A k \in F : k \in DOMAIN c /\ keys[k] = c[k].id BY <1>2, <1>5
  <2>2. all \in SUBSET Delivered BY <1>5 DEF Range
  <2> HIDE DEF all
  <2>3. ASSUME NEW x \in all, NEW y \in all, x.id = y.id PROVE x = y
    <3>1. PICK k \in F : x = c[k] BY <1>7
    <3>2. PICK l \in F : y = c[l] BY <1>7
    <3>3. keys[k] = keys[l] BY <2>1, <2>3, <3>1, <3>2
    <3> QED BY <1>5, <3>1, <3>2, <3>3
  <2> QED BY <2>2, <2>3
<1>9. IsFiniteSet(all)
  <2>1. IsFiniteSet(1 .. Len(d)) BY FS_Interval, <1>5
  <2>2. d \in Surjection(DOMAIN d, all) BY <1>5 DEF Surjection, Range
  <2>3. DOMAIN d = 1 .. Len(d) BY <1>5
  <2> HIDE DEF all
  <2> QED BY <2>1, <2>2, <2>3, FS_Surjection
<1> HIDE DEF all, b
<1>10. /\ Orders(Recency(all), all)
       /\ \A x, y \in all : <<x, y>> \in Recency(all) <=> NewerThan(x, y)
  BY <1>8, RecencyOrders
<1>11. /\ b \in Seq(all) /\ Len(b) = Cardinality(all) /\ Cardinality(all) \in Nat
       /\ DOMAIN b = 1 .. Cardinality(all)
       /\ \A i \in DOMAIN b : b[i] \in all
       /\ \A e \in all : \E i \in DOMAIN b : b[i] = e
       /\ \A i, j \in DOMAIN b : i < j <=> <<b[i], b[j]>> \in Recency(all)
       /\ \A i, j \in DOMAIN b : b[i] = b[j] => i = j
  BY <1>4, <1>9, <1>10, InOrderLists
<1>12. b \in Seq(Delivered) BY <1>8, <1>11
<1>13. Cardinality(ids) = Cardinality(all)
  <2> DEFINE f == [e \in all |-> e.id]
  <2>1. ASSUME NEW e \in all PROVE e.id \in ids
    <3>1. PICK k \in F : e = c[k] BY <1>7
    <3>2. k \in DOMAIN c BY <1>5
    <3> QED BY <3>1, <3>2 DEF Range
  <2>2. ASSUME NEW i \in ids PROVE \E e \in all : e.id = i
    <3>1. PICK k \in DOMAIN c : i = c[k].id BY DEF Range
    <3>2. PICK l \in F : keys[l] = keys[k] BY <1>5
    <3>3. c[l] \in all /\ l \in DOMAIN c BY <1>5, <1>7
    <3> QED BY <1>2, <3>1, <3>2, <3>3
  <2> HIDE DEF ids
  <2>3. f \in [all -> ids] BY <2>1
  <2>4. \A x, y \in all : f[x] = f[y] => x = y BY <1>8
  <2>5. \A i \in ids : \E e \in all : f[e] = i BY <2>2
  <2> HIDE DEF f
  <2> QED BY <1>9, <2>3, <2>4, <2>5, SameSize
<1>14. \A i, j \in DOMAIN b : b[i].id = b[j].id => i = j BY <1>8, <1>11
<1>15. \A i, j \in DOMAIN b : i < j => b[i].at >= b[j].at
  <2> SUFFICES ASSUME NEW i \in DOMAIN b, NEW j \in DOMAIN b, i < j PROVE b[i].at >= b[j].at
    OBVIOUS
  <2>1. NewerThan(b[i], b[j]) BY <1>10, <1>11
  <2>2. b[i].at \in Nat /\ b[j].at \in Nat BY <1>8, <1>11, SnapshotAssumption
  <2> QED BY <2>1, <2>2 DEF NewerThan
<1>16. \A k \in F : \E i \in DOMAIN b : b[i] = c[k] BY <1>7, <1>11
<1> QED BY <1>3, <1>11, <1>12, <1>13, <1>14, <1>15, <1>16 DEF b, d

\* Retention keeps the newest of the candidates, and accounts for the rest.
RetentionHolds ==
    retention # Absent => /\ scopes # Absent
                          /\ retention.candidates \in Seq(Delivered)
                          /\ retention.events \in Seq(Delivered)
                          /\ \A k, l \in DOMAIN retention.events :
                               retention.events[k].id = retention.events[l].id => k = l

LEMMA RetainingKeeps ==
    ASSUME NEW activities \in Activities, Retain(activities)
    PROVE  RetentionHolds' /\ NewestAreRetained'
<1> DEFINE answered == FlattenSeq(activities)
           c == Picked(answered, {k \in DOMAIN answered : IsSelected(answered[k].repository)})
           b == SortByRecency(Deduplicate(c))
           ids == {e.id : e \in Range(c)}
           m == Min({Len(b), MaxSnapshotEvents})
           kept == SubSeq(b, 1, m)
<1>1. /\ retention' = [events |-> kept, total |-> Len(b),
                       truncated |-> Len(b) > MaxSnapshotEvents, candidates |-> c]
      /\ scopes # Absent /\ scopes' = scopes
  BY DEF Retain
<1>2. c \in Seq(Delivered)
  <2>1. answered \in Seq(Delivered) BY SnapshotAssumption, FlattenTyped
  <2> DEFINE I == {k \in DOMAIN answered : IsSelected(answered[k].repository)}
  <2>2. I \in SUBSET DOMAIN answered OBVIOUS
  <2> HIDE DEF I, answered
  <2> QED BY <2>1, <2>2, PickedKeeps DEF I
<1> HIDE DEF answered, c
<1>3. /\ b \in Seq(Delivered) /\ Len(b) \in Nat /\ DOMAIN b = 1 .. Len(b)
      /\ Len(b) = Cardinality(ids)
      /\ \A i, j \in DOMAIN b : b[i].id = b[j].id => i = j
      /\ \A i, j \in DOMAIN b : i < j => b[i].at >= b[j].at
      /\ \A k \in DOMAIN c : (\A l \in 1 .. k - 1 : c[l].id # c[k].id) =>
            \E i \in DOMAIN b : b[i] = c[k]
  BY <1>2, CandidatesSorted
<1> HIDE DEF b
<1>4. m \in Nat /\ m <= Len(b) /\ (Len(b) > MaxSnapshotEvents <=> m < Len(b))
  <2>1. MaxSnapshotEvents \in Nat BY SnapshotAssumption
  <2>2. PICK n \in Nat : n = Len(b) BY <1>3
  <2>3. \E x \in {n, MaxSnapshotEvents} : \A y \in {n, MaxSnapshotEvents} : x <= y BY <2>1
  <2>4. Min({n, MaxSnapshotEvents}) \in {n, MaxSnapshotEvents}
        /\ \A y \in {n, MaxSnapshotEvents} : Min({n, MaxSnapshotEvents}) <= y
    BY <2>3 DEF Min
  <2> QED BY <2>1, <2>2, <2>4
<1> HIDE DEF m
<1>5. kept \in Seq(Delivered) /\ Len(kept) = m /\ DOMAIN kept = 1 .. m
      /\ \A i \in 1 .. m : kept[i] = b[i] /\ i \in DOMAIN b
  <2>1. 1 \in Int /\ m \in Int /\ \A i \in 1 .. m : i \in DOMAIN b /\ b[i] \in Delivered
    <3>1. PICK n \in Nat : n = Len(b) /\ DOMAIN b = 1 .. n BY <1>3
    <3>2. m <= n BY <1>4, <3>1
    <3>3. 1 .. m \subseteq DOMAIN b BY <1>4, <3>1, <3>2
    <3>4. \A i \in DOMAIN b : b[i] \in Delivered BY <1>3
    <3> QED BY <1>4, <3>3, <3>4
  <2>2. /\ SubSeq(b, 1, m) \in Seq(Delivered)
        /\ Len(SubSeq(b, 1, m)) = IF 1 <= m THEN m - 1 + 1 ELSE 0
        /\ \A i \in 1 .. m - 1 + 1 : SubSeq(b, 1, m)[i] = b[1 + i - 1]
    BY <2>1, SubSeqProperties
  <2>3. m - 1 + 1 = m /\ \A i \in 1 .. m : 1 + i - 1 = i /\ i \in DOMAIN b BY <1>4, <2>1
  <2>4. Len(kept) = m BY <1>4, <2>2
  <2> QED BY <2>2, <2>3, <2>4
<1> HIDE DEF kept
<1>6. \A i, j \in 1 .. m : kept[i].id = kept[j].id => i = j
  BY <1>3, <1>5
<1>7. RetentionHolds' BY <1>1, <1>2, <1>5, <1>6 DEF RetentionHolds
<1>8. Cardinality({e.id : e \in Range(kept)}) = m
  <2> DEFINE own == {e.id : e \in Range(kept)}
             f == [i \in 1 .. m |-> kept[i].id]
  <2>1. f \in [1 .. m -> own] /\ \A x \in own : \E i \in 1 .. m : f[i] = x
    BY <1>5 DEF Range
  <2>2. \A i, j \in 1 .. m : f[i] = f[j] => i = j BY <1>6
  <2>3. 1 \in Int /\ m \in Int BY <1>4
  <2>4. IsFiniteSet(1 .. m) /\ Cardinality(1 .. m) = IF 1 > m THEN 0 ELSE m - 1 + 1
    BY <2>3, FS_Interval
  <2> HIDE DEF own, f
  <2>5. Cardinality(own) = Cardinality(1 .. m) BY <2>1, <2>2, <2>4, SameSize
  <2> QED BY <1>4, <2>4, <2>5 DEF own
<1>9. ASSUME NEW k \in DOMAIN c, \A l \in 1 .. k - 1 : c[l].id # c[k].id, c[k] \notin Range(kept),
             NEW r \in Range(kept)
      PROVE  r.at >= c[k].at
  <2>1. PICK j \in DOMAIN b : b[j] = c[k] BY <1>3, <1>9
  <2>2. PICK i \in 1 .. m : r = kept[i] BY <1>5 DEF Range
  <2>3. j \notin 1 .. m BY <1>5, <1>9, <2>1 DEF Range
  <2>4. i \in DOMAIN b /\ i < j /\ r = b[i] BY <1>3, <1>4, <1>5, <2>2, <2>3
  <2> QED BY <1>3, <2>1, <2>4
<1>10. NewestAreRetained'
  <2> HIDE DEF ids
  <2>1. /\ retention'.events = kept /\ retention'.total = Len(b) /\ retention'.candidates = c
        /\ (retention'.truncated <=> Len(b) > MaxSnapshotEvents)
    BY <1>1
  <2>2. Cardinality({e.id : e \in Range(kept)}) = Len(kept) BY <1>5, <1>8
  <2>3. Len(b) = Cardinality({e.id : e \in Range(c)}) BY <1>3 DEF ids
  <2>4. retention'.truncated <=> Len(kept) < Len(b) BY <1>4, <1>5, <2>1
  <2>5. \A k \in DOMAIN c :
          (\A l \in 1 .. k - 1 : c[l].id # c[k].id) /\ c[k] \notin Range(kept) =>
             \A r \in Range(kept) : r.at >= c[k].at
    BY <1>9
  <2> QED BY <2>1, <2>2, <2>3, <2>4, <2>5 DEF NewestAreRetained
<1> QED BY <1>7, <1>10

-----------------------------------------------------------------------------
(* Settling *)

\* The enrichment reported the outcome of an event's evidence, and it decides its paths.
Backed(evidence) ==
    LET key == Key(evidence)
    IN  IF key = Absent THEN evidence.settled.kind = "complete"
        ELSE /\ key \in DOMAIN settled /\ settled[key].kind = "complete"
             /\ evidence.operation = "commit" => settled[key].parent = evidence.before

SettlingHolds == \A key \in DOMAIN settled : settled[key] \in Results

\* Every retained event has an outcome, and one that decides is backed.
OutcomesHold ==
    outcomes # Absent =>
        /\ retention # Absent
        /\ DOMAIN outcomes = DOMAIN retention.events
        /\ \A k \in DOMAIN outcomes :
             /\ outcomes[k].kind \in Reasons \cup {"complete"}
             /\ HasPathScopes /\ outcomes[k].kind = "complete" => Backed(retention.events[k].evidence)

\* What an identity's result means for one event decides only what it proves.
LEMMA OutcomeOfEvent ==
    ASSUME SettlingHolds, NEW event \in Delivered,
           Key(event.evidence) = Absent \/ Key(event.evidence) \in DOMAIN settled
    PROVE  /\ OutcomeOf(event).kind \in Reasons \cup {"complete"}
           /\ OutcomeOf(event).kind = "complete" => Backed(event.evidence)
<1> DEFINE evidence == event.evidence
           key == Key(evidence)
           result == settled[key]
           own == IF evidence.operation = "commit" THEN ForSoleParent(result, evidence.before)
                  ELSE result
<1>1. CASE key = Absent
  <2>1. OutcomeOf(event) = evidence.settled BY <1>1 DEF OutcomeOf
  <2>2. evidence.settled.kind \in Reasons \cup {"complete"} BY <1>1, SnapshotAssumption
  <2> QED BY <1>1, <2>1, <2>2 DEF Backed
<1>2. CASE key # Absent
  <2>1. key \in DOMAIN settled /\ result \in Results BY <1>2 DEF SettlingHolds
  <2>2. result \in [kind : Reasons \cup {"complete"}, provenance : {result.provenance},
                    paths : {result.paths}, parent : {result.parent}, retryAt : {result.retryAt}]
    BY <2>1, SnapshotAssumption
  <2>3. OutcomeOf(event) = IF own.kind # "complete" THEN own
                           ELSE [own EXCEPT !.provenance = evidence.provenance]
    BY <1>2 DEF OutcomeOf
  <2>4. own = result \/ own = Unknown("incomplete") BY DEF ForSoleParent
  <2>5. Unknown("incomplete").kind = "incomplete" BY DEF Unknown
  <2>6. own.kind = "complete" =>
          own = result /\ (evidence.operation = "commit" => result.parent = evidence.before)
    BY <2>4, <2>5 DEF ForSoleParent
  <2> HIDE DEF own, result, key, evidence
  <2>7. own.kind = "complete" => [own EXCEPT !.provenance = evidence.provenance].kind = own.kind
    BY <2>2, <2>6
  <2>8. OutcomeOf(event).kind = own.kind BY <2>3, <2>7
  <2>9. own.kind \in Reasons \cup {"complete"} BY <2>2, <2>4, <2>5 DEF Reasons
  <2>10. own.kind = "complete" => Backed(evidence)
    BY <1>2, <2>1, <2>6 DEF Backed, result, key
  <2> QED BY <2>8, <2>9, <2>10 DEF evidence
<1> QED BY <1>1, <1>2

LEMMA IdentitySettles ==
    ASSUME SettlingHolds, SettleIdentity
    PROVE  SettlingHolds'
<1>1. PICK key \in Identities \ DOMAIN settled, result \in Results :
        settled' = [k \in DOMAIN settled \cup {key} |-> IF k = key THEN result ELSE settled[k]]
  BY DEF SettleIdentity
<1> QED BY <1>1 DEF SettlingHolds

\* However the enrichment ends, no event's outcome says more than was reported for it.
LEMMA OutcomesSettle ==
    ASSUME RetentionHolds, SettlingHolds, NoEvidenceWanted \/ NoEvidence \/ Enriched
    PROVE  OutcomesHold'
<1>1. /\ retention # Absent /\ UNCHANGED <<scopes, retention, settled, snapshot>>
      /\ retention.events \in Seq(Delivered)
  BY DEF NoEvidenceWanted, NoEvidence, Enriched, SettleAs, RetentionHolds
<1>2. HasPathScopes' = HasPathScopes BY <1>1 DEF HasPathScopes
<1>3. CASE NoEvidenceWanted
  <2>1. outcomes' = [k \in DOMAIN retention.events |-> Zero] /\ ~HasPathScopes
    BY <1>3 DEF NoEvidenceWanted, SettleAs, ForEvery
  <2>2. Zero.kind = "complete" BY DEF Zero, Complete, Unknown
  <2> QED BY <1>1, <1>2, <2>1, <2>2 DEF OutcomesHold
<1>4. CASE NoEvidence
  <2>1. PICK kind \in {"incomplete", "failed"} :
          outcomes' = [k \in DOMAIN retention.events |-> Unknown(kind)]
    BY <1>4 DEF NoEvidence, SettleAs, ForEvery
  <2>2. Unknown(kind).kind = kind BY DEF Unknown
  <2> QED BY <1>1, <2>1, <2>2 DEF OutcomesHold, Reasons
<1>5. CASE Enriched
  <2>1. PICK reported \in 0 .. Len(retention.events) :
          outcomes' = [k \in DOMAIN retention.events |->
                         IF k <= reported THEN OutcomeOf(retention.events[k])
                         ELSE Unknown("incomplete")]
    BY <1>5 DEF Enriched, SettleAs, WithTail
  <2>2. Unknown("incomplete").kind = "incomplete" BY DEF Unknown
  <2>3. ASSUME NEW k \in DOMAIN retention.events
        PROVE  LET outcome == OutcomeOf(retention.events[k])
               IN  /\ outcome.kind \in Reasons \cup {"complete"}
                   /\ outcome.kind = "complete" => Backed(retention.events[k].evidence)
    <3>1. retention.events[k] \in Delivered BY <1>1
    <3>2. LET key == Key(retention.events[k].evidence)
          IN  key = Absent \/ key \in DOMAIN settled
      BY <1>5 DEF Enriched, Identities
    <3> QED BY <3>1, <3>2, OutcomeOfEvent
  <2>4. \A k \in DOMAIN retention.events :
          /\ outcomes'[k].kind \in Reasons \cup {"complete"}
          /\ outcomes'[k].kind = "complete" => Backed(retention.events[k].evidence)
    BY <2>1, <2>2, <2>3 DEF Reasons
  <2>5. \A evidence : Backed(evidence)' <=> Backed(evidence) BY <1>1 DEF Backed
  <2>6. DOMAIN outcomes' = DOMAIN retention.events BY <2>1
  <2> QED BY <1>1, <2>4, <2>5, <2>6 DEF OutcomesHold
<1> QED BY <1>3, <1>4, <1>5

\* What is published is a function of what was retained and settled.
Published == snapshot # Absent => outcomes # Absent /\ snapshot = ScopedSnapshot(ScopedEvents)

LEMMA SameSnapshot ==
    ASSUME UNCHANGED <<scopes, retention, outcomes>>
    PROVE  ScopedSnapshot(ScopedEvents)' = ScopedSnapshot(ScopedEvents)
<1>1. scopes' = scopes /\ retention' = retention /\ outcomes' = outcomes OBVIOUS
<1>2. ScopedEvents' = ScopedEvents BY <1>1 DEF ScopedEvents, Evaluate, Ordered
<1>3. Rows(ScopedEvents)' = Rows(ScopedEvents)
  BY <1>1, <1>2 DEF Rows
<1> QED BY <1>1, <1>2, <1>3 DEF ScopedSnapshot

IInv == Selected /\ RetentionHolds /\ NewestAreRetained /\ SettlingHolds /\ OutcomesHold /\ Published

LEMMA StepKeeps ==
    ASSUME IInv, [SnapshotNext]_snapshotVars
    PROVE  IInv'
<1>1. ASSUME UNCHANGED <<scopes, retention, settled, outcomes>> PROVE (Selected /\ RetentionHolds /\ NewestAreRetained /\ SettlingHolds /\ OutcomesHold)'
  BY <1>1 DEF IInv, Selected, RetentionHolds, NewestAreRetained, SettlingHolds, OutcomesHold,
              HasPathScopes, Backed
<1>2. CASE UNCHANGED snapshotVars
  <2>1. Published'
    BY <1>2, SameSnapshot DEF IInv, Published, snapshotVars
  <2> QED BY <1>1, <1>2, <2>1 DEF IInv, snapshotVars
<1>3. ASSUME NEW wanted \in Selections, NewScopeSet(wanted) PROVE IInv'
  <2>1. /\ scopes = Absent /\ retention = Absent /\ outcomes = Absent /\ snapshot = Absent
        /\ UNCHANGED <<retention, settled, outcomes, snapshot>>
    BY <1>3 DEF NewScopeSet, IInv, Selected, RetentionHolds, OutcomesHold, Published
  <2>2. Selected' BY <1>3, SelectingKeeps DEF IInv
  <2> QED BY <2>1, <2>2 DEF IInv, RetentionHolds, NewestAreRetained, SettlingHolds, OutcomesHold,
                            Published
<1>4. ASSUME NEW activities \in Activities, Retain(activities) PROVE IInv'
  <2>1. /\ retention = Absent /\ outcomes = Absent /\ snapshot = Absent
        /\ UNCHANGED <<scopes, settled, outcomes, snapshot>>
    BY <1>4 DEF Retain, IInv, OutcomesHold, Published
  <2>2. RetentionHolds' /\ NewestAreRetained' BY <1>4, RetainingKeeps
  <2> QED BY <2>1, <2>2 DEF IInv, Selected, SettlingHolds, OutcomesHold, Published
<1>5. CASE SettleIdentity
  <2>1. outcomes = Absent /\ snapshot = Absent /\ UNCHANGED <<scopes, retention, outcomes, snapshot>>
    BY <1>5 DEF SettleIdentity, IInv, Published
  <2>2. SettlingHolds' BY <1>5, IdentitySettles DEF IInv
  <2> QED BY <2>1, <2>2 DEF IInv, Selected, RetentionHolds, NewestAreRetained, OutcomesHold, Published
<1>6. CASE NoEvidenceWanted \/ NoEvidence \/ Enriched
  <2>1. /\ outcomes = Absent /\ snapshot = Absent /\ UNCHANGED <<scopes, retention, settled, snapshot>>
    BY <1>6 DEF NoEvidenceWanted, NoEvidence, Enriched, SettleAs, IInv, Published
  <2>2. OutcomesHold' BY <1>6, OutcomesSettle DEF IInv
  <2> QED BY <2>1, <2>2 DEF IInv, Selected, RetentionHolds, NewestAreRetained, SettlingHolds, Published
<1>7. CASE NewRetainedSnapshot
  <2>1. /\ outcomes # Absent /\ snapshot' = ScopedSnapshot(ScopedEvents)
        /\ UNCHANGED <<scopes, retention, settled, outcomes>>
    BY <1>7 DEF NewRetainedSnapshot
  <2>2. Published' BY <2>1, SameSnapshot DEF Published
  <2> QED BY <1>1, <2>1, <2>2 DEF IInv
<1> QED BY <1>2, <1>3, <1>4, <1>5, <1>6, <1>7 DEF SnapshotNext
-----------------------------------------------------------------------------
(* Membership *)

\* The events of a Scope's repository, by index.
Own(scope) == {k \in DOMAIN retention.events : retention.events[k].repository = scope.repository}

\* An event has one membership in every selected Scope of its repository.
LEMMA Memberships ==
    ASSUME Selected, scopes # Absent, NEW event, NEW outcome
    PROVE  LET list == Evaluate(event, outcome)
           IN  /\ \E n \in Nat : DOMAIN list = 1 .. n
               /\ \A k \in DOMAIN list :
                    /\ list[k].scope \in Range(scopes)
                    /\ list[k].scope.repository = event.repository
                    /\ list[k].membership = MembershipIn(list[k].scope, outcome)
               /\ \A s \in Range(scopes) : s.repository = event.repository =>
                    \E k \in DOMAIN list : list[k].scope = s
               /\ \A k, l \in DOMAIN list : list[k].scope = list[l].scope => k = l
<1> DEFINE all == Range(scopes)
           I == {k \in DOMAIN Ordered : Ordered[k].repository = event.repository}
           own == Picked(Ordered, I)
           list == Evaluate(event, outcome)
<1>1. list = [k \in DOMAIN own |->
                [scope |-> own[k], membership |-> MembershipIn(own[k], outcome)]]
  BY DEF Evaluate
<1>2. /\ Ordered \in Seq(all)
      /\ \A s \in all : \E i \in DOMAIN Ordered : Ordered[i] = s
      /\ \A i, j \in DOMAIN Ordered : Ordered[i] = Ordered[j] => i = j
      /\ \A i \in DOMAIN Ordered : Ordered[i] \in all /\ i \in Nat
  <2>1. all \in SUBSET ScopeType /\ IsFiniteSet(all) BY SelectionIsFinite
  <2>2. Orders(ScopeOrder(all), all) BY <2>1, ScopesOrdered
  <2>3. Ordered = InOrder(ScopeOrder(all), all) BY DEF Ordered, ScopeOrder
  <2> HIDE DEF all
  <2>4. /\ Ordered \in Seq(all)
        /\ \A s \in all : \E i \in DOMAIN Ordered : Ordered[i] = s
        /\ \A i, j \in DOMAIN Ordered : Ordered[i] = Ordered[j] => i = j
    BY <2>1, <2>2, <2>3, InOrderLists
  <2> QED BY <2>4
<1>3. I \in SUBSET DOMAIN Ordered /\ \A k \in I : Ordered[k].repository = event.repository
  OBVIOUS
<1>4. \A k \in DOMAIN Ordered : Ordered[k].repository = event.repository => k \in I OBVIOUS
<1> HIDE DEF all, I, own, list
<1>5. own \in Seq(all) /\ \E index : Takes(own, Ordered, I, index)
  BY <1>2, <1>3, PickedKeeps DEF own
<1>6. PICK index : Takes(own, Ordered, I, index) BY <1>5
<1>7. ASSUME NEW k \in DOMAIN own
      PROVE  own[k] \in all /\ own[k].repository = event.repository
  BY <1>2, <1>3, <1>6 DEF Takes
<1>8. ASSUME NEW s \in all, s.repository = event.repository
      PROVE  \E k \in DOMAIN own : own[k] = s
  <2>1. PICK i \in DOMAIN Ordered : Ordered[i] = s BY <1>2
  <2>2. i \in I BY <1>4, <1>8, <2>1
  <2> QED BY <1>6, <2>1, <2>2 DEF Takes
<1>9. ASSUME NEW k \in DOMAIN own, NEW l \in DOMAIN own, own[k] = own[l] PROVE k = l
  <2>1. index[k] = index[l] BY <1>2, <1>3, <1>6, <1>9 DEF Takes
  <2>2. I \in SUBSET Nat /\ DOMAIN own \subseteq Nat BY <1>2, <1>3, <1>5
  <2> QED BY <1>6, <2>1, <2>2, TakesOnce
<1>10. DOMAIN list = DOMAIN own
       /\ \A k \in DOMAIN list : /\ list[k].scope = own[k]
                                 /\ list[k].membership = MembershipIn(own[k], outcome)
  BY <1>1
<1>11. \E n \in Nat : DOMAIN list = 1 .. n BY <1>5, <1>10
<1> QED BY <1>7, <1>8, <1>9, <1>10, <1>11 DEF all, list

LEMMA EventMemberships ==
    ASSUME IInv, outcomes # Absent, NEW k \in DOMAIN retention.events
    PROVE  LET list == ScopedEvents[k].memberships
           IN  /\ \E n \in Nat : DOMAIN list = 1 .. n
               /\ \A j \in DOMAIN list :
                    /\ list[j].scope \in Range(scopes) /\ k \in Own(list[j].scope)
                    /\ list[j].membership = MembershipIn(list[j].scope, outcomes[k])
               /\ \A s \in Range(scopes) : k \in Own(s) => \E j \in DOMAIN list : list[j].scope = s
               /\ \A i, j \in DOMAIN list : list[i].scope = list[j].scope => i = j
<1> DEFINE event == retention.events[k]
           list == Evaluate(event, outcomes[k])
<1>1. ScopedEvents[k].memberships = list BY DEF ScopedEvents
<1>2. Selected /\ scopes # Absent BY DEF IInv, OutcomesHold, RetentionHolds
<1>3. /\ \E n \in Nat : DOMAIN list = 1 .. n
      /\ \A j \in DOMAIN list : /\ list[j].scope \in Range(scopes)
                                /\ list[j].scope.repository = event.repository
                                /\ list[j].membership = MembershipIn(list[j].scope, outcomes[k])
      /\ \A s \in Range(scopes) : s.repository = event.repository =>
           \E j \in DOMAIN list : list[j].scope = s
      /\ \A i, j \in DOMAIN list : list[i].scope = list[j].scope => i = j
  BY <1>2, Memberships
<1>4. \A s : k \in Own(s) <=> s.repository = event.repository BY DEF Own
<1> HIDE DEF list, event
<1> QED BY <1>1, <1>3, <1>4

\* A membership says one of three things, and what is unknown has the outcome for its reason.
LEMMA MembershipKinds ==
    ASSUME NEW scope, NEW outcome, outcome.kind \in Reasons \cup {"complete"}
    PROVE  LET m == MembershipIn(scope, outcome)
           IN  /\ m.kind \in {"member", "not-member", "unknown"}
               /\ m.kind = "unknown" => m.reason = outcome.kind /\ m.reason \in Reasons
               /\ m.kind # "unknown" /\ scope.matcher # NoMatcher => outcome.kind = "complete"
<1>1. NotMember = [kind |-> "not-member", reason |-> "none", provenance |-> "none"] BY DEF NotMember
<1>2. CASE scope.matcher = NoMatcher
  <2>1. MembershipIn(scope, outcome) = [NotMember EXCEPT !.kind = "member"]
    BY <1>2 DEF MembershipIn
  <2>2. MembershipIn(scope, outcome).kind = "member" BY <1>1, <2>1
  <2> QED BY <1>2, <2>2
<1>3. CASE scope.matcher # NoMatcher /\ outcome.kind # "complete"
  <2>1. MembershipIn(scope, outcome) =
          [NotMember EXCEPT !.kind = "unknown", !.reason = outcome.kind]
    BY <1>3 DEF MembershipIn
  <2>2. MembershipIn(scope, outcome) =
          [kind |-> "unknown", reason |-> outcome.kind, provenance |-> "none"]
    BY <1>1, <2>1
  <2> QED BY <1>3, <2>2
<1>4. CASE scope.matcher # NoMatcher /\ outcome.kind = "complete"
  <2>1. PICK kind \in {"member", "not-member"} : MembershipIn(scope, outcome) =
          [NotMember EXCEPT !.kind = kind, !.provenance = outcome.provenance]
    BY <1>4 DEF MembershipIn
  <2>2. MembershipIn(scope, outcome) =
          [kind |-> kind, reason |-> "none", provenance |-> outcome.provenance]
    BY <1>1, <2>1
  <2> QED BY <1>4, <2>2
<1> QED BY <1>2, <1>3, <1>4

\* What a Scope holds are the events of its repository that it decides so.
Decided(scope, kind) == {k \in Own(scope) : MembershipIn(scope, outcomes[k]).kind = kind}

LEMMA HeldIsDecided ==
    ASSUME IInv, outcomes # Absent, NEW scope \in Range(scopes), NEW kind
    PROVE  HeldBy(ScopedEvents, scope, kind) = Decided(scope, kind)
<1>1. DOMAIN ScopedEvents = DOMAIN retention.events BY DEF ScopedEvents
<1>2. ASSUME NEW k \in DOMAIN retention.events
      PROVE  (\E m \in Range(ScopedEvents[k].memberships) : m.scope = scope /\ m.membership.kind = kind)
             <=> k \in Own(scope) /\ MembershipIn(scope, outcomes[k]).kind = kind
  <2> DEFINE list == ScopedEvents[k].memberships
  <2>1. /\ \A j \in DOMAIN list : /\ k \in Own(list[j].scope)
                                  /\ list[j].membership = MembershipIn(list[j].scope, outcomes[k])
        /\ k \in Own(scope) => \E j \in DOMAIN list : list[j].scope = scope
    BY EventMemberships
  <2> HIDE DEF list
  <2>2. (\E j \in DOMAIN list : list[j].scope = scope /\ list[j].membership.kind = kind)
        <=> k \in Own(scope) /\ MembershipIn(scope, outcomes[k]).kind = kind
    BY <2>1
  <2>3. (\E m \in Range(list) : m.scope = scope /\ m.membership.kind = kind)
        <=> \E j \in DOMAIN list : list[j].scope = scope /\ list[j].membership.kind = kind
    BY DEF Range
  <2> QED BY <2>2, <2>3 DEF list
<1>3. Own(scope) \in SUBSET DOMAIN retention.events BY DEF Own
<1> HIDE DEF Own
<1> QED BY <1>1, <1>2, <1>3 DEF HeldBy, Decided

\* A path Scope decides an event only from an outcome that is backed.
LEMMA DecidedIsBacked ==
    ASSUME IInv, outcomes # Absent, NEW k \in DOMAIN retention.events, NEW scope \in Range(scopes),
           scope.matcher # NoMatcher, MembershipIn(scope, outcomes[k]).kind # "unknown"
    PROVE  Backed(retention.events[k].evidence)
<1>1. /\ k \in DOMAIN outcomes
      /\ outcomes[k].kind \in Reasons \cup {"complete"}
      /\ HasPathScopes /\ outcomes[k].kind = "complete" => Backed(retention.events[k].evidence)
  BY DEF IInv, OutcomesHold
<1>2. HasPathScopes BY DEF HasPathScopes, Range
<1>3. outcomes[k].kind = "complete" BY <1>1, MembershipKinds
<1> QED BY <1>1, <1>2, <1>3

LEMMA NothingGuessed ==
    ASSUME IInv
    PROVE  NothingIsGuessed
<1> SUFFICES ASSUME snapshot # Absent, NEW k \in DOMAIN snapshot.events,
                    NEW m \in Range(snapshot.events[k].memberships),
                    m.scope.matcher # NoMatcher, m.membership.kind # "unknown"
             PROVE  Backed(snapshot.events[k].event.evidence)
  BY DEF NothingIsGuessed, Backed
<1>1. outcomes # Absent /\ snapshot.events = ScopedEvents
  BY DEF IInv, Published, ScopedSnapshot
<1>2. k \in DOMAIN retention.events /\ snapshot.events[k].event = retention.events[k]
  BY <1>1 DEF ScopedEvents
<1>3. PICK j \in DOMAIN ScopedEvents[k].memberships : m = ScopedEvents[k].memberships[j]
  BY <1>1 DEF Range
<1>4. m.scope \in Range(scopes) /\ m.membership = MembershipIn(m.scope, outcomes[k])
  BY <1>1, <1>2, <1>3, EventMemberships
<1> QED BY <1>1, <1>2, <1>4, DecidedIsBacked

-----------------------------------------------------------------------------
(* The rows *)

\* Subsets of the retained events are finite.
LEMMA EventsAreFinite ==
    ASSUME IInv, outcomes # Absent
    PROVE  /\ IsFiniteSet(DOMAIN retention.events)
           /\ \E n \in Nat : n = Len(retention.events) /\ DOMAIN retention.events = 1 .. n
                             /\ Cardinality(DOMAIN retention.events) = n
<1>1. retention.events \in Seq(Delivered) BY DEF IInv, OutcomesHold, RetentionHolds
<1>2. PICK n \in Nat : n = Len(retention.events) /\ DOMAIN retention.events = 1 .. n BY <1>1
<1>3. 1 \in Int /\ n \in Int OBVIOUS
<1>4. IsFiniteSet(1 .. n) /\ Cardinality(1 .. n) = IF 1 > n THEN 0 ELSE n - 1 + 1
  BY <1>3, FS_Interval
<1> QED BY <1>2, <1>4

\* The membership of a scoped event in a Scope that has it.
InScope(scoped, scope) == CHOOSE m \in Range(scoped.memberships) : m.scope = scope

LEMMA InScopeIs ==
    ASSUME IInv, outcomes # Absent, NEW scope \in Range(scopes), NEW k \in Own(scope)
    PROVE  InScope(ScopedEvents[k], scope).membership = MembershipIn(scope, outcomes[k])
<1> DEFINE list == ScopedEvents[k].memberships
<1>1. k \in DOMAIN retention.events BY DEF Own
<1>2. /\ \A j \in DOMAIN list : list[j].membership = MembershipIn(list[j].scope, outcomes[k])
      /\ \E j \in DOMAIN list : list[j].scope = scope
  BY <1>1, EventMemberships
<1>3. Range(list) = {list[j] : j \in DOMAIN list} BY DEF Range
<1> HIDE DEF list
<1>4. \E m \in Range(list) : m.scope = scope BY <1>2, <1>3
<1> DEFINE m == CHOOSE m \in Range(list) : m.scope = scope
<1>5. m \in Range(list) /\ m.scope = scope BY <1>4
<1>6. m = InScope(ScopedEvents[k], scope) BY DEF InScope, list
<1> HIDE DEF m
<1>7. PICK j \in DOMAIN list : m = list[j] BY <1>3, <1>5
<1> QED BY <1>2, <1>5, <1>6, <1>7

\* The unknown events of a Scope, by their reasons.
ForReason(scope, reason) == {k \in Decided(scope, "unknown") : outcomes[k].kind = reason}

\* A row counts every event of its Scope once.
LEMMA RowCounts ==
    ASSUME IInv, outcomes # Absent, NEW scope \in Range(scopes)
    PROVE  LET row == Row(ScopedEvents, scope)
           IN  /\ row.scope = scope
               /\ row.activity = Cardinality(Decided(scope, "member")) /\ row.activity \in Nat
               /\ row.activity + row.notMember + row.unknown = Cardinality(Own(scope))
               /\ row.evaluated = Cardinality(Own(scope))
               /\ row.unknown = SumFunction(row.byReason)
               /\ row.pushes + row.pullRequests <= row.activity
               /\ row.currentPR <= row.activity
<1> DEFINE e == ScopedEvents
           row == Row(e, scope)
           active == Decided(scope, "member")
           unknown == Decided(scope, "unknown")
           notMember == Decided(scope, "not-member")
           pushes == {k \in active : e[k].event.category = "push"}
           pullRequests == {k \in active : IsPullRequestActivity(e[k].event)}
           current == {k \in active : InScope(e[k], scope).membership.provenance = "current-pr"}
           byReason == [reason \in Reasons |->
              Cardinality({k \in unknown : InScope(e[k], scope).membership.reason = reason})]
<1>1. /\ Active(e, scope) = active
      /\ HeldBy(e, scope, "unknown") = unknown
      /\ HeldBy(e, scope, "not-member") = notMember
  BY HeldIsDecided DEF Active
<1> HIDE DEF e, active, unknown, notMember
<1>2. row = [scope |-> scope, activity |-> Cardinality(active),
             pushes |-> Cardinality(pushes), pullRequests |-> Cardinality(pullRequests),
             currentPR |-> Cardinality(current),
             notMember |-> Cardinality(notMember), unknown |-> Cardinality(unknown),
             evaluated |-> Cardinality(active \cup notMember \cup unknown),
             byReason |-> byReason]
  BY <1>1, Zenon DEF Row, InScope
<1> HIDE DEF row, pushes, pullRequests, current, byReason
<1>3. /\ row.scope = scope /\ row.activity = Cardinality(active)
      /\ row.pushes = Cardinality(pushes) /\ row.pullRequests = Cardinality(pullRequests)
      /\ row.currentPR = Cardinality(current)
      /\ row.notMember = Cardinality(notMember) /\ row.unknown = Cardinality(unknown)
      /\ row.evaluated = Cardinality(active \cup notMember \cup unknown)
      /\ row.byReason = byReason
  BY <1>2
<1>4. IsFiniteSet(Own(scope))
  <2>1. Own(scope) \in SUBSET DOMAIN retention.events BY DEF Own
  <2> HIDE DEF Own
  <2> QED BY <2>1, EventsAreFinite, FS_Subset
<1>5. /\ active \in SUBSET Own(scope) /\ unknown \in SUBSET Own(scope)
      /\ notMember \in SUBSET Own(scope)
      /\ active \cap notMember = {} /\ active \cap unknown = {} /\ notMember \cap unknown = {}
  BY DEF active, unknown, notMember, Decided
<1>6. \A k \in Own(scope) : outcomes[k].kind \in Reasons \cup {"complete"}
  BY DEF Own, IInv, OutcomesHold
<1>7. active \cup notMember \cup unknown = Own(scope)
  <2>1. \A k \in Own(scope) : MembershipIn(scope, outcomes[k]).kind \in {"member", "not-member", "unknown"}
    BY <1>6, MembershipKinds
  <2> QED BY <2>1 DEF active, unknown, notMember, Decided
<1>8. /\ Cardinality(active) + Cardinality(notMember) + Cardinality(unknown) = Cardinality(Own(scope))
      /\ Cardinality(active) \in Nat
  <2>1. Parts(Own(scope), active, notMember, unknown) BY <1>5, <1>7 DEF Parts
  <2> QED BY <1>4, <2>1, ThreeParts
<1>9. Cardinality(unknown) = SumFunction(byReason)
  <2> DEFINE v == [k \in unknown |-> outcomes[k].kind]
  <2>1. ASSUME NEW k \in unknown
        PROVE  /\ outcomes[k].kind \in Reasons
               /\ InScope(e[k], scope).membership.reason = outcomes[k].kind
    <3>1. k \in Own(scope) /\ MembershipIn(scope, outcomes[k]).kind = "unknown"
      BY DEF unknown, Decided
    <3>2. /\ MembershipIn(scope, outcomes[k]).reason = outcomes[k].kind
          /\ MembershipIn(scope, outcomes[k]).reason \in Reasons
      BY <1>6, <3>1, MembershipKinds
    <3>3. InScope(e[k], scope).membership = MembershipIn(scope, outcomes[k])
      BY <3>1, InScopeIs DEF e
    <3> QED BY <3>2, <3>3
  <2>2. v \in [unknown -> Reasons] BY <2>1
  <2>3. \A r \in Reasons : byReason[r] = Cardinality({k \in unknown : v[k] = r})
    <3> SUFFICES ASSUME NEW r \in Reasons
                 PROVE  {k \in unknown : InScope(e[k], scope).membership.reason = r}
                        = {k \in unknown : v[k] = r}
      BY DEF byReason
    <3> QED BY <2>1
  <2>4. IsFiniteSet(unknown) BY <1>4, <1>5, FS_Subset
  <2>5. IsFiniteSet(Reasons)
    <3> DEFINE f == <<"unsupported", "incomplete", "unavailable", "denied", "rate-limited", "failed">>
    <3>1. 1 \in Int /\ 6 \in Int OBVIOUS
    <3>2. f \in Surjection(1 .. 6, Reasons) BY DEF Surjection, Reasons
    <3> HIDE DEF f
    <3>3. IsFiniteSet(1 .. 6) BY <3>1, FS_Interval
    <3> QED BY <3>2, <3>3, FS_Surjection
  <2>6. DOMAIN byReason = Reasons BY DEF byReason
  <2> HIDE DEF v, Reasons
  <2>7. SumFunctionOnSet(byReason, Reasons) = Cardinality(unknown)
    BY <2>2, <2>3, <2>4, <2>5, SumOfFibres
  <2> QED BY <2>6, <2>7 DEF SumFunction
<1>10. IsFiniteSet(active) BY <1>4, <1>5, FS_Subset
<1>11. Cardinality(pushes) + Cardinality(pullRequests) <= Cardinality(active)
  <2>1. /\ pushes \in SUBSET active /\ pullRequests \in SUBSET active
        /\ pushes \cap pullRequests = {}
    BY DEF pushes, pullRequests, IsPullRequestActivity
  <2> QED BY <1>10, <2>1, TwoParts
<1>12. Cardinality(current) <= Cardinality(active)
  <2>1. current \in SUBSET active BY DEF current
  <2> QED BY <1>10, <2>1, FS_Subset
<1> QED BY <1>3, <1>7, <1>8, <1>9, <1>11, <1>12 DEF row, active, e

\* The order of the rows.
ActivityOrder(events) ==
    {pair \in Range(scopes) \X Range(scopes) : MoreActive(events, pair[1], pair[2])}

Listing(events) == InOrder(ActivityOrder(events), Range(scopes))

\* Every selected Scope has one row, and the more active come first.
LEMMA RowsListed ==
    ASSUME IInv, outcomes # Absent
    PROVE  LET e == ScopedEvents
               order == Listing(e)
           IN  /\ Rows(e) = [k \in DOMAIN order |-> Row(e, order[k])]
               /\ DOMAIN order = 1 .. Len(scopes) /\ Len(scopes) \in Nat
               /\ \A k \in DOMAIN order : order[k] \in Range(scopes)
               /\ \A s \in Range(scopes) : \E k \in DOMAIN order : order[k] = s
               /\ \A k, l \in DOMAIN order : order[k] = order[l] => k = l
               /\ \A k, l \in DOMAIN order : k < l =>
                    Cardinality(Decided(order[k], "member")) >= Cardinality(Decided(order[l], "member"))
<1> DEFINE e == ScopedEvents
           all == Range(scopes)
           n(s) == Cardinality(Decided(s, "member"))
           R == ActivityOrder(e)
           order == Listing(e)
<1>1. Selected /\ scopes # Absent BY DEF IInv, OutcomesHold, RetentionHolds
<1>2. /\ all \in SUBSET ScopeType /\ IsFiniteSet(all) /\ Cardinality(all) = Len(scopes)
  BY <1>1, SelectionIsFinite
<1>3. \A s \in all : n(s) \in Nat
  <2> SUFFICES ASSUME NEW s \in all PROVE n(s) \in Nat OBVIOUS
  <2>1. Decided(s, "member") \in SUBSET DOMAIN retention.events BY DEF Decided, Own
  <2>2. IsFiniteSet(Decided(s, "member")) BY <2>1, EventsAreFinite, FS_Subset
  <2> QED BY <2>2, FS_CardinalityType
<1>4. \A s \in all : Cardinality(Active(e, s)) = n(s)
  BY HeldIsDecided DEF Active
<1> HIDE DEF n, e
<1>5. ASSUME NEW a \in all, NEW b \in all
      PROVE  MoreActive(e, a, b) <=> n(a) > n(b) \/ (n(a) = n(b) /\ ScopeBefore(a, b))
  BY <1>4 DEF MoreActive
<1>6. /\ \A a \in all : ~ScopeBefore(a, a)
      /\ \A a, b, c \in all : ScopeBefore(a, b) /\ ScopeBefore(b, c) => ScopeBefore(a, c)
      /\ \A a, b \in all : a = b \/ ScopeBefore(a, b) \/ ScopeBefore(b, a)
  <2> HIDE DEF all
  <2>1. /\ Orders(ScopeOrder(all), all)
        /\ \A a, b \in all : <<a, b>> \in ScopeOrder(all) <=> ScopeBefore(a, b)
    BY <1>2, ScopesOrdered
  <2> QED BY <2>1 DEF Orders
<1>7. \A a, b \in all : <<a, b>> \in R <=> MoreActive(e, a, b) BY DEF ActivityOrder
<1>8. order = InOrder(R, all) /\ Rows(e) = [k \in DOMAIN order |-> Row(e, order[k])]
  BY DEF Rows, Listing, ActivityOrder
<1> HIDE DEF all, R, order
<1>9. Orders(R, all) BY <1>3, <1>5, <1>6, <1>7 DEF Orders
<1>10. /\ DOMAIN order = 1 .. Cardinality(all) /\ Cardinality(all) \in Nat
       /\ \A i \in DOMAIN order : order[i] \in all
       /\ \A s \in all : \E i \in DOMAIN order : order[i] = s
       /\ \A i, j \in DOMAIN order : i < j <=> <<order[i], order[j]>> \in R
       /\ \A i, j \in DOMAIN order : order[i] = order[j] => i = j
  BY <1>2, <1>8, <1>9, InOrderLists
<1>11. ASSUME NEW k \in DOMAIN order, NEW l \in DOMAIN order, k < l
       PROVE  n(order[k]) >= n(order[l])
  <2>1. MoreActive(e, order[k], order[l]) BY <1>7, <1>10, <1>11
  <2>2. n(order[k]) > n(order[l]) \/ n(order[k]) = n(order[l]) BY <1>5, <1>10, <2>1
  <2> QED BY <1>3, <1>10, <2>2
<1> QED BY <1>2, <1>8, <1>10, <1>11 DEF e, all, n, order

\* The events that count in some row.
Confirmed == {k \in DOMAIN retention.events : \E s \in Range(scopes) : k \in Decided(s, "member")}

\* An event is confirmed if it is a member of one Scope, and of several if it counts twice.
LEMMA MembersDecided ==
    ASSUME IInv, outcomes # Absent, NEW k \in DOMAIN retention.events
    PROVE  LET members == MembersOf(ScopedEvents[k])
           IN  /\ members # {} <=> k \in Confirmed
               /\ Cardinality(members) > 1 <=>
                    \E s, t \in Range(scopes) : s # t /\ k \in Decided(s, "member") /\ k \in Decided(t, "member")
<1> DEFINE list == ScopedEvents[k].memberships
           members == MembersOf(ScopedEvents[k])
<1>1. /\ \E n \in Nat : DOMAIN list = 1 .. n
      /\ \A j \in DOMAIN list :
           /\ list[j].scope \in Range(scopes) /\ k \in Own(list[j].scope)
           /\ list[j].membership = MembershipIn(list[j].scope, outcomes[k])
      /\ \A s \in Range(scopes) : k \in Own(s) => \E j \in DOMAIN list : list[j].scope = s
      /\ \A i, j \in DOMAIN list : list[i].scope = list[j].scope => i = j
  BY EventMemberships
<1>2. members = {j \in DOMAIN list : list[j].membership.kind = "member"} BY DEF MembersOf
<1> HIDE DEF list, members
<1>3. \A j \in members : /\ j \in DOMAIN list /\ list[j].scope \in Range(scopes)
                         /\ k \in Decided(list[j].scope, "member")
  BY <1>1, <1>2 DEF Decided
<1>4. \A s \in Range(scopes) : k \in Decided(s, "member") => \E j \in members : list[j].scope = s
  BY <1>1, <1>2 DEF Decided
<1>5. members # {} <=> k \in Confirmed
  BY <1>3, <1>4 DEF Confirmed
<1>6. IsFiniteSet(members) /\ Cardinality(members) \in Nat
  <2>1. PICK n \in Nat : DOMAIN list = 1 .. n BY <1>1
  <2>2. 1 \in Int /\ n \in Int OBVIOUS
  <2>3. IsFiniteSet(1 .. n) BY <2>2, FS_Interval
  <2>4. members \in SUBSET (1 .. n) BY <1>2, <2>1
  <2> QED BY <2>3, <2>4, FS_Subset, FS_CardinalityType
<1>7. ASSUME Cardinality(members) > 1
      PROVE  \E i, j \in members : i # j
  <2>1. members # {} BY <1>7, FS_EmptySet
  <2>2. PICK i \in members : TRUE BY <2>1
  <2>3. Cardinality({i}) = 1 BY FS_Singleton
  <2>4. members # {i} BY <1>7, <2>3
  <2> QED BY <2>2, <2>4
<1>8. ASSUME NEW i \in members, NEW j \in members, i # j
      PROVE  Cardinality(members) > 1
  <2>1. Cardinality(members) # 0 BY <1>6, FS_EmptySet
  <2>2. Cardinality(members) # 1
    <3>1. ASSUME Cardinality(members) = 1 PROVE FALSE
      <4>1. PICK x : members = {x} BY <1>6, <3>1, FS_Singleton
      <4> QED BY <1>8, <4>1
    <3> QED BY <3>1
  <2> QED BY <1>6, <2>1, <2>2
<1>9. ASSUME Cardinality(members) > 1
      PROVE  \E s, t \in Range(scopes) : s # t /\ k \in Decided(s, "member") /\ k \in Decided(t, "member")
  <2>1. PICK i \in members, j \in members : i # j BY <1>7, <1>9
  <2>2. list[i].scope # list[j].scope BY <1>1, <1>3, <2>1
  <2> QED BY <1>3, <2>2
<1>10. ASSUME NEW s \in Range(scopes), NEW t \in Range(scopes), s # t,
              k \in Decided(s, "member"), k \in Decided(t, "member")
       PROVE  Cardinality(members) > 1
  <2>1. PICK i \in members : list[i].scope = s BY <1>4, <1>10
  <2>2. PICK j \in members : list[j].scope = t BY <1>4, <1>10
  <2> QED BY <1>8, <1>10, <2>1, <2>2
<1> QED BY <1>5, <1>9, <1>10 DEF members

\* The rows count a Scope's confirmed events each: together as many as there are confirmed
\* events, unless one of them is confirmed in two Scopes.
LEMMA RowsOverlap ==
    ASSUME IInv, outcomes # Absent
    PROVE  LET e == ScopedEvents
               rows == Rows(e)
           IN  Overlapping(e) <=>
                 SumFunction([k \in DOMAIN rows |-> rows[k].activity]) > DistinctActivity(e)
<1> DEFINE e == ScopedEvents
           rows == Rows(e)
           order == Listing(e)
           f == [k \in DOMAIN rows |-> rows[k].activity]
           active(i) == Decided(order[i], "member")
           events == DOMAIN retention.events
<1>1. PICK n \in Nat : n = Len(scopes) BY RowsListed
<1>2. /\ rows = [k \in DOMAIN order |-> Row(e, order[k])]
      /\ DOMAIN order = 1 .. n
      /\ \A k \in DOMAIN order : order[k] \in Range(scopes)
      /\ \A s \in Range(scopes) : \E k \in DOMAIN order : order[k] = s
      /\ \A k, l \in DOMAIN order : order[k] = order[l] => k = l
  BY <1>1, RowsListed
<1> HIDE DEF order, rows, e
<1> DEFINE D == {d \in (1 .. n) \X events : d[2] \in active(d[1])}
           v == [d \in D |-> d[1]]
           second == [d \in D |-> d[2]]
<1>3. DOMAIN f = 1 .. n /\ \A i \in 1 .. n : f[i] = Cardinality(active(i))
  <2>1. DOMAIN rows = 1 .. n /\ \A i \in 1 .. n : rows[i] = Row(e, order[i]) BY <1>2
  <2>2. \A i \in 1 .. n : Row(e, order[i]).activity = Cardinality(active(i))
    BY <1>2, RowCounts DEF e
  <2> QED BY <2>1, <2>2
<1>4. \A i \in 1 .. n : active(i) \in SUBSET events BY DEF Decided, Own
<1>5. Confirmed = {k \in events : \E i \in 1 .. n : k \in active(i)}
  BY <1>2 DEF Confirmed
<1>6. IsFiniteSet(1 .. n)
  <2>1. 1 \in Int /\ n \in Int OBVIOUS
  <2> QED BY <2>1, FS_Interval
<1>7. IsFiniteSet(events) BY EventsAreFinite
<1> HIDE DEF f, active, events
<1>8. IsFiniteSet(D)
  <2>1. IsFiniteSet((1 .. n) \X events) BY <1>6, <1>7, FS_Product
  <2>2. D \in SUBSET ((1 .. n) \X events) OBVIOUS
  <2> HIDE DEF D
  <2> QED BY <2>1, <2>2, FS_Subset
<1>9. SumFunction(f) = Cardinality(D)
  <2>1. v \in [D -> 1 .. n] OBVIOUS
  <2>2. ASSUME NEW i \in 1 .. n PROVE f[i] = Cardinality({d \in D : v[d] = i})
    <3> DEFINE T == {d \in D : v[d] = i}
               g == [k \in active(i) |-> <<i, k>>]
    <3>1. \A d \in T : d = <<i, d[2]>> /\ d[2] \in active(i) OBVIOUS
    <3>2. \A k \in active(i) : <<i, k>> \in T BY <1>4
    <3> HIDE DEF T
    <3>3. g \in [active(i) -> T] /\ \A d \in T : \E k \in active(i) : g[k] = d
      BY <3>1, <3>2
    <3>4. \A k, l \in active(i) : g[k] = g[l] => k = l OBVIOUS
    <3>5. IsFiniteSet(active(i)) BY <1>4, <1>7, FS_Subset
    <3> HIDE DEF g
    <3>6. Cardinality(T) = Cardinality(active(i)) BY <3>3, <3>4, <3>5, SameSize
    <3> QED BY <1>3, <3>6 DEF T
  <2> HIDE DEF D, v
  <2>3. SumFunctionOnSet(f, 1 .. n) = Cardinality(D) BY <1>6, <1>8, <2>1, <2>2, SumOfFibres
  <2> QED BY <1>3, <2>3 DEF SumFunction
<1>10. second \in Surjection(D, Confirmed)
  <2>1. \A d \in D : d[2] \in Confirmed BY <1>5
  <2>2. ASSUME NEW k \in Confirmed PROVE \E d \in D : d[2] = k
    <3>1. PICK i \in 1 .. n : k \in active(i) BY <1>5
    <3>2. <<i, k>> \in D BY <1>4, <3>1
    <3> QED BY <3>2
  <2> HIDE DEF D
  <2> QED BY <2>1, <2>2 DEF Surjection
<1>11. second \in Injection(D, Confirmed) <=> \A c, d \in D : c[2] = d[2] => c = d
  <2> HIDE DEF D
  <2> QED BY <1>10 DEF Surjection, Injection, IsInjective
<1>12. (\A c, d \in D : c[2] = d[2] => c = d) <=> ~Overlapping(e)
  <2>1. Overlapping(e) <=> \E k \in events : \E s, t \in Range(scopes) :
          s # t /\ k \in Decided(s, "member") /\ k \in Decided(t, "member")
    <3>1. DOMAIN e = events BY DEF e, ScopedEvents, events
    <3>2. \A k \in events : Cardinality(MembersOf(e[k])) > 1 <=> \E s, t \in Range(scopes) :
            s # t /\ k \in Decided(s, "member") /\ k \in Decided(t, "member")
      BY MembersDecided DEF e, events
    <3> QED BY <3>1, <3>2 DEF Overlapping
  <2>3. ASSUME NEW c \in D, NEW d \in D, c[2] = d[2], c # d PROVE Overlapping(e)
    <3>1. /\ c[1] \in 1 .. n /\ d[1] \in 1 .. n /\ c[1] # d[1] /\ c[2] \in events
          /\ c[2] \in active(c[1]) /\ c[2] \in active(d[1])
      BY <2>3
    <3>2. order[c[1]] # order[d[1]] BY <1>2, <3>1
    <3> QED BY <1>2, <2>1, <3>1, <3>2 DEF active
  <2>4. ASSUME NEW k \in events, NEW s \in Range(scopes), NEW t \in Range(scopes), s # t,
               k \in Decided(s, "member"), k \in Decided(t, "member")
        PROVE  \E c, d \in D : c[2] = d[2] /\ c # d
    <3>1. PICK i \in 1 .. n : order[i] = s BY <1>2
    <3>2. PICK j \in 1 .. n : order[j] = t BY <1>2
    <3>3. <<i, k>> \in D /\ <<j, k>> \in D /\ i # j BY <2>4, <3>1, <3>2 DEF active
    <3> QED BY <3>3
  <2> HIDE DEF D
  <2> QED BY <2>1, <2>3, <2>4
<1>13. DistinctActivity(e) = Cardinality(Confirmed)
  <2>1. {k \in DOMAIN e : MembersOf(e[k]) # {}} = Confirmed
    <3>1. DOMAIN e = events BY DEF e, ScopedEvents, events
    <3>2. \A k \in events : MembersOf(e[k]) # {} <=> k \in Confirmed
      BY MembersDecided DEF e, events
    <3>3. Confirmed \in SUBSET events BY <1>5
    <3> QED BY <3>1, <3>2, <3>3
  <2> QED BY <2>1 DEF DistinctActivity
<1> HIDE DEF D, second
<1>14. /\ IsFiniteSet(Confirmed) /\ Cardinality(Confirmed) <= Cardinality(D)
       /\ Cardinality(Confirmed) = Cardinality(D) <=> second \in Injection(D, Confirmed)
  BY <1>8, <1>10, FS_Surjection
<1>15. Cardinality(D) \in Nat /\ Cardinality(Confirmed) \in Nat
  BY <1>8, <1>14, FS_CardinalityType
<1>16. Overlapping(e) <=> Cardinality(D) > Cardinality(Confirmed)
  BY <1>11, <1>12, <1>14, <1>15
<1> QED BY <1>9, <1>13, <1>16 DEF f, rows, e

LEMMA RowsAddUp ==
    ASSUME IInv
    PROVE  RowsAccount
<1> SUFFICES ASSUME snapshot # Absent PROVE RowsAccount BY DEF RowsAccount
<1> DEFINE e == ScopedEvents
           order == Listing(e)
           rows == Rows(e)
<1>1. /\ outcomes # Absent /\ snapshot.rows = rows
      /\ snapshot.distinct = DistinctActivity(e) /\ (snapshot.overlapping <=> Overlapping(e))
  BY DEF IInv, Published, ScopedSnapshot
<1>2. /\ rows = [k \in DOMAIN order |-> Row(e, order[k])]
      /\ DOMAIN order = 1 .. Len(scopes) /\ Len(scopes) \in Nat
      /\ \A k \in DOMAIN order : order[k] \in Range(scopes)
      /\ \A s \in Range(scopes) : \E k \in DOMAIN order : order[k] = s
      /\ \A k, l \in DOMAIN order : k < l =>
           Cardinality(Decided(order[k], "member")) >= Cardinality(Decided(order[l], "member"))
  BY <1>1, RowsListed
<1>3. Overlapping(e) <=> SumFunction([k \in DOMAIN rows |-> rows[k].activity]) > DistinctActivity(e)
  BY <1>1, RowsOverlap
<1> HIDE DEF e, order, rows
<1>4. ASSUME NEW k \in DOMAIN order
      PROVE  /\ k \in DOMAIN rows /\ rows[k].scope = order[k]
             /\ rows[k].activity = Cardinality(Decided(order[k], "member"))
             /\ rows[k].activity + rows[k].notMember + rows[k].unknown = Cardinality(Own(order[k]))
             /\ rows[k].evaluated = Cardinality(Own(order[k]))
             /\ rows[k].unknown = SumFunction(rows[k].byReason)
             /\ rows[k].pushes + rows[k].pullRequests <= rows[k].activity
             /\ rows[k].currentPR <= rows[k].activity
  <2>1. rows[k] = Row(e, order[k]) /\ order[k] \in Range(scopes) /\ k \in DOMAIN rows BY <1>2
  <2> QED BY <1>1, <2>1, RowCounts DEF e
<1>5. DOMAIN rows = DOMAIN order BY <1>2
<1>6. {rows[k].scope : k \in DOMAIN rows} = Range(scopes)
  BY <1>2, <1>4, <1>5
<1>7. Len(rows) = Len(scopes)
  <2>1. PICK n \in Nat : n = Len(scopes) BY <1>2
  <2>2. rows = [k \in 1 .. n |-> Row(e, order[k])] BY <1>2, <2>1
  <2> QED BY <2>1, <2>2
<1>8. ASSUME NEW k \in DOMAIN rows, k > 1 PROVE rows[k - 1].activity >= rows[k].activity
  <2>1. PICK n \in Nat : n = Len(scopes) /\ DOMAIN order = 1 .. n BY <1>2
  <2>2. k \in DOMAIN order /\ k - 1 \in DOMAIN order /\ k - 1 < k BY <1>5, <1>8, <2>1
  <2>3. Cardinality(Decided(order[k - 1], "member")) >= Cardinality(Decided(order[k], "member"))
    BY <1>2, <2>2
  <2> QED BY <1>4, <2>2, <2>3
<1>9. ASSUME NEW k \in DOMAIN rows
      PROVE  LET row == rows[k]
                 own == {l \in DOMAIN retention.events :
                           retention.events[l].repository = row.scope.repository}
             IN  /\ row.activity + row.notMember + row.unknown = Cardinality(own)
                 /\ row.evaluated = Cardinality(own)
                 /\ row.unknown = SumFunction(row.byReason)
                 /\ row.pushes + row.pullRequests <= row.activity
                 /\ row.currentPR <= row.activity
                 /\ k > 1 => rows[k - 1].activity >= row.activity
  <2>1. Own(order[k]) = {l \in DOMAIN retention.events :
                           retention.events[l].repository = rows[k].scope.repository}
    BY <1>4, <1>5 DEF Own
  <2> QED BY <1>4, <1>5, <1>8, <2>1
<1> QED BY <1>1, <1>3, <1>6, <1>7, <1>9 DEF RowsAccount

-----------------------------------------------------------------------------
(* The stream *)

\* The events nothing is known of in some Scope.
Undecided == UNION {Decided(s, "unknown") : s \in Range(scopes)}

LEMMA StreamShows ==
    ASSUME IInv
    PROVE  StreamShowsUndecided
<1> SUFFICES ASSUME snapshot # Absent PROVE StreamShowsUndecided BY DEF StreamShowsUndecided
<1> DEFINE e == ScopedEvents
           events == DOMAIN retention.events
           I == {k \in DOMAIN e : Included(e[k])}
           shown == Range(snapshot.stream)
           confirmed == {x \in shown : MembersOf(x) # {}}
           U == Undecided
           C == Confirmed
<1>1. /\ outcomes # Absent /\ snapshot.events = e /\ snapshot.stream = Picked(e, I)
      /\ snapshot.distinct = DistinctActivity(e)
  BY DEF IInv, Published, ScopedSnapshot, StreamEvents
<1>2. DOMAIN e = events /\ \A k \in events : e[k].event = retention.events[k]
  BY DEF ScopedEvents
<1>3. \A k, l \in events : e[k] = e[l] => k = l
  <2>1. \A k, l \in events : retention.events[k].id = retention.events[l].id => k = l
    BY <1>1 DEF IInv, RetentionHolds, OutcomesHold
  <2> QED BY <1>2, <2>1
<1>4. PICK n \in Nat : events = 1 .. n BY <1>1, EventsAreFinite
<1>5. IsFiniteSet(events) BY <1>1, EventsAreFinite
<1>6. UNION {HeldBy(snapshot.events, s, "unknown") : s \in Range(scopes)} = U
  <2>1. \A s \in Range(scopes) : HeldBy(e, s, "unknown") = Decided(s, "unknown")
    BY <1>1, HeldIsDecided
  <2> HIDE DEF e
  <2> QED BY <1>1, <2>1 DEF Undecided
<1>7. DistinctActivity(e) = Cardinality(C) /\ \A k \in events : MembersOf(e[k]) # {} <=> k \in C
  <2>1. \A k \in events : MembersOf(e[k]) # {} <=> k \in C BY <1>1, MembersDecided
  <2>2. C \in SUBSET events BY DEF Confirmed
  <2> HIDE DEF e, C
  <2>3. {k \in DOMAIN e : MembersOf(e[k]) # {}} = C BY <1>2, <2>1, <2>2
  <2> QED BY <2>1, <2>3 DEF DistinctActivity
<1>8. ASSUME NEW k \in events
      PROVE  Included(e[k]) <=> k \in C \cup U
  <2> DEFINE list == e[k].memberships
  <2>1. /\ \A j \in DOMAIN list :
             /\ list[j].scope \in Range(scopes) /\ k \in Own(list[j].scope)
             /\ list[j].membership = MembershipIn(list[j].scope, outcomes[k])
        /\ \A s \in Range(scopes) : k \in Own(s) => \E j \in DOMAIN list : list[j].scope = s
    BY <1>1, EventMemberships
  <2>2. Included(e[k]) <=> \E j \in DOMAIN list : list[j].membership.kind # "not-member"
    BY DEF Included, Range
  <2> HIDE DEF list, e
  <2>3. outcomes[k].kind \in Reasons \cup {"complete"} BY <1>1 DEF IInv, OutcomesHold
  <2>4. ASSUME NEW j \in DOMAIN list, list[j].membership.kind # "not-member" PROVE k \in C \cup U
    <3>1. list[j].membership.kind \in {"member", "unknown"} BY <2>1, <2>3, <2>4, MembershipKinds
    <3>2. k \in Decided(list[j].scope, "member") \/ k \in Decided(list[j].scope, "unknown")
      BY <2>1, <3>1 DEF Decided
    <3> QED BY <2>1, <3>2 DEF Confirmed, Undecided
  <2>5. ASSUME k \in C \cup U PROVE \E j \in DOMAIN list : list[j].membership.kind # "not-member"
    <3>1. PICK s \in Range(scopes) : k \in Decided(s, "member") \/ k \in Decided(s, "unknown")
      BY <2>5 DEF Confirmed, Undecided
    <3>2. k \in Own(s) /\ MembershipIn(s, outcomes[k]).kind \in {"member", "unknown"}
      BY <3>1 DEF Decided
    <3> QED BY <2>1, <3>2
  <2> QED BY <2>2, <2>4, <2>5
<1>9. C \in SUBSET events /\ U \in SUBSET events BY DEF Confirmed, Undecided, Decided, Own
<1> HIDE DEF e, C, U, events
<1>10. I = C \cup U BY <1>2, <1>8, <1>9
<1> HIDE DEF I
<1>11. shown = {e[k] : k \in C \cup U}
  <2>1. e \in Seq(Range(e))
    <3>1. DOMAIN e = 1 .. n BY <1>2, <1>4
    <3>2. e = [k \in 1 .. n |-> e[k]] BY <3>1 DEF e, ScopedEvents
    <3>3. \A k \in 1 .. n : e[k] \in Range(e) BY <3>1 DEF Range
    <3> QED BY <3>2, <3>3
  <2>2. I \in SUBSET DOMAIN e BY <1>2, <1>9, <1>10
  <2>3. PICK index : Takes(Picked(e, I), e, I, index) BY <2>1, <2>2, PickedKeeps
  <2>4. Range(Picked(e, I)) = {e[k] : k \in I} BY <2>3 DEF Takes, Range
  <2> QED BY <1>1, <1>10, <2>4
<1> HIDE DEF shown
<1>12. Cardinality(confirmed) = Cardinality(C)
  <2> DEFINE f == [k \in C |-> e[k]]
  <2>1. \A k \in C : e[k] \in confirmed BY <1>7, <1>9, <1>11
  <2>2. \A x \in confirmed : \E k \in C : e[k] = x BY <1>7, <1>9, <1>11
  <2> HIDE DEF confirmed
  <2>3. f \in [C -> confirmed] /\ \A x \in confirmed : \E k \in C : f[k] = x BY <2>1, <2>2
  <2>4. \A k, l \in C : f[k] = f[l] => k = l BY <1>3, <1>9
  <2>5. IsFiniteSet(C) BY <1>5, <1>9, FS_Subset
  <2> HIDE DEF f
  <2> QED BY <2>3, <2>4, <2>5, SameSize
<1>13. Cardinality(shown) <= Cardinality(C) + Cardinality(U)
  <2> DEFINE f == [k \in C \cup U |-> e[k]]
  <2>1. f \in Surjection(C \cup U, shown) BY <1>11 DEF Surjection
  <2>2. IsFiniteSet(C) /\ IsFiniteSet(U) BY <1>5, <1>9, FS_Subset
  <2>3. /\ IsFiniteSet(C \cup U)
        /\ Cardinality(C \cup U) = Cardinality(C) + Cardinality(U) - Cardinality(C \cap U)
    BY <2>2, FS_Union
  <2>4. C \cap U \in SUBSET C OBVIOUS
  <2>5. IsFiniteSet(C \cap U) BY <2>2, <2>4, FS_Subset
  <2> HIDE DEF f
  <2>6. IsFiniteSet(shown) /\ Cardinality(shown) <= Cardinality(C \cup U)
    BY <2>1, <2>3, FS_Surjection
  <2>7. PICK a \in Nat, b \in Nat, c \in Nat, d \in Nat, s \in Nat :
          /\ a = Cardinality(C) /\ b = Cardinality(U) /\ c = Cardinality(C \cap U)
          /\ d = Cardinality(C \cup U) /\ s = Cardinality(shown)
    BY <2>2, <2>3, <2>5, <2>6, FS_CardinalityType
  <2>8. d = a + b - c /\ s <= d BY <2>3, <2>6, <2>7
  <2>9. s <= a + b BY <2>8
  <2> QED BY <2>7, <2>9
<1>14. {e[k] : k \in U} \subseteq shown BY <1>11
<1>15. StreamShowsUndecided <=>
         /\ Cardinality(confirmed) = snapshot.distinct
         /\ {e[k] : k \in U} \subseteq shown
         /\ Cardinality(shown) <= snapshot.distinct + Cardinality(U)
  BY <1>1, <1>6 DEF StreamShowsUndecided, shown
<1> QED BY <1>1, <1>7, <1>12, <1>13, <1>14, <1>15

-----------------------------------------------------------------------------

LEMMA InitHolds ==
    ASSUME SnapshotInit
    PROVE  IInv
BY DEF SnapshotInit, IInv, Selected, RetentionHolds, NewestAreRetained, SettlingHolds, OutcomesHold,
       Published

\* For every selection, activity, outcome and bound: retention drops an event only for newer
\* ones, the rows count every retained event of a Scope once and disclose what they count
\* twice, a path Scope decides an event only from a complete outcome reported for it, and the
\* stream shows the confirmed and the undecided (scoped_snapshot.go, scope.go, membership.go,
\* tui/enrichment.go settle).
THEOREM SnapshotTrue == SnapshotInit /\ [][SnapshotNext]_snapshotVars => []SnapshotIsTrue
<1>1. SnapshotInit => IInv BY InitHolds
<1>2. IInv /\ [SnapshotNext]_snapshotVars => IInv' BY StepKeeps
<1>3. IInv => SnapshotIsTrue
  BY NothingGuessed, RowsAddUp, StreamShows DEF IInv, SnapshotIsTrue
<1> QED BY <1>1, <1>2, <1>3, PTL

-----------------------------------------------------------------------------
(* Matching: the offsets a text is taken by *)

\* The first tokens of a segment take a text from one of the offsets to the next.
Leads(p, tokens, text, n) ==
    /\ p \in [0 .. n -> 0 .. Len(text)] /\ p[0] = 0
    /\ \A k \in 1 .. n : Spans(tokens[k], text, p[k - 1], p[k])
LeadsAcross(p, tokens, text) ==
    Leads(p, tokens, text, Len(tokens)) /\ p[Len(tokens)] = Len(text)

LEMMA LedFurther ==
    ASSUME NEW tokens, NEW text, NEW k \in Nat \ {0}, NEW p, Leads(p, tokens, text, k - 1),
           NEW j \in 0 .. Len(text), Spans(tokens[k], text, p[k - 1], j)
    PROVE  \E q : Leads(q, tokens, text, k) /\ q[k] = j
<1> DEFINE q == [i \in 0 .. k |-> IF i = k THEN j ELSE p[i]]
<1>1. \A i \in 0 .. k - 1 : p[i] \in 0 .. Len(text) /\ i \in 0 .. k /\ i # k
  BY DEF Leads
<1>2. q \in [0 .. k -> 0 .. Len(text)]
  <2>1. \A i \in 0 .. k : i # k => i \in 0 .. k - 1 OBVIOUS
  <2> QED BY <1>1, <2>1
<1>3. q[k] = j /\ \A i \in 0 .. k - 1 : q[i] = p[i] BY <1>1
<1> HIDE DEF q
<1>4. q[0] = 0 BY <1>3 DEF Leads
<1>5. ASSUME NEW i \in 1 .. k PROVE Spans(tokens[i], text, q[i - 1], q[i])
  <2>1. i - 1 \in 0 .. k - 1 OBVIOUS
  <2>2. CASE i = k BY <1>3, <2>1, <2>2
  <2>3. CASE i # k
    <3>1. i \in 0 .. k - 1 /\ i \in 1 .. k - 1 BY <2>3
    <3> QED BY <1>3, <2>1, <3>1 DEF Leads
  <2> QED BY <2>2, <2>3
<1>6. Leads(q, tokens, text, k) BY <1>2, <1>4, <1>5 DEF Leads
<1> QED BY <1>3, <1>6

\* No offset is before an earlier one.
LEMMA LedForward ==
    ASSUME NEW tokens, NEW text, NEW n \in Nat, NEW p, Leads(p, tokens, text, n),
           Len(text) \in Nat,
           \A k \in 1 .. n : tokens[k] # Wildcard => Len(tokens[k].text) \in Nat,
           NEW a \in 0 .. n, NEW b \in 0 .. n, a <= b
    PROVE  p[a] <= p[b]
<1> DEFINE P == [i \in 0 .. n |-> {x \in 0 .. Len(text) : a <= i => p[a] <= x}]
<1>1. \A i \in 0 .. n : p[i] \in 0 .. Len(text) BY DEF Leads
<1>2. \A i \in 1 .. n : p[i - 1] <= p[i]
  <2> TAKE i \in 1 .. n
  <2>1. Spans(tokens[i], text, p[i - 1], p[i]) BY DEF Leads
  <2>2. i - 1 \in 0 .. n /\ i \in 0 .. n OBVIOUS
  <2>3. p[i - 1] \in 0 .. Len(text) /\ p[i] \in 0 .. Len(text) BY <1>1, <2>2
  <2>4. CASE tokens[i] = Wildcard BY <2>1, <2>4 DEF Spans
  <2>5. CASE tokens[i] # Wildcard
    <3>1. p[i] = p[i - 1] + Len(tokens[i].text) BY <2>1, <2>5 DEF Spans
    <3>2. Len(tokens[i].text) \in Nat BY <2>5
    <3> QED BY <2>3, <3>1, <3>2
  <2> QED BY <2>4, <2>5
<1>3. p[0] \in P[0]
  <2>1. 0 \in 0 .. n /\ (a <= 0 => a = 0) OBVIOUS
  <2> QED BY <1>1, <2>1
<1>4. \A i \in 1 .. n : p[i - 1] \in P[i - 1] => p[i] \in P[i]
  <2> SUFFICES ASSUME NEW i \in 1 .. n, p[i - 1] \in P[i - 1] PROVE p[i] \in P[i]
    OBVIOUS
  <2>1. i - 1 \in 0 .. n /\ i \in 0 .. n /\ (a <= i => a = i \/ a <= i - 1) OBVIOUS
  <2>2. a <= i - 1 => p[a] <= p[i - 1] BY <2>1
  <2> QED BY <1>1, <1>2, <2>1, <2>2
<1> HIDE DEF P
<1>5. \A i \in 0 .. n : p[i] \in P[i] BY <1>3, <1>4, Carried, ZenonT(30)
<1> QED BY <1>5 DEF P

\* A segment means what leads from the first offset of the text to its last.
LEMMA MeantByOffsets ==
    ASSUME NEW tokens, NEW text, Len(tokens) \in Nat, Len(text) \in Nat
    PROVE  SegmentMeans(tokens, text) <=> \E p : LeadsAcross(p, tokens, text)
<1> DEFINE n == Len(tokens)
           all == 0 .. Len(text)
           Ended(S, k) == {j \in all : \E i \in S : Spans(tokens[k], text, i, j)}
           P == [i \in 0 .. n |-> SUBSET all]
           next == [k \in 1 .. n |-> [S \in SUBSET all |-> Ended(S, k)]]
           Body(f) == [k \in 0 .. n |-> IF k = 0 THEN {0} ELSE Ended(f[k - 1], k)]
<1>1. n \in Nat /\ \A k \in 1 .. n : k - 1 \in 0 .. n /\ k \in 0 .. n /\ k # 0
  OBVIOUS
<1>2. \A k \in 1 .. n : \A S \in P[k - 1] : next[k][S] = Ended(S, k) /\ next[k][S] \in P[k]
  <2> TAKE k \in 1 .. n
  <2>1. P[k - 1] = SUBSET all /\ P[k] = SUBSET all BY <1>1
  <2>2. next[k] = [S \in SUBSET all |-> Ended(S, k)] OBVIOUS
  <2>3. \A S : Ended(S, k) \in SUBSET all OBVIOUS
  <2> HIDE DEF P, next, Ended
  <2> QED BY <2>1, <2>2, <2>3
<1>3. {0} \in P[0] BY <1>1
<1> HIDE DEF P, next
<1>4. PICK f : Loops(f, n, {0}, next) /\ \A k \in 0 .. n : f[k] \in P[k]
  <2>1. \A k \in 1 .. n : \A S \in P[k - 1] : next[k][S] \in P[k] BY <1>2
  <2> HIDE DEF Body, n, Ended
  <2> QED BY <1>1, <1>3, <2>1, Iterates, ZenonT(60)
<1>5. f = Body(f)
  <2> HIDE DEF n, Ended
  <2>1. \A k \in 1 .. n : next[k][f[k - 1]] = Ended(f[k - 1], k) BY <1>1, <1>2, <1>4
  <2>2. \A k \in 0 .. n : (IF k = 0 THEN {0} ELSE next[k][f[k - 1]])
                          = (IF k = 0 THEN {0} ELSE Ended(f[k - 1], k))
    BY <1>1, <2>1
  <2> QED BY <1>4, <2>2 DEF Loops
<1> DEFINE ends == CHOOSE g : g = Body(g)
<1>6. ends = Body(ends) BY <1>5
<1>7. SegmentMeans(tokens, text) <=> Len(text) \in ends[n]
  <2>1. TextEnd(tokens, text) = ends[n] BY DEF TextEnd
  <2> HIDE DEF ends, n
  <2> QED BY <2>1 DEF SegmentMeans
<1> HIDE DEF ends
<1>8. ends[0] = {0} /\ \A k \in 1 .. n : ends[k] = Ended(ends[k - 1], k)
  <2>1. 0 \in 0 .. n BY <1>1
  <2> HIDE DEF n, Ended
  <2> QED BY <1>1, <1>6, <2>1
<1>9. ASSUME NEW p, LeadsAcross(p, tokens, text) PROVE Len(text) \in ends[n]
  <2>1. p[0] \in ends[0] BY <1>8, <1>9 DEF LeadsAcross, Leads
  <2>2. \A k \in 1 .. n : p[k - 1] \in ends[k - 1] => p[k] \in ends[k]
    <3> SUFFICES ASSUME NEW k \in 1 .. n, p[k - 1] \in ends[k - 1] PROVE p[k] \in Ended(ends[k - 1], k)
      BY <1>8
    <3>1. Spans(tokens[k], text, p[k - 1], p[k]) /\ p[k] \in all
      BY <1>1, <1>9 DEF LeadsAcross, Leads
    <3> QED BY <3>1
  <2> HIDE DEF n
  <2>3. \A k \in 0 .. n : p[k] \in ends[k] BY <1>1, <2>1, <2>2, Carried, ZenonT(30)
  <2>4. n \in 0 .. n BY <1>1
  <2> QED BY <1>9, <2>3, <2>4 DEF LeadsAcross, n
<1>10. ASSUME Len(text) \in ends[n] PROVE \E p : LeadsAcross(p, tokens, text)
  <2> DEFINE Q == [k \in 0 .. n |->
                    {S \in SUBSET all : \A j \in S : \E p : Leads(p, tokens, text, k) /\ p[k] = j}]
  <2>1. ends[0] \in Q[0]
    <3> DEFINE p == [k \in 0 .. 0 |-> 0]
    <3>1. p \in [0 .. 0 -> all] /\ p[0] = 0 OBVIOUS
    <3> HIDE DEF p
    <3>2. Leads(p, tokens, text, 0) BY <3>1 DEF Leads
    <3>3. 0 \in 0 .. n BY <1>1
    <3> QED BY <1>8, <3>1, <3>2, <3>3
  <2>2. \A k \in 1 .. n : ends[k - 1] \in Q[k - 1] => ends[k] \in Q[k]
    <3> SUFFICES ASSUME NEW k \in 1 .. n, ends[k - 1] \in Q[k - 1] PROVE ends[k] \in Q[k]
      OBVIOUS
    <3>1. k - 1 \in 0 .. n /\ k \in 0 .. n /\ k \in Nat \ {0} BY <1>1
    <3>2. \A i \in ends[k - 1] : \E p : Leads(p, tokens, text, k - 1) /\ p[k - 1] = i
      BY <3>1
    <3>3. ASSUME NEW j \in ends[k]
          PROVE  j \in all /\ \E p : Leads(p, tokens, text, k) /\ p[k] = j
      <4>1. j \in Ended(ends[k - 1], k) BY <1>8, <3>3
      <4>2. PICK i \in ends[k - 1] : Spans(tokens[k], text, i, j) BY <4>1
      <4>3. j \in 0 .. Len(text) BY <4>1
      <4>4. PICK p : Leads(p, tokens, text, k - 1) /\ p[k - 1] = i BY <3>2, <4>2
      <4>5. Spans(tokens[k], text, p[k - 1], j) BY <4>2, <4>4
      <4> QED BY <3>1, <4>3, <4>4, <4>5, LedFurther
    <3>4. ends[k] \in SUBSET all BY <3>3
    <3> QED BY <3>1, <3>3, <3>4
  <2> HIDE DEF n, Q
  <2>3. \A k \in 0 .. n : ends[k] \in Q[k] BY <1>1, <2>1, <2>2, Carried, ZenonT(30)
  <2>4. n \in 0 .. n BY <1>1
  <2>5. PICK p : Leads(p, tokens, text, n) /\ p[n] = Len(text)
    <3>1. ends[n] \in Q[n] BY <2>3, <2>4
    <3> QED BY <1>10, <2>4, <3>1 DEF Q
  <2> QED BY <2>5 DEF LeadsAcross, n
<1> QED BY <1>7, <1>9, <1>10

\* A run of the loop has the fields of one.
LoopShaped(l) ==
    l \in [tokens : {l.tokens}, text : {l.text}, token : {l.token}, offset : {l.offset},
           star : {l.star}, starOffset : {l.starOffset}, verdict : {l.verdict}]

\* What the loop has reached: a way of taking the text up to its offset, and none of taking
\* the whole text that the last wildcard would have to leave earlier.
Reached(l) ==
    /\ LoopShaped(l) /\ l.tokens \in Segments /\ l.text \in Texts
    /\ {l.token, l.offset, l.star, l.starOffset} \subseteq Nat /\ l.token > 0
    /\ l.token <= Len(l.tokens) + 1 /\ l.offset <= Len(l.text)
    /\ \E p : Leads(p, l.tokens, l.text, l.token - 1) /\ p[l.token - 1] = l.offset
    /\ l.star > 0 =>
          /\ l.star < l.token /\ l.starOffset <= l.offset
          /\ l.tokens[l.star] = Wildcard
          /\ \E p : Leads(p, l.tokens, l.text, l.star - 1) /\ p[l.star - 1] <= l.starOffset

AheadOf(l, p) ==
    /\ l.star = 0 => p[l.token - 1] = l.offset
    /\ l.star > 0 => /\ p[l.star] >= l.starOffset
                     /\ p[l.token - 1] = p[l.star] + (l.offset - l.starOffset)

Decides(l) ==
    /\ Reached(l)
    /\ \A p : LeadsAcross(p, l.tokens, l.text) => AheadOf(l, p)
    /\ l.verdict # Nothing => l.verdict = SegmentMeans(l.tokens, l.text)

LoopInv == loop # Nothing => Decides(loop)

\* What the tokens and texts are made of.
LEMMA SegmentsTyped ==
    ASSUME NEW tokens \in Segments, NEW text \in Texts
    PROVE  /\ Len(tokens) \in Nat /\ DOMAIN tokens = 1 .. Len(tokens)
           /\ Len(text) \in Nat /\ text \in Seq(Range(text))
           /\ \A k \in 1 .. Len(tokens) : tokens[k] # Wildcard =>
                  /\ Len(tokens[k].text) \in Nat \ {0}
                  /\ tokens[k].text \in Seq(Range(tokens[k].text))
<1>1. text \in Seq(Range(text)) /\ tokens \in Seq(Range(tokens)) BY MatchingAssumption
<1>2. /\ Len(tokens) \in Nat /\ DOMAIN tokens = 1 .. Len(tokens) /\ Len(text) \in Nat
  BY <1>1
<1>3. ASSUME NEW k \in 1 .. Len(tokens), tokens[k] # Wildcard
      PROVE  /\ Len(tokens[k].text) \in Nat \ {0}
             /\ tokens[k].text \in Seq(Range(tokens[k].text))
  <2>1. tokens[k] \in Range(tokens) BY <1>2 DEF Range
  <2>2. tokens[k].text # <<>> /\ tokens[k].text \in Seq(Range(tokens[k].text))
    BY <1>3, <2>1, MatchingAssumption DEF Wildcard
  <2> QED BY <2>2, EmptySeq
<1> QED BY <1>1, <1>2, <1>3

\* A literal begins the rest of a text exactly if it takes the text so far.
LEMMA PrefixSpans ==
    ASSUME NEW T, NEW text \in Seq(T), NEW U, NEW lit \in Seq(U), NEW i \in 0 .. Len(text)
    PROVE  IsPrefix(lit, SubSeq(text, i + 1, Len(text)))
             <=> /\ i + Len(lit) <= Len(text)
                 /\ SubSeq(text, i + 1, i + Len(lit)) = lit
<1> DEFINE rest == SubSeq(text, i + 1, Len(text))
           n == Len(lit)
<1>1. Len(text) \in Nat /\ n \in Nat /\ i \in Nat OBVIOUS
<1>2. rest \in Seq(T) /\ Len(rest) = Len(text) - i
      /\ \A k \in 1 .. Len(text) - i : rest[k] = text[i + k]
  OBVIOUS
<1>3. lit = [k \in 1 .. n |-> lit[k]] OBVIOUS
<1>4. SubSeq(lit, 1, n) = [k \in 1 .. n |-> lit[k]] BY <1>1
<1> HIDE DEF rest, n
<1>5. ASSUME i + n <= Len(text)
      PROVE  SubSeq(rest, 1, n) = SubSeq(text, i + 1, i + n)
  <2>1. SubSeq(rest, 1, n) = [k \in 1 .. n |-> text[i + k]]
    <3>1. SubSeq(rest, 1, n) = [k \in 1 .. n |-> rest[k]] BY <1>1, <1>2, <1>5
    <3>2. \A k \in 1 .. n : rest[k] = text[i + k] BY <1>1, <1>2, <1>5
    <3> QED BY <3>1, <3>2
  <2>2. SubSeq(text, i + 1, i + n) = [k \in 1 .. n |-> text[i + k]] BY <1>1, <1>5
  <2> QED BY <2>1, <2>2
<1>6. n <= Len(rest) <=> i + n <= Len(text) BY <1>1, <1>2
<1> QED BY <1>3, <1>4, <1>5, <1>6 DEF IsPrefix, n, rest

\* Nothing takes the whole text if the loop is at a token that takes nothing here.
LEMMA StuckHere ==
    ASSUME NEW l, Reached(l), l.offset < Len(l.text),
           ~(l.token <= Len(l.tokens) /\ l.tokens[l.token] = Wildcard),
           ~(/\ l.token <= Len(l.tokens) /\ l.tokens[l.token] # Wildcard
             /\ IsPrefix(l.tokens[l.token].text,
                         SubSeq(l.text, l.offset + 1, Len(l.text)))),
           NEW p, LeadsAcross(p, l.tokens, l.text)
    PROVE  p[l.token - 1] # l.offset
<1> SUFFICES ASSUME p[l.token - 1] = l.offset PROVE FALSE OBVIOUS
<1>1. /\ l.tokens \in Segments /\ l.text \in Texts /\ l.token \in Nat \ {0} /\ l.offset \in Nat
      /\ l.token <= Len(l.tokens) + 1
  BY DEF Reached
<1>2. Len(l.tokens) \in Nat /\ Len(l.text) \in Nat /\ l.text \in Seq(Range(l.text))
  BY <1>1, SegmentsTyped
<1>3. Leads(p, l.tokens, l.text, Len(l.tokens)) /\ p[Len(l.tokens)] = Len(l.text) BY DEF LeadsAcross
<1>4. CASE l.token = Len(l.tokens) + 1
  <2>1. l.token - 1 = Len(l.tokens) BY <1>1, <1>2, <1>4
  <2> QED BY <1>1, <1>2, <1>3, <2>1
<1>5. CASE l.token # Len(l.tokens) + 1
  <2> DEFINE t == l.token
             lit == l.tokens[t].text
  <2>1. t \in 1 .. Len(l.tokens) BY <1>1, <1>2, <1>5
  <2>2. l.tokens[t] # Wildcard BY <2>1
  <2>3. Len(lit) \in Nat /\ lit \in Seq(Range(lit)) BY <1>1, <2>1, <2>2, SegmentsTyped
  <2>4. Spans(l.tokens[t], l.text, p[t - 1], p[t]) /\ p[t] \in 0 .. Len(l.text)
    BY <1>2, <1>3, <2>1 DEF Leads
  <2>5. p[t] = l.offset + Len(lit) /\ SubSeq(l.text, l.offset + 1, l.offset + Len(lit)) = lit
    BY <2>2, <2>4 DEF Spans
  <2>6. l.offset + Len(lit) <= Len(l.text) BY <1>2, <2>4, <2>5
  <2>7. l.offset \in 0 .. Len(l.text) BY <1>1, <1>2
  <2>8. IsPrefix(lit, SubSeq(l.text, l.offset + 1, Len(l.text)))
    BY <1>2, <2>3, <2>5, <2>6, <2>7, PrefixSpans
  <2> QED BY <2>1, <2>2, <2>8
<1> QED BY <1>4, <1>5

\* A loop begins at the first token and the first offset.
LEMMA LoopBegins ==
    ASSUME NEW tokens \in Segments, NEW text \in Texts, MatchSegment(tokens, text)
    PROVE  Decides(loop')
<1> DEFINE a == loop'
           p == [k \in 0 .. 0 |-> 0]
<1>1. a = [tokens |-> tokens, text |-> text, token |-> 1, offset |-> 0,
           star |-> 0, starOffset |-> 0, verdict |-> Nothing]
  BY DEF MatchSegment
<1>2. Len(tokens) \in Nat /\ Len(text) \in Nat BY SegmentsTyped
<1>3. p \in [0 .. 0 -> 0 .. Len(text)] /\ p[0] = 0 BY <1>2
<1> HIDE DEF p
<1>4. Leads(p, tokens, text, 0) BY <1>3 DEF Leads
<1>5. Reached(a)
  <2>1. /\ a.token - 1 = 0 /\ a.offset = 0 /\ a.tokens = tokens /\ a.text = text /\ a.star = 0
        /\ a.token = 1
    BY <1>1
  <2>2. LoopShaped(a) /\ a.starOffset = 0 BY <1>1 DEF LoopShaped
  <2> HIDE DEF a
  <2> QED BY <1>2, <1>3, <1>4, <2>1, <2>2 DEF Reached
<1>6. \A q : LeadsAcross(q, a.tokens, a.text) => AheadOf(a, q)
  BY <1>1 DEF LeadsAcross, Leads, AheadOf
<1>7. a.verdict = Nothing BY <1>1
<1> QED BY <1>5, <1>6, <1>7 DEF Decides

\* A wildcard takes nothing at first, and is the last one from now on.
LEMMA WildcardTaken ==
    ASSUME NEW l, Decides(l), l.verdict = Nothing, l.offset < Len(l.text),
           l.token <= Len(l.tokens), l.tokens[l.token] = Wildcard
    PROVE  Decides([l EXCEPT !.star = l.token, !.starOffset = l.offset, !.token = l.token + 1])
<1> DEFINE t == l.token
           next == t + 1
           a == [l EXCEPT !.star = t, !.starOffset = l.offset, !.token = next]
<1>1. /\ LoopShaped(l) /\ l.tokens \in Segments /\ l.text \in Texts
      /\ {l.token, l.offset, l.star, l.starOffset} \subseteq Nat /\ l.token > 0
      /\ Reached(l) /\ \A p : LeadsAcross(p, l.tokens, l.text) => AheadOf(l, p)
  BY DEF Decides, Reached
<1>2. Len(l.tokens) \in Nat /\ Len(l.text) \in Nat BY <1>1, SegmentsTyped
<1>3. /\ LoopShaped(a) /\ a.tokens = l.tokens /\ a.text = l.text
      /\ a.offset = l.offset /\ a.verdict = l.verdict
      /\ a.star = t /\ a.starOffset = l.offset /\ a.token = t + 1
  <2> HIDE DEF next
  <2>1. /\ LoopShaped(a) /\ a.tokens = l.tokens /\ a.text = l.text
        /\ a.offset = l.offset /\ a.verdict = l.verdict
        /\ a.star = t /\ a.starOffset = l.offset /\ a.token = next
    BY <1>1 DEF LoopShaped
  <2> QED BY <2>1 DEF next
<1> HIDE DEF a
<1>4. PICK p : Leads(p, l.tokens, l.text, t - 1) /\ p[t - 1] = l.offset BY <1>1 DEF Reached
<1>5. t \in Nat \ {0} /\ l.offset \in 0 .. Len(l.text) /\ t + 1 - 1 = t
  BY <1>1, <1>2 DEF Reached
<1>6. \E q : Leads(q, l.tokens, l.text, t) /\ q[t] = l.offset
  <2>1. Spans(l.tokens[t], l.text, p[t - 1], l.offset) BY <1>4, <1>5 DEF Spans
  <2> QED BY <1>4, <1>5, <2>1, LedFurther
<1>7. Reached(a)
  <2>1. a.token <= Len(a.tokens) + 1 /\ a.offset <= Len(a.text) BY <1>2, <1>3, <1>5
  <2>2. a.star < a.token /\ a.starOffset <= a.offset /\ a.tokens[a.star] = Wildcard
    BY <1>3, <1>5
  <2>3. \E q : Leads(q, a.tokens, a.text, a.star - 1) /\ q[a.star - 1] <= a.starOffset
    BY <1>3, <1>4, <1>5
  <2>4. \E q : Leads(q, a.tokens, a.text, a.token - 1) /\ q[a.token - 1] = a.offset
    BY <1>3, <1>5, <1>6
  <2> QED BY <1>1, <1>3, <2>1, <2>2, <2>3, <2>4 DEF Reached
<1>8. ASSUME NEW q, LeadsAcross(q, a.tokens, a.text) PROVE AheadOf(a, q)
  <2>1. AheadOf(l, q) /\ Leads(q, l.tokens, l.text, Len(l.tokens)) BY <1>1, <1>3, <1>8 DEF LeadsAcross
  <2>2. /\ t \in 1 .. Len(l.tokens) /\ t - 1 \in 0 .. Len(l.tokens) /\ t \in 0 .. Len(l.tokens)
        /\ l.star < t
    BY <1>1, <1>2, <1>5 DEF Reached
  <2>3. Spans(l.tokens[t], l.text, q[t - 1], q[t]) BY <2>1, <2>2 DEF Leads
  <2>4. /\ q[t - 1] \in 0 .. Len(l.text) /\ q[t] \in 0 .. Len(l.text)
        /\ q[l.star] \in 0 .. Len(l.text)
    <3>1. l.star \in 0 .. Len(l.tokens) BY <1>1, <2>2
    <3> QED BY <2>1, <2>2, <3>1 DEF Leads
  <2>5. q[t - 1] <= q[t] BY <2>3 DEF Spans
  <2>6. l.offset <= q[t - 1]
    <3>1. /\ l.star \in Nat /\ l.starOffset \in Nat /\ l.offset \in Nat
          /\ l.star > 0 => l.starOffset <= l.offset
      BY <1>1 DEF Reached
    <3> QED BY <1>2, <2>1, <2>4, <3>1 DEF AheadOf
  <2> QED BY <1>2, <1>3, <1>5, <2>4, <2>5, <2>6 DEF AheadOf
<1>9. Decides(a) BY <1>3, <1>7, <1>8 DEF Decides
<1> QED BY <1>9 DEF a

\* A literal takes what it begins.
LEMMA LiteralTaken ==
    ASSUME NEW l, Decides(l), l.verdict = Nothing, l.offset < Len(l.text),
           l.token <= Len(l.tokens), l.tokens[l.token] # Wildcard,
           IsPrefix(l.tokens[l.token].text, SubSeq(l.text, l.offset + 1, Len(l.text)))
    PROVE  Decides([l EXCEPT !.offset = l.offset + Len(l.tokens[l.token].text),
                             !.token = l.token + 1])
<1> DEFINE t == l.token
           lit == l.tokens[t].text
           next == t + 1
           end == l.offset + Len(lit)
           a == [l EXCEPT !.offset = end, !.token = next]
<1>1. /\ LoopShaped(l) /\ l.tokens \in Segments /\ l.text \in Texts
      /\ {l.token, l.offset, l.star, l.starOffset} \subseteq Nat /\ l.token > 0
      /\ l.offset <= Len(l.text)
      /\ l.star > 0 =>
            /\ l.star < l.token /\ l.starOffset <= l.offset
            /\ l.tokens[l.star] = Wildcard
            /\ \E p : Leads(p, l.tokens, l.text, l.star - 1) /\ p[l.star - 1] <= l.starOffset
      /\ \E p : Leads(p, l.tokens, l.text, t - 1) /\ p[t - 1] = l.offset
      /\ \A p : LeadsAcross(p, l.tokens, l.text) => AheadOf(l, p)
  BY DEF Decides, Reached
<1>0. {l.token, l.offset, l.star, l.starOffset} \subseteq Nat /\ l.token > 0 BY <1>1
<1>2. /\ Len(l.tokens) \in Nat /\ Len(l.text) \in Nat /\ t \in 1 .. Len(l.tokens)
      /\ l.text \in Seq(Range(l.text)) /\ Len(lit) \in Nat \ {0} /\ lit \in Seq(Range(lit))
  BY <1>1, SegmentsTyped
<1>3. end <= Len(l.text) /\ SubSeq(l.text, l.offset + 1, end) = lit /\ end \in 0 .. Len(l.text)
  <2>1. l.offset \in 0 .. Len(l.text) BY <1>1, <1>2
  <2>2. l.offset + Len(lit) <= Len(l.text)
        /\ SubSeq(l.text, l.offset + 1, l.offset + Len(lit)) = lit
    BY <1>2, <2>1, PrefixSpans
  <2>3. end = l.offset + Len(lit) OBVIOUS
  <2> HIDE DEF end, lit
  <2> QED BY <1>0, <1>2, <2>2, <2>3
<1>4. /\ LoopShaped(a) /\ a.tokens = l.tokens /\ a.text = l.text
      /\ a.star = l.star /\ a.starOffset = l.starOffset /\ a.verdict = l.verdict
      /\ a.offset = end /\ a.token = t + 1
  <2> HIDE DEF next, end
  <2>1. /\ LoopShaped(a) /\ a.tokens = l.tokens /\ a.text = l.text
        /\ a.star = l.star /\ a.starOffset = l.starOffset /\ a.verdict = l.verdict
        /\ a.offset = end /\ a.token = next
    BY <1>1 DEF LoopShaped
  <2> QED BY <2>1 DEF next
<1> HIDE DEF a
<1>5. t \in Nat \ {0} /\ t + 1 - 1 = t /\ end >= l.offset BY <1>1, <1>2
<1>6. \E q : Leads(q, l.tokens, l.text, t) /\ q[t] = end
  <2>1. PICK p : Leads(p, l.tokens, l.text, t - 1) /\ p[t - 1] = l.offset BY <1>1
  <2>2. Spans(l.tokens[t], l.text, p[t - 1], end) BY <1>3, <2>1 DEF Spans
  <2> HIDE DEF end
  <2> QED BY <1>3, <1>5, <2>1, <2>2, LedFurther
<1>7. Reached(a)
  <2> HIDE DEF end
  <2>1. /\ a.token <= Len(a.tokens) + 1 /\ a.offset <= Len(a.text) /\ a.token > 0
        /\ {a.token, a.offset, a.star, a.starOffset} \subseteq Nat
    BY <1>0, <1>2, <1>3, <1>4
  <2>2. a.star > 0 =>
            /\ a.star < a.token /\ a.starOffset <= a.offset
            /\ a.tokens[a.star] = Wildcard
            /\ \E p : Leads(p, a.tokens, a.text, a.star - 1) /\ p[a.star - 1] <= a.starOffset
    <3>1. l.starOffset <= l.offset => l.starOffset <= end BY <1>1, <1>3, <1>5
    <3>2. l.star < t => l.star < t + 1 BY <1>1
    <3> QED BY <1>1, <1>4, <3>1, <3>2
  <2>3. \E q : Leads(q, a.tokens, a.text, a.token - 1) /\ q[a.token - 1] = a.offset
    BY <1>4, <1>5, <1>6
  <2> QED BY <1>1, <1>4, <2>1, <2>2, <2>3 DEF Reached
<1>8. ASSUME NEW q, LeadsAcross(q, a.tokens, a.text) PROVE AheadOf(a, q)
  <2>1. AheadOf(l, q) /\ Leads(q, l.tokens, l.text, Len(l.tokens)) BY <1>1, <1>4, <1>8 DEF LeadsAcross
  <2>2. /\ t - 1 \in 0 .. Len(l.tokens) /\ t \in 0 .. Len(l.tokens)
        /\ l.star \in 0 .. Len(l.tokens)
    BY <1>1, <1>2
  <2>3. Spans(l.tokens[t], l.text, q[t - 1], q[t]) BY <1>2, <2>1 DEF Leads
  <2>4. /\ q[t - 1] \in 0 .. Len(l.text) /\ q[t] \in 0 .. Len(l.text)
        /\ q[l.star] \in 0 .. Len(l.text)
    BY <2>1, <2>2 DEF Leads
  <2>5. q[t] = q[t - 1] + Len(lit) BY <2>3 DEF Spans
  <2>6. l.star = 0 => q[t] = end BY <2>1, <2>5 DEF AheadOf
  <2>7. l.star > 0 => /\ q[l.star] >= l.starOffset
                      /\ q[t] = q[l.star] + (end - l.starOffset)
    <3>1. l.star > 0 => /\ q[l.star] >= l.starOffset
                        /\ q[t - 1] = q[l.star] + (l.offset - l.starOffset)
      BY <2>1 DEF AheadOf
    <3>2. end = l.offset + Len(lit) OBVIOUS
    <3> DEFINE x == q[l.star]
               y == q[t - 1]
               n == Len(lit)
    <3>3. x \in Int /\ y \in Int /\ n \in Int /\ l.offset \in Int /\ l.starOffset \in Int
      BY <1>0, <1>2, <2>4
    <3>4. q[t] = y + n BY <2>5
    <3> HIDE DEF end, x, y, n
    <3>5. y = x + (l.offset - l.starOffset) => y + n = x + ((l.offset + n) - l.starOffset)
      BY <3>3
    <3> QED BY <3>1, <3>2, <3>4, <3>5 DEF x, y, n
  <2> QED BY <1>4, <1>5, <2>6, <2>7 DEF AheadOf
<1>9. Decides(a) BY <1>4, <1>7, <1>8 DEF Decides
<1> QED BY <1>9 DEF a

\* Where nothing is taken, the last wildcard takes one more.
LEMMA WildcardRetried ==
    ASSUME NEW l, Decides(l), l.verdict = Nothing, l.offset < Len(l.text), l.star > 0,
           \A p : LeadsAcross(p, l.tokens, l.text) => p[l.token - 1] # l.offset
    PROVE  Decides([l EXCEPT !.starOffset = l.starOffset + 1, !.offset = l.starOffset + 1,
                             !.token = l.star + 1])
<1> DEFINE s == l.star
           next == s + 1
           end == l.starOffset + 1
           a == [l EXCEPT !.starOffset = end, !.offset = end, !.token = next]
<1>1. /\ LoopShaped(l) /\ l.tokens \in Segments /\ l.text \in Texts
      /\ {l.token, l.offset, l.star, l.starOffset} \subseteq Nat /\ l.token > 0
      /\ s < l.token /\ l.starOffset <= l.offset /\ l.token <= Len(l.tokens) + 1
      /\ l.tokens[s] = Wildcard
      /\ \E p : Leads(p, l.tokens, l.text, s - 1) /\ p[s - 1] <= l.starOffset
      /\ \A p : LeadsAcross(p, l.tokens, l.text) => AheadOf(l, p)
  BY DEF Decides, Reached
<1>2. /\ Len(l.tokens) \in Nat /\ Len(l.text) \in Nat /\ s \in 1 .. Len(l.tokens)
      /\ end \in 0 .. Len(l.text) /\ s + 1 - 1 = s
  BY <1>1, SegmentsTyped
<1>3. /\ LoopShaped(a) /\ a.tokens = l.tokens /\ a.text = l.text
      /\ a.star = s /\ a.starOffset = end /\ a.verdict = l.verdict
      /\ a.offset = end /\ a.token = s + 1
  <2> HIDE DEF next, end
  <2>1. /\ LoopShaped(a) /\ a.tokens = l.tokens /\ a.text = l.text
        /\ a.star = s /\ a.starOffset = end /\ a.verdict = l.verdict
        /\ a.offset = end /\ a.token = next
    BY <1>1 DEF LoopShaped
  <2> QED BY <2>1 DEF next
<1> HIDE DEF a
<1>4. PICK p : Leads(p, l.tokens, l.text, s - 1) /\ p[s - 1] <= l.starOffset BY <1>1
<1>5. p[s - 1] \in 0 .. Len(l.text)
  <2>1. s - 1 \in 0 .. s - 1 BY <1>2
  <2> QED BY <1>4, <2>1 DEF Leads
<1>6. p[s - 1] <= end BY <1>1, <1>4, <1>5
<1>7. \E q : Leads(q, l.tokens, l.text, s) /\ q[s] = end
  <2>1. Spans(l.tokens[s], l.text, p[s - 1], end) BY <1>1, <1>6 DEF Spans
  <2>2. s \in Nat \ {0} BY <1>2
  <2> HIDE DEF end
  <2> QED BY <1>2, <1>4, <2>1, <2>2, LedFurther
<1>8. Reached(a)
  <2> HIDE DEF end
  <2>1. /\ a.token <= Len(a.tokens) + 1 /\ a.offset <= Len(a.text) /\ a.token > 0
        /\ {a.token, a.offset, a.star, a.starOffset} \subseteq Nat
        /\ a.star < a.token /\ a.starOffset <= a.offset
    BY <1>1, <1>2, <1>3
  <2>2. \E q : Leads(q, a.tokens, a.text, a.star - 1) /\ q[a.star - 1] <= a.starOffset
    BY <1>3, <1>4, <1>6
  <2>3. \E q : Leads(q, a.tokens, a.text, a.token - 1) /\ q[a.token - 1] = a.offset
    BY <1>2, <1>3, <1>7
  <2> QED BY <1>1, <1>3, <2>1, <2>2, <2>3 DEF Reached
<1>9. ASSUME NEW q, LeadsAcross(q, a.tokens, a.text) PROVE AheadOf(a, q)
  <2>1. AheadOf(l, q) /\ Leads(q, l.tokens, l.text, Len(l.tokens)) /\ q[l.token - 1] # l.offset
    BY <1>1, <1>3, <1>9 DEF LeadsAcross
  <2>2. s \in 0 .. Len(l.tokens) BY <1>2
  <2>3. q[s] \in 0 .. Len(l.text) BY <2>1, <2>2 DEF Leads
  <2>4. q[s] >= l.starOffset /\ q[l.token - 1] = q[s] + (l.offset - l.starOffset)
    BY <2>1 DEF AheadOf
  <2>5. q[s] # l.starOffset BY <1>1, <2>1, <2>4
  <2>6. q[s] >= end BY <1>1, <2>3, <2>4, <2>5
  <2>7. q[a.token - 1] = q[a.star] + (a.offset - a.starOffset) BY <1>2, <1>3, <2>3
  <2> QED BY <1>2, <1>3, <2>6, <2>7 DEF AheadOf
<1>10. Decides(a) BY <1>3, <1>8, <1>9 DEF Decides
<1> QED BY <1>10 DEF a

\* Where the text ends, it is taken whole exactly if nothing but wildcards is left.
LEMMA EndDecides ==
    ASSUME NEW l, Decides(l), l.offset >= Len(l.text)
    PROVE  SegmentMeans(l.tokens, l.text)
             <=> \A k \in l.token .. Len(l.tokens) : l.tokens[k] = Wildcard
<1> DEFINE t == l.token
           n == Len(l.tokens)
           m == Len(l.text)
<1>1. /\ l.tokens \in Segments /\ l.text \in Texts
      /\ {t, l.offset, l.star, l.starOffset} \subseteq Nat /\ t > 0
      /\ t <= n + 1 /\ l.offset <= m
      /\ l.star > 0 => l.star < t /\ l.starOffset <= l.offset
  BY DEF Decides, Reached
<1>2. \A p : LeadsAcross(p, l.tokens, l.text) => AheadOf(l, p) BY DEF Decides
<1>3. /\ n \in Nat /\ m \in Nat /\ l.offset = m
      /\ \A k \in 1 .. n : l.tokens[k] # Wildcard => Len(l.tokens[k].text) \in Nat \ {0}
  BY <1>1, SegmentsTyped
<1>4. t - 1 \in 0 .. n BY <1>1, <1>3
<1>5. ASSUME \A k \in t .. n : l.tokens[k] = Wildcard
      PROVE  SegmentMeans(l.tokens, l.text)
  <2>1. PICK p : Leads(p, l.tokens, l.text, t - 1) /\ p[t - 1] = m
    BY <1>3 DEF Decides, Reached
  <2> DEFINE q == [k \in 0 .. n |-> IF k < t THEN p[k] ELSE m]
  <2>2. \A k \in 0 .. t - 1 : q[k] = p[k] /\ p[k] \in 0 .. m
    <3>1. \A k \in 0 .. t - 1 : k \in 0 .. n /\ k < t BY <1>1, <1>3, <1>4
    <3> QED BY <2>1, <3>1 DEF Leads
  <2>3. \A k \in 0 .. n : ~(k < t) => q[k] = m OBVIOUS
  <2>4. \A k \in 0 .. n : k < t => k \in 0 .. t - 1 BY <1>1
  <2>5. q \in [0 .. n -> 0 .. m]
    <3>1. m \in 0 .. m BY <1>3
    <3>2. \A k \in 0 .. n : (IF k < t THEN p[k] ELSE m) \in 0 .. m BY <2>2, <2>4, <3>1
    <3> QED BY <3>2
  <2> HIDE DEF q
  <2>6. ASSUME NEW k \in 1 .. n PROVE Spans(l.tokens[k], l.text, q[k - 1], q[k])
    <3>1. k - 1 \in 0 .. n /\ k \in 0 .. n BY <1>3
    <3>2. CASE k < t
      <4>1. k \in 1 .. t - 1 /\ k - 1 \in 0 .. t - 1 /\ k \in 0 .. t - 1 BY <1>1, <3>2
      <4>2. q[k - 1] = p[k - 1] /\ q[k] = p[k] BY <2>2, <4>1
      <4> QED BY <2>1, <4>1, <4>2 DEF Leads
    <3>3. CASE ~(k < t)
      <4>1. k \in t .. n BY <1>1, <1>3, <3>3
      <4>2. q[k] = m /\ l.tokens[k] = Wildcard BY <1>5, <2>3, <3>1, <3>3, <4>1
      <4>3. q[k - 1] \in 0 .. m BY <2>5, <3>1
      <4> QED BY <1>3, <4>2, <4>3 DEF Spans
    <3> QED BY <3>2, <3>3
  <2>7. q[0] = 0
    <3>1. 0 \in 0 .. t - 1 BY <1>1
    <3> QED BY <2>1, <2>2, <3>1 DEF Leads
  <2>8. q[n] = m
    <3>1. CASE n < t
      <4>1. t \in Nat /\ n \in Nat /\ t <= n + 1 BY <1>1, <1>3
      <4> HIDE DEF t, n
      <4>2. n = t - 1 /\ n \in 0 .. t - 1 BY <3>1, <4>1
      <4> QED BY <2>1, <2>2, <4>2
    <3>2. CASE ~(n < t)
      <4>1. n \in 0 .. n BY <1>3
      <4> QED BY <2>3, <3>2, <4>1
    <3> QED BY <3>1, <3>2
  <2>9. LeadsAcross(q, l.tokens, l.text) BY <2>5, <2>6, <2>7, <2>8 DEF LeadsAcross, Leads
  <2> QED BY <1>3, <2>9, MeantByOffsets
<1>6. ASSUME NEW k \in t .. n, l.tokens[k] # Wildcard, NEW p, LeadsAcross(p, l.tokens, l.text)
      PROVE  FALSE
  <2>1. Leads(p, l.tokens, l.text, n) /\ AheadOf(l, p) BY <1>2, <1>6 DEF LeadsAcross
  <2>2. /\ k \in 1 .. n /\ k \in 0 .. n /\ k - 1 \in 0 .. n /\ t - 1 <= k - 1
        /\ l.star \in 0 .. n
    BY <1>1, <1>3
  <2>3. /\ p[k] \in 0 .. m /\ p[k - 1] \in 0 .. m /\ p[t - 1] \in 0 .. m
        /\ p[l.star] \in 0 .. m
    BY <1>4, <2>1, <2>2 DEF Leads
  <2>4. p[t - 1] >= m
    <3>1. l.star = 0 => p[t - 1] = m BY <1>3, <2>1 DEF AheadOf
    <3>2. l.star > 0 => p[t - 1] = p[l.star] + (m - l.starOffset) /\ p[l.star] >= l.starOffset
      BY <1>3, <2>1 DEF AheadOf
    <3> QED BY <1>1, <1>3, <2>3, <3>1, <3>2
  <2>5. p[t - 1] <= p[k - 1]
    <3>1. \A i \in 1 .. n : l.tokens[i] # Wildcard => Len(l.tokens[i].text) \in Nat BY <1>3
    <3> HIDE DEF n, t
    <3> QED BY <1>3, <1>4, <2>1, <2>2, <3>1, LedForward
  <2>6. p[k] = p[k - 1] + Len(l.tokens[k].text)
    <3>1. Spans(l.tokens[k], l.text, p[k - 1], p[k]) BY <2>1, <2>2 DEF Leads
    <3> QED BY <1>6, <3>1 DEF Spans
  <2>7. Len(l.tokens[k].text) \in Nat \ {0} BY <1>3, <1>6, <2>2
  <2>8. m \in Nat BY <1>3
  <2> HIDE DEF m
  <2>9. p[k - 1] >= m BY <2>3, <2>4, <2>5, <2>8
  <2>10. p[k] > m BY <2>3, <2>6, <2>7, <2>8, <2>9
  <2> QED BY <2>3, <2>8, <2>10
<1>7. ASSUME SegmentMeans(l.tokens, l.text), NEW k \in t .. n PROVE l.tokens[k] = Wildcard
  <2>1. \E p : LeadsAcross(p, l.tokens, l.text) BY <1>3, <1>7, MeantByOffsets
  <2> QED BY <1>6, <2>1
<1> QED BY <1>5, <1>7

\* A loop that judges as its segment means has decided.
LEMMA RightlyJudged ==
    ASSUME NEW l, Decides(l), NEW verdict, verdict = SegmentMeans(l.tokens, l.text)
    PROVE  Decides([l EXCEPT !.verdict = verdict])
<1> DEFINE a == [l EXCEPT !.verdict = verdict]
<1>1. LoopShaped(l) BY DEF Decides, Reached
<1>2. /\ LoopShaped(a) /\ a.tokens = l.tokens /\ a.text = l.text
      /\ a.offset = l.offset /\ a.token = l.token
      /\ a.star = l.star /\ a.starOffset = l.starOffset /\ a.verdict = verdict
  BY <1>1 DEF LoopShaped
<1> HIDE DEF a
<1>3. Reached(a) BY <1>2 DEF Decides, Reached
<1>4. \A p : LeadsAcross(p, a.tokens, a.text) => AheadOf(a, p) BY <1>2 DEF Decides, AheadOf
<1>5. Decides(a) BY <1>2, <1>3, <1>4 DEF Decides
<1> QED BY <1>5 DEF a

LEMMA StepLoop == LoopInv /\ [MatchingNext]_matchingVars => LoopInv'
<1> SUFFICES ASSUME LoopInv, [MatchingNext]_matchingVars, loop' # Nothing PROVE Decides(loop')
  BY DEF LoopInv
<1>1. CASE \E tokens \in Segments, text \in Texts : MatchSegment(tokens, text)
  BY <1>1, LoopBegins
<1>2. Matching => Decides(loop) /\ loop.verdict = Nothing /\ LoopShaped(loop)
  BY DEF Matching, LoopInv, Decides, Reached
<1>3. CASE TakeWildcard
  BY <1>2, <1>3, WildcardTaken DEF TakeWildcard, Consuming, AtWildcard, LoopSteps
<1>4. CASE TakeLiteral
  BY <1>2, <1>4, LiteralTaken DEF TakeLiteral, Consuming, AtLiteral, LoopSteps
<1>5. ASSUME Consuming, ~AtWildcard, ~AtLiteral
      PROVE  \A p : LeadsAcross(p, loop.tokens, loop.text) => p[loop.token - 1] # loop.offset
  <2>1. Reached(loop) BY <1>2, <1>5 DEF Consuming, Decides
  <2> QED BY <1>5, <2>1, StuckHere DEF Consuming, AtWildcard, AtLiteral
<1>6. CASE Retry
  <2>1. /\ Decides(loop) /\ loop.verdict = Nothing /\ loop.offset < Len(loop.text)
        /\ loop.star > 0 /\ Consuming /\ ~AtWildcard /\ ~AtLiteral
    BY <1>2, <1>6 DEF Retry, Consuming
  <2>2. \A p : LeadsAcross(p, loop.tokens, loop.text) => p[loop.token - 1] # loop.offset
    BY <1>5, <2>1
  <2>3. loop' = [loop EXCEPT !.starOffset = loop.starOffset + 1, !.offset = loop.starOffset + 1,
                             !.token = loop.star + 1]
    BY <1>6 DEF Retry, LoopSteps, Retried
  <2> QED BY <2>1, <2>2, <2>3, WildcardRetried
<1>7. CASE Mismatch
  <2>1. /\ Decides(loop) /\ loop.star = 0 /\ Consuming /\ ~AtWildcard /\ ~AtLiteral
        /\ loop.tokens \in Segments /\ loop.text \in Texts
        /\ loop' = [loop EXCEPT !.verdict = FALSE]
    BY <1>2, <1>7 DEF Mismatch, Consuming, LoopSteps, Decides, Reached
  <2>2. \A p : ~LeadsAcross(p, loop.tokens, loop.text)
    BY <1>5, <2>1 DEF Decides, AheadOf
  <2>3. ~SegmentMeans(loop.tokens, loop.text)
    <3>1. Len(loop.tokens) \in Nat /\ Len(loop.text) \in Nat BY <2>1, SegmentsTyped
    <3> QED BY <2>2, <3>1, MeantByOffsets
  <2>4. FALSE = SegmentMeans(loop.tokens, loop.text) BY <2>3 DEF SegmentMeans
  <2> QED BY <2>1, <2>4, RightlyJudged
<1>8. CASE TextEnds
  <2>1. /\ Decides(loop) /\ loop.offset >= Len(loop.text)
        /\ loop' = [loop EXCEPT !.verdict = OnlyWildcardsLeft]
    BY <1>2, <1>8 DEF TextEnds, LoopSteps
  <2>2. SegmentMeans(loop.tokens, loop.text) <=> OnlyWildcardsLeft
    BY <2>1, EndDecides DEF OnlyWildcardsLeft
  <2>3. OnlyWildcardsLeft = SegmentMeans(loop.tokens, loop.text)
    <3>1. OnlyWildcardsLeft \in BOOLEAN BY DEF OnlyWildcardsLeft
    <3>2. SegmentMeans(loop.tokens, loop.text) \in BOOLEAN BY DEF SegmentMeans
    <3> QED BY <2>2, <3>1, <3>2
  <2> QED BY <2>1, <2>3, RightlyJudged
<1>9. CASE UNCHANGED loop BY <1>9 DEF LoopInv
<1> QED
  BY <1>1, <1>3, <1>4, <1>6, <1>7, <1>8, <1>9
     DEF MatchingNext, LoopNext, ParsePathValue, ScanEscape, ScanColon, ScanSeparator,
         ScanStars, ScanLiteral, ScanEnds, Reject, Scanned, matchingVars

\* Whatever the segment and the text: the loop of matchSegment, which remembers only its
\* last wildcard, decides what the tokens mean, and never leaves the text
\* (path.go matchSegment).
THEOREM MatchingDecides == MatchingInit /\ [][MatchingNext]_matchingVars => []LoopDecides
<1>1. MatchingInit => LoopInv BY DEF MatchingInit, LoopInv
<1>2. LoopInv => LoopDecides BY DEF LoopInv, Decides, Reached, LoopDecides
<1> QED BY <1>1, <1>2, StepLoop, PTL

-----------------------------------------------------------------------------
(* The scans of a command line *)

\* What stands for a missing value is no text and no answer.
AbsentIsNoAnswer == Absent \notin {"help", "version"} /\ {"error", "values"} \cap DOMAIN Absent = {}

InformedStates == [at : {"flag", "value", "end"}, request : {Absent, "help", "version"}]

\* The request informationalRequest ends with comes from the states it goes through.
Informs(f, args) ==
    /\ f[0] = [at |-> "flag", request |-> Absent]
    /\ \A k \in 0 .. Len(args) : f[k] \in InformedStates
    /\ \A k \in 1 .. Len(args) : f[k] = Informed(f[k - 1], args[k])

LEMMA InformedType ==
    ASSUME NEW state \in InformedStates, NEW arg PROVE Informed(state, arg) \in InformedStates
<1>1. state.at \in {"flag", "value", "end"} /\ state.request \in {Absent, "help", "version"}
  BY DEF InformedStates
<1>2. CASE state.at = "end" \/ (state.at = "flag" /\ arg.text = Terminator)
  <2>1. Informed(state, arg) = [state EXCEPT !.at = "end"] BY <1>2 DEF Informed
  <2> QED BY <2>1 DEF InformedStates
<1>3. CASE ~(state.at = "end" \/ (state.at = "flag" /\ arg.text = Terminator)) /\ state.at = "value"
  <2>1. Informed(state, arg) = [state EXCEPT !.at = "flag"] BY <1>3 DEF Informed
  <2> QED BY <2>1 DEF InformedStates
<1>4. CASE ~(state.at = "end" \/ (state.at = "flag" /\ arg.text = Terminator)) /\ state.at # "value"
  <2> DEFINE asked == IF arg.dashed /\ arg.assigned = Absent THEN arg.name ELSE "nothing"
  <2>1. Informed(state, arg) =
          [at |-> IF asked = "help" THEN "end" ELSE IF TakesNext(arg) THEN "value" ELSE "flag",
           request |-> IF asked \in {"help", "version"} THEN asked ELSE state.request]
    BY <1>4 DEF Informed
  <2> HIDE DEF asked
  <2> QED BY <1>1, <2>1 DEF InformedStates
<1> QED BY <1>2, <1>3, <1>4

LEMMA InformedThrough ==
    ASSUME NEW args, Len(args) \in Nat
    PROVE  \E f : Informs(f, args) /\ InformationalRequest(args) = f[Len(args)].request
<1> DEFINE n == Len(args)
           base == [at |-> "flag", request |-> Absent]
           P == [k \in 0 .. n |-> InformedStates]
           next == [k \in 1 .. n |-> [state \in InformedStates |-> Informed(state, args[k])]]
           Body(f) == [k \in 0 .. n |-> IF k = 0 THEN base ELSE Informed(f[k - 1], args[k])]
<1>1. n \in Nat /\ 0 \in 0 .. n /\ \A k \in 1 .. n : k - 1 \in 0 .. n /\ k \in 0 .. n /\ k # 0
  OBVIOUS
<1>2. \A k \in 1 .. n : \A state \in P[k - 1] :
         next[k][state] = Informed(state, args[k]) /\ next[k][state] \in P[k]
  <2> TAKE k \in 1 .. n
  <2>1. P[k - 1] = InformedStates /\ P[k] = InformedStates BY <1>1
  <2>2. next[k] = [state \in InformedStates |-> Informed(state, args[k])] OBVIOUS
  <2> HIDE DEF P, next
  <2> QED BY <2>1, <2>2, InformedType
<1>3. base \in P[0] BY <1>1 DEF InformedStates
<1>4. \A k \in 0 .. n : P[k] = InformedStates OBVIOUS
<1> HIDE DEF n, P, next, base
<1>5. PICK f : Loops(f, n, base, next) /\ \A k \in 0 .. n : f[k] \in P[k]
  <2>1. \A k \in 1 .. n : \A state \in P[k - 1] : next[k][state] \in P[k] BY <1>2
  <2> HIDE DEF Body
  <2> QED BY <1>1, <1>3, <2>1, Iterates, ZenonT(60)
<1>6. f = Body(f)
  <2>1. \A k \in 1 .. n : next[k][f[k - 1]] = Informed(f[k - 1], args[k]) BY <1>1, <1>2, <1>5
  <2>2. \A k \in 0 .. n : (IF k = 0 THEN base ELSE next[k][f[k - 1]])
                          = (IF k = 0 THEN base ELSE Informed(f[k - 1], args[k]))
    BY <1>1, <2>1
  <2> QED BY <1>5, <2>2 DEF Loops
<1> DEFINE after == CHOOSE g : g = Body(g)
<1>7. after = Body(after) BY <1>6
<1>8. InformationalRequest(args) = after[n].request BY DEF InformationalRequest, n, base
<1> HIDE DEF after
<1>9. after[0] = base /\ \A k \in 1 .. n : after[k] = Informed(after[k - 1], args[k])
  BY <1>1, <1>7
<1>10. \A k \in 0 .. n : after[k] \in P[k]
  <2>1. \A k \in 1 .. n : after[k - 1] \in P[k - 1] => after[k] \in P[k]
    BY <1>1, <1>4, <1>9, InformedType
  <2>2. after[0] \in P[0] BY <1>3, <1>9
  <2> QED BY <1>1, <2>1, <2>2, Carried, ZenonT(60)
<1>11. Informs(after, args) BY <1>4, <1>9, <1>10 DEF Informs, n, base
<1> QED BY <1>8, <1>11 DEF n

\* What was asked for stays asked for.
LEMMA RequestStays ==
    ASSUME AbsentIsNoAnswer, NEW args, Len(args) \in Nat, NEW f, Informs(f, args),
           f[Len(args)].request = Absent
    PROVE  \A k \in 0 .. Len(args) : f[k].request = Absent
<1> DEFINE n == Len(args)
<1>1. \A k \in 1 .. n : f[k - 1].request # Absent => f[k].request # Absent
  <2> TAKE k \in 1 .. n
  <2>1. f[k - 1] \in InformedStates /\ f[k] = Informed(f[k - 1], args[k])
    <3>1. k - 1 \in 0 .. n OBVIOUS
    <3> QED BY <3>1 DEF Informs
  <2>2. SUFFICES ASSUME f[k - 1].request # Absent PROVE f[k].request # Absent OBVIOUS
  <2> QED BY <2>1, <2>2 DEF Informed, InformedStates, AbsentIsNoAnswer
<1> SUFFICES ASSUME NEW m \in 0 .. n, f[m].request # Absent PROVE FALSE BY Zenon
<1> DEFINE g == [i \in 0 .. n - m |-> f[i + m].request # Absent]
           P == [i \in 0 .. n - m |-> {TRUE}]
<1>2. g[0] \in P[0]
  <2>1. 0 \in 0 .. n - m /\ 0 + m = m OBVIOUS
  <2>2. g[0] = (f[m].request # Absent) /\ P[0] = {TRUE} BY <2>1
  <2> QED BY <2>2
<1>3. \A i \in 1 .. n - m : g[i - 1] \in P[i - 1] => g[i] \in P[i]
  <2> TAKE i \in 1 .. n - m
  <2>1. /\ i - 1 \in 0 .. n - m /\ i \in 0 .. n - m /\ i + m \in 1 .. n
        /\ (i - 1) + m = (i + m) - 1
    OBVIOUS
  <2>2. f[(i + m) - 1].request # Absent => f[i + m].request # Absent BY <1>1, <2>1
  <2>3. g[i - 1] = (f[(i + m) - 1].request # Absent) /\ g[i] = (f[i + m].request # Absent)
    BY <2>1
  <2>4. P[i - 1] = {TRUE} /\ P[i] = {TRUE} BY <2>1
  <2> QED BY <2>2, <2>3, <2>4
<1>4. n - m \in Nat /\ n - m \in 0 .. n - m /\ (n - m) + m = n OBVIOUS
<1>5. \A i \in 0 .. n - m : g[i] \in P[i]
  <2> HIDE DEF g, P, n
  <2> QED BY <1>2, <1>3, <1>4, Carried, ZenonT(60)
<1>6. g[n - m] = (f[n].request # Absent) /\ P[n - m] = {TRUE} BY <1>4
<1> QED BY <1>4, <1>5, <1>6

AssignedStates(n) == [at : {"flag", "value", "end"}, found : 0 .. n]

\* The place ParseArgs looks for comes from the states the state for it goes through.
Assigns(f, args) ==
    /\ f[0] = [at |-> "flag", found |-> 0]
    /\ \A k \in 0 .. Len(args) : f[k] \in AssignedStates(Len(args))
    /\ \A k \in 1 .. Len(args) : f[k] = Assigned(f[k - 1], args[k], k)

LEMMA AssignedType ==
    ASSUME NEW n \in Nat, NEW state \in AssignedStates(n), NEW arg, NEW k \in 1 .. n
    PROVE  Assigned(state, arg, k) \in AssignedStates(n)
<1>1. state.at \in {"flag", "value", "end"} /\ state.found \in 0 .. n /\ k \in 0 .. n
  BY DEF AssignedStates
<1> DEFINE stuck == ~arg.dashed \/ arg.name \notin ValueFlags \cup BooleanFlags \cup {"help"}
           assigned == arg.name \notin ValueFlags /\ arg.assigned # Absent
           at == IF arg.name = "help" THEN "end" ELSE IF TakesNext(arg) THEN "value" ELSE "flag"
<1>2. \/ Assigned(state, arg, k) = state
      \/ Assigned(state, arg, k) = [state EXCEPT !.at = "flag"]
      \/ Assigned(state, arg, k) = [state EXCEPT !.at = "end"]
      \/ Assigned(state, arg, k) = [at |-> "end", found |-> k]
      \/ Assigned(state, arg, k) = [state EXCEPT !.at = at]
  BY DEF Assigned
<1>3. at \in {"flag", "value", "end"} OBVIOUS
<1> HIDE DEF at
<1> QED BY <1>1, <1>2, <1>3 DEF AssignedStates

LEMMA AssignedThrough ==
    ASSUME NEW args, Len(args) \in Nat
    PROVE  \E f : Assigns(f, args) /\ AssignmentAt(args) = f[Len(args)].found
<1> DEFINE n == Len(args)
           S == AssignedStates(n)
           base == [at |-> "flag", found |-> 0]
           P == [k \in 0 .. n |-> S]
           next == [k \in 1 .. n |-> [state \in S |-> Assigned(state, args[k], k)]]
           Body(f) == [k \in 0 .. n |-> IF k = 0 THEN base ELSE Assigned(f[k - 1], args[k], k)]
<1>1. n \in Nat /\ 0 \in 0 .. n /\ \A k \in 1 .. n : k - 1 \in 0 .. n /\ k \in 0 .. n /\ k # 0
  OBVIOUS
<1>2. base \in S BY <1>1 DEF AssignedStates
<1> HIDE DEF n, base
<1>3. \A k \in 1 .. n : \A state \in S : Assigned(state, args[k], k) \in S BY <1>1, AssignedType
<1> HIDE DEF S
<1>4. \A k \in 1 .. n : \A state \in P[k - 1] :
         next[k][state] = Assigned(state, args[k], k) /\ next[k][state] \in P[k]
  <2> TAKE k \in 1 .. n
  <2>1. P[k - 1] = S /\ P[k] = S BY <1>1
  <2>2. next[k] = [state \in S |-> Assigned(state, args[k], k)] OBVIOUS
  <2> HIDE DEF P, next
  <2> QED BY <1>3, <2>1, <2>2
<1>5. base \in P[0] BY <1>1, <1>2
<1>6. \A k \in 0 .. n : P[k] = S OBVIOUS
<1> HIDE DEF P, next
<1>7. PICK f : Loops(f, n, base, next) /\ \A k \in 0 .. n : f[k] \in P[k]
  <2>1. \A k \in 1 .. n : \A state \in P[k - 1] : next[k][state] \in P[k] BY <1>4
  <2> HIDE DEF Body
  <2> QED BY <1>1, <1>5, <2>1, Iterates, ZenonT(60)
<1>8. f = Body(f)
  <2>1. \A k \in 1 .. n : next[k][f[k - 1]] = Assigned(f[k - 1], args[k], k) BY <1>1, <1>4, <1>7
  <2>2. \A k \in 0 .. n : (IF k = 0 THEN base ELSE next[k][f[k - 1]])
                          = (IF k = 0 THEN base ELSE Assigned(f[k - 1], args[k], k))
    BY <1>1, <2>1
  <2> QED BY <1>7, <2>2 DEF Loops
<1> DEFINE after == CHOOSE g : g = Body(g)
<1>9. after = Body(after) BY <1>8
<1>10. AssignmentAt(args) = after[n].found BY DEF AssignmentAt, n, base
<1> HIDE DEF after
<1>11. after[0] = base /\ \A k \in 1 .. n : after[k] = Assigned(after[k - 1], args[k], k)
  BY <1>1, <1>9
<1>12. \A k \in 0 .. n : after[k] \in P[k]
  <2>1. \A k \in 1 .. n : after[k - 1] \in P[k - 1] => after[k] \in P[k]
    BY <1>1, <1>3, <1>6, <1>11
  <2>2. after[0] \in P[0] BY <1>5, <1>11
  <2> QED BY <1>1, <2>1, <2>2, Carried, ZenonT(60)
<1>13. Assigns(after, args) BY <1>6, <1>11, <1>12 DEF Assigns, n, base, S
<1> QED BY <1>10, <1>13 DEF n

\* The first place found is the one answered.
LEMMA FirstFound ==
    ASSUME NEW args, Len(args) \in Nat, NEW f, Assigns(f, args),
           NEW m \in 1 .. Len(args), f[m] = [at |-> "end", found |-> m]
    PROVE  f[Len(args)].found = m
<1> DEFINE n == Len(args)
           there == [at |-> "end", found |-> m]
           P == [i \in 0 .. n |-> {x \in AssignedStates(n) : m <= i => x = there}]
<1>1. \A i \in 1 .. n : f[i - 1] = there => f[i] = there
  <2> SUFFICES ASSUME NEW i \in 1 .. n, f[i - 1] = there PROVE f[i] = there OBVIOUS
  <2>1. f[i] = Assigned(there, args[i], i) BY DEF Assigns
  <2> QED BY <2>1 DEF Assigned
<1>2. n \in Nat /\ n \in 0 .. n /\ \A i \in 0 .. n : f[i] \in AssignedStates(n) BY DEF Assigns
<1>3. f[0] \in P[0]
  <2>1. 0 \in 0 .. n /\ ~(m <= 0) OBVIOUS
  <2> QED BY <1>2, <2>1
<1>4. ASSUME NEW i \in 1 .. n, f[i - 1] \in P[i - 1] PROVE f[i] \in P[i]
  <2>1. i - 1 \in 0 .. n /\ i \in 0 .. n /\ (m <= i => m = i \/ m <= i - 1) OBVIOUS
  <2>2. m <= i - 1 => f[i - 1] = there BY <1>4, <2>1
  <2>3. m <= i => f[i] = there BY <1>1, <2>1, <2>2
  <2> QED BY <1>2, <2>1, <2>3
<1>5. \A i \in 0 .. n : f[i] \in P[i]
  <2> HIDE DEF P, n, there
  <2> QED BY <1>2, <1>3, <1>4, Carried, ZenonT(60)
<1>6. m <= n /\ f[n] \in P[n] BY <1>2, <1>5
<1> QED BY <1>2, <1>6

\* What the flag package reads off arguments that read as something behind every flag.
Reads == {ReadsAs[on] : on \in DOMAIN ReadsAs}
Readable(arg) ==
    \A flag \in ValueFlags :
      /\ <<flag, arg.text>> \in DOMAIN ReadsAs
      /\ arg.name = flag /\ arg.assigned # Absent => <<flag, arg.assigned>> \in DOMAIN ReadsAs
ParsedStates(all) ==
    [at : {"flag", "end", "error"} \cup ValueFlags, values : Seq(Reads), flags : SUBSET all,
     rest : BOOLEAN]

\* The parse of the flag package comes from the states it goes through.
Parses(f, args, all) ==
    /\ f[0] = [at |-> "flag", values |-> <<>>, flags |-> {}, rest |-> FALSE]
    /\ \A k \in 0 .. Len(args) : f[k] \in ParsedStates(all)
    /\ \A k \in 1 .. Len(args) : f[k] = Parsed(f[k - 1], args[k])

LEMMA ParsedType ==
    ASSUME NEW all, NEW parse \in ParsedStates(all), NEW arg \in all, Readable(arg)
    PROVE  Parsed(parse, arg) \in ParsedStates(all)
<1>1. /\ parse.at \in {"flag", "end", "error"} \cup ValueFlags /\ parse.values \in Seq(Reads)
      /\ parse.flags \in SUBSET all /\ parse.rest \in BOOLEAN
  BY DEF ParsedStates
<1>2. parse.flags \cup {arg} \in SUBSET all BY <1>1
<1>3. ASSUME NEW value \in Reads PROVE Append(parse.values, value) \in Seq(Reads) BY <1>1
<1>4. parse.at \in ValueFlags => ReadsAs[parse.at, arg.text] \in Reads BY DEF Readable, Reads
<1>5. arg.name \in ValueFlags /\ arg.assigned # Absent => ReadsAs[arg.name, arg.assigned] \in Reads
  BY DEF Readable, Reads
<1>6. CASE parse.at \in {"end", "error"}
  <2>1. Parsed(parse, arg) = [parse EXCEPT !.rest = TRUE] BY <1>6 DEF Parsed
  <2> QED BY <1>1, <2>1 DEF ParsedStates
<1>7. CASE parse.at \in ValueFlags
  <2> DEFINE more == Append(parse.values, ReadsAs[parse.at, arg.text])
  <2>1. more \in Seq(Reads) BY <1>3, <1>4, <1>7
  <2>2. Parsed(parse, arg) = [parse EXCEPT !.at = "flag", !.values = more]
    BY <1>7 DEF Parsed, ValueFlags
  <2> HIDE DEF more
  <2> QED BY <1>1, <2>1, <2>2 DEF ParsedStates
<1> DEFINE going == parse.at \notin {"end", "error"} \cup ValueFlags
<1>8. CASE going /\ (arg.text = Terminator \/ ~arg.dashed)
  <2>1. \/ Parsed(parse, arg) = [parse EXCEPT !.at = "end"]
        \/ Parsed(parse, arg) = [parse EXCEPT !.at = "end", !.rest = TRUE]
    BY <1>8 DEF Parsed
  <2> QED BY <1>1, <2>1 DEF ParsedStates
<1>9. CASE going /\ arg.text # Terminator /\ arg.dashed /\ arg.name \in ValueFlags /\ TakesNext(arg)
  <2>1. Parsed(parse, arg) = [parse EXCEPT !.at = arg.name] BY <1>9 DEF Parsed
  <2> QED BY <1>1, <1>9, <2>1 DEF ParsedStates
<1>10. CASE going /\ arg.text # Terminator /\ arg.dashed /\ arg.name \in ValueFlags /\ ~TakesNext(arg)
  <2> DEFINE more == Append(parse.values, ReadsAs[arg.name, arg.assigned])
  <2>1. more \in Seq(Reads) BY <1>3, <1>5, <1>10 DEF TakesNext
  <2>2. Parsed(parse, arg) = [parse EXCEPT !.values = more] BY <1>10 DEF Parsed
  <2> HIDE DEF more
  <2> QED BY <1>1, <2>1, <2>2 DEF ParsedStates
<1>11. CASE going /\ arg.text # Terminator /\ arg.dashed /\ arg.name \notin ValueFlags
  <2> DEFINE at == IF arg.name \in BooleanFlags THEN parse.at ELSE "error"
  <2>1. Parsed(parse, arg) = [parse EXCEPT !.at = at, !.flags = parse.flags \cup {arg}]
    BY <1>11 DEF Parsed, TakesNext
  <2>2. at \in {"flag", "end", "error"} \cup ValueFlags BY <1>1
  <2> HIDE DEF at
  <2> QED BY <1>1, <1>2, <2>1, <2>2 DEF ParsedStates
<1> QED BY <1>6, <1>7, <1>8, <1>9, <1>10, <1>11

LEMMA ParsedThrough ==
    ASSUME NEW all, NEW args, Len(args) \in Nat,
           \A k \in 1 .. Len(args) : args[k] \in all /\ Readable(args[k])
    PROVE  \E f : Parses(f, args, all) /\ FlagsParse(args) = f[Len(args)]
<1> DEFINE n == Len(args)
           S == ParsedStates(all)
           base == [at |-> "flag", values |-> <<>>, flags |-> {}, rest |-> FALSE]
           P == [k \in 0 .. n |-> S]
           next == [k \in 1 .. n |-> [parse \in S |-> Parsed(parse, args[k])]]
           Body(f) == [k \in 0 .. n |-> IF k = 0 THEN base ELSE Parsed(f[k - 1], args[k])]
<1>1. n \in Nat /\ 0 \in 0 .. n /\ \A k \in 1 .. n : k - 1 \in 0 .. n /\ k \in 0 .. n /\ k # 0
  OBVIOUS
<1>2. base \in S
  <2>1. <<>> \in Seq(Reads) OBVIOUS
  <2> QED BY <2>1 DEF ParsedStates
<1>3. \A k \in 1 .. n : \A parse \in S : Parsed(parse, args[k]) \in S BY ParsedType
<1> HIDE DEF n, base, S
<1>4. \A k \in 1 .. n : \A parse \in P[k - 1] :
         next[k][parse] = Parsed(parse, args[k]) /\ next[k][parse] \in P[k]
  <2> TAKE k \in 1 .. n
  <2>1. P[k - 1] = S /\ P[k] = S BY <1>1
  <2>2. next[k] = [parse \in S |-> Parsed(parse, args[k])] OBVIOUS
  <2> HIDE DEF P, next
  <2> QED BY <1>3, <2>1, <2>2
<1>5. base \in P[0] BY <1>1, <1>2
<1>6. \A k \in 0 .. n : P[k] = S OBVIOUS
<1> HIDE DEF P, next
<1>7. PICK f : Loops(f, n, base, next) /\ \A k \in 0 .. n : f[k] \in P[k]
  <2>1. \A k \in 1 .. n : \A parse \in P[k - 1] : next[k][parse] \in P[k] BY <1>4
  <2> HIDE DEF Body
  <2> QED BY <1>1, <1>5, <2>1, Iterates, ZenonT(60)
<1>8. f = Body(f)
  <2>1. \A k \in 1 .. n : next[k][f[k - 1]] = Parsed(f[k - 1], args[k]) BY <1>1, <1>4, <1>7
  <2>2. \A k \in 0 .. n : (IF k = 0 THEN base ELSE next[k][f[k - 1]])
                          = (IF k = 0 THEN base ELSE Parsed(f[k - 1], args[k]))
    BY <1>1, <2>1
  <2> QED BY <1>7, <2>2 DEF Loops
<1> DEFINE after == CHOOSE g : g = Body(g)
<1>9. after = Body(after) BY <1>8
<1>10. FlagsParse(args) = after[n] BY DEF FlagsParse, n, base
<1> HIDE DEF after
<1>11. after[0] = base /\ \A k \in 1 .. n : after[k] = Parsed(after[k - 1], args[k])
  BY <1>1, <1>9
<1>12. \A k \in 0 .. n : after[k] \in P[k]
  <2>1. \A k \in 1 .. n : after[k - 1] \in P[k - 1] => after[k] \in P[k]
    BY <1>1, <1>3, <1>6, <1>11
  <2>2. after[0] \in P[0] BY <1>5, <1>11
  <2> QED BY <1>1, <2>1, <2>2, Carried, ZenonT(60)
<1>13. Parses(after, args, all) BY <1>6, <1>11, <1>12 DEF Parses, n, base, S
<1> QED BY <1>10, <1>13 DEF n

\* Where the three scans stand after as many arguments, when nothing was asked for and no
\* boolean was assigned: the flag package expects a flag only where the others do.
Plain(flag) == flag.name \notin {"help", "version"} /\ (flag.name \in BooleanFlags => flag.assigned = Absent)
Alike(parse, inform, assign) ==
    /\ parse.at = "flag" => inform.at = "flag" /\ assign.at = "flag"
    /\ parse.at \in ValueFlags => inform.at = "value" /\ assign.at = "value"
    /\ \A flag \in parse.flags : Plain(flag)

LEMMA StayAlike ==
    ASSUME AbsentIsNoAnswer, NEW all, NEW parse \in ParsedStates(all), NEW inform \in InformedStates,
           NEW n, NEW assign \in AssignedStates(n), NEW arg, NEW k, Alike(parse, inform, assign),
           Informed(inform, arg).request = Absent,
           Assigned(assign, arg, k) # [at |-> "end", found |-> k]
    PROVE  Alike(Parsed(parse, arg), Informed(inform, arg), Assigned(assign, arg, k))
<1>1. /\ parse.at \in {"flag", "end", "error"} \cup ValueFlags
      /\ inform.at \in {"flag", "value", "end"} /\ assign.at \in {"flag", "value", "end"}
  BY DEF ParsedStates, InformedStates, AssignedStates
<1> DEFINE P == Parsed(parse, arg)
           I == Informed(inform, arg)
           A == Assigned(assign, arg, k)
<1>2. "flag" \notin ValueFlags /\ "end" \notin ValueFlags /\ "error" \notin ValueFlags
  BY DEF ValueFlags
<1>3. CASE parse.at \in {"end", "error"}
  <2>1. P = [parse EXCEPT !.rest = TRUE] BY <1>3 DEF Parsed
  <2>2. P.at = parse.at /\ P.flags = parse.flags BY <2>1 DEF ParsedStates
  <2> HIDE DEF P, I, A
  <2> QED BY <1>2, <1>3, <2>2 DEF Alike, P, I, A
<1>4. CASE parse.at \in ValueFlags
  <2>1. P.at = "flag" /\ P.flags = parse.flags BY <1>4 DEF Parsed, ValueFlags, ParsedStates
  <2>2. inform.at = "value" /\ assign.at = "value" BY <1>4 DEF Alike
  <2>3. I = [inform EXCEPT !.at = "flag"] BY <2>2 DEF Informed
  <2>4. A = [assign EXCEPT !.at = "flag"] BY <2>2 DEF Assigned
  <2>5. I.at = "flag" /\ A.at = "flag" BY <2>3, <2>4 DEF InformedStates, AssignedStates
  <2> HIDE DEF P, I, A
  <2> QED BY <1>2, <2>1, <2>5 DEF Alike, P, I, A
<1>5. CASE parse.at = "flag" /\ (arg.text = Terminator \/ ~arg.dashed)
  <2>1. \/ P = [parse EXCEPT !.at = "end"]
        \/ P = [parse EXCEPT !.at = "end", !.rest = TRUE]
    BY <1>2, <1>5 DEF Parsed
  <2>2. P.at = "end" /\ P.flags = parse.flags BY <2>1 DEF ParsedStates
  <2> HIDE DEF P, I, A
  <2> QED BY <1>2, <2>2 DEF Alike, P, I, A
<1> DEFINE asked == IF arg.dashed /\ arg.assigned = Absent THEN arg.name ELSE "nothing"
<1>6. CASE parse.at = "flag" /\ arg.text # Terminator /\ arg.dashed
  <2>1. inform.at = "flag" /\ assign.at = "flag" BY <1>6 DEF Alike
  <2>2. I = [at |-> IF asked = "help" THEN "end" ELSE IF TakesNext(arg) THEN "value" ELSE "flag",
             request |-> IF asked \in {"help", "version"} THEN asked ELSE inform.request]
    BY <1>6, <2>1 DEF Informed
  <2>3. asked \notin {"help", "version"}
    <3> HIDE DEF asked
    <3>1. I.request = Absent OBVIOUS
    <3> QED BY <2>2, <3>1 DEF AbsentIsNoAnswer
  <2>4. I.at = IF TakesNext(arg) THEN "value" ELSE "flag"
    <3> HIDE DEF asked
    <3> QED BY <2>2, <2>3
  <2>5. arg.assigned = Absent => arg.name \notin {"help", "version"} BY <1>6, <2>3
  <2>6. arg.name \notin ValueFlags /\ arg.name \in BooleanFlags \cup {"help"} => arg.assigned = Absent
    <3> SUFFICES ASSUME arg.name \notin ValueFlags, arg.name \in BooleanFlags \cup {"help"},
                        arg.assigned # Absent
                 PROVE  FALSE
      OBVIOUS
    <3>1. A = [at |-> "end", found |-> k] BY <1>6, <2>1 DEF Assigned
    <3> QED BY <3>1
  <2>7. CASE arg.name \in ValueFlags
    <3>1. A = [assign EXCEPT !.at = IF arg.name = "help" THEN "end"
                                    ELSE IF TakesNext(arg) THEN "value" ELSE "flag"]
      BY <1>6, <2>1, <2>7 DEF Assigned
    <3>2. A.at = IF TakesNext(arg) THEN "value" ELSE "flag"
      <4>1. arg.name # "help" BY <2>7 DEF ValueFlags
      <4> QED BY <3>1, <4>1 DEF AssignedStates
    <3>3. \/ TakesNext(arg) /\ P = [parse EXCEPT !.at = arg.name]
          \/ ~TakesNext(arg) /\ P = [parse EXCEPT !.values = Append(@, ReadsAs[arg.name, arg.assigned])]
      BY <1>2, <1>6, <2>7 DEF Parsed
    <3>4. /\ P.at = IF TakesNext(arg) THEN arg.name ELSE "flag"
          /\ P.flags = parse.flags
      BY <1>6, <3>3 DEF ParsedStates
    <3> HIDE DEF P, I, A
    <3> QED BY <1>2, <2>4, <2>7, <3>2, <3>4 DEF Alike, P, I, A
  <2>8. CASE arg.name \notin ValueFlags /\ arg.name \in BooleanFlags
    <3>1. arg.assigned = Absent /\ arg.name # "help" BY <2>6, <2>8 DEF BooleanFlags
    <3>2. A = [assign EXCEPT !.at = "flag"]
      BY <1>6, <2>1, <2>8, <3>1 DEF Assigned, TakesNext
    <3>3. A.at = "flag" /\ I.at = "flag" BY <2>4, <2>8, <3>2 DEF AssignedStates, TakesNext
    <3>4. P = [parse EXCEPT !.at = parse.at, !.flags = parse.flags \cup {arg}]
      BY <1>2, <1>6, <2>8 DEF Parsed, TakesNext
    <3>5. P.at = "flag" /\ P.flags = parse.flags \cup {arg} BY <1>6, <3>4 DEF ParsedStates
    <3>6. Plain(arg) BY <2>5, <3>1 DEF Plain
    <3> HIDE DEF P, I, A
    <3> QED BY <1>2, <3>3, <3>5, <3>6 DEF Alike, P, I, A
  <2>9. CASE arg.name \notin ValueFlags /\ arg.name \notin BooleanFlags
    <3>1. P = [parse EXCEPT !.at = "error", !.flags = parse.flags \cup {arg}]
      BY <1>2, <1>6, <2>9 DEF Parsed, TakesNext
    <3>2. P.at = "error" /\ P.flags = parse.flags \cup {arg} BY <3>1 DEF ParsedStates
    <3>3. arg.name # "help" BY <2>5, <2>6, <2>9
    <3>4. Plain(arg) BY <2>9, <3>3 DEF Plain, BooleanFlags
    <3> HIDE DEF P, I, A
    <3> QED BY <1>2, <3>2, <3>4 DEF Alike, P, I, A
  <2> QED BY <2>7, <2>8, <2>9
<1> QED BY <1>1, <1>3, <1>4, <1>5, <1>6

\* What the scans make of the arguments.
AllArguments == UNION {Range(args) : args \in Lines}
LineType == [values : Seq(Reads), scanned : Nat, flags : SUBSET AllArguments, assigned : BOOLEAN]
Understood ==
    config \notin {Rejected("help"), Rejected("version")} => \A flag \in line.flags : Plain(flag)

LEMMA ArgumentsReadable ==
    ASSUME NEW args \in Lines
    PROVE  /\ Len(args) \in Nat
           /\ \A k \in 1 .. Len(args) : args[k] \in AllArguments /\ Readable(args[k])
<1>1. /\ args \in Seq(Range(args))
      /\ \A arg \in Range(args), flag \in ValueFlags :
           /\ <<flag, arg.text>> \in DOMAIN ReadsAs
           /\ arg.name = flag /\ arg.assigned # Absent => <<flag, arg.assigned>> \in DOMAIN ReadsAs
  BY ArgumentsAssumption
<1>2. Len(args) \in Nat /\ \A k \in 1 .. Len(args) : args[k] \in Range(args) BY <1>1
<1>3. \A arg \in Range(args) : Readable(arg) BY <1>1 DEF Readable
<1>4. Range(args) \in SUBSET AllArguments BY DEF AllArguments
<1> QED BY <1>2, <1>3, <1>4

\* The arguments the flag package gets: those before the first assigned boolean.
ReadAhead(args) ==
    LET at == AssignmentAt(args) IN IF at = 0 THEN args ELSE SubSeq(args, 1, at - 1)

LEMMA ReadsAhead ==
    ASSUME NEW args \in Lines
    PROVE  LET at == AssignmentAt(args)
               s == ReadAhead(args)
           IN  /\ \E g : Assigns(g, args) /\ at = g[Len(args)].found
               /\ Len(s) \in 0 .. Len(args) /\ (at # 0 => Len(s) = at - 1)
               /\ \A k \in 1 .. Len(s) : s[k] = args[k]
               /\ \E h : Parses(h, s, AllArguments) /\ FlagsParse(s) = h[Len(s)]
               /\ FlagsParse(s) \in ParsedStates(AllArguments)
<1> DEFINE n == Len(args)
           at == AssignmentAt(args)
           s == ReadAhead(args)
           m == Len(s)
<1>1. n \in Nat /\ \A k \in 1 .. n : args[k] \in AllArguments /\ Readable(args[k])
  BY ArgumentsReadable
<1>2. PICK g : Assigns(g, args) /\ at = g[n].found BY <1>1, AssignedThrough
<1>3. at \in 0 .. n
  <2>1. n \in 0 .. n /\ g[n] \in AssignedStates(n) BY <1>1, <1>2 DEF Assigns
  <2> QED BY <1>2, <2>1 DEF AssignedStates
<1>4. s = IF at = 0 THEN args ELSE SubSeq(args, 1, at - 1) BY DEF ReadAhead
<1>5. m \in 0 .. n /\ (at # 0 => m = at - 1) /\ \A k \in 1 .. m : s[k] = args[k]
  <2>1. args \in Seq(Range(args)) BY ArgumentsAssumption
  <2> HIDE DEF at, s
  <2>2. CASE at = 0 BY <1>1, <1>4, <2>2
  <2>3. CASE at # 0
    <3>1. s = SubSeq(args, 1, at - 1) /\ at - 1 \in 0 .. n BY <1>3, <1>4, <2>3
    <3>2. Len(SubSeq(args, 1, at - 1)) = at - 1
          /\ \A k \in 1 .. at - 1 : SubSeq(args, 1, at - 1)[k] = args[k]
      BY <1>1, <2>1, <3>1
    <3> QED BY <2>3, <3>1, <3>2
  <2> QED BY <2>2, <2>3
<1> HIDE DEF at, s, m
<1>6. m \in Nat /\ m \in 0 .. m /\ \A k \in 1 .. m : s[k] \in AllArguments /\ Readable(s[k])
  <2>1. \A k \in 1 .. m : k \in 1 .. n BY <1>1, <1>5
  <2> QED BY <1>1, <1>5, <2>1
<1>7. PICK h : Parses(h, s, AllArguments) /\ FlagsParse(s) = h[m]
  BY <1>6, ParsedThrough DEF m
<1>8. FlagsParse(s) \in ParsedStates(AllArguments) BY <1>6, <1>7 DEF Parses, m
<1> QED BY <1>2, <1>5, <1>7, <1>8 DEF m, s, at

\* Where nothing was asked for, the flag package meets plain flags only.
LEMMA ScansFollow ==
    ASSUME AbsentIsNoAnswer, NEW args \in Lines, InformationalRequest(args) = Absent
    PROVE  \A flag \in FlagsParse(ReadAhead(args)).flags : Plain(flag)
<1> DEFINE n == Len(args)
           at == AssignmentAt(args)
           s == ReadAhead(args)
           m == Len(s)
<1>1. n \in Nat BY ArgumentsReadable
<1>2. PICK f : Informs(f, args) /\ InformationalRequest(args) = f[n].request
  BY <1>1, InformedThrough
<1>3. PICK g : Assigns(g, args) /\ at = g[n].found BY ReadsAhead
<1>5. m \in 0 .. n /\ (at # 0 => m = at - 1) /\ \A k \in 1 .. m : s[k] = args[k]
  BY ReadsAhead
<1>7. PICK h : Parses(h, s, AllArguments) /\ FlagsParse(s) = h[m] BY ReadsAhead
<1>6. m \in Nat BY <1>1, <1>5
<1>8. \A k \in 0 .. n : f[k].request = Absent BY <1>1, <1>2, RequestStays DEF n
<1> HIDE DEF at, s, m
<1>9. ASSUME NEW k \in 1 .. m PROVE g[k] # [at |-> "end", found |-> k]
  <2> SUFFICES ASSUME g[k] = [at |-> "end", found |-> k] PROVE FALSE OBVIOUS
  <2>1. k \in 1 .. n BY <1>1, <1>5
  <2>2. at = k BY <1>1, <1>3, <2>1, FirstFound
  <2> QED BY <1>5, <2>2
<1> DEFINE P == [k \in 0 .. m |-> {x \in {h[k]} : Alike(h[k], f[k], g[k])}]
<1>10. h[0] \in P[0]
  <2>1. h[0].at = "flag" /\ h[0].flags = {} BY <1>7 DEF Parses
  <2>2. f[0].at = "flag" /\ g[0].at = "flag" BY <1>2, <1>3 DEF Informs, Assigns
  <2>3. Alike(h[0], f[0], g[0]) BY <2>1, <2>2 DEF Alike, ValueFlags
  <2>4. 0 \in 0 .. m BY <1>6
  <2> QED BY <2>3, <2>4
<1>11. ASSUME NEW k \in 1 .. m, h[k - 1] \in P[k - 1] PROVE h[k] \in P[k]
  <2>1. /\ k - 1 \in 0 .. m /\ k \in 0 .. m /\ k \in 1 .. n /\ k - 1 \in 0 .. n /\ k \in 0 .. n
    BY <1>1, <1>5, <1>6
  <2>2. Alike(h[k - 1], f[k - 1], g[k - 1]) BY <1>11, <2>1
  <2>3. /\ h[k - 1] \in ParsedStates(AllArguments) /\ f[k - 1] \in InformedStates
        /\ g[k - 1] \in AssignedStates(n)
    BY <1>2, <1>3, <1>7, <2>1 DEF Parses, Informs, Assigns, m, n
  <2>4. /\ h[k] = Parsed(h[k - 1], args[k]) /\ f[k] = Informed(f[k - 1], args[k])
        /\ g[k] = Assigned(g[k - 1], args[k], k)
    BY <1>2, <1>3, <1>5, <1>7, <2>1 DEF Parses, Informs, Assigns, m, n
  <2>5. Informed(f[k - 1], args[k]).request = Absent BY <1>8, <2>1, <2>4
  <2>6. Assigned(g[k - 1], args[k], k) # [at |-> "end", found |-> k] BY <1>9, <2>4
  <2>7. Alike(h[k], f[k], g[k]) BY <2>2, <2>3, <2>4, <2>5, <2>6, StayAlike
  <2> QED BY <2>1, <2>7
<1>12. \A k \in 0 .. m : h[k] \in P[k]
  <2> HIDE DEF P
  <2> QED BY <1>6, <1>10, <1>11, Carried, ZenonT(60)
<1>13. m \in 0 .. m BY <1>6
<1>14. Alike(h[m], f[m], g[m]) BY <1>12, <1>13
<1> QED BY <1>7, <1>14 DEF Alike, s

\* Whatever the scans make of a line, they agree.
LEMMA LineScanned ==
    ASSUME AbsentIsNoAnswer, NEW args \in Lines, Scan(args)
    PROVE  /\ line' \in LineType /\ line'.scanned = 0 /\ line' # Absent /\ Understood'
           /\ config' = Absent \/ "scopes" \notin DOMAIN config'
<1> DEFINE parse == FlagsParse(ReadAhead(args))
           asked == InformationalRequest(args)
           assigned == AssignmentAt(args) # 0
<1>1. line' = [values |-> parse.values, scanned |-> 0, flags |-> parse.flags, assigned |-> assigned]
  BY DEF Scan, ReadAhead
<1>2. config' = IF asked # Absent THEN Rejected(asked)
                ELSE IF parse.at \in ValueFlags \cup {"error"} THEN Rejected("flag")
                ELSE IF parse.rest THEN Rejected("unexpected argument") ELSE Absent
  BY DEF Scan, ReadAhead
<1>3. asked \in {Absent, "help", "version"}
  <2>1. Len(args) \in Nat BY ArgumentsReadable
  <2>2. PICK f : Informs(f, args) /\ asked = f[Len(args)].request BY <2>1, InformedThrough
  <2>3. Len(args) \in 0 .. Len(args) BY <2>1
  <2> QED BY <2>2, <2>3 DEF Informs, InformedStates
<1>4. parse.values \in Seq(Reads) /\ parse.flags \in SUBSET AllArguments
  BY ReadsAhead DEF ParsedStates
<1>5. asked = Absent => \A flag \in parse.flags : Plain(flag) BY ScansFollow
<1>6. assigned \in BOOLEAN OBVIOUS
<1> HIDE DEF parse, asked, assigned
<1>7. line' \in LineType /\ line'.scanned = 0 /\ line'.flags = parse.flags
  BY <1>1, <1>4, <1>6 DEF LineType
<1>8. line' # Absent
  <2>1. "values" \in DOMAIN line' BY <1>1
  <2> QED BY <2>1 DEF AbsentIsNoAnswer
<1>9. asked # Absent => config' \in {Rejected("help"), Rejected("version")} BY <1>2, <1>3
<1>10. Understood' BY <1>5, <1>7, <1>9 DEF Understood
<1>11. config' = Absent \/ \E cause : config' = Rejected(cause) BY <1>2
<1>12. config' = Absent \/ "scopes" \notin DOMAIN config' BY <1>11 DEF Rejected
<1> QED BY <1>7, <1>8, <1>10, <1>12

-----------------------------------------------------------------------------
(* The values of a command line *)

\* The values of a kind among the first n, each at its first occurrence.
Foremost(v, kind, k) ==
    v[k].kind = kind /\ \A l \in 1 .. k - 1 : v[l].kind = kind => v[l].key # v[k].key
Gathered(q, v, n, kind) ==
    /\ \A i \in DOMAIN q : \E k \in 1 .. n : q[i] = v[k] /\ Foremost(v, kind, k)
    /\ \A k \in 1 .. n : v[k].kind = kind => \E i \in DOMAIN q : q[i].key = v[k].key
    /\ \A i, j \in DOMAIN q : q[i].key = q[j].key => i = j

LEMMA GatherOne ==
    ASSUME NEW v, NEW n \in Nat, NEW kind, NEW q \in Seq(Reads), Gathered(q, v, n, kind),
           v[n + 1].kind = kind, v[n + 1] \in Reads
    PROVE  LET more == IF FirstSeen(q, v[n + 1]) THEN Append(q, v[n + 1]) ELSE q
           IN  more \in Seq(Reads) /\ Gathered(more, v, n + 1, kind)
<1> DEFINE value == v[n + 1]
           m == Len(q)
<1>1. m \in Nat /\ DOMAIN q = 1 .. m OBVIOUS
<1>2. \A k \in 1 .. n + 1 : k \in 1 .. n \/ k = n + 1 OBVIOUS
<1>3. n + 1 \in 1 .. n + 1 /\ \A k \in 1 .. n : k \in 1 .. n + 1 OBVIOUS
<1>4. CASE ~FirstSeen(q, value)
  <2>1. PICK i \in DOMAIN q : q[i].key = value.key BY <1>4 DEF FirstSeen
  <2>2. Gathered(q, v, n + 1, kind)
    <3>1. \A k \in 1 .. n + 1 : v[k].kind = kind => \E j \in DOMAIN q : q[j].key = v[k].key
      BY <1>2, <2>1 DEF Gathered
    <3>2. \A j \in DOMAIN q : \E k \in 1 .. n + 1 : q[j] = v[k] /\ Foremost(v, kind, k)
      BY <1>3 DEF Gathered
    <3> QED BY <3>1, <3>2 DEF Gathered
  <2> QED BY <1>4, <2>2
<1>5. CASE FirstSeen(q, value)
  <2> DEFINE more == Append(q, value)
  <2>1. /\ more \in Seq(Reads) /\ DOMAIN more = 1 .. m + 1 /\ more[m + 1] = value
        /\ \A i \in 1 .. m : more[i] = q[i]
    BY <1>1
  <2>2. \A i \in 1 .. m + 1 : i \in 1 .. m \/ i = m + 1 BY <1>1
  <2>3. m + 1 \in 1 .. m + 1 /\ \A i \in 1 .. m : i \in 1 .. m + 1 BY <1>1
  <2> HIDE DEF m, more
  <2>4. \A i \in 1 .. m : q[i].key # value.key BY <1>1, <1>5 DEF FirstSeen
  <2>5. Foremost(v, kind, n + 1)
    <3>1. (n + 1) - 1 = n OBVIOUS
    <3>2. ASSUME NEW l \in 1 .. n, v[l].kind = kind PROVE v[l].key # v[n + 1].key
      <4>1. PICK i \in DOMAIN q : q[i].key = v[l].key BY <3>2 DEF Gathered
      <4> QED BY <1>1, <2>4, <4>1
    <3> QED BY <3>1, <3>2 DEF Foremost
  <2>6. ASSUME NEW i \in 1 .. m + 1
        PROVE  \E k \in 1 .. n + 1 : more[i] = v[k] /\ Foremost(v, kind, k)
    <3>1. CASE i = m + 1 BY <1>3, <2>1, <2>5, <3>1
    <3>2. CASE i \in 1 .. m
      <4>1. PICK k \in 1 .. n : q[i] = v[k] /\ Foremost(v, kind, k) BY <1>1, <3>2 DEF Gathered
      <4>2. k \in 1 .. n + 1 BY <1>3
      <4> QED BY <2>1, <3>2, <4>1, <4>2
    <3> QED BY <2>2, <3>1, <3>2
  <2>7. ASSUME NEW k \in 1 .. n + 1, v[k].kind = kind
        PROVE  \E i \in 1 .. m + 1 : more[i].key = v[k].key
    <3>1. CASE k = n + 1 BY <2>1, <2>3, <3>1
    <3>2. CASE k \in 1 .. n
      <4>1. PICK i \in DOMAIN q : q[i].key = v[k].key BY <2>7, <3>2 DEF Gathered
      <4> QED BY <1>1, <2>1, <2>3, <4>1
    <3> QED BY <1>2, <3>1, <3>2
  <2>8. ASSUME NEW i \in 1 .. m + 1, NEW j \in 1 .. m + 1, more[i].key = more[j].key PROVE i = j
    <3>1. CASE i \in 1 .. m /\ j \in 1 .. m BY <1>1, <2>1, <2>8, <3>1 DEF Gathered
    <3>2. CASE i = m + 1 /\ j \in 1 .. m BY <2>1, <2>4, <2>8, <3>2
    <3>3. CASE i \in 1 .. m /\ j = m + 1 BY <2>1, <2>4, <2>8, <3>3
    <3> QED BY <2>2, <3>1, <3>2, <3>3
  <2>9. Gathered(more, v, n + 1, kind) BY <2>1, <2>6, <2>7, <2>8 DEF Gathered
  <2> QED BY <1>5, <2>1, <2>9 DEF more
<1> QED BY <1>4, <1>5

LEMMA GatherNone ==
    ASSUME NEW v, NEW n \in Nat, NEW kind, NEW q, Gathered(q, v, n, kind), v[n + 1].kind # kind
    PROVE  Gathered(q, v, n + 1, kind)
<1>1. \A k \in 1 .. n + 1 : k \in 1 .. n \/ k = n + 1 OBVIOUS
<1>2. \A k \in 1 .. n : k \in 1 .. n + 1 OBVIOUS
<1>3. \A k \in 1 .. n + 1 : v[k].kind = kind => \E i \in DOMAIN q : q[i].key = v[k].key
  BY <1>1 DEF Gathered
<1>4. \A i \in DOMAIN q : \E k \in 1 .. n + 1 : q[i] = v[k] /\ Foremost(v, kind, k)
  BY <1>2 DEF Gathered
<1> QED BY <1>3, <1>4 DEF Gathered

\* What the values of a line amount to so far.
RequestedType ==
    [repository : Seq(Reads), bare : Seq(Reads), qualified : Seq(Reads), organization : Seq(Reads)]
ValuesGathered ==
    \A kind \in SelectionKinds : Gathered(requested[kind], line.values, line.scanned, kind)

\* Reading one value gathers it, and nothing else.
LEMMA ValueRead ==
    ASSUME line \in LineType, requested \in RequestedType, ValuesGathered,
           line.scanned < Len(line.values), NEW value, value = line.values[line.scanned + 1],
           value.kind \in SelectionKinds,
           requested' = [requested EXCEPT ![value.kind] =
                           IF FirstSeen(@, value) THEN Append(@, value) ELSE @],
           line' = [line EXCEPT !.scanned = @ + 1]
    PROVE  requested' \in RequestedType /\ ValuesGathered'
<1> DEFINE v == line.values
           n == line.scanned
           q == requested[value.kind]
           more == IF FirstSeen(q, value) THEN Append(q, value) ELSE q
<1>1. v \in Seq(Reads) /\ n \in Nat BY DEF LineType
<1>2. n + 1 \in 1 .. Len(v) BY <1>1
<1>3. value \in Reads /\ value = v[n + 1] BY <1>1, <1>2
<1>4. q \in Seq(Reads) BY DEF RequestedType, SelectionKinds
<1>5. more \in Seq(Reads) /\ Gathered(more, v, n + 1, value.kind)
  <2>1. Gathered(q, v, n, value.kind) BY DEF ValuesGathered
  <2> HIDE DEF v, n, q
  <2> QED BY <1>1, <1>3, <1>4, <2>1, GatherOne
<1>6. requested' = [requested EXCEPT ![value.kind] = more] OBVIOUS
<1> HIDE DEF more
<1>7. requested' \in RequestedType BY <1>5, <1>6 DEF RequestedType, SelectionKinds
<1>8. requested'[value.kind] = more BY <1>6 DEF RequestedType, SelectionKinds
<1>9. \A kind \in SelectionKinds \ {value.kind} : requested'[kind] = requested[kind]
  BY <1>6 DEF RequestedType, SelectionKinds
<1>10. line'.values = v /\ line'.scanned = n + 1 BY DEF LineType
<1>11. \A kind \in SelectionKinds : Gathered(requested[kind], v, n, kind) BY DEF ValuesGathered
<1> HIDE DEF v, n, q
<1>12. ASSUME NEW kind \in SelectionKinds PROVE Gathered(requested'[kind], v, n + 1, kind)
  <2>1. CASE kind = value.kind BY <1>5, <1>8, <2>1
  <2>2. CASE kind # value.kind
    <3>1. Gathered(requested[kind], v, n, kind) BY <1>11
    <3>2. v[n + 1].kind # kind BY <1>3, <2>2
    <3>3. Gathered(requested[kind], v, n + 1, kind) BY <1>1, <3>1, <3>2, GatherNone
    <3> QED BY <1>9, <2>2, <3>3
  <2> QED BY <2>1, <2>2
<1> QED BY <1>7, <1>10, <1>12 DEF ValuesGathered

-----------------------------------------------------------------------------
(* The Scopes of a command line *)

\* A sequence without two of the same key is as long as its keys and its members are many.
LEMMA CountedByKey ==
    ASSUME NEW T, NEW s \in Seq(T), \A i, j \in DOMAIN s : s[i].key = s[j].key => i = j
    PROVE  /\ IsFiniteSet({e.key : e \in ToSet(s)}) /\ Cardinality({e.key : e \in ToSet(s)}) = Len(s)
           /\ IsFiniteSet(ToSet(s)) /\ Cardinality(ToSet(s)) = Len(s)
<1> DEFINE n == Len(s)
           D == 1 .. n
           K == {e.key : e \in ToSet(s)}
           f == [i \in D |-> s[i].key]
           g == [i \in D |-> s[i]]
<1>1. n \in Nat /\ DOMAIN s = D OBVIOUS
<1>2. IsFiniteSet(D) /\ Cardinality(D) = n
  <2> HIDE DEF n
  <2>1. 1 \in Int /\ n \in Int BY <1>1
  <2>2. IsFiniteSet(1 .. n) /\ Cardinality(1 .. n) = IF 1 > n THEN 0 ELSE n - 1 + 1
    BY <2>1, FS_Interval
  <2> QED BY <1>1, <2>2
<1> HIDE DEF D, n
<1>3. f \in [D -> K] /\ g \in [D -> ToSet(s)] BY <1>1 DEF ToSet
<1>4. \A i, j \in D : f[i] = f[j] => i = j BY <1>1
<1>5. \A i, j \in D : g[i] = g[j] => i = j BY <1>1
<1>6. \A k \in K : \E i \in D : f[i] = k BY <1>1 DEF ToSet
<1>7. \A e \in ToSet(s) : \E i \in D : g[i] = e BY <1>1 DEF ToSet
<1> HIDE DEF f, g, K
<1>8. IsFiniteSet(K) /\ Cardinality(K) = n
  BY <1>2, <1>3, <1>4, <1>6, SameSize, ZenonT(60)
<1>9. IsFiniteSet(ToSet(s)) /\ Cardinality(ToSet(s)) = n
  BY <1>2, <1>3, <1>5, <1>7, SameSize, ZenonT(60)
<1> QED BY <1>8, <1>9 DEF K, n

\* Of two sequences whose members of the same key are the same, the first occurrences of
\* both together are all of the first and what the second has that no key of it covers.
FirstByKey(scopesOf) == FirstOf(scopesOf, [k \in DOMAIN scopesOf |-> scopesOf[k].key])

LEMMA FirstOfBoth ==
    ASSUME NEW T, NEW s \in Seq(T), NEW t \in Seq(T),
           \A a, b \in ToSet(s) : a.key = b.key => a = b,
           \A a, b \in ToSet(t) : a.key = b.key => a = b,
           NEW set, set = FirstByKey(s \o t)
    PROVE  /\ set \in Seq(T)
           /\ \A i, j \in DOMAIN set : set[i].key = set[j].key => i = j
           /\ {e.key : e \in ToSet(set)} = {e.key : e \in ToSet(s) \cup ToSet(t)}
           /\ ToSet(set) = ToSet(s) \cup {b \in ToSet(t) : \A a \in ToSet(s) : a.key # b.key}
<1> DEFINE both == s \o t
           keys == [k \in DOMAIN both |-> both[k].key]
           F == FirstIndices(keys)
           m == Len(s)
           n == Len(t)
<1>1. /\ m \in Nat /\ n \in Nat /\ both \in Seq(T) /\ DOMAIN both = 1 .. m + n
      /\ DOMAIN s = 1 .. m /\ DOMAIN t = 1 .. n
  OBVIOUS
<1>2. \A k \in 1 .. m : k \in 1 .. m + n /\ both[k] = s[k] OBVIOUS
<1>3. \A k \in 1 .. m + n : k \in 1 .. m \/ (k > m /\ k - m \in 1 .. n /\ both[k] = t[k - m])
  OBVIOUS
<1>4. DOMAIN keys = DOMAIN both /\ \A k \in DOMAIN both : keys[k] = both[k].key OBVIOUS
<1>5. ToSet(both) = ToSet(s) \cup ToSet(t) BY BothJoined
<1>17. set = FirstOf(both, keys) BY DEF FirstByKey
<1>16. both \in Seq(T) /\ DOMAIN keys = DOMAIN both BY <1>1, <1>4
<1> HIDE DEF both, keys, F, m, n
<1>6. /\ set \in Seq(T) /\ F \in SUBSET DOMAIN both
      /\ \A k, l \in F : keys[k] = keys[l] => k = l
      /\ \A k \in DOMAIN both : \E l \in F : keys[l] = keys[k]
      /\ \E index : Takes(set, both, F, index)
  <2>1. /\ FirstOf(both, keys) \in Seq(T) /\ FirstIndices(keys) \in SUBSET DOMAIN both
        /\ \A k, l \in FirstIndices(keys) : keys[k] = keys[l] => k = l
        /\ \A k \in DOMAIN both : \E l \in FirstIndices(keys) : keys[l] = keys[k]
        /\ \E index : Takes(FirstOf(both, keys), both, FirstIndices(keys), index)
    BY <1>16, FirstOnes
  <2> QED BY <1>17, <2>1, Zenon DEF F
<1>7. PICK index : Takes(set, both, F, index) BY <1>6
<1>8. F \in SUBSET Nat /\ DOMAIN set \subseteq Nat BY <1>1, <1>6
<1>9. ASSUME NEW i \in DOMAIN set, NEW j \in DOMAIN set, set[i].key = set[j].key PROVE i = j
  <2>1. index[i] \in F /\ index[j] \in F /\ set[i] = both[index[i]] /\ set[j] = both[index[j]]
    BY <1>7 DEF Takes
  <2>2. index[i] = index[j] BY <1>4, <1>6, <1>9, <2>1
  <2> QED BY <1>7, <1>8, <2>2, TakesOnce
<1>10. \A e : e \in ToSet(set) <=> \E k \in F : both[k] = e
  <2>1. ASSUME NEW e \in ToSet(set) PROVE \E k \in F : both[k] = e
    <3>1. PICK i \in DOMAIN set : set[i] = e BY DEF ToSet
    <3> QED BY <1>7, <3>1 DEF Takes
  <2>2. ASSUME NEW k \in F PROVE both[k] \in ToSet(set)
    <3>1. PICK i \in DOMAIN set : index[i] = k BY <1>7 DEF Takes
    <3> QED BY <1>7, <3>1 DEF Takes, ToSet
  <2> QED BY <2>1, <2>2
<1>11. {e.key : e \in ToSet(set)} = {e.key : e \in ToSet(s) \cup ToSet(t)}
  <2>1. ASSUME NEW e \in ToSet(set) PROVE e \in ToSet(both) BY <1>6, <1>10 DEF ToSet
  <2>2. ASSUME NEW e \in ToSet(both) PROVE \E d \in ToSet(set) : d.key = e.key
    <3>1. PICK k \in DOMAIN both : both[k] = e BY DEF ToSet
    <3>2. PICK l \in F : keys[l] = keys[k] BY <1>6
    <3>3. both[l].key = e.key BY <1>4, <1>6, <3>1, <3>2
    <3> QED BY <1>10, <3>3
  <2> QED BY <1>5, <2>1, <2>2
<1>12. ASSUME NEW a \in ToSet(s) PROVE a \in ToSet(set)
  <2>1. PICK k \in 1 .. m : s[k] = a BY <1>1 DEF ToSet
  <2>2. k \in DOMAIN both /\ both[k] = a BY <1>1, <1>2, <2>1
  <2>3. PICK l \in F : keys[l] = keys[k] BY <1>6, <2>2
  <2>4. l \in 1 .. m + n /\ both[l].key = a.key BY <1>1, <1>4, <1>6, <2>2, <2>3
  <2>5. CASE l \in 1 .. m
    <3>1. both[l] = s[l] /\ s[l] \in ToSet(s) BY <1>1, <1>2, <2>5 DEF ToSet
    <3>2. both[l] = a BY <2>4, <3>1
    <3> QED BY <1>10, <3>2
  <2>6. CASE l > m
    <3>1. k \in 1 .. l - 1 BY <1>1, <2>1, <2>4, <2>6
    <3>2. keys[k] # keys[l] BY <3>1 DEF F, FirstIndices
    <3> QED BY <2>3, <3>2
  <2> QED BY <1>3, <2>4, <2>5, <2>6
<1>13. ASSUME NEW b \in ToSet(t), \A a \in ToSet(s) : a.key # b.key PROVE b \in ToSet(set)
  <2>1. b \in ToSet(both) BY <1>5
  <2>2. PICK k \in DOMAIN both : both[k] = b BY <2>1 DEF ToSet
  <2>3. PICK l \in F : keys[l] = keys[k] BY <1>6
  <2>4. both[l].key = b.key /\ both[l] \in ToSet(both) BY <1>4, <1>6, <2>2, <2>3 DEF ToSet
  <2>5. both[l] = b BY <1>5, <1>13, <2>4
  <2> QED BY <1>10, <2>5
<1>14. ASSUME NEW e \in ToSet(set)
       PROVE  e \in ToSet(s) \/ (e \in ToSet(t) /\ \A a \in ToSet(s) : a.key # e.key)
  <2>1. PICK l \in F : both[l] = e BY <1>10
  <2>2. l \in 1 .. m + n BY <1>1, <1>6
  <2>3. CASE l \in 1 .. m BY <1>1, <1>2, <2>1, <2>3 DEF ToSet
  <2>4. CASE l > m /\ l - m \in 1 .. n /\ both[l] = t[l - m]
    <3>1. e \in ToSet(t) BY <1>1, <2>1, <2>4 DEF ToSet
    <3>2. ASSUME NEW a \in ToSet(s), a.key = e.key PROVE FALSE
      <4>1. PICK k \in 1 .. m : s[k] = a BY <1>1 DEF ToSet
      <4>2. k \in DOMAIN both /\ both[k] = a /\ l \in DOMAIN both BY <1>1, <1>2, <2>2, <4>1
      <4>3. keys[k] = keys[l] BY <1>4, <2>1, <3>2, <4>2
      <4>4. k \in 1 .. l - 1 BY <1>1, <2>2, <2>4, <4>1
      <4>5. keys[k] # keys[l] BY <4>4 DEF F, FirstIndices
      <4> QED BY <4>3, <4>5
    <3> QED BY <3>1, <3>2
  <2> QED BY <1>3, <2>2, <2>3, <2>4
<1>15. ToSet(set) = ToSet(s) \cup {b \in ToSet(t) : \A a \in ToSet(s) : a.key # b.key}
  BY <1>12, <1>13, <1>14
<1> QED BY <1>6, <1>9, <1>11, <1>15

\* What was gathered: values of their kinds, no two of a kind with the same key.
RequestedSound ==
    /\ requested \in RequestedType
    /\ \A kind \in SelectionKinds :
         /\ \A i \in DOMAIN requested[kind] : requested[kind][i].kind = kind
         /\ \A i, j \in DOMAIN requested[kind] :
              requested[kind][i].key = requested[kind][j].key => i = j

\* The Scopes of the product and those of the qualified paths.
Beside == IF requested.bare = <<>> THEN <<Whole>> ELSE requested.bare
Produced == {ScopeOf(r, m) : r \in ToSet(requested.repository), m \in ToSet(Beside)}
Worded(q) == [key |-> q.key, spelling |-> q.spelling]
SpelledOut == {Worded(q) : q \in ToSet(requested.qualified)}
ByKey(scopesOf) == \A a, b \in scopesOf : a.key = b.key => a = b

\* A member of one of the sequences.
LEMMA GatheredRead ==
    ASSUME RequestedSound, NEW kind \in SelectionKinds
    PROVE  /\ requested[kind] \in Seq(Reads)
           /\ \A r \in ToSet(requested[kind]) : r \in Reads /\ r.kind = kind
           /\ ByKey(ToSet(requested[kind]))
<1>1. requested[kind] \in Seq(Reads) BY DEF RequestedSound, RequestedType, SelectionKinds
<1>2. \A i \in DOMAIN requested[kind] : requested[kind][i] \in Reads /\ requested[kind][i].kind = kind
  BY <1>1 DEF RequestedSound
<1>3. \A i, j \in DOMAIN requested[kind] :
        requested[kind][i].key = requested[kind][j].key => i = j
  BY DEF RequestedSound
<1> QED BY <1>1, <1>2, <1>3 DEF ToSet, ByKey

\* What stands beside a repository.
LEMMA BesideRead ==
    ASSUME RequestedSound
    PROVE  /\ Beside \in Seq(ToSet(Beside)) /\ ByKey(ToSet(Beside))
           /\ \A i, j \in DOMAIN Beside : Beside[i].key = Beside[j].key => i = j
           /\ requested.bare = <<>> => Beside = <<Whole>>
           /\ requested.bare # <<>> =>
                /\ Beside = requested.bare
                /\ \A m \in ToSet(Beside) : m.key # NoMatcher
<1>1. /\ requested.bare \in Seq(Reads) /\ ByKey(ToSet(requested.bare))
      /\ \A r \in ToSet(requested.bare) : r \in Reads /\ r.kind = "bare"
  <2>1. "bare" \in SelectionKinds BY DEF SelectionKinds
  <2> QED BY <2>1, GatheredRead
<1>2. \A i, j \in DOMAIN requested.bare : requested.bare[i].key = requested.bare[j].key => i = j
  <2>1. "bare" \in SelectionKinds BY DEF SelectionKinds
  <2> QED BY <2>1 DEF RequestedSound
<1>3. CASE requested.bare = <<>>
  <2>1. Beside = <<Whole>> BY <1>3 DEF Beside
  <2>2. DOMAIN <<Whole>> = {1} /\ <<Whole>>[1] = Whole OBVIOUS
  <2>3. ToSet(<<Whole>>) = {Whole} BY <2>2 DEF ToSet
  <2>4. <<Whole>> \in Seq({Whole}) OBVIOUS
  <2> QED BY <1>3, <2>1, <2>2, <2>3, <2>4 DEF ByKey
<1>4. CASE requested.bare # <<>>
  <2>1. Beside = requested.bare BY <1>4 DEF Beside
  <2>2. \A m \in Reads : m.kind = "bare" => m.key # NoMatcher
    BY ArgumentsAssumption DEF Reads
  <2>3. requested.bare \in Seq(ToSet(requested.bare))
    <3> DEFINE b == requested.bare
    <3>1. b = [i \in 1 .. Len(b) |-> b[i]] /\ Len(b) \in Nat BY <1>1
    <3>2. \A i \in 1 .. Len(b) : b[i] \in ToSet(b) BY <1>1 DEF ToSet
    <3> HIDE DEF b
    <3>3. b \in Seq(ToSet(b)) BY <3>1, <3>2
    <3> QED BY <3>3 DEF b
  <2> QED BY <1>1, <1>2, <1>4, <2>1, <2>2, <2>3
<1> QED BY <1>3, <1>4

\* Every Scope of the product and every qualified path has its key from its parts.
LEMMA ScopesByKey ==
    ASSUME RequestedSound
    PROVE  ByKey(Produced) /\ ByKey(SpelledOut)
<1>1. ByKey(ToSet(requested.repository)) /\ ByKey(ToSet(requested.qualified))
  <2>1. "repository" \in SelectionKinds /\ "qualified" \in SelectionKinds BY DEF SelectionKinds
  <2> QED BY <2>1, GatheredRead
<1>2. ByKey(ToSet(Beside)) BY BesideRead
<1>3. ASSUME NEW a \in Produced, NEW b \in Produced, a.key = b.key PROVE a = b
  <2>1. PICK r \in ToSet(requested.repository), m \in ToSet(Beside) : a = ScopeOf(r, m)
    BY DEF Produced
  <2>2. PICK s \in ToSet(requested.repository), n \in ToSet(Beside) : b = ScopeOf(s, n)
    BY DEF Produced
  <2>3. a.key = <<r.key, m.key>> /\ b.key = <<s.key, n.key>> BY <2>1, <2>2 DEF ScopeOf
  <2>4. r.key = s.key /\ m.key = n.key
    <3>1. <<r.key, m.key>> = <<s.key, n.key>> BY <1>3, <2>3
    <3> QED BY <3>1
  <2>5. r = s /\ m = n BY <1>1, <1>2, <2>4 DEF ByKey
  <2> QED BY <2>1, <2>2, <2>5
<1>4. ASSUME NEW a \in SpelledOut, NEW b \in SpelledOut, a.key = b.key PROVE a = b
  <2>1. PICK p \in ToSet(requested.qualified) : a = Worded(p) BY DEF SpelledOut
  <2>2. PICK q \in ToSet(requested.qualified) : b = Worded(q) BY DEF SpelledOut
  <2>3. p.key = q.key BY <1>4, <2>1, <2>2 DEF Worded
  <2> QED BY <1>1, <2>1, <2>2, <2>3 DEF ByKey
<1> QED BY <1>3, <1>4 DEF ByKey

\* The Scopes are produced repository by repository, and then the qualified paths.
LEMMA ScopesProduced ==
    ASSUME RequestedSound
    PROVE  \E s, t : /\ ExpandSelections = s \o t
                     /\ s \in Seq(Produced \cup SpelledOut) /\ ToSet(s) = Produced
                     /\ t \in Seq(Produced \cup SpelledOut) /\ ToSet(t) = SpelledOut
<1> DEFINE R == requested.repository
           Q == requested.qualified
           T == Produced \cup SpelledOut
           Of(r) == [k \in DOMAIN Beside |-> ScopeOf(r, Beside[k])]
           rows == [k \in DOMAIN R |-> Of(R[k])]
           t == [k \in DOMAIN Q |-> Worded(Q[k])]
<1>1. R \in Seq(Reads) /\ Q \in Seq(Reads)
  <2>1. "repository" \in SelectionKinds /\ "qualified" \in SelectionKinds BY DEF SelectionKinds
  <2> QED BY <2>1, GatheredRead
<1>2. Beside \in Seq(ToSet(Beside)) BY BesideRead
<1>3. ExpandSelections = FlattenSeq(rows) \o t
  BY DEF ExpandSelections, Beside, Worded
<1>4. /\ Len(R) \in Nat /\ DOMAIN R = 1 .. Len(R) /\ Len(Q) \in Nat /\ DOMAIN Q = 1 .. Len(Q)
      /\ Len(Beside) \in Nat /\ DOMAIN Beside = 1 .. Len(Beside)
  BY <1>1, <1>2
<1>5. Produced \in SUBSET T /\ SpelledOut \in SUBSET T OBVIOUS
<1> HIDE DEF T
<1>6. ASSUME NEW k \in DOMAIN R PROVE Of(R[k]) \in Seq(T)
  <2>1. \A j \in DOMAIN Beside : ScopeOf(R[k], Beside[j]) \in T
    BY <1>5 DEF Produced, ToSet
  <2> DEFINE row == [j \in 1 .. Len(Beside) |-> ScopeOf(R[k], Beside[j])]
  <2>2. Of(R[k]) = row BY <1>4
  <2>3. \A j \in 1 .. Len(Beside) : ScopeOf(R[k], Beside[j]) \in T BY <1>4, <2>1
  <2>4. row \in Seq(T) BY <1>4, <2>3
  <2> QED BY <2>2, <2>4
<1>7. rows \in Seq(Seq(T)) /\ DOMAIN rows = DOMAIN R
  <2> HIDE DEF Of
  <2>1. rows = [k \in 1 .. Len(R) |-> Of(R[k])] BY <1>4
  <2>2. \A k \in 1 .. Len(R) : Of(R[k]) \in Seq(T) BY <1>4, <1>6
  <2>3. [k \in 1 .. Len(R) |-> Of(R[k])] \in Seq(Seq(T)) BY <1>4, <2>2
  <2> QED BY <2>1, <2>3
<1>8. FlattenSeq(rows) \in Seq(T) /\ ToSet(FlattenSeq(rows)) = UNION {ToSet(rows[k]) : k \in DOMAIN rows}
  BY <1>7, FlattenTyped, FlattenHas
<1>9. UNION {ToSet(rows[k]) : k \in DOMAIN rows} = Produced
  <2>1. ASSUME NEW k \in DOMAIN R, NEW x PROVE x \in ToSet(rows[k]) <=> \E j \in DOMAIN Beside : x = ScopeOf(R[k], Beside[j])
    <3>1. rows[k] = Of(R[k]) OBVIOUS
    <3>2. DOMAIN Of(R[k]) = DOMAIN Beside /\ \A j \in DOMAIN Beside : Of(R[k])[j] = ScopeOf(R[k], Beside[j])
      OBVIOUS
    <3> HIDE DEF rows, Of
    <3> QED BY <3>1, <3>2 DEF ToSet
  <2> HIDE DEF rows, R
  <2>2. \A x : x \in UNION {ToSet(rows[k]) : k \in DOMAIN rows}
               <=> \E k \in DOMAIN R, j \in DOMAIN Beside : x = ScopeOf(R[k], Beside[j])
    BY <1>7, <2>1
  <2>3. \A x : x \in Produced <=> \E k \in DOMAIN R, j \in DOMAIN Beside : x = ScopeOf(R[k], Beside[j])
    BY DEF Produced, ToSet, R
  <2> QED BY <2>2, <2>3
<1>10. t \in Seq(T) /\ ToSet(t) = SpelledOut
  <2>1. t = [k \in 1 .. Len(Q) |-> Worded(Q[k])] BY <1>4
  <2>2. \A k \in DOMAIN Q : Worded(Q[k]) \in SpelledOut BY DEF SpelledOut, ToSet
  <2>3. [k \in 1 .. Len(Q) |-> Worded(Q[k])] \in Seq(T) BY <1>4, <1>5, <2>2
  <2>4. DOMAIN t = DOMAIN Q /\ \A k \in DOMAIN Q : t[k] = Worded(Q[k]) OBVIOUS
  <2> HIDE DEF t
  <2>5. ToSet(t) = SpelledOut BY <2>4 DEF SpelledOut, ToSet
  <2> QED BY <2>1, <2>3, <2>5
<1> HIDE DEF rows, t
<1>11. \E s, u : /\ ExpandSelections = s \o u
                 /\ s \in Seq(T) /\ ToSet(s) = Produced
                 /\ u \in Seq(T) /\ ToSet(u) = SpelledOut
  BY <1>3, <1>8, <1>9, <1>10
<1> QED BY <1>11 DEF T

\* The set of Scopes has every Scope of the product, and the qualified paths it does not
\* cover; it is as long as they are many, and as their keys are.
LEMMA SetOfScopes ==
    ASSUME RequestedSound
    PROVE  LET set == ScopeSetOf(ExpandSelections)
               keys == {p.key : p \in Produced} \cup {q.key : q \in SpelledOut}
           IN  /\ ToSet(set) = Produced \cup {q \in SpelledOut : \A p \in Produced : p.key # q.key}
               /\ IsFiniteSet(ToSet(set)) /\ Cardinality(ToSet(set)) = Len(set)
               /\ IsFiniteSet(keys) /\ Cardinality(keys) = Len(set)
<1> DEFINE T == Produced \cup SpelledOut
           set == ScopeSetOf(ExpandSelections)
<1>1. PICK s, t : /\ ExpandSelections = s \o t
                  /\ s \in Seq(T) /\ ToSet(s) = Produced /\ t \in Seq(T) /\ ToSet(t) = SpelledOut
  BY ScopesProduced
<1>2. /\ \A a, b \in ToSet(s) : a.key = b.key => a = b
      /\ \A a, b \in ToSet(t) : a.key = b.key => a = b
  BY <1>1, ScopesByKey DEF ByKey
<1>3. set = FirstByKey(s \o t) BY <1>1 DEF ScopeSetOf, FirstByKey
<1> HIDE DEF set, T
<1>4. /\ set \in Seq(T) /\ \A i, j \in DOMAIN set : set[i].key = set[j].key => i = j
      /\ {e.key : e \in ToSet(set)} = {e.key : e \in ToSet(s) \cup ToSet(t)}
      /\ ToSet(set) = ToSet(s) \cup {b \in ToSet(t) : \A a \in ToSet(s) : a.key # b.key}
  BY <1>1, <1>2, <1>3, FirstOfBoth
<1>5. /\ IsFiniteSet({e.key : e \in ToSet(set)})
      /\ Cardinality({e.key : e \in ToSet(set)}) = Len(set)
      /\ IsFiniteSet(ToSet(set)) /\ Cardinality(ToSet(set)) = Len(set)
  BY <1>4, CountedByKey
<1>6. {e.key : e \in ToSet(set)} = {p.key : p \in Produced} \cup {q.key : q \in SpelledOut}
  BY <1>1, <1>4
<1>7. ToSet(set) = Produced \cup {q \in SpelledOut : \A p \in Produced : p.key # q.key}
  BY <1>1, <1>4
<1> QED BY <1>5, <1>6, <1>7 DEF set

\* What was gathered has as many keys as values, and the key of a qualified path is a pair.
LEMMA KeysCounted ==
    ASSUME RequestedSound, NEW kind \in SelectionKinds
    PROVE  /\ IsFiniteSet({r.key : r \in ToSet(requested[kind])})
           /\ Cardinality({r.key : r \in ToSet(requested[kind])}) = Len(requested[kind])
<1> DEFINE q == requested[kind]
<1>1. q \in Seq(Reads) /\ \A i, j \in DOMAIN q : q[i].key = q[j].key => i = j
  BY GatheredRead DEF RequestedSound
<1> HIDE DEF q
<1>2. IsFiniteSet({r.key : r \in ToSet(q)}) /\ Cardinality({r.key : r \in ToSet(q)}) = Len(q)
  BY <1>1, CountedByKey
<1> QED BY <1>2 DEF q

LEMMA QualifiedKeys ==
    ASSUME RequestedSound, NEW q \in ToSet(requested.qualified)
    PROVE  q.key = <<q.key[1], q.key[2]>> /\ q.key[2] # NoMatcher
<1>1. q \in Reads /\ q.kind = "qualified"
  <2>1. "qualified" \in SelectionKinds BY DEF SelectionKinds
  <2> QED BY <2>1, GatheredRead
<1> QED BY <1>1, ArgumentsAssumption DEF Reads

\* The keys of the product are the pairs of the keys.
LEMMA ProductOfKeys ==
    ASSUME RequestedSound
    PROVE  LET product == {p.key : p \in Produced}
               qualified == {q.key : q \in SpelledOut}
           IN  /\ product = {r.key : r \in ToSet(requested.repository)} \X {m.key : m \in ToSet(Beside)}
               /\ IsFiniteSet(product) /\ Cardinality(product) = Len(requested.repository) * Len(Beside)
               /\ qualified = {q.key : q \in ToSet(requested.qualified)}
               /\ IsFiniteSet(qualified) /\ Cardinality(qualified) = Len(requested.qualified)
<1> DEFINE product == {p.key : p \in Produced}
           qualified == {q.key : q \in SpelledOut}
           A == {r.key : r \in ToSet(requested.repository)}
           B == {m.key : m \in ToSet(Beside)}
<1>1. product = A \X B
  <2>1. \A r, m : ScopeOf(r, m).key = <<r.key, m.key>> BY DEF ScopeOf
  <2>2. \A x : x \in product <=> \E r \in ToSet(requested.repository), m \in ToSet(Beside) :
                                   x = <<r.key, m.key>>
    <3>1. ASSUME NEW x \in product
          PROVE  \E r \in ToSet(requested.repository), m \in ToSet(Beside) : x = <<r.key, m.key>>
      <4>1. PICK p \in Produced : x = p.key OBVIOUS
      <4>2. PICK r \in ToSet(requested.repository), m \in ToSet(Beside) : p = ScopeOf(r, m)
        BY DEF Produced
      <4>3. x = <<r.key, m.key>> BY <2>1, <4>1, <4>2
      <4> QED BY <4>3
    <3>2. ASSUME NEW r \in ToSet(requested.repository), NEW m \in ToSet(Beside)
          PROVE  <<r.key, m.key>> \in product
      <4>1. ScopeOf(r, m) \in Produced BY DEF Produced
      <4> QED BY <2>1, <4>1
    <3> HIDE DEF product
    <3> QED BY <3>1, <3>2
  <2>3. \A x : x \in A \X B <=> \E a \in A, b \in B : x = <<a, b>> OBVIOUS
  <2> QED BY <2>2, <2>3
<1>2. qualified = {q.key : q \in ToSet(requested.qualified)}
  <2>1. \A q : Worded(q).key = q.key BY DEF Worded
  <2> QED BY <2>1 DEF SpelledOut
<1>3. "repository" \in SelectionKinds /\ "qualified" \in SelectionKinds BY DEF SelectionKinds
<1>4. IsFiniteSet(A) /\ Cardinality(A) = Len(requested.repository) BY <1>3, KeysCounted
<1>5. IsFiniteSet(B) /\ Cardinality(B) = Len(Beside)
  <2>1. /\ Beside \in Seq(ToSet(Beside))
        /\ \A i, j \in DOMAIN Beside : Beside[i].key = Beside[j].key => i = j
    BY BesideRead
  <2> QED BY <2>1, CountedByKey
<1>6. IsFiniteSet(qualified) /\ Cardinality(qualified) = Len(requested.qualified)
  BY <1>2, <1>3, KeysCounted
<1> HIDE DEF A, B, product
<1>7. IsFiniteSet(product) /\ Cardinality(product) = Cardinality(A) * Cardinality(B)
  BY <1>1, <1>4, <1>5, FS_Product
<1> QED BY <1>1, <1>2, <1>4, <1>5, <1>6, <1>7 DEF A, B, product

\* The Scopes are as many as are counted before they are produced.
LEMMA CountSound ==
    ASSUME RequestedSound
    PROVE  CountIsOfTheProduct
<1> DEFINE R == requested.repository
           Q == requested.qualified
           product == {p.key : p \in Produced}
           qualified == {q.key : q \in SpelledOut}
           A == {r.key : r \in ToSet(R)}
           B == {m.key : m \in ToSet(Beside)}
<1>1. /\ product = A \X B /\ IsFiniteSet(product) /\ Cardinality(product) = Len(R) * Len(Beside)
      /\ qualified = {q.key : q \in ToSet(Q)}
      /\ IsFiniteSet(qualified) /\ Cardinality(qualified) = Len(Q)
  BY ProductOfKeys
<1>2. Cardinality(product \cup qualified) = Len(ScopeSetOf(ExpandSelections)) BY SetOfScopes
<1>3. Len(R) \in Nat /\ Len(Q) \in Nat /\ Len(requested.bare) \in Nat /\ Q \in Seq(Reads)
      /\ (Len(requested.bare) = 0 <=> requested.bare = <<>>)
  BY DEF RequestedSound, RequestedType
<1>4. \A q \in ToSet(Q) : q.key = <<q.key[1], q.key[2]>> /\ q.key[2] # NoMatcher
  BY QualifiedKeys
<1>5. /\ requested.bare = <<>> => Beside = <<Whole>>
      /\ requested.bare # <<>> => Beside = requested.bare
  BY BesideRead
<1> HIDE DEF product, qualified, A, B, R, Q
<1>6. Len(ScopeSetOf(ExpandSelections))
        = Len(R) * Len(Beside) + Len(Q) - Cardinality(product \cap qualified)
  BY <1>1, <1>2, FS_Union
<1>7. CASE requested.bare = <<>>
  <2>1. Len(Beside) = 1 BY <1>5, <1>7
  <2>2. B = {NoMatcher}
    <3>1. DOMAIN <<Whole>> = {1} /\ <<Whole>>[1] = Whole OBVIOUS
    <3>2. ToSet(Beside) = {Whole} BY <1>5, <1>7, <3>1 DEF ToSet
    <3> QED BY <3>2 DEF B, Whole
  <2>3. product \cap qualified = {} BY <1>1, <1>4, <2>2
  <2>4. Cardinality(product \cap qualified) = 0 BY <2>3, FS_EmptySet
  <2>5. ScopeCount = Len(R) + Len(Q) BY <1>3, <1>7 DEF ScopeCount, R, Q
  <2>6. Len(R) * Len(Beside) = Len(R) BY <1>3, <2>1
  <2> QED BY <1>3, <1>6, <2>4, <2>5, <2>6 DEF CountIsOfTheProduct
<1>8. CASE requested.bare # <<>>
  <2> DEFINE Covered == {k \in DOMAIN Q : /\ \E r \in ToSet(R) : r.key = Q[k].key[1]
                                          /\ \E m \in ToSet(Beside) : m.key = Q[k].key[2]}
             f == [k \in Covered |-> Q[k].key]
  <2>1. ScopeCount = Len(R) * Len(Beside) + Len(Q) - Cardinality(Covered)
    BY <1>3, <1>5, <1>8 DEF ScopeCount, R, Q
  <2>2. DOMAIN Q = 1 .. Len(Q) /\ \A k \in DOMAIN Q : Q[k] \in ToSet(Q) BY <1>3 DEF ToSet
  <2>3. IsFiniteSet(Covered)
    <3>1. IsFiniteSet(1 .. Len(Q)) BY <1>3, FS_Interval
    <3>2. Covered \in SUBSET (1 .. Len(Q)) BY <2>2
    <3> HIDE DEF Covered
    <3> QED BY <3>1, <3>2, FS_Subset
  <2>4. ASSUME NEW k \in DOMAIN Q PROVE k \in Covered <=> Q[k].key \in product
    <3>1. Q[k].key = <<Q[k].key[1], Q[k].key[2]>> BY <1>4, <2>2
    <3>2. Q[k].key \in A \X B <=> Q[k].key[1] \in A /\ Q[k].key[2] \in B BY <3>1
    <3>3. Q[k].key[1] \in A <=> \E r \in ToSet(R) : r.key = Q[k].key[1] BY DEF A
    <3>4. Q[k].key[2] \in B <=> \E m \in ToSet(Beside) : m.key = Q[k].key[2] BY DEF B
    <3> QED BY <1>1, <3>2, <3>3, <3>4
  <2>5. Covered \in SUBSET DOMAIN Q OBVIOUS
  <2> HIDE DEF Covered
  <2>6. f \in [Covered -> product \cap qualified] BY <1>1, <2>2, <2>4, <2>5
  <2>7. \A a, b \in Covered : f[a] = f[b] => a = b
    <3>1. \A i, j \in DOMAIN Q : Q[i].key = Q[j].key => i = j
      BY DEF RequestedSound, SelectionKinds, Q
    <3> QED BY <2>5, <3>1
  <2>8. \A t \in product \cap qualified : \E a \in Covered : f[a] = t
    <3> TAKE t \in product \cap qualified
    <3>1. PICK q \in ToSet(Q) : t = q.key BY <1>1
    <3>2. PICK k \in DOMAIN Q : Q[k] = q BY DEF ToSet
    <3> QED BY <2>4, <3>1, <3>2
  <2> HIDE DEF f
  <2>9. Cardinality(product \cap qualified) = Cardinality(Covered)
    BY <2>3, <2>6, <2>7, <2>8, SameSize, ZenonT(60)
  <2> QED BY <1>6, <2>1, <2>9 DEF CountIsOfTheProduct
<1> QED BY <1>7, <1>8

\* What was gathered of a whole line is what stands at the first occurrences.
LEMMA GatheredAll ==
    ASSUME NEW v \in Seq(Reads), NEW kind, NEW q, Gathered(q, v, Len(v), kind)
    PROVE  ToSet(q) = {v[k] : k \in FirstAsked(v, kind)}
<1> DEFINE n == Len(v)
<1>1. n \in Nat /\ DOMAIN v = 1 .. n OBVIOUS
<1> HIDE DEF n
<1>2. \A k \in DOMAIN v : k \in FirstAsked(v, kind) <=> Foremost(v, kind, k)
  <2> TAKE k \in DOMAIN v
  <2>1. ASSUME k \in FirstAsked(v, kind) PROVE Foremost(v, kind, k)
    <3>1. ASSUME NEW l \in 1 .. k - 1, v[l].kind = kind, v[l].key = v[k].key PROVE FALSE
      <4>1. l \in DOMAIN v /\ ~(k <= l) BY <1>1
      <4>2. l \in Asked(v, kind) BY <3>1, <4>1 DEF Asked
      <4> QED BY <2>1, <3>1, <4>1, <4>2 DEF FirstAsked
    <3>2. v[k].kind = kind BY <2>1 DEF FirstAsked, Asked
    <3> QED BY <3>1, <3>2 DEF Foremost
  <2>2. ASSUME Foremost(v, kind, k) PROVE k \in FirstAsked(v, kind)
    <3>1. k \in Asked(v, kind) BY <2>2 DEF Foremost, Asked
    <3>2. ASSUME NEW l \in Asked(v, kind), v[l].key = v[k].key PROVE k <= l
      <4>1. l \in 1 .. n /\ k \in 1 .. n /\ v[l].kind = kind BY <1>1 DEF Asked
      <4>2. l \notin 1 .. k - 1 BY <2>2, <3>2, <4>1 DEF Foremost
      <4> QED BY <1>1, <4>1, <4>2
    <3> QED BY <3>1, <3>2 DEF FirstAsked
  <2> QED BY <2>1, <2>2
<1>3. FirstAsked(v, kind) \in SUBSET DOMAIN v BY DEF FirstAsked, Asked
<1>4. ASSUME NEW e \in ToSet(q) PROVE \E k \in FirstAsked(v, kind) : v[k] = e
  <2>1. PICK i \in DOMAIN q : q[i] = e BY DEF ToSet
  <2>2. PICK k \in 1 .. n : q[i] = v[k] /\ Foremost(v, kind, k) BY DEF Gathered, n
  <2> QED BY <1>1, <1>2, <2>1, <2>2
<1>5. ASSUME NEW k \in FirstAsked(v, kind) PROVE v[k] \in ToSet(q)
  <2>1. k \in 1 .. n /\ k \in Asked(v, kind) BY <1>1, <1>3 DEF FirstAsked
  <2>2. PICK i \in DOMAIN q : q[i].key = v[k].key BY <2>1 DEF Gathered, n, Asked
  <2>3. PICK l \in 1 .. n : q[i] = v[l] /\ Foremost(v, kind, l) BY DEF Gathered, n
  <2>4. l \in FirstAsked(v, kind) /\ l \in Asked(v, kind) BY <1>1, <1>2, <2>3 DEF FirstAsked
  <2>5. k <= l /\ l <= k BY <2>1, <2>2, <2>3, <2>4 DEF FirstAsked
  <2>6. k = l BY <2>1, <2>5
  <2> QED BY <2>3, <2>6 DEF ToSet
<1> QED BY <1>4, <1>5

\* An accepted line, as the answer and the values behind it.
AcceptedLine == config # Absent /\ "scopes" \in DOMAIN config
Answered ==
    /\ line # Absent /\ line.scanned = Len(line.values)
    /\ config.scopes = ScopeSetOf(ExpandSelections)
    /\ config.organizations = requested.organization
    /\ Len(requested.organization) <= MaxOrganizationSelectors
LineInv ==
    /\ RequestedSound
    /\ line = Absent => /\ config = Absent
                        /\ \A kind \in SelectionKinds : requested[kind] = <<>>
    /\ line # Absent => /\ line \in LineType /\ line.scanned <= Len(line.values)
                        /\ Understood /\ ValuesGathered
    /\ AcceptedLine => Answered

\* What is accepted is what the values of the line ask for.
LEMMA AcceptedIsSound ==
    ASSUME LineInv
    PROVE  SelectionIsRequested
<1> SUFFICES ASSUME AcceptedLine
             PROVE  /\ ToSet(config.scopes) =
                         ProductAsked \cup {q \in QualifiedAsked : \A p \in ProductAsked : p.key # q.key}
                    /\ Len(config.scopes) = Cardinality(ToSet(config.scopes))
                    /\ ToSet(config.organizations) = AskedFor("organization")
                    /\ Len(config.organizations) <= MaxOrganizationSelectors
  BY Zenon DEF SelectionIsRequested, AcceptedLine
<1> DEFINE v == line.values
           set == ScopeSetOf(ExpandSelections)
<1>1. /\ line # Absent /\ line.scanned = Len(v) /\ config.scopes = set
      /\ config.organizations = requested.organization
      /\ Len(requested.organization) <= MaxOrganizationSelectors
  BY DEF LineInv, Answered
<1>2. v \in Seq(Reads) /\ RequestedSound
      /\ \A kind \in SelectionKinds : Gathered(requested[kind], v, Len(v), kind)
  BY <1>1 DEF LineInv, LineType, ValuesGathered
<1>3. /\ "repository" \in SelectionKinds /\ "bare" \in SelectionKinds
      /\ "qualified" \in SelectionKinds /\ "organization" \in SelectionKinds
  BY DEF SelectionKinds
<1>4. \A kind \in SelectionKinds : ToSet(requested[kind]) = AskedFor(kind)
  <2> HIDE DEF v
  <2> QED BY <1>2, GatheredAll DEF AskedFor, v
<1>5. ToSet(Beside) = IF AskedFor("bare") = {} THEN {Whole} ELSE AskedFor("bare")
  <2>1. requested.bare \in Seq(Reads) BY <1>2 DEF RequestedSound, RequestedType
  <2>2. ToSet(requested.bare) = {} <=> requested.bare = <<>>
    <3>1. DOMAIN requested.bare = 1 .. Len(requested.bare) /\ Len(requested.bare) \in Nat BY <2>1
    <3>2. requested.bare # <<>> => 1 \in DOMAIN requested.bare BY <2>1
    <3>3. requested.bare = <<>> => DOMAIN requested.bare = {} OBVIOUS
    <3> QED BY <3>2, <3>3 DEF ToSet
  <2>3. CASE requested.bare = <<>>
    <3>1. DOMAIN <<Whole>> = {1} /\ <<Whole>>[1] = Whole OBVIOUS
    <3>2. ToSet(<<Whole>>) = {Whole} BY <3>1 DEF ToSet
    <3> QED BY <1>3, <1>4, <2>2, <2>3, <3>2 DEF Beside
  <2>4. CASE requested.bare # <<>> BY <1>3, <1>4, <2>2, <2>4 DEF Beside
  <2> QED BY <2>3, <2>4
<1>6. Produced = ProductAsked
  <2>1. ToSet(requested.repository) = AskedFor("repository") BY <1>3, <1>4
  <2> DEFINE Of(A, B) == {ScopeOf(r, m) : r \in A, m \in B}
             M == IF AskedFor("bare") = {} THEN {Whole} ELSE AskedFor("bare")
  <2>2. Produced = Of(ToSet(requested.repository), ToSet(Beside)) BY DEF Produced
  <2>3. ProductAsked = Of(AskedFor("repository"), M) BY DEF ProductAsked
  <2>4. ToSet(Beside) = M BY <1>5
  <2> HIDE DEF Of, M
  <2> QED BY <2>1, <2>2, <2>3, <2>4
<1>7. SpelledOut = QualifiedAsked
  <2>1. ToSet(requested.qualified) = AskedFor("qualified") BY <1>3, <1>4
  <2> QED BY <2>1, Zenon DEF SpelledOut, Worded, QualifiedAsked
<1>8. /\ ToSet(set) = Produced \cup {q \in SpelledOut : \A p \in Produced : p.key # q.key}
      /\ Cardinality(ToSet(set)) = Len(set)
  BY <1>2, SetOfScopes DEF set
<1> HIDE DEF v, set
<1>9. ToSet(config.organizations) = AskedFor("organization") BY <1>1, <1>3, <1>4
<1> QED BY <1>1, <1>6, <1>7, <1>8, <1>9

-----------------------------------------------------------------------------
(* Every step of reading a line *)

LEMMA LineBegins ==
    ASSUME AbsentIsNoAnswer, LineInv, line = Absent, NEW args \in Lines, Scan(args)
    PROVE  LineInv'
<1>1. /\ line' \in LineType /\ line'.scanned = 0 /\ line' # Absent /\ Understood'
      /\ config' = Absent \/ "scopes" \notin DOMAIN config'
  BY LineScanned
<1>2. requested' = requested BY DEF Scan
<1>3. RequestedSound' BY <1>2 DEF LineInv, RequestedSound
<1>4. line'.values \in Seq(Reads) BY <1>1 DEF LineType
<1>5. line'.scanned <= Len(line'.values) BY <1>1, <1>4
<1>6. \A kind \in SelectionKinds : requested'[kind] = <<>> BY <1>2 DEF LineInv
<1>7. ASSUME NEW kind \in SelectionKinds
      PROVE  Gathered(requested'[kind], line'.values, line'.scanned, kind)
  <2>1. DOMAIN requested'[kind] = {} BY <1>6
  <2>2. \A k \in 1 .. 0 : FALSE OBVIOUS
  <2> QED BY <1>1, <2>1, <2>2 DEF Gathered
<1>8. ValuesGathered' BY <1>7 DEF ValuesGathered
<1>9. ~AcceptedLine' BY <1>1 DEF AcceptedLine
<1> QED BY <1>1, <1>3, <1>5, <1>8, <1>9 DEF LineInv

LEMMA LineValidates ==
    ASSUME AbsentIsNoAnswer, LineInv, Validate
    PROVE  LineInv'
<1>1. line # Absent /\ config = Absent /\ line.scanned < Len(line.values) BY DEF Validate
<1>2. line \in LineType /\ requested \in RequestedType /\ Understood /\ ValuesGathered /\ RequestedSound
  BY <1>1 DEF LineInv, RequestedSound
<1>3. \A flag \in line.flags : Plain(flag)
  <2>1. "error" \in DOMAIN Rejected("help") /\ "error" \in DOMAIN Rejected("version") BY DEF Rejected
  <2>2. config # Rejected("help") /\ config # Rejected("version") BY <1>1, <2>1 DEF AbsentIsNoAnswer
  <2> QED BY <1>2, <2>2 DEF Understood
<1> DEFINE value == line.values[line.scanned + 1]
<1>4. line.values \in Seq(Reads) /\ line.scanned \in Nat BY <1>2 DEF LineType
<1>5. value \in Reads
  <2>1. line.scanned + 1 \in 1 .. Len(line.values) BY <1>1, <1>4
  <2> QED BY <1>4, <2>1
<1>6. value.kind \in SelectionKinds \cup {"malformed"} BY <1>5, ArgumentsAssumption DEF Reads
<1>7. CASE value.kind = "malformed"
  <2>1. config' = Rejected("malformed") /\ line' = line /\ requested' = requested
    BY <1>7 DEF Validate
  <2>2. ~AcceptedLine' BY <2>1 DEF AcceptedLine, Rejected
  <2>3. Understood' BY <1>3, <2>1 DEF Understood
  <2>4. ValuesGathered' BY <1>2, <2>1 DEF ValuesGathered
  <2>5. RequestedSound' BY <1>2, <2>1 DEF RequestedSound
  <2>6. line'.scanned <= Len(line'.values) BY <1>1, <1>4, <2>1
  <2> QED BY <1>1, <1>2, <2>1, <2>2, <2>3, <2>4, <2>5, <2>6 DEF LineInv
<1>8. CASE value.kind # "malformed"
  <2>1. /\ requested' = [requested EXCEPT ![value.kind] =
                           IF FirstSeen(@, value) THEN Append(@, value) ELSE @]
        /\ line' = [line EXCEPT !.scanned = @ + 1]
        /\ config' = config
    BY <1>8 DEF Validate
  <2>2. value.kind \in SelectionKinds BY <1>6, <1>8
  <2>3. requested' \in RequestedType /\ ValuesGathered'
    BY <1>1, <1>2, <2>1, <2>2, ValueRead
  <2>4. line' \in LineType /\ line'.flags = line.flags /\ line'.scanned <= Len(line'.values)
        /\ "values" \in DOMAIN line'
    BY <1>1, <1>2, <1>4, <2>1 DEF LineType
  <2>5. line' # Absent BY <2>4 DEF AbsentIsNoAnswer
  <2>6. Understood' BY <1>3, <2>4 DEF Understood
  <2>7. ~AcceptedLine' BY <1>1, <2>1 DEF AcceptedLine
  <2>8. RequestedSound'
    <3>1. ASSUME NEW kind \in SelectionKinds
          PROVE  /\ \A i \in DOMAIN requested'[kind] : requested'[kind][i].kind = kind
                 /\ \A i, j \in DOMAIN requested'[kind] :
                      requested'[kind][i].key = requested'[kind][j].key => i = j
      <4>1. Gathered(requested'[kind], line'.values, line'.scanned, kind)
        BY <2>3 DEF ValuesGathered
      <4> QED BY <4>1 DEF Gathered, Foremost
    <3> QED BY <2>3, <3>1 DEF RequestedSound
  <2> QED BY <2>3, <2>4, <2>5, <2>6, <2>7, <2>8 DEF LineInv
<1> QED BY <1>7, <1>8

LEMMA LineDecides ==
    ASSUME AbsentIsNoAnswer, LineInv, Decide
    PROVE  LineInv'
<1>1. /\ line # Absent /\ config = Absent /\ line.scanned = Len(line.values)
      /\ line' = line /\ requested' = requested
  BY DEF Decide
<1> DEFINE chosen == [scopes |-> ScopeSetOf(ExpandSelections), organizations |-> requested.organization]
<1>2. \/ \E cause : config' = Rejected(cause)
      \/ config' = [reset |-> TRUE]
      \/ config' = chosen /\ ~(Len(requested.organization) > MaxOrganizationSelectors)
  BY DEF Decide, Selection
<1>3. ExpandSelections' = ExpandSelections BY <1>1 DEF ExpandSelections
<1>4. AcceptedLine' => Answered'
  <2> SUFFICES ASSUME AcceptedLine' PROVE Answered' OBVIOUS
  <2>1. config' = chosen /\ ~(Len(requested.organization) > MaxOrganizationSelectors)
    <3>1. "scopes" \in DOMAIN config' BY DEF AcceptedLine
    <3>2. \A cause : "scopes" \notin DOMAIN Rejected(cause) BY DEF Rejected
    <3>3. "scopes" \notin DOMAIN [reset |-> TRUE] OBVIOUS
    <3> HIDE DEF chosen
    <3> QED BY <1>2, <3>1, <3>2, <3>3
  <2>2. Len(requested.organization) <= MaxOrganizationSelectors
    <3>1. Len(requested.organization) \in Nat BY DEF LineInv, RequestedSound, RequestedType
    <3>2. MaxOrganizationSelectors \in Nat BY ArgumentsAssumption
    <3> QED BY <2>1, <3>1, <3>2
  <2>3. config'.scopes = ScopeSetOf(ExpandSelections) /\ config'.organizations = requested.organization
    BY <2>1
  <2>4. line' # Absent /\ line'.scanned = Len(line'.values) BY <1>1
  <2> QED BY <1>1, <1>3, <2>2, <2>3, <2>4 DEF Answered
<1>5. line' \in LineType /\ line'.scanned <= Len(line'.values) /\ requested \in RequestedType
  BY <1>1 DEF LineInv, RequestedSound
<1>6. Understood' /\ ValuesGathered' /\ RequestedSound'
  <2>1. config = Absent /\ Understood /\ ValuesGathered /\ RequestedSound BY <1>1 DEF LineInv
  <2>2. "error" \in DOMAIN Rejected("help") /\ "error" \in DOMAIN Rejected("version") BY DEF Rejected
  <2>3. config # Rejected("help") /\ config # Rejected("version") BY <1>1, <2>2 DEF AbsentIsNoAnswer
  <2>4. Understood' BY <1>1, <2>1, <2>3 DEF Understood
  <2>5. ValuesGathered' BY <1>1, <2>1 DEF ValuesGathered
  <2>6. RequestedSound' BY <1>1, <2>1 DEF RequestedSound
  <2> QED BY <2>4, <2>5, <2>6
<1> QED BY <1>1, <1>4, <1>5, <1>6 DEF LineInv

LEMMA LineStepKept ==
    ASSUME AbsentIsNoAnswer, LineInv, [ArgumentsNext]_argumentsVars
    PROVE  LineInv'
<1>1. CASE line = Absent /\ \E args \in Lines : Scan(args) BY <1>1, LineBegins
<1>2. CASE Validate BY <1>2, LineValidates
<1>3. CASE Decide BY <1>3, LineDecides
<1>4. CASE UNCHANGED argumentsVars
  <2>1. line' = line /\ requested' = requested /\ config' = config BY <1>4 DEF argumentsVars
  <2>2. RequestedSound' <=> RequestedSound BY <2>1 DEF RequestedSound
  <2>3. Understood' <=> Understood BY <2>1 DEF Understood
  <2>4. ValuesGathered' <=> ValuesGathered BY <2>1 DEF ValuesGathered
  <2>5. AcceptedLine' <=> AcceptedLine BY <2>1 DEF AcceptedLine
  <2>6. ExpandSelections' = ExpandSelections BY <2>1 DEF ExpandSelections
  <2>7. Answered' <=> Answered BY <2>1, <2>6 DEF Answered
  <2> QED BY <2>1, <2>2, <2>3, <2>4, <2>5, <2>7 DEF LineInv
<1> QED BY <1>1, <1>2, <1>3, <1>4 DEF ArgumentsNext

LEMMA LineBegun == ArgumentsInit => LineInv
<1> SUFFICES ASSUME ArgumentsInit PROVE LineInv OBVIOUS
<1>1. /\ line = Absent /\ config = Absent
      /\ requested = [repository |-> <<>>, bare |-> <<>>, qualified |-> <<>>, organization |-> <<>>]
  BY DEF ArgumentsInit
<1>2. <<>> \in Seq(Reads) OBVIOUS
<1>3. requested \in RequestedType BY <1>1, <1>2 DEF RequestedType
<1>4. \A kind \in SelectionKinds : requested[kind] = <<>> BY <1>1 DEF SelectionKinds
<1>5. \A kind \in SelectionKinds : DOMAIN requested[kind] = {} BY <1>4
<1>6. RequestedSound BY <1>3, <1>5 DEF RequestedSound
<1>7. ~AcceptedLine BY <1>1 DEF AcceptedLine
<1> QED BY <1>1, <1>4, <1>6, <1>7 DEF LineInv

\* A line of any arguments that is accepted is the one that was written: the scans agree
\* on its flags, its Scopes are as many as were counted, and its values are each selected
\* once, as first spelled (config.go, scope.go).
THEOREM LineSafe ==
    AbsentIsNoAnswer => (ArgumentsInit /\ [][ArgumentsNext]_argumentsVars => []LineIsUnderstood)
<1> SUFFICES ASSUME AbsentIsNoAnswer
             PROVE  ArgumentsInit /\ [][ArgumentsNext]_argumentsVars => []LineIsUnderstood
  OBVIOUS
<1>1. ArgumentsInit => LineInv BY LineBegun
<1>2. LineInv /\ [ArgumentsNext]_argumentsVars => LineInv' BY LineStepKept
<1>3. LineInv => LineIsUnderstood
  <2> SUFFICES ASSUME LineInv PROVE LineIsUnderstood OBVIOUS
  <2>1. CountIsOfTheProduct BY CountSound DEF LineInv
  <2>2. SelectionIsRequested BY AcceptedIsSound
  <2>3. ScansAgree
    <3> SUFFICES ASSUME line # Absent, config \notin {Rejected("help"), Rejected("version")},
                        NEW flag \in line.flags
                 PROVE  Plain(flag)
      BY DEF ScansAgree, Plain
    <3> QED BY DEF LineInv, Understood
  <2> QED BY <2>1, <2>2, <2>3 DEF LineIsUnderstood
<1> QED BY <1>1, <1>2, <1>3, PTL
=============================================================================
