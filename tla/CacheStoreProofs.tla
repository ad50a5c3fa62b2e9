-------------------------- MODULE CacheStoreProofs --------------------------
(***************************************************************************)
(* The theorems of the evidence cache, for every set of processes and      *)
(* keys, every clock and every bound: its type invariant, its limits, the  *)
(* clocks of its records, and the order in which a cleanup removes them.   *)
(*                                                                         *)
(* The limits rest on the type invariant: a database is as long as its     *)
(* records need, and its files as long as the database.  What a batch      *)
(* selects is said offer by offer (Selecting), and then of the three       *)
(* selections in turn: the invalid first (InvalidFirst), then the expired  *)
(* (ExpiredSecond), and the least used last (EvictedLast).                 *)
(***************************************************************************)
EXTENDS CacheStore, DataLemmas

\* The keys are finitely many.
LEMMA KeysFinite == IsFiniteSet(Keys)
<1>1. KeyOrder \in [1..Len(KeyOrder) -> Keys] /\ Len(KeyOrder) \in Nat
  BY KeyAssumption
<1>2. KeyOrder \in Surjection(1..Len(KeyOrder), Keys)
  BY <1>1 DEF Surjection, Keys, Range
<1>3. IsFiniteSet(1..Len(KeyOrder))
  BY <1>1, FS_Interval
<1> QED BY <1>2, <1>3, FS_Surjection

\* Records and child rows of any set of keys can be counted.
LEMMA RecordsFinite ==
    ASSUME NEW S \in SUBSET Keys
    PROVE  IsFiniteSet(S) /\ Cardinality(S) \in Nat
BY KeysFinite, FS_Subset, FS_CardinalityType

-----------------------------------------------------------------------------
(* Child rows                                                              *)

\* The rows of one record are as many as its paths.
LEMMA OneRecordsRows ==
    ASSUME NEW k, NEW n \in Nat
    PROVE  IsFiniteSet({k} \X (1..n)) /\ Cardinality({k} \X (1..n)) = n
<1>1. IsFiniteSet(1..n) /\ Cardinality(1..n) = n
  BY FS_Interval
<1>2. IsFiniteSet({k}) /\ Cardinality({k}) = 1
  BY FS_Singleton
<1>3. IsFiniteSet({k} \X (1..n)) /\ Cardinality({k} \X (1..n)) = 1 * n
  <2> HIDE <1>1
  <2> QED BY <1>1, <1>2, FS_Product
<1> QED BY <1>3

\* The child rows of any set of records are finitely many.
LEMMA ChildRowsFinite ==
    ASSUME NEW S \in SUBSET Keys
    PROVE  IsFiniteSet(ChildRows(S)) /\ Rows(S) \in Nat
<1> DEFINE Children == [k \in S |-> {k} \X (1..RowsOf(k))]
           All == {{k} \X (1..RowsOf(k)) : k \in S}
<1>1. \A k \in S : RowsOf(k) \in Nat
  BY KeyAssumption DEF RowsOf
<1>2. \A T \in All : IsFiniteSet(T)
  BY <1>1, OneRecordsRows
<1>3. IsFiniteSet(S)
  BY RecordsFinite
<1>4. Children \in Surjection(S, All)
  BY DEF Surjection
<1>5. IsFiniteSet(All)
  <2> HIDE DEF Children, All
  <2> QED BY <1>3, <1>4, FS_Surjection
<1>6. IsFiniteSet(ChildRows(S))
  <2> SUFFICES IsFiniteSet(UNION All)
    BY DEF ChildRows
  <2> HIDE DEF All
  <2> QED BY <1>2, <1>5, FS_UNION
<1> QED BY <1>6, FS_CardinalityType DEF Rows

\* What remains of a set of rows is no more than the set.
LEMMA FewerRows ==
    ASSUME NEW A, NEW B, IsFiniteSet(B), A \subseteq B
    PROVE  IsFiniteSet(A) /\ Cardinality(A) <= Cardinality(B)
BY FS_Subset

\* A set of rows and the rows of one record more.
LEMMA RowsOfOneMore ==
    ASSUME NEW A, IsFiniteSet(A), NEW k, NEW n \in Nat
    PROVE  /\ IsFiniteSet(A \cup ({k} \X (1..n)))
           /\ Cardinality(A \cup ({k} \X (1..n))) <= Cardinality(A) + n
<1> DEFINE B == {k} \X (1..n)
<1>1. IsFiniteSet(B) /\ Cardinality(B) = n
  BY OneRecordsRows
<1> HIDE DEF B
<1>2. /\ IsFiniteSet(A \cup B)
      /\ Cardinality(A \cup B) = Cardinality(A) + Cardinality(B) - Cardinality(A \cap B)
  BY <1>1, FS_Union
<1>3. Cardinality(A) \in Nat /\ Cardinality(A \cap B) \in Nat
  BY FS_Intersection, FS_CardinalityType
<1> QED BY <1>1, <1>2, <1>3 DEF B

-----------------------------------------------------------------------------
(* The type invariant                                                      *)

\* The counts of the stored records.
LEMMA StoredCounted ==
    /\ Stored \in SUBSET Keys /\ IsFiniteSet(Stored) /\ Cardinality(Stored) \in Nat
    /\ \A S \in SUBSET Keys : Cardinality(Stored \ S) \in Nat
                                /\ Cardinality(Stored \ S) <= Cardinality(Stored)
<1>1. Stored \in SUBSET Keys
  BY DEF Stored
<1>2. \A S \in SUBSET Keys : Stored \ S \in SUBSET Keys /\ Stored \ S \subseteq Stored
  BY <1>1
<1> QED BY <1>1, <1>2, RecordsFinite, FS_Subset

\* A key joins a queue once.
LEMMA AppendOnceKeeps ==
    ASSUME NEW queue \in Seq(Keys), IsInjective(queue), NEW k \in Keys
    PROVE  AppendOnce(queue, k) \in Seq(Keys) /\ IsInjective(AppendOnce(queue, k))
<1>1. CASE k \in Range(queue)
  BY <1>1 DEF AppendOnce
<1>2. CASE k \notin Range(queue)
  <2>1. AppendOnce(queue, k) = Append(queue, k)
    BY <1>2 DEF AppendOnce
  <2>2. \A i \in 1..Len(queue) : queue[i] # k
    BY <1>2 DEF Range
  <2> QED BY <2>1, <2>2 DEF IsInjective
<1> QED BY <1>1, <1>2

\* The queue of a process that starts.
LEMMA EmptyQueue == << >> \in Seq(Keys) /\ IsInjective(<< >>)
<1>1. DOMAIN << >> = {}
  OBVIOUS
<1> QED BY <1>1 DEF IsInjective

\* What is carried over is a part of the queue.
LEMMA CarryKeeps ==
    ASSUME TypeOK, NEW p \in Processes
    PROVE  InvalidCarry(p) \in Seq(Keys) /\ IsInjective(InvalidCarry(p))
<1> DEFINE queue == invalid[p]
           hits == {i \in 1..Len(queue) : queue[i] \in Stored \ InvalidBatch(p).ids}
           first == IF hits # {} THEN Min(hits) ELSE 0
<1>1. queue \in Seq(Keys) /\ IsInjective(queue)
  BY DEF TypeOK
<1>2. InvalidCarry(p) = IF first = 0 THEN <<>> ELSE SubSeq(queue, first, Len(queue))
  BY DEF InvalidCarry, SelectInSeq
<1>3. first \in 0..Len(queue)
  <2>1. CASE hits = {}
    BY <1>1, <2>1
  <2>2. CASE hits # {}
    <3>1. hits \in SUBSET Nat
      BY <1>1
    <3>2. \E n \in hits : \A m \in hits : n <= m
      <4> HIDE DEF hits
      <4> QED BY <2>2, <3>1, LeastNumber
    <3>3. Min(hits) \in hits
      BY <3>2 DEF Min
    <3> QED BY <2>2, <3>3
  <2> QED BY <2>1, <2>2
<1> HIDE DEF queue, first
<1> QED BY <1>1, <1>2, <1>3 DEF IsInjective

\* A replacement writes a record.
LEMMA WrittenTyped ==
    ASSUME TypeOK, NEW k \in Keys, NEW at \in Times
    PROVE  Written(k, at) \in Records
BY DEF TypeOK, Written, LatestValid, Records, Times

\* Every step keeps the type of the state, and the database as long as its records
\* need and within its files.
LEMMA TypeKept ==
    ASSUME TypeOK, [Next]_vars
    PROVE  TypeOK'
<1> USE DEF process
<1>1. ASSUME NEW p \in Processes, NEW k \in Keys, Miss(p, k) PROVE TypeOK'
  BY <1>1 DEF Miss, TypeOK, Stored
<1>2. ASSUME NEW p \in Processes, NEW k \in Keys, FindInvalid(p, k) PROVE TypeOK'
  <2>1. \A q \in Processes : invalid'[q] \in Seq(Keys) /\ IsInjective(invalid'[q])
    <3>1. \A q \in Processes \ {p} : invalid'[q] = invalid[q]
      BY <1>2 DEF FindInvalid, TypeOK
    <3>2. invalid'[p] \in {invalid[p], AppendOnce(invalid[p], k)}
      BY <1>2 DEF FindInvalid
    <3> QED BY <3>1, <3>2, AppendOnceKeeps DEF TypeOK
  <2> QED BY <1>2, <2>1 DEF FindInvalid, TypeOK, Stored
<1>3. ASSUME NEW p \in Processes, NEW k \in Keys, Hit(p, k) PROVE TypeOK'
  BY <1>3 DEF Hit, TypeOK, Stored
<1>4. ASSUME NEW p \in Processes, NEW k \in Keys, RequestSave(p, k) PROVE TypeOK'
  BY <1>4 DEF RequestSave, TypeOK, Stored
<1>5. ASSUME NEW p \in Processes, Save(p) PROVE TypeOK'
  <2> DEFINE k == saving[p].key
  <2>1. k \in Keys /\ saving[p].at \in Times
    BY <1>5 DEF Save, TypeOK
  <2>2. db' \in [Keys -> Records \cup {None}] /\ Stored' = Stored \cup {k}
    BY <1>5, <2>1, WrittenTyped, KeyAssumption DEF Save, TypeOK, Stored
  <2>3. pages' \in Nat /\ Cardinality(Stored') <= pages'
    <3>1. Cardinality(Stored') = IF k \in Stored THEN Cardinality(Stored)
                                 ELSE Cardinality(Stored) + 1
      BY <2>2, StoredCounted, FS_AddElement
    <3> QED BY <1>5, <3>1, StoredCounted DEF Save, TypeOK, ProjectedPages, FreePages
  <2>4. bytes' \in Nat /\ pages' <= bytes'
    BY <1>5, <2>3, BoundAssumption DEF Save, Grown, TypeOK
  <2> QED BY <1>5, <2>2, <2>3, <2>4 DEF Save, EndSave, TypeOK
<1>6. ASSUME NEW p \in Processes, FailSave(p) PROVE TypeOK'
  BY <1>6 DEF FailSave, EndSave, TypeOK, Stored
<1>7. ASSUME NEW p \in Processes, Touch(p) PROVE TypeOK'
  <2>1. /\ db' \in [Keys -> Records \cup {None}] /\ Stored' = Stored
        /\ touched' \in [Processes -> SUBSET Keys]
    <3>1. \A k \in Stored : TouchedRecord(db[k]) \in Records
      BY DEF Stored, TypeOK, TouchedRecord, Records
    <3>2. CASE UNCHANGED <<db, touched>>
      BY <3>2 DEF TypeOK, Stored
    <3>3. CASE /\ db' = [k \in Keys |-> IF k \in touched[p] \cap Stored
                                           THEN TouchedRecord(db[k]) ELSE db[k]]
               /\ touched' = [touched EXCEPT ![p] = {}]
      BY <3>1, <3>3, KeyAssumption DEF TypeOK, Stored
    <3> QED BY <1>7, <3>2, <3>3 DEF Touch
  <2>2. bytes' \in Nat /\ pages' <= bytes' /\ pages' = pages
    BY <1>7, BoundAssumption DEF Touch, TypeOK, Grown
  <2> QED BY <1>7, <2>1, <2>2 DEF Touch, TypeOK, Phases
<1>8. ASSUME NEW p \in Processes, FindDue(p) PROVE TypeOK'
  BY <1>8 DEF FindDue, TypeOK, Stored, Phases
<1>9. ASSUME NEW p \in Processes, FindNotDue(p) PROVE TypeOK'
  BY <1>9 DEF FindNotDue, NextRefresh, TypeOK, Stored, Phases
<1>10. ASSUME NEW p \in Processes, SkipMaintenance(p) PROVE TypeOK'
  BY <1>10 DEF SkipMaintenance, NextRefresh, TypeOK, Stored, Phases
<1>11. ASSUME NEW p \in Processes, Maintain(p) PROVE TypeOK'
  <2>1. phase' \in [Processes -> Phases] /\ missed' \in [Processes -> SUBSET Keys]
    BY <1>11 DEF Maintain, NextRefresh, TypeOK, Phases
  <2>2. CASE UNCHANGED <<db, pages, bytes, invalid, disabled>>
    BY <1>11, <2>1, <2>2 DEF Maintain, TypeOK, Stored
  <2>3. CASE /\ db' = [k \in Keys |-> IF k \in Batch(p) THEN None ELSE db[k]]
             /\ invalid' = [invalid EXCEPT ![p] = InvalidCarry(p)]
             /\ Compact(p, Cardinality(Stored \ Batch(p)))
    <3> DEFINE count == Cardinality(Stored \ Batch(p))
    <3>1. db' \in [Keys -> Records \cup {None}] /\ Stored' = Stored \ Batch(p)
      BY <2>3 DEF TypeOK, Stored
    <3>2. count \in Nat /\ count <= pages /\ Cardinality(Stored') = count
      <4>1. /\ Stored \cap Batch(p) \in SUBSET Keys
            /\ Stored \ Batch(p) = Stored \ (Stored \cap Batch(p))
        BY StoredCounted
      <4>2. pages \in Nat /\ Cardinality(Stored) <= pages
        BY DEF TypeOK
      <4>3. count \in Nat /\ count <= Cardinality(Stored)
        BY <4>1, StoredCounted
      <4> QED BY <3>1, <4>2, <4>3, StoredCounted
    <3> HIDE DEF count
    <3>3. Vacuumed(count) \in Nat /\ count <= Vacuumed(count)
      BY <3>2, BoundAssumption DEF Vacuumed, TypeOK
    <3>4. pages' \in {pages, Vacuumed(count)}
      BY <2>3 DEF Compact, count
    <3>5. bytes' \in Nat /\ pages' <= bytes'
      BY <2>3, <3>3, <3>4, BoundAssumption DEF Compact, Grown, TypeOK, count
    <3>6. disabled' \in [Processes -> BOOLEAN]
      <4>1. (bytes' > RetainedPages) \in BOOLEAN
        OBVIOUS
      <4>2. disabled' \in {disabled, [disabled EXCEPT ![p] = (bytes' > RetainedPages)]}
        BY <2>3 DEF Compact
      <4> QED BY <4>1, <4>2, ZenonT(20) DEF TypeOK
    <3>7. \A q \in Processes : invalid'[q] \in Seq(Keys) /\ IsInjective(invalid'[q])
      <4>1. \A q \in Processes \ {p} : invalid'[q] = invalid[q]
        BY <2>3
      <4>2. invalid'[p] \in {invalid[p], InvalidCarry(p)}
        BY <2>3
      <4> QED BY <4>1, <4>2, CarryKeeps DEF TypeOK
    <3>8. pages' \in Nat /\ Cardinality(Stored') <= pages'
      BY <3>2, <3>3, <3>4 DEF TypeOK
    <3> QED BY <1>11, <2>1, <3>1, <3>5, <3>6, <3>7, <3>8 DEF Maintain, TypeOK
  <2> QED BY <1>11, <2>2, <2>3 DEF Maintain
<1>12. CASE Clock
  BY <1>12, TimeAssumption DEF Clock, TypeOK, Stored, Times
<1>13. ASSUME NEW k \in Keys, Damage(k) PROVE TypeOK'
  <2>1. db[k] \in Records
    BY <1>13 DEF Damage, TypeOK, Stored
  <2>2. [db[k] EXCEPT !.valid = FALSE] \in Records
    BY <2>1 DEF Records
  <2>3. db' = [db EXCEPT ![k] = [db[k] EXCEPT !.valid = FALSE]]
    BY <1>13 DEF Damage
  <2>4. db' \in [Keys -> Records \cup {None}] /\ Stored' = Stored
    BY <2>1, <2>2, <2>3, KeyAssumption DEF TypeOK, Stored
  <2> QED BY <1>13, <2>4 DEF Damage, TypeOK
<1>14. ASSUME NEW p \in Processes, Start(p) PROVE TypeOK'
  BY <1>14 DEF Start, TypeOK, Stored, Phases
<1>15. ASSUME NEW p \in Processes, Stop(p) PROVE TypeOK'
  <2>1. \A q \in Processes : invalid'[q] \in Seq(Keys) /\ IsInjective(invalid'[q])
    <3>1. \A q \in Processes : invalid'[q] \in {invalid[q], << >>}
      BY <1>15 DEF Stop
    <3> QED BY <3>1, EmptyQueue DEF TypeOK
  <2>2. bytes' \in Nat /\ pages' <= bytes'
    BY <1>15 DEF Stop, TypeOK
  <2> QED BY <1>15, <2>1, <2>2 DEF Stop, TypeOK, Stored, Phases
<1>16. CASE UNCHANGED vars
  BY <1>16 DEF vars, TypeOK, Stored
<1> QED BY <1>1, <1>2, <1>3, <1>4, <1>5, <1>6, <1>7, <1>8, <1>9, <1>10, <1>11, <1>12,
           <1>13, <1>14, <1>15, <1>16 DEF Next, Refreshing

\* The state keeps its type: queues hold a key once, the database is as long as its
\* records need, and its files as long as the database.
THEOREM TypeInvariance == Spec => []TypeOK
<1>1. Init => TypeOK
  <2> SUFFICES ASSUME Init PROVE TypeOK
    OBVIOUS
  <2>1. Stored = {}
    BY DEF Init, Stored
  <2>2. Cardinality(Stored) = 0
    BY <2>1, FS_EmptySet
  <2>3. \A p \in Processes : invalid[p] = << >>
    BY DEF Init
  <2>4. \A p \in Processes : invalid[p] \in Seq(Keys) /\ IsInjective(invalid[p])
    BY <2>3, EmptyQueue
  <2> QED BY <2>2, <2>4, TimeAssumption DEF Init, TypeOK, Times, Phases
<1> QED BY <1>1, TypeKept, PTL DEF Spec

-----------------------------------------------------------------------------
(* The limits                                                              *)

\* A step that adds no record and no row to a record adds no child row.
LEMMA RowsNotAdded ==
    ASSUME TypeOK, Stored' \subseteq Stored,
           \A k \in Stored' : 1..(RowsOf(k)') \subseteq 1..RowsOf(k)
    PROVE  (Rows(Stored))' <= Rows(Stored)
<1>1. (ChildRows(Stored))' \subseteq ChildRows(Stored)
  BY DEF ChildRows
<1>2. IsFiniteSet(ChildRows(Stored))
  BY ChildRowsFinite, StoredCounted
<1> QED BY <1>1, <1>2, FewerRows DEF Rows

\* A replacement adds the rows of its record at most.
LEMMA RowsReplaced ==
    ASSUME TypeOK, NEW k \in Keys, Stored' = Stored \cup {k},
           RowsOf(k)' = PathsOf[k], \A j \in Stored \ {k} : RowsOf(j)' = RowsOf(j)
    PROVE  (Rows(Stored))' <= Rows(Stored \ {k}) + PathsOf[k]
<1> DEFINE others == ChildRows(Stored \ {k})
           more == others \cup ({k} \X (1..PathsOf[k]))
<1>1. (ChildRows(Stored))' \subseteq more
  BY DEF ChildRows
<1>2. IsFiniteSet(others)
  BY ChildRowsFinite, StoredCounted
<1>3. PathsOf[k] \in Nat
  BY KeyAssumption
<1>4. IsFiniteSet(more) /\ Cardinality(more) <= Cardinality(others) + PathsOf[k]
  <2> HIDE DEF others
  <2> QED BY <1>2, <1>3, RowsOfOneMore
<1>5. /\ Cardinality((ChildRows(Stored))') <= Cardinality(more)
      /\ IsFiniteSet((ChildRows(Stored))')
  <2> HIDE DEF more
  <2> QED BY <1>1, <1>4, FewerRows
<1>6. /\ Cardinality((ChildRows(Stored))') \in Nat /\ Cardinality(more) \in Nat
      /\ Cardinality(others) \in Nat
  BY <1>2, <1>4, <1>5, FS_CardinalityType
<1> HIDE DEF others, more
<1>7. Cardinality((ChildRows(Stored))') <= Cardinality(others) + PathsOf[k]
  BY <1>3, <1>4, <1>5, <1>6
<1> QED BY <1>7 DEF Rows, others

\* The child rows can be counted, before a step and after it.
LEMMA RowsCounted == Rows(Stored) \in Nat
BY ChildRowsFinite, StoredCounted

LEMMA RowsCountedNext == (Rows(Stored) \in Nat)'
<1>1. Rows(Stored) \in Nat
  BY RowsCounted
<1> QED BY <1>1, PTL

\* The bounds are numbers, and the ceiling lies within the envelope.
LEMMA BoundsTyped ==
    /\ EvidenceRecords \in Nat /\ ChildRecords \in Nat /\ VacuumPages \in Nat
    /\ RetainedPages \in Nat /\ TemporaryPages \in Nat /\ RetainedPages <= TemporaryPages
    /\ WriteReservation \in Nat /\ CleanupReservation \in Nat
<1>1. /\ EvidenceRecords \in Nat /\ ChildRecords \in Nat /\ VacuumPages \in Nat
      /\ RetainedPages \in Nat /\ WriteReservation \in Nat
  BY BoundAssumption
<1>2. /\ TemporaryPages \in Nat /\ CleanupReservation \in Nat
      /\ RetainedPages + CleanupReservation <= TemporaryPages
  BY BoundAssumption
<1> QED BY <1>1, <1>2

\* An admitted step of reserved growth stays within the temporary envelope.
LEMMA GrownWithin ==
    ASSUME TypeOK, NEW reservation \in Nat, Admits(reservation), NEW n,
           bytes' \in Grown(reservation, n)
    PROVE  bytes' <= TemporaryPages
BY BoundsTyped DEF TypeOK, Admits, Grown

LEMMA WithinKept ==
    ASSUME TypeOK, TypeOK', WithinLimits, [Next]_vars
    PROVE  WithinLimits'
<1> USE DEF process
<1>1. CASE UNCHANGED <<db, pages, bytes>>
  BY <1>1 DEF WithinLimits, Stored, Rows, ChildRows, RowsOf
<1>2. ASSUME NEW p \in Processes, NEW k \in Keys,
             Miss(p, k) \/ FindInvalid(p, k) \/ Hit(p, k) \/ RequestSave(p, k)
      PROVE  UNCHANGED <<db, pages, bytes>>
  BY <1>2 DEF Miss, FindInvalid, Hit, RequestSave
<1>3. ASSUME NEW p \in Processes,
             \/ FailSave(p) \/ FindDue(p) \/ FindNotDue(p) \/ SkipMaintenance(p) \/ Start(p)
      PROVE  UNCHANGED <<db, pages, bytes>>
  BY <1>3 DEF FailSave, FindDue, FindNotDue, SkipMaintenance, Start
<1>4. CASE Clock \/ UNCHANGED vars
  BY <1>1, <1>4 DEF Clock, vars
<1>5. ASSUME NEW p \in Processes, Save(p) PROVE WithinLimits'
  <2>1. PICK k \in Keys : k = saving[p].key
    BY <1>5 DEF Save, TypeOK
  <2>2. ProjectsWithin(k) /\ ProjectedPages <= RetainedPages
    BY <1>5, <2>1 DEF Save
  <2>3. db' = [db EXCEPT ![k] = Written(k, saving[p].at)]
    BY <1>5, <2>1 DEF Save
  <2>4. Written(k, saving[p].at).valid = TRUE /\ Written(k, saving[p].at) # None
    <3>1. saving[p].at \in Times
      BY <1>5 DEF Save, TypeOK
    <3>2. Written(k, saving[p].at) \in Records
      BY <2>1, <3>1, WrittenTyped
    <3> QED BY <3>2, KeyAssumption DEF Written
  <2>5. Stored' = Stored \cup {k}
    BY <2>1, <2>3, <2>4 DEF Stored, TypeOK
  <2>6. RowsOf(k)' = PathsOf[k] /\ \A j \in Stored \ {k} : RowsOf(j)' = RowsOf(j)
    BY <2>1, <2>3, <2>4 DEF RowsOf, TypeOK, Stored
  <2>7. (Rows(Stored))' <= ChildRecords
    <3>1. (Rows(Stored))' <= Rows(Stored \ {k}) + PathsOf[k]
      BY <2>1, <2>5, <2>6, RowsReplaced
    <3>2. Rows(Stored \ {k}) \in Nat
      BY ChildRowsFinite, StoredCounted
    <3> QED BY <2>1, <2>2, <3>1, <3>2, RowsCountedNext, KeyAssumption, BoundsTyped
        DEF ProjectsWithin
  <2>8. Cardinality(Stored') <= EvidenceRecords
    BY <2>2, <2>5 DEF ProjectsWithin
  <2>9. pages' <= RetainedPages
    BY <1>5, <2>2 DEF Save, WithinLimits
  <2>10. bytes' <= TemporaryPages
    BY <1>5, GrownWithin, BoundsTyped DEF Save
  <2> QED BY <2>7, <2>8, <2>9, <2>10 DEF WithinLimits
<1>6. ASSUME NEW p \in Processes, Touch(p) PROVE WithinLimits'
  <2>1. Stored' = Stored /\ \A k \in Stored : RowsOf(k)' = RowsOf(k)
    <3>1. \A k \in Stored : TouchedRecord(db[k]) # None
                              /\ TouchedRecord(db[k]).valid = db[k].valid
      BY KeyAssumption DEF Stored, TypeOK, TouchedRecord, Records
    <3>2. CASE UNCHANGED db
      BY <3>2 DEF Stored, RowsOf
    <3>3. CASE db' = [k \in Keys |-> IF k \in touched[p] \cap Stored
                                        THEN TouchedRecord(db[k]) ELSE db[k]]
      BY <3>1, <3>3 DEF Stored, RowsOf
    <3> QED BY <1>6, <3>2, <3>3 DEF Touch
  <2>2. (Rows(Stored))' = Rows(Stored)
    BY <2>1 DEF Rows, ChildRows
  <2>3. bytes' <= TemporaryPages /\ pages' = pages
    BY <1>6, GrownWithin, BoundsTyped DEF Touch, WithinLimits
  <2> QED BY <2>1, <2>2, <2>3 DEF WithinLimits
<1>7. ASSUME NEW p \in Processes, Maintain(p) PROVE WithinLimits'
  <2>1. CASE UNCHANGED <<db, pages, bytes>>
    BY <1>1, <2>1
  <2>2. CASE /\ db' = [k \in Keys |-> IF k \in Batch(p) THEN None ELSE db[k]]
             /\ Compact(p, Cardinality(Stored \ Batch(p)))
    <3> DEFINE count == Cardinality(Stored \ Batch(p))
    <3>1. Stored' = Stored \ Batch(p) /\ \A k \in Stored' : RowsOf(k)' = RowsOf(k)
      BY <2>2 DEF Stored, RowsOf
    <3>2. (Rows(Stored))' <= Rows(Stored)
      BY <3>1, RowsNotAdded
    <3>3. count \in Nat /\ count <= Cardinality(Stored) /\ Cardinality(Stored') = count
      <4>1. /\ Stored \cap Batch(p) \in SUBSET Keys
            /\ Stored \ Batch(p) = Stored \ (Stored \cap Batch(p))
        BY StoredCounted
      <4> QED BY <3>1, <4>1, StoredCounted
    <3> HIDE DEF count
    <3>4. pages' <= RetainedPages
      <4>1. pages' \in {pages, Vacuumed(count)}
        BY <2>2 DEF Compact, count
      <4>2. pages \in Nat /\ count <= pages /\ pages <= RetainedPages
        BY <3>3, StoredCounted DEF TypeOK, WithinLimits
      <4>3. Vacuumed(count) <= pages
        BY <3>3, <4>2, BoundsTyped DEF Vacuumed
      <4> QED BY <4>1, <4>2, <4>3, BoundsTyped DEF Vacuumed
    <3>5. bytes' <= TemporaryPages
      <4>1. CASE bytes' = pages'
        <5>1. pages' \in Nat
          BY DEF TypeOK
        <5> QED BY <3>4, <4>1, <5>1, BoundsTyped
      <4>2. CASE bytes' \in Grown(CleanupReservation, pages')
        BY <1>7, <4>2, GrownWithin, BoundsTyped DEF Maintain
      <4> QED BY <2>2, <4>1, <4>2 DEF Compact
    <3> QED BY <3>2, <3>3, <3>4, <3>5, RowsCounted, RowsCountedNext, StoredCounted,
               BoundsTyped DEF WithinLimits
  <2> QED BY <1>7, <2>1, <2>2 DEF Maintain
<1>8. ASSUME NEW k \in Keys, Damage(k) PROVE WithinLimits'
  <2>1. Stored' = Stored
    BY <1>8, KeyAssumption DEF Damage, TypeOK, Stored, Records
  <2>2. \A j \in Stored : 1..(RowsOf(j)') \subseteq 1..RowsOf(j)
    BY <1>8 DEF Damage, TypeOK, Stored, RowsOf, Records
  <2>3. (Rows(Stored))' <= Rows(Stored)
    BY <2>1, <2>2, RowsNotAdded
  <2> QED BY <1>8, <2>1, <2>3, RowsCounted, RowsCountedNext, BoundsTyped DEF Damage, WithinLimits
<1>9. ASSUME NEW p \in Processes, Stop(p) PROVE WithinLimits'
  <2>1. bytes' <= TemporaryPages
    BY <1>9, BoundsTyped DEF Stop, TypeOK, WithinLimits
  <2> QED BY <1>9, <2>1 DEF Stop, WithinLimits, Stored, Rows, ChildRows, RowsOf
<1> QED BY <1>1, <1>2, <1>3, <1>4, <1>5, <1>6, <1>7, <1>8, <1>9 DEF Next, Refreshing

\* The row limits, the ceiling of a checkpointed database and the temporary envelope,
\* in every order of replacements, touches and cleanups of all processes
\* (maintenance.go admit, admitWrite, admitProjectedBytes, compact).
THEOREM LimitsSafe == Spec => []WithinLimits
<1>1. Init => WithinLimits
  <2> SUFFICES ASSUME Init PROVE WithinLimits
    OBVIOUS
  <2>1. Stored = {} /\ ChildRows(Stored) = {}
    BY DEF Init, Stored, ChildRows
  <2>2. Cardinality(Stored) = 0 /\ Rows(Stored) = 0
    BY <2>1, FS_EmptySet DEF Rows
  <2> QED BY <2>2, BoundsTyped DEF Init, WithinLimits
<1>2. TypeOK /\ TypeOK' /\ WithinLimits /\ [Next]_vars => WithinLimits'
  BY WithinKept
<1> QED BY <1>1, <1>2, TypeInvariance, PTL DEF Spec

-----------------------------------------------------------------------------
(* The clocks of the records                                               *)

\* A record read from the database and one that is written carry numbers.
LEMMA ClocksTyped ==
    ASSUME TypeOK, NEW k \in Keys, db[k] # None
    PROVE  db[k] \in Records /\ db[k].acquired \in Nat /\ db[k].used \in Nat
BY DEF TypeOK, Records, Times

\* A replacement and a touch move no clock back that is plausible to the writer, and
\* nothing but a replacement sets the age of evidence (store.go replace, latestValid;
\* Touch), whatever the wall clock did in between.
THEOREM ClocksSafe == Spec => ClocksKeepUp
<1> DEFINE Forward(k) ==
              db[k] # None /\ db'[k] # None =>
                 /\ Plausible(db[k].acquired, WriterClock) => db'[k].acquired >= db[k].acquired
                 /\ Plausible(db[k].used, WriterClock) => db'[k].used >= db[k].used
                 /\ db'[k].acquired # db[k].acquired => saving' # saving
           Ahead == \A k \in Keys : Forward(k)
<1>1. TypeOK /\ [Next]_vars => [Ahead]_vars
  <2> SUFFICES ASSUME TypeOK, Next, NEW k \in Keys, db[k] # None, db'[k] # None
               PROVE  Forward(k)
    OBVIOUS
  <2> USE DEF process
  <2>1. db[k] \in Records /\ db[k].acquired \in Nat /\ db[k].used \in Nat
    BY ClocksTyped
  <2>2. CASE db'[k] = db[k]
    BY <2>1, <2>2
  <2>3. ASSUME NEW p \in Processes, Save(p) PROVE Forward(k)
    <3>1. PICK key \in Keys : key = saving[p].key
      BY <2>3 DEF Save, TypeOK
    <3>2. CASE key # k
      BY <2>2, <2>3, <3>1, <3>2 DEF Save, TypeOK
    <3>3. CASE key = k
      <4>1. saving[p] # None /\ saving' = [saving EXCEPT ![p] = None]
        BY <2>3 DEF Save, EndSave
      <4>2. saving'[p] = None /\ saving' # saving
        BY <4>1 DEF TypeOK
      <4>3. {q \in Processes : saving[q] # None /\ saving'[q] = None} = {p}
        BY <4>1, <4>2 DEF TypeOK
      <4>4. WriterClock = saving[p].at
        BY <4>3 DEF WriterClock
      <4>5. saving[p].at \in Int
        BY <4>1 DEF TypeOK, Times
      <4>6. db'[k] = Written(k, saving[p].at)
        BY <2>3, <3>1, <3>3 DEF Save, TypeOK
      <4>7. /\ db'[k].acquired = LatestValid(saving[p].at, db[k].acquired)
            /\ db'[k].used = LatestValid(saving[p].at, db[k].used)
        BY <4>6 DEF Written
      <4> QED BY <2>1, <4>2, <4>4, <4>5, <4>7, TimeAssumption DEF LatestValid, Plausible
    <3> QED BY <3>2, <3>3
  <2>4. ASSUME NEW p \in Processes, Touch(p) PROVE Forward(k)
    <3>1. WriterClock = now
      BY <2>4 DEF Touch, WriterClock
    <3>2. db'[k] \in {db[k], TouchedRecord(db[k])}
      BY <2>4 DEF Touch
    <3>3. /\ TouchedRecord(db[k]).acquired = db[k].acquired
          /\ TouchedRecord(db[k]).used =
                IF Plausible(db[k].used, now) /\ db[k].used > now THEN db[k].used ELSE now
      BY <2>1 DEF TouchedRecord, Records
    <3>4. now \in Nat
      BY DEF TypeOK, Times
    <3> QED BY <2>1, <2>2, <3>1, <3>2, <3>3, <3>4, TimeAssumption DEF Plausible
  <2>5. ASSUME NEW p \in Processes, Maintain(p) PROVE db'[k] = db[k]
    BY <2>5 DEF Maintain
  <2>6. ASSUME NEW j \in Keys, Damage(j) PROVE Forward(k)
    <3>1. db'[k].acquired = db[k].acquired /\ db'[k].used = db[k].used
      BY <2>1, <2>6 DEF Damage, TypeOK, Records
    <3> QED BY <2>1, <3>1
  <2>7. ASSUME NEW p \in Processes,
               \/ \E j \in Keys : Miss(p, j) \/ FindInvalid(p, j) \/ Hit(p, j) \/ RequestSave(p, j)
               \/ FailSave(p) \/ FindDue(p) \/ FindNotDue(p) \/ SkipMaintenance(p)
               \/ Start(p) \/ Stop(p)
        PROVE  db' = db
    BY <2>7 DEF Miss, FindInvalid, Hit, RequestSave, FailSave, FindDue, FindNotDue,
       SkipMaintenance, Start, Stop
  <2>8. CASE Clock
    BY <2>2, <2>8 DEF Clock
  <2> QED BY <2>2, <2>3, <2>4, <2>5, <2>6, <2>7, <2>8 DEF Next, Refreshing
<1> QED BY <1>1, TypeInvariance, PTL DEF Spec, ClocksKeepUp

-----------------------------------------------------------------------------
(* The batch of a cleanup                                                  *)

Batches == [ids : SUBSET Keys, open : BOOLEAN]

\* What considering one record makes of a batch.
Considered(batch, k, pressed, next) ==
    /\ next \in Batches
    /\ batch.ids \subseteq next.ids /\ (next.open => batch.open)
    /\ \/ next.ids = batch.ids
       \/ /\ next.ids = batch.ids \cup {k} /\ k \notin batch.ids
          /\ batch.open /\ Fits(batch, k) /\ (pressed => OverTarget(batch.ids))
    /\ k \in Stored /\ next.open /\ (pressed => OverTarget(batch.ids)) => k \in next.ids

LEMMA Considering ==
    ASSUME NEW batch \in Batches, NEW k \in Keys, NEW pressed \in BOOLEAN
    PROVE  Considered(batch, k, pressed, Consider(batch, k, pressed))
<1> DEFINE next == Consider(batch, k, pressed)
<1>1. batch.ids \in SUBSET Keys /\ batch.open \in BOOLEAN BY DEF Batches
<1> DEFINE passed == k \notin Stored \/ (pressed /\ ~OverTarget(batch.ids))
<1>2. CASE passed
  <2>1. next = batch BY <1>2 DEF Consider
  <2> QED BY <1>1, <1>2, <2>1 DEF Considered
<1>3. CASE ~passed /\ (~batch.open \/ k \in batch.ids)
  <2>1. next = batch BY <1>3 DEF Consider, Take
  <2> QED BY <1>1, <1>3, <2>1 DEF Considered
<1>4. CASE ~passed /\ batch.open /\ k \notin batch.ids /\ Fits(batch, k)
  <2>1. next = [batch EXCEPT !.ids = batch.ids \cup {k}] BY <1>4 DEF Consider, Take
  <2>2. next \in Batches /\ next.ids = batch.ids \cup {k} /\ next.open = batch.open
    BY <1>1, <2>1 DEF Batches
  <2> QED BY <1>4, <2>2 DEF Considered
<1>5. CASE ~passed /\ batch.open /\ k \notin batch.ids /\ ~Fits(batch, k)
  <2>1. next = [batch EXCEPT !.open = FALSE] BY <1>5 DEF Consider, Take
  <2>2. next \in Batches /\ next.ids = batch.ids /\ next.open = FALSE
    BY <1>1, <2>1 DEF Batches
  <2> QED BY <1>5, <2>2 DEF Considered
<1> QED BY <1>2, <1>3, <1>4, <1>5

\* The batches a selection goes through.
Through(f, batch, s, pressed) ==
    /\ f[0] = batch
    /\ \A n \in 0..Len(s) : f[n] \in Batches
    /\ \A n \in 1..Len(s) : s[n] \in Keys /\ Considered(f[n - 1], s[n], pressed, f[n])

LEMMA Selecting ==
    ASSUME NEW batch \in Batches, NEW s \in Seq(Keys), NEW pressed \in BOOLEAN
    PROVE  \E f : Through(f, batch, s, pressed) /\ Selected(batch, s, pressed) = f[Len(s)]
<1> DEFINE n == Len(s)
           P == [i \in 0..n |-> Batches]
           next == [i \in 1..n |-> [b \in Batches |-> Consider(b, s[i], pressed)]]
           Body(f) == [i \in 0..n |-> IF i = 0 THEN batch ELSE Consider(f[i - 1], s[i], pressed)]
<1>1. n \in Nat /\ \A i \in 1..n : s[i] \in Keys /\ i - 1 \in 0..n /\ i \in 0..n
  OBVIOUS
<1>2. \A i \in 1..n : \A b \in Batches : Consider(b, s[i], pressed) \in Batches
  BY <1>1, Considering DEF Considered
<1>3. \A i \in 1..n : \A b \in P[i - 1] :
         next[i][b] = Consider(b, s[i], pressed) /\ next[i][b] \in P[i]
  <2> TAKE i \in 1..n
  <2>1. P[i - 1] = Batches /\ P[i] = Batches BY <1>1
  <2>2. next[i] = [b \in Batches |-> Consider(b, s[i], pressed)] OBVIOUS
  <2> HIDE DEF P, next
  <2> QED BY <1>2, <2>1, <2>2
<1>4. batch \in P[0] BY <1>1
<1>5. \A i \in 0..n : P[i] = Batches OBVIOUS
<1> HIDE DEF n, P, next
<1>6. PICK f : Loops(f, n, batch, next) /\ \A i \in 0..n : f[i] \in P[i]
  <2>1. \A i \in 1..n : \A x \in P[i - 1] : next[i][x] \in P[i] BY <1>3
  <2> HIDE DEF Body
  <2> QED BY <1>1, <1>4, <2>1, Iterates, ZenonT(60)
<1>7. f = Body(f)
  <2>1. \A i \in 1..n : next[i][f[i - 1]] = Consider(f[i - 1], s[i], pressed)
    BY <1>1, <1>3, <1>6
  <2>2. \A i \in 0..n : (IF i = 0 THEN batch ELSE next[i][f[i - 1]])
                        = (IF i = 0 THEN batch ELSE Consider(f[i - 1], s[i], pressed))
    BY <1>1, <2>1
  <2> QED BY <1>6, <2>2 DEF Loops
<1> DEFINE after == CHOOSE g : g = Body(g)
<1>8. after = Body(after) BY <1>7
<1>9. Selected(batch, s, pressed) = after[n] BY DEF Selected, n
<1> HIDE DEF after
<1>10. after[0] = batch /\ \A i \in 1..n : after[i] = Consider(after[i - 1], s[i], pressed)
  <2>1. 0 \in 0..n /\ \A i \in 1..n : i # 0 BY <1>1
  <2> QED BY <1>1, <1>8, <2>1
<1>11. \A i \in 0..n : after[i] \in P[i]
  <2>1. \A i \in 1..n : after[i - 1] \in P[i - 1] => after[i] \in P[i]
    BY <1>1, <1>2, <1>5, <1>10
  <2>2. after[0] \in P[0] BY <1>4, <1>10
  <2> QED BY <1>1, <2>1, <2>2, Carried, ZenonT(60)
<1>12. \A i \in 1..n : s[i] \in Keys /\ Considered(after[i - 1], s[i], pressed, after[i])
  BY <1>1, <1>5, <1>10, <1>11, Considering
<1>13. Through(after, batch, s, pressed)
  BY <1>5, <1>10, <1>11, <1>12 DEF Through, n
<1> QED BY <1>9, <1>13 DEF n

\* A selection only adds to a batch, and a batch that is closed stays closed.
LEMMA SelectionGrows ==
    ASSUME NEW batch, NEW s \in Seq(Keys), NEW pressed, NEW f, Through(f, batch, s, pressed),
           NEW m \in 0..Len(s), NEW n \in 0..Len(s), m <= n
    PROVE  f[m].ids \subseteq f[n].ids /\ (f[n].open => f[m].open)
<1> DEFINE P == [i \in 0..Len(s) |->
                   {b \in Batches : m <= i => f[m].ids \subseteq b.ids /\ (b.open => f[m].open)}]
<1>1. \A i \in 0..Len(s) : f[i] \in Batches BY DEF Through
<1>2. \A i \in 1..Len(s) : f[i - 1].ids \subseteq f[i].ids /\ (f[i].open => f[i - 1].open)
  BY DEF Through, Considered
<1>3. f[0] \in P[0]
  <2>1. 0 \in 0..Len(s) /\ (m <= 0 => m = 0) OBVIOUS
  <2> QED BY <1>1, <2>1
<1>4. ASSUME NEW i \in 1..Len(s), f[i - 1] \in P[i - 1] PROVE f[i] \in P[i]
  <2>1. i - 1 \in 0..Len(s) /\ i \in 0..Len(s) /\ (m <= i => m = i \/ m <= i - 1) OBVIOUS
  <2>2. m <= i - 1 => f[m].ids \subseteq f[i - 1].ids /\ (f[i - 1].open => f[m].open)
    BY <1>4, <2>1
  <2>3. m <= i => f[m].ids \subseteq f[i].ids /\ (f[i].open => f[m].open)
    BY <1>2, <2>1, <2>2
  <2> QED BY <1>1, <2>1, <2>3
<1>5. \A i \in 0..Len(s) : f[i] \in P[i]
  <2>1. Len(s) \in Nat OBVIOUS
  <2> HIDE DEF P
  <2> QED BY <1>3, <1>4, <2>1, Carried, ZenonT(60)
<1> QED BY <1>5

\* What a selection adds was offered to it.
LEMMA SelectionOffered ==
    ASSUME NEW batch, NEW s \in Seq(Keys), NEW pressed, NEW f, Through(f, batch, s, pressed),
           NEW n \in 0..Len(s)
    PROVE  f[n].ids \subseteq batch.ids \cup Range(s)
<1> DEFINE P == [i \in 0..Len(s) |-> {b \in Batches : b.ids \subseteq batch.ids \cup Range(s)}]
<1>1. \A i \in 0..Len(s) : f[i] \in Batches BY DEF Through
<1>2. \A i \in 1..Len(s) : f[i].ids \subseteq f[i - 1].ids \cup {s[i]}
  BY DEF Through, Considered
<1>3. \A i \in 1..Len(s) : s[i] \in Range(s) /\ i - 1 \in 0..Len(s) /\ i \in 0..Len(s)
  BY DEF Range
<1>4. f[0] \in P[0]
  <2>1. 0 \in 0..Len(s) /\ f[0] = batch BY DEF Through
  <2> QED BY <1>1, <2>1
<1>5. \A i \in 1..Len(s) : f[i - 1] \in P[i - 1] => f[i] \in P[i]
  BY <1>1, <1>2, <1>3
<1>6. \A i \in 0..Len(s) : f[i] \in P[i]
  <2>1. Len(s) \in Nat OBVIOUS
  <2> HIDE DEF P
  <2> QED BY <1>4, <1>5, <2>1, Carried, ZenonT(60)
<1> QED BY <1>6

\* A selection that nothing ended has all it was offered that is stored.
LEMMA SelectionComplete ==
    ASSUME NEW batch, NEW s \in Seq(Keys), NEW f, Through(f, batch, s, FALSE), f[Len(s)].open
    PROVE  Range(s) \cap Stored \subseteq f[Len(s)].ids
<1> SUFFICES ASSUME NEW n \in 1..Len(s), s[n] \in Stored PROVE s[n] \in f[Len(s)].ids
  BY DEF Range
<1>1. n \in 0..Len(s) /\ Len(s) \in 0..Len(s) /\ n <= Len(s) OBVIOUS
<1>2. f[n].ids \subseteq f[Len(s)].ids /\ f[n].open BY <1>1, SelectionGrows
<1>3. s[n] \in f[n].ids BY <1>2 DEF Through, Considered
<1> QED BY <1>2, <1>3
\* The invalid records come first: the batch takes nothing else before them, and while it
\* is open it has all of them.
LEMMA InvalidFirst ==
    ASSUME TypeOK, NEW p \in Processes
    PROVE  /\ InvalidBatch(p) \in Batches /\ InvalidBatch(p).ids \subseteq Range(invalid[p])
           /\ InvalidBatch(p).open => Range(invalid[p]) \cap Stored \subseteq InvalidBatch(p).ids
<1> DEFINE s == invalid[p]
           empty == [ids |-> {}, open |-> TRUE]
<1>1. s \in Seq(Keys) BY DEF TypeOK
<1>2. InvalidBatch(p) = Selected(empty, s, FALSE) BY DEF InvalidBatch
<1>3. empty \in Batches /\ empty.ids = {} BY DEF Batches
<1> HIDE DEF s, empty
<1>4. PICK f : Through(f, empty, s, FALSE) /\ Selected(empty, s, FALSE) = f[Len(s)]
  BY <1>1, <1>3, Selecting
<1>5. Len(s) \in 0..Len(s) BY <1>1
<1>6. f[Len(s)] \in Batches BY <1>4, <1>5 DEF Through
<1>7. f[Len(s)].ids \subseteq Range(s) BY <1>1, <1>3, <1>4, <1>5, SelectionOffered
<1>8. f[Len(s)].open => Range(s) \cap Stored \subseteq f[Len(s)].ids
  BY <1>1, <1>4, SelectionComplete
<1> QED BY <1>2, <1>4, <1>6, <1>7, <1>8 DEF s

-----------------------------------------------------------------------------
(* The orders of the candidates                                            *)

\* Every key has a place of its own in the stable order.
LEMMA PositionsDiffer ==
    /\ \A k \in Keys : Position(k) \in Nat
    /\ \A k, l \in Keys : Position(k) = Position(l) => k = l
<1> SUFFICES ASSUME NEW k \in Keys
             PROVE  Position(k) \in Nat /\ KeyOrder[Position(k)] = k
  OBVIOUS
<1>1. KeyOrder \in Seq(Keys) BY KeyAssumption
<1>2. \E i \in 1..Len(KeyOrder) : KeyOrder[i] = k BY <1>1 DEF Keys, Range
<1>3. Position(k) \in 1..Len(KeyOrder) /\ KeyOrder[Position(k)] = k BY <1>2 DEF Position
<1> QED BY <1>1, <1>3

\* The clocks of a stored record.
LEMMA StoredClocks ==
    ASSUME TypeOK, NEW k \in Stored
    PROVE  k \in Keys /\ db[k].acquired \in Nat /\ db[k].used \in Nat
<1>1. k \in Keys /\ db[k] \in Records BY DEF TypeOK, Stored
<1> QED BY <1>1 DEF Records, Times

\* Records by their age: no two of them are equal.
LEMMA AcquisitionOrders ==
    ASSUME TypeOK, NEW S \in SUBSET Stored
    PROVE  Orders({pair \in S \X S : ByAcquisition(pair[1], pair[2])}, S)
<1> DEFINE R == {pair \in S \X S : ByAcquisition(pair[1], pair[2])}
<1>1. \A k \in S : db[k].acquired \in Nat /\ Position(k) \in Nat
  BY StoredClocks, PositionsDiffer
<1>2. \A a, b \in S : <<a, b>> \in R <=> ByAcquisition(a, b) OBVIOUS
<1>3. \A a, b \in S : Position(a) = Position(b) => a = b
  BY StoredClocks, PositionsDiffer
<1> HIDE DEF R
<1>4. \A a \in S : ~ByAcquisition(a, a) BY <1>1 DEF ByAcquisition
<1>5. \A a, b, c \in S : ByAcquisition(a, b) /\ ByAcquisition(b, c) => ByAcquisition(a, c)
  BY <1>1 DEF ByAcquisition
<1>6. \A a, b \in S : a = b \/ ByAcquisition(a, b) \/ ByAcquisition(b, a)
  BY <1>1, <1>3 DEF ByAcquisition
<1>7. Orders(R, S) BY <1>2, <1>4, <1>5, <1>6 DEF Orders
<1> QED BY <1>7 DEF R

\* Records by their use: no two of them are equal.
LEMMA UseOrders ==
    ASSUME TypeOK
    PROVE  Orders({pair \in Stored \X Stored : ByUse(pair[1], pair[2])}, Stored)
<1> DEFINE R == {pair \in Stored \X Stored : ByUse(pair[1], pair[2])}
           A == {pair \in Stored \X Stored : ByAcquisition(pair[1], pair[2])}
<1>1. \A k \in Stored : db[k].used \in Nat BY StoredClocks
<1>2. \A a, b \in Stored : <<a, b>> \in R <=> ByUse(a, b) OBVIOUS
<1>3. \A a, b \in Stored : <<a, b>> \in A <=> ByAcquisition(a, b) OBVIOUS
<1>4. Orders(A, Stored) BY AcquisitionOrders
<1> HIDE DEF R, A
<1>5. /\ \A a \in Stored : ~ByAcquisition(a, a)
      /\ \A a, b, c \in Stored : ByAcquisition(a, b) /\ ByAcquisition(b, c) => ByAcquisition(a, c)
      /\ \A a, b \in Stored : a = b \/ ByAcquisition(a, b) \/ ByAcquisition(b, a)
  BY <1>3, <1>4 DEF Orders
<1>6. \A a \in Stored : ~ByUse(a, a) BY <1>1, <1>5 DEF ByUse
<1>7. \A a, b, c \in Stored : ByUse(a, b) /\ ByUse(b, c) => ByUse(a, c)
  <2> TAKE a, b, c \in Stored
  <2>1. db[a].used \in Nat /\ db[b].used \in Nat /\ db[c].used \in Nat BY <1>1
  <2>2. ByAcquisition(a, b) /\ ByAcquisition(b, c) => ByAcquisition(a, c) BY <1>5
  <2> QED BY <2>1, <2>2 DEF ByUse
<1>8. \A a, b \in Stored : a = b \/ ByUse(a, b) \/ ByUse(b, a)
  BY <1>1, <1>5 DEF ByUse
<1>9. Orders(R, Stored) BY <1>2, <1>6, <1>7, <1>8 DEF Orders
<1> QED BY <1>9 DEF R
\* The candidates of a selection: its first records, in its order.
Listed(c, R, S) ==
    /\ c \in Seq(S)
    /\ \A i, j \in 1..Len(c) : i < j <=> <<c[i], c[j]>> \in R
    /\ \A k \in S : \/ \E i \in 1..Len(c) : c[i] = k
                    \/ Len(c) = EvidenceBatch /\ \A i \in 1..Len(c) : <<c[i], k>> \in R

LEMMA CandidatesListed ==
    ASSUME NEW R, NEW S, IsFiniteSet(S), Orders(R, S)
    PROVE  Listed(Candidates(InOrder(R, S)), R, S)
<1> DEFINE s == InOrder(R, S)
           c == Candidates(s)
           n == IF Len(s) < EvidenceBatch THEN Len(s) ELSE EvidenceBatch
<1>1. /\ s \in Seq(S)
      /\ \A i \in 1..Len(s) : s[i] \in S
      /\ \A k \in S : \E i \in 1..Len(s) : s[i] = k
      /\ \A i, j \in 1..Len(s) : i < j <=> <<s[i], s[j]>> \in R
  <2>1. /\ s \in Seq(S) /\ Len(s) = Cardinality(S) /\ Cardinality(S) \in Nat
        /\ DOMAIN s = 1 .. Cardinality(S)
        /\ \A i \in DOMAIN s : s[i] \in S
        /\ \A k \in S : \E i \in DOMAIN s : s[i] = k
        /\ \A i, j \in DOMAIN s : i < j <=> <<s[i], s[j]>> \in R
    BY InOrderLists
  <2> HIDE DEF s
  <2> QED BY <2>1
<1>2. EvidenceBatch \in Nat \ {0} BY BoundAssumption
<1>3. Len(s) \in Nat /\ n \in Nat /\ n <= Len(s) /\ n <= EvidenceBatch
      /\ (n = Len(s) \/ n = EvidenceBatch)
  BY <1>1, <1>2
<1>4. c = SubSeq(s, 1, n) BY DEF Candidates
<1> HIDE DEF s, c, n
<1>5. c \in Seq(S) /\ Len(c) = n /\ \A i \in 1..n : c[i] = s[i]
  BY <1>1, <1>3, <1>4
<1>6. \A i \in 1..n : i \in 1..Len(s) BY <1>3
<1>7. \A i, j \in 1..Len(c) : i < j <=> <<c[i], c[j]>> \in R
  <2> TAKE i, j \in 1..Len(c)
  <2>1. i \in 1..Len(s) /\ j \in 1..Len(s) /\ c[i] = s[i] /\ c[j] = s[j] BY <1>5, <1>6
  <2> QED BY <1>1, <2>1
<1>8. ASSUME NEW k \in S, \A i \in 1..Len(c) : c[i] # k
      PROVE  Len(c) = EvidenceBatch /\ \A i \in 1..Len(c) : <<c[i], k>> \in R
  <2>1. PICK j \in 1..Len(s) : s[j] = k BY <1>1
  <2>2. n < j
    <3>1. SUFFICES ASSUME j <= n PROVE FALSE BY <1>3
    <3>2. j \in 1..n BY <1>3, <3>1
    <3> QED BY <1>5, <1>8, <2>1, <3>2
  <2>3. n = EvidenceBatch BY <1>3, <2>2
  <2>4. ASSUME NEW i \in 1..n PROVE <<s[i], s[j]>> \in R
    <3>1. i \in 1..Len(s) /\ i < j BY <1>3, <1>6, <2>2
    <3> QED BY <1>1, <3>1
  <2> QED BY <1>5, <2>1, <2>3, <2>4
<1>9. Listed(c, R, S) BY <1>5, <1>7, <1>8 DEF Listed
<1> QED BY <1>9 DEF c, s

\* As many records are listed as there are places.
LEMMA ListedCounted ==
    ASSUME NEW c, NEW R, NEW S, Orders(R, S), Listed(c, R, S)
    PROVE  IsFiniteSet(Range(c)) /\ Cardinality(Range(c)) = Len(c)
<1> DEFINE f == [i \in 1..Len(c) |-> c[i]]
<1>1. Len(c) \in Nat /\ \A i \in 1..Len(c) : c[i] \in S BY DEF Listed
<1>2. Range(c) = {c[i] : i \in 1..Len(c)} BY DEF Listed, Range
<1>3. f \in [1..Len(c) -> Range(c)] BY <1>2
<1>4. \A i, j \in 1..Len(c) : f[i] = f[j] => i = j
  <2> SUFFICES ASSUME NEW i \in 1..Len(c), NEW j \in 1..Len(c), c[i] = c[j], i < j PROVE FALSE
    BY <1>1
  <2>1. <<c[i], c[j]>> \in R BY DEF Listed
  <2>2. <<c[i], c[i]>> \notin R BY <1>1 DEF Orders
  <2> QED BY <2>1, <2>2
<1>5. \A k \in Range(c) : \E i \in 1..Len(c) : f[i] = k BY <1>2
<1>6. IsFiniteSet(1..Len(c)) /\ Cardinality(1..Len(c)) = Len(c) BY <1>1, FS_Interval
<1> HIDE DEF f
<1>7. IsFiniteSet(Range(c)) /\ Cardinality(Range(c)) = Cardinality(1..Len(c))
  BY <1>3, <1>4, <1>5, <1>6, SameSize, ZenonT(60)
<1> QED BY <1>6, <1>7

\* The expired records come second: while the batch is open it has the invalid ones of the
\* process, and all that are expired or as many records as it may have.
LEMMA ExpiredSecond ==
    ASSUME TypeOK, NEW p \in Processes
    PROVE  /\ ExpiredBatch(p) \in Batches
           /\ InvalidBatch(p).ids \subseteq ExpiredBatch(p).ids
           /\ ExpiredBatch(p).ids \subseteq Range(invalid[p]) \cup {k \in Stored : Expired(k)}
           /\ ExpiredBatch(p).open =>
                /\ InvalidBatch(p).open
                /\ \/ {k \in Stored : Expired(k)} \subseteq ExpiredBatch(p).ids
                   \/ EvidenceBatch <= Cardinality(ExpiredBatch(p).ids)
<1> DEFINE S == {k \in Stored : Expired(k)}
           R == {pair \in S \X S : ByAcquisition(pair[1], pair[2])}
           c == Candidates(InOrder(R, S))
           batch == InvalidBatch(p)
<1>1. S \in SUBSET Stored /\ S \in SUBSET Keys BY DEF Stored
<1>2. IsFiniteSet(S) BY <1>1, RecordsFinite
<1>3. Orders(R, S) BY <1>1, AcquisitionOrders
<1>4. ExpiredBatch(p) = Selected(batch, c, FALSE) BY DEF ExpiredBatch, OldestFirst
<1>5. batch \in Batches BY InvalidFirst
<1> HIDE DEF S, R, batch
<1>6. Listed(c, R, S) BY <1>2, <1>3, CandidatesListed
<1> HIDE DEF c
<1>7. c \in Seq(Keys) BY <1>1, <1>6 DEF Listed
<1>8. PICK f : Through(f, batch, c, FALSE) /\ Selected(batch, c, FALSE) = f[Len(c)]
  BY <1>5, <1>7, Selecting
<1> DEFINE E == f[Len(c)]
<1>9. 0 \in 0..Len(c) /\ Len(c) \in 0..Len(c) /\ 0 <= Len(c) BY <1>7
<1>10. E \in Batches /\ f[0] = batch BY <1>8, <1>9 DEF Through
<1>11. batch.ids \subseteq E.ids /\ (E.open => batch.open)
  BY <1>7, <1>8, <1>9, <1>10, SelectionGrows
<1>12. ASSUME E.open PROVE S \subseteq E.ids \/ EvidenceBatch <= Cardinality(E.ids)
  <2>1. Range(c) \subseteq E.ids
    <3>1. Range(c) \subseteq Stored BY <1>1, <1>6 DEF Listed, Range
    <3> QED BY <1>7, <1>8, <1>12, <3>1, SelectionComplete
  <2>2. CASE \A k \in S : \E i \in 1..Len(c) : c[i] = k
    <3>1. S \subseteq Range(c) BY <1>7, <2>2 DEF Range
    <3> QED BY <2>1, <3>1
  <2>3. CASE ~ \A k \in S : \E i \in 1..Len(c) : c[i] = k
    <3>1. Len(c) = EvidenceBatch BY <1>6, <2>3 DEF Listed
    <3>2. Cardinality(Range(c)) = EvidenceBatch BY <1>3, <1>6, <3>1, ListedCounted
    <3>3. E.ids \in SUBSET Keys BY <1>10 DEF Batches
    <3>4. IsFiniteSet(E.ids) BY <3>3, RecordsFinite
    <3>5. Cardinality(Range(c)) <= Cardinality(E.ids) BY <2>1, <3>4, FS_Subset
    <3> QED BY <3>2, <3>5
  <2> QED BY <2>2, <2>3
<1>13. E.ids \subseteq Range(invalid[p]) \cup S
  <2>1. E.ids \subseteq batch.ids \cup Range(c) BY <1>7, <1>8, <1>9, SelectionOffered
  <2>2. batch.ids \subseteq Range(invalid[p]) BY InvalidFirst DEF batch
  <2>3. Range(c) \subseteq S BY <1>6 DEF Listed, Range
  <2> QED BY <2>1, <2>2, <2>3
<1> HIDE DEF E
<1>14. ExpiredBatch(p) = E BY <1>4, <1>8 DEF E
<1> QED BY <1>10, <1>11, <1>12, <1>13, <1>14 DEF batch, S
-----------------------------------------------------------------------------
(* Evictions                                                               *)

\* A bound that is above its target without many records is so without fewer of them.
LEMMA FewerGone ==
    ASSUME NEW B \in SUBSET Keys, NEW A \in SUBSET B, OverTarget(B)
    PROVE  OverTarget(A)
<1>1. EvidenceTarget \in Int /\ ChildTarget \in Int
  BY BoundAssumption DEF EvidenceTarget, ChildTarget
<1>2. Stored \ B \subseteq Stored \ A /\ Stored \ A \in SUBSET Keys /\ Stored \ B \in SUBSET Keys
  BY DEF Stored
<1>3. /\ Cardinality(Stored \ A) \in Nat /\ Cardinality(Stored \ B) \in Nat
      /\ Cardinality(Stored \ B) <= Cardinality(Stored \ A)
  BY <1>2, RecordsFinite, FS_Subset
<1>4. Rows(Stored \ A) \in Nat /\ Rows(Stored \ B) \in Nat /\ Rows(Stored \ B) <= Rows(Stored \ A)
  <2>1. ChildRows(Stored \ B) \subseteq ChildRows(Stored \ A) BY <1>2 DEF ChildRows
  <2> QED BY <1>2, <2>1, ChildRowsFinite, FewerRows DEF Rows
<1> QED BY <1>1, <1>3, <1>4 DEF OverTarget

\* The record that was considered when a batch got a record it did not start with.
Entered(f, c, n, l) ==
    /\ c[n] = l /\ l \notin f[n - 1].ids /\ l \in f[n].ids /\ f[n].ids = f[n - 1].ids \cup {l}
    /\ f[n - 1].open /\ Fits(f[n - 1], l) /\ OverTarget(f[n - 1].ids)

LEMMA EnteredOnce ==
    ASSUME NEW batch, NEW c \in Seq(Keys), NEW f, Through(f, batch, c, TRUE),
           NEW l \in f[Len(c)].ids, l \notin batch.ids
    PROVE  \E n \in 1..Len(c) : Entered(f, c, n, l)
<1> DEFINE With == {n \in 0..Len(c) : l \in f[n].ids}
<1>1. Len(c) \in Nat /\ Len(c) \in With OBVIOUS
<1>2. PICK n \in With : \A m \in With : n <= m
  <2>1. With \in SUBSET Nat OBVIOUS
  <2> HIDE DEF With
  <2> QED BY <1>1, <2>1, LeastNumber
<1>3. n # 0 BY DEF Through
<1>4. n \in 1..Len(c) /\ n - 1 \in 0..Len(c) /\ l \in f[n].ids BY <1>3
<1>5. l \notin f[n - 1].ids
  <2>1. n - 1 \notin With
    <3>1. ~(n <= n - 1) BY <1>4
    <3> HIDE DEF With
    <3> QED BY <1>2, <3>1
  <2> QED BY <1>4, <2>1
<1>6. Considered(f[n - 1], c[n], TRUE, f[n]) BY <1>4 DEF Through
<1>7. /\ f[n].ids = f[n - 1].ids \cup {c[n]} /\ f[n - 1].open
      /\ Fits(f[n - 1], c[n]) /\ OverTarget(f[n - 1].ids)
  BY <1>4, <1>5, <1>6 DEF Considered
<1>8. c[n] = l BY <1>4, <1>5, <1>7
<1> QED BY <1>4, <1>5, <1>7, <1>8 DEF Entered

\* A record that makes room in a batch of a process: neither expired nor queued by it.
MakesRoom(p, k) == k \in Stored /\ ~Expired(k) /\ k \notin Range(invalid[p])

LEMMA EvictedLast ==
    ASSUME TypeOK, NEW p \in Processes, NEW e \in Batch(p), MakesRoom(p, e)
    PROVE  /\ \A k \in Stored \ Batch(p) : ~Expired(k) /\ db[e].used <= db[k].used
           /\ \E l \in Batch(p) : MakesRoom(p, l) /\ OverTarget(Batch(p) \ {l})
<1> DEFINE R == {pair \in Stored \X Stored : ByUse(pair[1], pair[2])}
           c == Candidates(InOrder(R, Stored))
           E == ExpiredBatch(p)
           ids == Batch(p)
<1>1. Stored \in SUBSET Keys /\ IsFiniteSet(Stored) BY StoredCounted
<1>2. Orders(R, Stored) BY UseOrders
<1>3. ids = Selected(E, c, TRUE).ids BY DEF Batch, LeastUsedFirst
<1>4. /\ E \in Batches
      /\ E.ids \subseteq Range(invalid[p]) \cup {k \in Stored : Expired(k)}
      /\ InvalidBatch(p).ids \subseteq E.ids
      /\ E.open => \/ {k \in Stored : Expired(k)} \subseteq E.ids
                   \/ EvidenceBatch <= Cardinality(E.ids)
      /\ E.open => InvalidBatch(p).open
  BY ExpiredSecond
<1>5. \A a, b \in Stored : <<a, b>> \in R <=> ByUse(a, b) OBVIOUS
<1> HIDE DEF R, E
<1>6. Listed(c, R, Stored) BY <1>1, <1>2, CandidatesListed
<1> HIDE DEF c, ids
<1>7. c \in Seq(Keys) /\ c \in Seq(Stored) BY <1>1, <1>6 DEF Listed
<1>8. PICK f : Through(f, E, c, TRUE) /\ Selected(E, c, TRUE) = f[Len(c)]
  BY <1>4, <1>7, Selecting
<1>9. /\ 0 \in 0..Len(c) /\ Len(c) \in 0..Len(c) /\ Len(c) \in Nat
      /\ \A n \in 1..Len(c) : c[n] \in Stored /\ n - 1 \in 0..Len(c) /\ n \in 0..Len(c)
  BY <1>7
<1>10. f[Len(c)].ids = ids /\ f[0] = E /\ \A n \in 0..Len(c) : f[n] \in Batches
  BY <1>3, <1>8 DEF Through
<1>11. e \notin E.ids /\ e \in f[Len(c)].ids
  BY <1>4, <1>10 DEF MakesRoom, ids
<1>12. PICK n \in 1..Len(c) : Entered(f, c, n, e)
  BY <1>7, <1>8, <1>11, EnteredOnce
<1>13. \A i, j \in 0..Len(c) : i <= j => f[i].ids \subseteq f[j].ids /\ (f[j].open => f[i].open)
  BY <1>7, <1>8, SelectionGrows
<1>14. E.ids \subseteq f[n - 1].ids /\ E.open
  <2>1. 0 <= n - 1 /\ n - 1 \in 0..Len(c) /\ f[n - 1].open BY <1>9, <1>12 DEF Entered
  <2> QED BY <1>9, <1>10, <1>13, <2>1
<1>15. {k \in Stored : Expired(k)} \subseteq E.ids
  <2>1. f[n - 1].ids \in SUBSET Keys BY <1>9, <1>10 DEF Batches
  <2>2. IsFiniteSet(f[n - 1].ids) /\ Cardinality(f[n - 1].ids) \in Nat BY <2>1, RecordsFinite
  <2>3. Cardinality(E.ids) \in Nat /\ Cardinality(E.ids) <= Cardinality(f[n - 1].ids)
    BY <1>14, <2>2, FS_Subset, FS_CardinalityType
  <2>4. Cardinality(f[n - 1].ids) < EvidenceBatch BY <1>12 DEF Entered, Fits
  <2>5. ~(EvidenceBatch <= Cardinality(E.ids)) BY <2>2, <2>3, <2>4, BoundAssumption
  <2> QED BY <1>4, <1>14, <2>5
<1>16. E.ids \subseteq ids BY <1>9, <1>10, <1>13
<1>17. ASSUME NEW k \in Stored, k \notin ids, ~(db[e].used <= db[k].used) PROVE FALSE
  <2>1. e \in Stored BY DEF MakesRoom
  <2>2. db[e].used \in Nat /\ db[k].used \in Nat BY <2>1, StoredClocks
  <2>3. ByUse(k, e) /\ ~ByUse(e, k) BY <1>17, <2>2 DEF ByUse
  <2>4. c[n] = e BY <1>12 DEF Entered
  <2>5. PICK m \in 1..Len(c) : c[m] = k BY <1>5, <1>6, <2>1, <2>3, <2>4 DEF Listed
  <2>6. m < n BY <1>5, <1>6, <2>1, <2>3, <2>4, <2>5 DEF Listed
  <2>7. m \in 0..Len(c) /\ m - 1 \in 0..Len(c) /\ n - 1 \in 0..Len(c) /\ m <= n - 1 /\ m - 1 <= n - 1
    BY <1>9, <2>6
  <2>8. f[m].open BY <1>12, <1>13, <2>7 DEF Entered
  <2>9. OverTarget(f[m - 1].ids)
    <3>1. f[m - 1].ids \subseteq f[n - 1].ids BY <1>13, <2>7
    <3>2. f[n - 1].ids \in SUBSET Keys BY <1>10, <2>7 DEF Batches
    <3>3. OverTarget(f[n - 1].ids) BY <1>12 DEF Entered
    <3> QED BY <3>1, <3>2, <3>3, FewerGone
  <2>10. k \in f[m].ids BY <1>8, <2>5, <2>8, <2>9 DEF Through, Considered
  <2>11. m <= Len(c) OBVIOUS
  <2>12. f[m].ids \subseteq f[Len(c)].ids BY <1>9, <1>13, <2>7, <2>11
  <2> QED BY <1>10, <1>17, <2>10, <2>12
<1>18. \E l \in ids : MakesRoom(p, l) /\ OverTarget(ids \ {l})
  <2> DEFINE Done == {m \in 0..Len(c) : f[m].ids = ids}
  <2>1. Len(c) \in Done BY <1>9, <1>10
  <2>2. PICK m \in Done : \A i \in Done : m <= i
    <3>1. Done \in SUBSET Nat OBVIOUS
    <3> HIDE DEF Done
    <3> QED BY <2>1, <3>1, LeastNumber
  <2>3. m # 0 BY <1>10, <1>11
  <2>4. m \in 1..Len(c) /\ m - 1 \in 0..Len(c) /\ f[m].ids = ids BY <2>3
  <2>5. f[m - 1].ids # ids
    <3>1. m - 1 \notin Done
      <4>1. ~(m <= m - 1) BY <2>4
      <4> HIDE DEF Done
      <4> QED BY <2>2, <4>1
    <3> QED BY <2>4, <3>1
  <2> HIDE DEF Done
  <2>6. Considered(f[m - 1], c[m], TRUE, f[m]) BY <1>8, <2>4 DEF Through
  <2>7. /\ ids = f[m - 1].ids \cup {c[m]} /\ c[m] \notin f[m - 1].ids
        /\ OverTarget(f[m - 1].ids)
    BY <2>4, <2>5, <2>6 DEF Considered
  <2>8. ids \ {c[m]} = f[m - 1].ids BY <2>7
  <2>9. E.ids \subseteq f[m - 1].ids /\ E.open
    <3>1. 0 <= m - 1 BY <2>4
    <3> QED BY <1>9, <1>10, <1>14, <1>13, <2>4, <3>1
  <2>10. c[m] \in Stored /\ c[m] \notin E.ids BY <1>9, <2>4, <2>7, <2>9
  <2>11. c[m] \notin Range(invalid[p])
    <3>1. Range(invalid[p]) \cap Stored \subseteq E.ids BY <1>4, <1>14, InvalidFirst
    <3> QED BY <2>10, <3>1
  <2>12. MakesRoom(p, c[m]) BY <1>15, <2>10, <2>11 DEF MakesRoom
  <2> QED BY <2>7, <2>8, <2>12
<1> QED BY <1>15, <1>16, <1>17, <1>18 DEF ids
\* Only a cleanup removes a record.
LEMMA OnlyCleanupRemoves ==
    ASSUME TypeOK, Next, NEW k \in Stored, db'[k] = None
    PROVE  \E p \in Processes : Maintain(p) /\ k \in Batch(p)
<1> USE DEF process
<1>1. k \in Keys /\ db \in [Keys -> Records \cup {None}] /\ db[k] \in Records /\ None \notin Records
  BY KeyAssumption DEF TypeOK, Stored
<1>2. db' # db BY <1>1
<1>3. ASSUME NEW p \in Processes, Save(p) PROVE FALSE
  <2> DEFINE key == saving[p].key
             at == saving[p].at
  <2>1. key \in Keys /\ at \in Times
    <3>1. saving[p] \in [key : Keys, at : Times] BY <1>3 DEF Save, TypeOK
    <3> QED BY <3>1
  <2>2. db' = [db EXCEPT ![key] = Written(key, at)] BY <1>3 DEF Save
  <2>3. Written(key, at) \in Records BY <2>1, WrittenTyped
  <2> HIDE DEF key, at
  <2> QED BY <1>1, <2>1, <2>2, <2>3
<1>4. ASSUME NEW p \in Processes, Touch(p) PROVE FALSE
  <2>1. db' = [l \in Keys |-> IF l \in touched[p] \cap Stored THEN TouchedRecord(db[l]) ELSE db[l]]
    BY <1>2, <1>4 DEF Touch
  <2>2. TouchedRecord(db[k]) \in Records BY <1>1 DEF TouchedRecord, Records, TypeOK
  <2> QED BY <1>1, <2>1, <2>2
<1>5. ASSUME NEW l \in Keys, Damage(l) PROVE FALSE
  <2>1. db[l] \in Records BY <1>1, <1>5 DEF Damage, Stored
  <2>2. [db[l] EXCEPT !.valid = FALSE] \in Records BY <2>1 DEF Records
  <2>3. db' = [db EXCEPT ![l] = [db[l] EXCEPT !.valid = FALSE]] BY <1>5 DEF Damage
  <2> QED BY <1>1, <2>2, <2>3
<1>6. ASSUME NEW p \in Processes, Maintain(p) PROVE k \in Batch(p)
  <2> DEFINE ids == Batch(p)
  <2>1. db' = [l \in Keys |-> IF l \in ids THEN None ELSE db[l]]
    BY <1>2, <1>6 DEF Maintain
  <2> HIDE DEF ids
  <2>2. k \in ids BY <1>1, <2>1
  <2> QED BY <2>2 DEF ids
<1>7. PICK p \in Processes : Maintain(p)
  <2>1. ASSUME NEW p \in Processes, NEW l \in Keys,
               Miss(p, l) \/ FindInvalid(p, l) \/ Hit(p, l) \/ RequestSave(p, l)
        PROVE  FALSE
    BY <1>2, <2>1 DEF Miss, FindInvalid, Hit, RequestSave
  <2>2. ASSUME NEW p \in Processes,
               FailSave(p) \/ FindDue(p) \/ FindNotDue(p) \/ SkipMaintenance(p) \/ Start(p) \/ Stop(p)
        PROVE  FALSE
    BY <1>2, <2>2 DEF FailSave, FindDue, FindNotDue, SkipMaintenance, Start, Stop
  <2>3. ~Clock BY <1>2 DEF Clock
  <2> QED BY <1>3, <1>4, <1>5, <2>1, <2>2, <2>3 DEF Next, Refreshing
<1> QED BY <1>6, <1>7

\* A cleanup that removes something.
LEMMA CleanupRemoves ==
    ASSUME TypeOK, NEW p \in Processes, Maintain(p), NEW k \in Batch(p)
    PROVE  /\ db' = [l \in Keys |-> IF l \in Batch(p) THEN None ELSE db[l]]
           /\ invalid' = [invalid EXCEPT ![p] = InvalidCarry(p)]
           /\ phase' = [phase EXCEPT ![p] = "working"] /\ phase[p] = "cleaning"
<1> DEFINE ids == Batch(p)
<1>1. ids # {} OBVIOUS
<1>2. /\ db' = [l \in Keys |-> IF l \in ids THEN None ELSE db[l]]
      /\ invalid' = [invalid EXCEPT ![p] = InvalidCarry(p)]
  <2> HIDE DEF ids
  <2>1. IF ids = {} THEN UNCHANGED <<db, pages, bytes, invalid, disabled>>
        ELSE /\ db' = [l \in Keys |-> IF l \in ids THEN None ELSE db[l]]
             /\ invalid' = [invalid EXCEPT ![p] = InvalidCarry(p)]
             /\ Compact(p, Cardinality(Stored \ ids))
    BY DEF Maintain, ids
  <2> QED BY <1>1, <2>1
<1>3. phase' = [phase EXCEPT ![p] = "working"] /\ phase[p] = "cleaning"
  BY DEF Maintain, NextRefresh
<1> QED BY <1>2, <1>3

\* A step evicts as a last resort.
LEMMA StepEvictsLast ==
    ASSUME TypeOK, [Next]_vars, Evicted # {}
    PROVE  LET left == {k \in Keys : db'[k] # None} IN
           /\ \A k \in left : ~Expired(k)
           /\ \A e \in Evicted, k \in left : db[e].used <= db[k].used
           /\ \E e \in Evicted : OverTarget(Stored \ (left \cup {e}))
<1> DEFINE left == {k \in Keys : db'[k] # None}
<1>1. PICK a \in Evicted : a \in Stored /\ db'[a] = None BY DEF Evicted
<1>2. Next BY <1>1 DEF Stored, vars
<1>3. PICK p \in Processes : Maintain(p) /\ a \in Batch(p) BY <1>1, <1>2, OnlyCleanupRemoves
<1> DEFINE ids == Batch(p)
<1>4. /\ db' = [l \in Keys |-> IF l \in ids THEN None ELSE db[l]]
      /\ phase' = [phase EXCEPT ![p] = "working"] /\ phase[p] = "cleaning"
  BY <1>3, CleanupRemoves
<1>5. phase \in [Processes -> Phases] /\ Stored \subseteq Keys BY DEF TypeOK, Stored
<1>6. left = Stored \ ids
  <2> HIDE DEF ids
  <2> QED BY <1>4 DEF Stored
<1>7. \A k : k \in Evicted <=> k \in ids /\ MakesRoom(p, k)
  <2> HIDE DEF ids
  <2>1. \A q \in Processes : phase'[q] # phase[q] <=> q = p BY <1>4, <1>5
  <2>2. \A k \in Stored : db'[k] = None <=> k \in ids BY <1>4, <1>5 DEF Stored
  <2> QED BY <2>1, <2>2 DEF Evicted, MakesRoom
<1>8. \A e \in Evicted : \A k \in left : ~Expired(k) /\ db[e].used <= db[k].used
  <2> TAKE e \in Evicted
  <2>1. e \in Batch(p) /\ MakesRoom(p, e) BY <1>7
  <2>2. \A k \in Stored \ Batch(p) : ~Expired(k) /\ db[e].used <= db[k].used
    BY <2>1, EvictedLast
  <2> QED BY <1>6, <2>2
<1>9. PICK l \in ids : MakesRoom(p, l) /\ OverTarget(ids \ {l})
  <2>1. a \in Batch(p) /\ MakesRoom(p, a) BY <1>7
  <2> QED BY <2>1, EvictedLast
<1>10. OverTarget(Stored \ (left \cup {l}))
  <2>1. Stored \ (left \cup {l}) \subseteq ids \ {l} BY <1>6
  <2>2. Stored \ (Stored \ (left \cup {l})) = Stored \ (ids \ {l})
    BY <1>6
  <2> QED BY <1>9, <2>2 DEF OverTarget
<1>11. l \in Evicted BY <1>7, <1>9
<1> HIDE DEF left
<1>12. /\ \A k \in left : ~Expired(k)
       /\ \A e \in Evicted, k \in left : db[e].used <= db[k].used
       /\ \E e \in Evicted : OverTarget(Stored \ (left \cup {e}))
  BY <1>1, <1>8, <1>10, <1>11
<1> QED BY <1>12 DEF left

\* For every number of processes, keys and paths, and whatever the clocks and the bounds:
\* a cleanup removes a record for want of room only when nothing expired is left, nothing
\* that is left was used less recently, and a bound was above its target without the last
\* record that went: the rows that would be left, or the bytes measured before the batch.
THEOREM EvictionSafe == Spec => EvictionIsLast
<1>1. TypeOK /\ [Next]_vars =>
        [LET left == {k \in Keys : db'[k] # None} IN
         Evicted # {} =>
            /\ \A k \in left : ~Expired(k)
            /\ \A e \in Evicted, k \in left : db[e].used <= db[k].used
            /\ \E e \in Evicted : OverTarget(Stored \ (left \cup {e}))]_vars
  BY StepEvictsLast
<1> QED BY <1>1, TypeInvariance, PTL DEF Spec, EvictionIsLast
-----------------------------------------------------------------------------
(* The queue of invalid records                                            *)

\* What a process queued and its batch could reach is in the batch.
LEMMA BatchHasInvalid ==
    ASSUME TypeOK, NEW p \in Processes
    PROVE  InvalidBatch(p).ids \subseteq Batch(p)
<1> DEFINE R == {pair \in Stored \X Stored : ByUse(pair[1], pair[2])}
           c == Candidates(InOrder(R, Stored))
           E == ExpiredBatch(p)
<1>1. Stored \in SUBSET Keys /\ IsFiniteSet(Stored) BY StoredCounted
<1>2. Orders(R, Stored) BY UseOrders
<1>3. Batch(p) = Selected(E, c, TRUE).ids BY DEF Batch, LeastUsedFirst
<1>4. E \in Batches /\ InvalidBatch(p).ids \subseteq E.ids BY ExpiredSecond
<1> HIDE DEF R, E
<1>5. Listed(c, R, Stored) BY <1>1, <1>2, CandidatesListed
<1> HIDE DEF c
<1>6. c \in Seq(Keys) BY <1>1, <1>5 DEF Listed
<1>7. PICK f : Through(f, E, c, TRUE) /\ Selected(E, c, TRUE) = f[Len(c)]
  BY <1>4, <1>6, Selecting
<1>8. 0 \in 0..Len(c) /\ Len(c) \in 0..Len(c) /\ 0 <= Len(c) BY <1>6
<1>9. f[0].ids \subseteq f[Len(c)].ids BY <1>6, <1>7, <1>8, SelectionGrows
<1>10. f[0] = E BY <1>7 DEF Through
<1> QED BY <1>3, <1>4, <1>7, <1>9, <1>10

\* What the batch could not reach is carried over.
LEMMA CarryHolds ==
    ASSUME TypeOK, NEW p \in Processes, NEW k \in Range(invalid[p]),
           k \in Stored \ InvalidBatch(p).ids
    PROVE  k \in Range(InvalidCarry(p))
<1> DEFINE queue == invalid[p]
           hits == {i \in 1..Len(queue) : queue[i] \in Stored \ InvalidBatch(p).ids}
           carried == SubSeq(queue, Min(hits), Len(queue))
<1>1. queue \in Seq(Keys) BY DEF TypeOK
<1>2. PICK i \in 1..Len(queue) : queue[i] = k BY <1>1 DEF Range
<1>3. i \in hits BY <1>2
<1>4. hits \in SUBSET Nat BY <1>1
<1>5. Min(hits) \in hits /\ Min(hits) <= i
  <2>1. PICK n \in hits : \A m \in hits : n <= m
    <3> HIDE DEF hits
    <3> QED BY <1>3, <1>4, LeastNumber
  <2> HIDE DEF hits
  <2> QED BY <1>3, <2>1 DEF Min
<1>6. Min(hits) \in 1..Len(queue) BY <1>5
<1>7. InvalidCarry(p) = carried
  <2>1. hits # {} /\ Min(hits) # 0 BY <1>3, <1>6
  <2>2. InvalidCarry(p) = IF (IF hits # {} THEN Min(hits) ELSE 0) = 0 THEN <<>>
                          ELSE SubSeq(queue, IF hits # {} THEN Min(hits) ELSE 0, Len(queue))
    BY DEF InvalidCarry, SelectInSeq
  <2> HIDE DEF hits, queue
  <2> QED BY <2>1, <2>2
<1> DEFINE first == Min(hits)
<1> HIDE DEF hits, queue
<1>8. first \in 1..Len(queue) /\ first <= i BY <1>5, <1>6
<1>9. carried = SubSeq(queue, first, Len(queue)) OBVIOUS
<1> HIDE DEF first, carried
<1>10. /\ i - first + 1 \in 1..Len(carried) /\ carried[i - first + 1] = queue[i]
       /\ DOMAIN carried = 1..Len(carried)
  BY <1>1, <1>2, <1>8, <1>9
<1>11. k \in Range(carried) BY <1>2, <1>10 DEF Range
<1> QED BY <1>7, <1>11

\* A key that joins a queue leaves the others in it.
LEMMA AppendOnceHolds ==
    ASSUME NEW queue \in Seq(Keys), NEW l \in Keys, NEW k \in Range(queue)
    PROVE  k \in Range(AppendOnce(queue, l))
<1>1. PICK i \in 1..Len(queue) : queue[i] = k BY DEF Range
<1>2. CASE l \in Range(queue) BY <1>2 DEF AppendOnce
<1>3. CASE l \notin Range(queue)
  <2>1. AppendOnce(queue, l) = Append(queue, l) BY <1>3 DEF AppendOnce
  <2>2. i \in DOMAIN Append(queue, l) /\ Append(queue, l)[i] = k BY <1>1
  <2> QED BY <2>1, <2>2 DEF Range
<1> QED BY <1>2, <1>3

\* A step forgets no invalid record that stays stored.
LEMMA StepKeepsInvalid ==
    ASSUME TypeOK, [Next]_vars, NEW p \in Processes, NEW k \in Keys,
           k \in Range(invalid[p]), db'[k] # None, phase'[p] # "down"
    PROVE  k \in Range(invalid'[p])
<1> USE DEF process
<1>1. CASE invalid'[p] = invalid[p] BY <1>1
<1>2. ASSUME NEW q \in Processes, NEW l \in Keys, FindInvalid(q, l), invalid'[p] # invalid[p]
      PROVE  k \in Range(invalid'[p])
  <2>1. invalid' = [invalid EXCEPT ![q] = AppendOnce(invalid[q], l)] BY <1>2 DEF FindInvalid
  <2>2. invalid'[p] = invalid[p] \/ invalid'[p] = AppendOnce(invalid[p], l) BY <2>1
  <2>3. invalid[p] \in Seq(Keys) BY DEF TypeOK
  <2> QED BY <1>2, <2>2, <2>3, AppendOnceHolds
<1>3. ASSUME NEW q \in Processes, Stop(q), invalid'[p] # invalid[p]
      PROVE  k \in Range(invalid'[p])
  <2>1. p = q BY <1>3 DEF Stop
  <2>2. phase'[p] = "down" BY <1>3, <2>1 DEF Stop, TypeOK
  <2> QED BY <2>2
<1>4. ASSUME NEW q \in Processes, Maintain(q), invalid'[p] # invalid[p]
      PROVE  k \in Range(invalid'[p])
  <2>1. PICK l : l \in Batch(q)
    <3> DEFINE ids == Batch(q)
    <3>1. IF ids = {} THEN UNCHANGED <<db, pages, bytes, invalid, disabled>>
          ELSE /\ db' = [l \in Keys |-> IF l \in ids THEN None ELSE db[l]]
               /\ invalid' = [invalid EXCEPT ![q] = InvalidCarry(q)]
               /\ Compact(q, Cardinality(Stored \ ids))
      BY <1>4 DEF Maintain
    <3> HIDE DEF ids
    <3>2. ids # {} BY <1>4, <3>1
    <3> QED BY <3>2 DEF ids
  <2> DEFINE ids == Batch(q)
  <2>2. /\ db' = [m \in Keys |-> IF m \in ids THEN None ELSE db[m]]
        /\ invalid' = [invalid EXCEPT ![q] = InvalidCarry(q)]
    BY <1>4, <2>1, CleanupRemoves
  <2> HIDE DEF ids
  <2>3. p = q /\ invalid'[p] \in {InvalidCarry(p), invalid[p]} BY <1>4, <2>2
  <2>4. k \in Stored /\ k \notin ids BY <2>2 DEF Stored
  <2>5. k \notin InvalidBatch(p).ids BY <2>3, <2>4, BatchHasInvalid DEF ids
  <2>6. k \in Range(InvalidCarry(p)) BY <2>4, <2>5, CarryHolds
  <2> QED BY <2>3, <2>6
<1>5. ASSUME NEW q \in Processes, NEW l \in Keys, Miss(q, l) \/ Hit(q, l) \/ RequestSave(q, l)
      PROVE  invalid' = invalid
  BY <1>5 DEF Miss, Hit, RequestSave
<1>6. ASSUME NEW q \in Processes,
             Save(q) \/ FailSave(q) \/ Touch(q) \/ FindDue(q) \/ FindNotDue(q)
               \/ SkipMaintenance(q) \/ Start(q)
      PROVE  invalid' = invalid
  BY <1>6 DEF Save, FailSave, EndSave, Touch, FindDue, FindNotDue, SkipMaintenance, Start
<1>7. ASSUME Clock \/ \E l \in Keys : Damage(l) PROVE invalid' = invalid
  BY <1>7 DEF Clock, Damage
<1>8. CASE UNCHANGED vars BY <1>8 DEF vars
<1> QED BY <1>1, <1>2, <1>3, <1>4, <1>5, <1>6, <1>7, <1>8 DEF Next, Refreshing

\* For every number of processes, keys and paths: a process forgets no invalid record it has
\* queued while the record stays stored, whatever the batch could reach and whoever cleans up.
THEOREM PrioritySafe == Spec => InvalidKeepsPriority
<1>1. TypeOK /\ [Next]_vars =>
        [\A p \in Processes, k \in Keys :
           k \in Range(invalid[p]) /\ db'[k] # None /\ phase'[p] # "down"
             => k \in Range(invalid'[p])]_vars
  BY StepKeepsInvalid
<1> QED BY <1>1, TypeInvariance, PTL DEF Spec, InvalidKeepsPriority
=============================================================================
