----------------------------- MODULE CacheStore -----------------------------
(***************************************************************************)
(* The evidence cache (src/internal/cache/store.go, maintenance.go) under  *)
(* the processes that share it.  Every process runs refreshes, each one    *)
(* lookups and replacements first and then one touch, one look at whether  *)
(* maintenance is due, and at most one cleanup batch                       *)
(* (src/internal/enrichment/coordinator.go, maintainCache).                *)
(*                                                                         *)
(* An operation on the database holds the admission region of the lock for *)
(* its duration and is one step.  Between the operations of one process    *)
(* come those of the others, the wall clock is advanced or set back,       *)
(* records are damaged from outside, and processes end and start.          *)
(*                                                                         *)
(* A record is one page of the database; its changed paths are counted,    *)
(* its payload is left out.  Time is counted in units of futureSkew.       *)
(* The stored path bytes of a batch are bounded like its child rows, and   *)
(* only the latter are modelled.                                           *)
(*                                                                         *)
(* A definition whose comment starts with "Bug:" is a plausible mistake in *)
(* the definition after it; no specification uses it.                      *)
(***************************************************************************)
EXTENDS Integers, Sequences, FiniteSets, SequencesExt, Ranking

CONSTANTS
    Processes,
    KeyOrder,            \* the typed keys, in their stable order
    PathsOf,             \* the changed paths of the evidence under a key
    None,                \* no record, no replacement in progress
    MaxTime,             \* where the modelled wall clock stops
    Skew, TTL,           \* futureSkew and evidenceTTL
    EvidenceRecords, ChildRecords, RetainedPages, TemporaryPages,
    WriteReservation, CleanupReservation,
    EvidenceBatch, ChildBatch, VacuumPages       \* bounds

Keys == Range(KeyOrder)
Times == 0..MaxTime
Records == [valid : BOOLEAN, acquired : Times, used : Times]

ASSUME KeyAssumption ==
    /\ IsFiniteSet(Processes)
    /\ IsInjective(KeyOrder) /\ KeyOrder \in Seq(Keys)
    /\ PathsOf \in [Keys -> Nat]
    /\ None \notin Records
ASSUME TimeAssumption == MaxTime \in Nat /\ Skew \in Nat /\ TTL \in Nat \ {0}
ASSUME BoundAssumption ==
    /\ \A bound \in {EvidenceRecords, ChildRecords, RetainedPages, EvidenceBatch, ChildBatch,
                     VacuumPages, WriteReservation} : bound \in Nat \ {0}
    /\ CleanupReservation \in Nat /\ TemporaryPages \in Nat
    /\ WriteReservation <= CleanupReservation
    /\ RetainedPages + CleanupReservation <= TemporaryPages

VARIABLES
    now,        \* the wall clock
    db,         \* the record under each key
    pages,      \* page_count of the database
    bytes,      \* the length of all owned files, in pages
    phase,      \* where a process is in its refresh
    saving,     \* the replacement a process waits to write, and its clock
    missed,     \* keys a process did not find in this refresh
    invalid,    \* s.invalid
    touched,    \* s.touched
    disabled    \* s.disabled

process == <<phase, saving, missed, invalid, touched, disabled>>
vars == <<now, db, pages, bytes, process>>

Phases == {"down", "working", "due", "cleaning"}

Stored == {k \in Keys : db[k] # None}
RowsOf(k) == IF db[k].valid THEN PathsOf[k] ELSE 0
ChildRows(S) == UNION {{k} \X (1..RowsOf(k)) : k \in S}
Rows(S) == Cardinality(ChildRows(S))
FreePages == pages - Cardinality(Stored)

TypeOK ==
    /\ now \in Times
    /\ db \in [Keys -> Records \cup {None}]
    /\ pages \in Nat /\ bytes \in Nat /\ Cardinality(Stored) <= pages /\ pages <= bytes
    /\ phase \in [Processes -> Phases]
    /\ saving \in [Processes -> [key : Keys, at : Times] \cup {None}]
    /\ missed \in [Processes -> SUBSET Keys]
    /\ \A p \in Processes : invalid[p] \in Seq(Keys) /\ IsInjective(invalid[p])
    /\ touched \in [Processes -> SUBSET Keys]
    /\ disabled \in [Processes -> BOOLEAN]

Init ==
    /\ now = 0
    /\ db = [k \in Keys |-> None]
    /\ pages = 0 /\ bytes = 0
    /\ phase = [p \in Processes |-> "down"]
    /\ saving = [p \in Processes |-> None]
    /\ missed = [p \in Processes |-> {}]
    /\ invalid = [p \in Processes |-> <<>>]
    /\ touched = [p \in Processes |-> {}]
    /\ disabled = [p \in Processes |-> FALSE]

-----------------------------------------------------------------------------
(* Admission and time                                                      *)

\* s.admit, with a reservation: a cache above its ceiling admits nothing.
Admits(reservation) == bytes <= RetainedPages /\ bytes + reservation <= TemporaryPages

\* What the files may measure after an operation that reserved space.
Grown(reservation, pageCount) == {b \in bytes..(bytes + reservation) : pageCount <= b}

\* validateTimestamp, and Entry.expired.
Plausible(t, reference) == t <= reference + Skew
Expired(k) == now >= db[k].acquired + TTL
Usable(k) == db[k].valid /\ Plausible(db[k].acquired, now) /\ Plausible(db[k].used, now)

\* latestValid.  Bug: the writer's clock wins.
WriterTime(writing, t) == writing
LatestValid(writing, t) == IF Plausible(t, writing) /\ t > writing THEN t ELSE writing

-----------------------------------------------------------------------------
(* Lookups                                                                 *)

AppendOnce(queue, k) == IF k \in Range(queue) THEN queue ELSE Append(queue, k)

CanLookup(p) == phase[p] = "working" /\ saving[p] = None

\* A contended region, a disabled store, or files above the ceiling; no record;
\* or an expired one: the record stays.
Miss(p, k) ==
    /\ CanLookup(p)
    /\ missed' = [missed EXCEPT ![p] = @ \cup {k}]
    /\ UNCHANGED <<now, db, pages, bytes, phase, saving, invalid, touched, disabled>>

\* A record that fails its invariants is a miss queued for cleanup.
FindInvalid(p, k) ==
    /\ CanLookup(p) /\ ~disabled[p] /\ Admits(0)
    /\ k \in Stored /\ ~Usable(k)
    /\ invalid' = [invalid EXCEPT ![p] = AppendOnce(@, k)]
    /\ missed' = [missed EXCEPT ![p] = @ \cup {k}]
    /\ UNCHANGED <<now, db, pages, bytes, phase, saving, touched, disabled>>

Hit(p, k) ==
    /\ CanLookup(p) /\ ~disabled[p] /\ Admits(0)
    /\ k \in Stored /\ Usable(k) /\ ~Expired(k)
    /\ touched' = [touched EXCEPT ![p] = @ \cup {k}]
    /\ missed' = [missed EXCEPT ![p] = @ \ {k}]
    /\ UNCHANGED <<now, db, pages, bytes, phase, saving, invalid, disabled>>

-----------------------------------------------------------------------------
(* Replacement                                                             *)

\* run.save: complete evidence of a missed key arrives; coordinator and store
\* read the clock, here at once, before the wait for the admission region.
RequestSave(p, k) ==
    /\ CanLookup(p) /\ k \in missed[p]
    /\ saving' = [saving EXCEPT ![p] = [key |-> k, at |-> now]]
    /\ missed' = [missed EXCEPT ![p] = @ \ {k}]
    /\ UNCHANGED <<now, db, pages, bytes, phase, invalid, touched, disabled>>

\* s.admitWrite.  Bug: the limits are proven before the replacement counts.
ProjectsCurrent(k) == Cardinality(Stored) <= EvidenceRecords /\ Rows(Stored) <= ChildRecords
ProjectsWithin(k) ==
    /\ Cardinality(Stored \cup {k}) <= EvidenceRecords
    /\ Rows(Stored \ {k}) + PathsOf[k] <= ChildRecords

\* s.admitProjectedBytes: one page more, unless the database has a free one.
ProjectedPages == IF FreePages > 0 THEN pages ELSE pages + 1

Written(k, at) ==
    LET old == db[k] IN
    IF old = None THEN [valid |-> TRUE, acquired |-> at, used |-> at]
    ELSE [valid |-> TRUE, acquired |-> LatestValid(at, old.acquired),
          used |-> LatestValid(at, old.used)]

EndSave(p) ==
    /\ saving' = [saving EXCEPT ![p] = None]
    /\ UNCHANGED <<now, phase, missed, invalid, touched, disabled>>

Save(p) ==
    /\ saving[p] # None /\ ~disabled[p] /\ Admits(WriteReservation)
    /\ LET k == saving[p].key IN
       /\ ProjectsWithin(k) /\ ProjectedPages <= RetainedPages
       /\ db' = [db EXCEPT ![k] = Written(k, saving[p].at)]
       /\ pages' = IF k \in Stored THEN pages ELSE ProjectedPages
       /\ \E b \in Grown(WriteReservation, pages') : bytes' = b
    /\ EndSave(p)

\* A projection above a limit, contention, cancellation, or a disabled store.
FailSave(p) ==
    /\ saving[p] # None
    /\ EndSave(p)
    /\ UNCHANGED <<db, pages, bytes>>

-----------------------------------------------------------------------------
(* The end of a refresh: maintainCache                                     *)

TouchedRecord(r) ==
    [r EXCEPT !.used = IF Plausible(r.used, now) /\ r.used > now THEN r.used ELSE now]

\* s.Touch commits every proven hit or none, and keeps the queue if none.
Touch(p) ==
    /\ CanLookup(p)
    /\ phase' = [phase EXCEPT ![p] = "due"]
    /\ \/ /\ touched[p] = {}
          /\ UNCHANGED <<db, bytes, touched>>
       \/ /\ ~disabled[p] /\ Admits(WriteReservation) /\ touched[p] # {}
          /\ db' = [k \in Keys |-> IF k \in touched[p] \cap Stored THEN TouchedRecord(db[k]) ELSE db[k]]
          /\ touched' = [touched EXCEPT ![p] = {}]
          /\ \E b \in Grown(WriteReservation, pages) : bytes' = b
       \/ UNCHANGED <<db, bytes, touched>>
    /\ UNCHANGED <<now, pages, saving, missed, invalid, disabled>>

\* s.MaintenanceDue.  Bug: expiry alone requests no maintenance.
DueUnlessExpired(p) ==
    \/ invalid[p] # <<>>
    \/ Cardinality(Stored) >= EvidenceRecords \/ Rows(Stored) >= ChildRecords
    \/ bytes >= RetainedPages
Due(p) ==
    \/ invalid[p] # <<>>
    \/ Cardinality(Stored) >= EvidenceRecords \/ Rows(Stored) >= ChildRecords
    \/ bytes >= RetainedPages
    \/ \E k \in Stored : Expired(k)

\* The refresh is over and the next one begins.
NextRefresh(p) ==
    /\ phase' = [phase EXCEPT ![p] = "working"]
    /\ missed' = [missed EXCEPT ![p] = {}]

FindDue(p) ==
    /\ phase[p] = "due" /\ ~disabled[p] /\ Due(p)
    /\ phase' = [phase EXCEPT ![p] = "cleaning"]
    /\ UNCHANGED <<now, db, pages, bytes, saving, missed, invalid, touched, disabled>>

FindNotDue(p) ==
    /\ phase[p] = "due" /\ ~disabled[p] /\ ~Due(p)
    /\ NextRefresh(p)
    /\ UNCHANGED <<now, db, pages, bytes, saving, invalid, touched, disabled>>

\* The store is disabled or contended, its ceiling is exceeded, or the refresh
\* was canceled.
SkipMaintenance(p) ==
    /\ phase[p] \in {"due", "cleaning"}
    /\ NextRefresh(p)
    /\ UNCHANGED <<now, db, pages, bytes, saving, invalid, touched, disabled>>

-----------------------------------------------------------------------------
(* The cleanup batch                                                       *)

EvidenceTarget == (EvidenceRecords * 3) \div 4
ChildTarget == (ChildRecords * 3) \div 4
RetainedTarget == (RetainedPages * 3) \div 4

\* s.overTarget: the rows that remain without the set gone, and the bytes
\* measured before the batch.
OverTarget(gone) ==
    \/ Cardinality(Stored \ gone) > EvidenceTarget
    \/ Rows(Stored \ gone) > ChildTarget
    \/ bytes > RetainedTarget

Position(k) == CHOOSE i \in 1..Len(KeyOrder) : KeyOrder[i] = k

ByAcquisition(a, b) ==
    \/ db[a].acquired < db[b].acquired
    \/ db[a].acquired = db[b].acquired /\ Position(a) < Position(b)

\* Bug: the oldest record goes first, however recently it was used.
ByAge(a, b) == ByAcquisition(a, b)
ByUse(a, b) ==
    \/ db[a].used < db[b].used
    \/ db[a].used = db[b].used /\ ByAcquisition(a, b)

\* s.candidates: as many records of an ordered selection as a batch may hold.
Candidates(ordered) ==
    SubSeq(ordered, 1, IF Len(ordered) < EvidenceBatch THEN Len(ordered) ELSE EvidenceBatch)

\* batch.admitCandidate: the first record that exceeds a budget ends the
\* selection, and a record is selected once.
Fits(batch, k) ==
    Cardinality(batch.ids) < EvidenceBatch /\ Rows(batch.ids) + RowsOf(k) <= ChildBatch
Take(batch, k) ==
    IF ~batch.open \/ k \in batch.ids THEN batch
    ELSE IF Fits(batch, k) THEN [batch EXCEPT !.ids = @ \cup {k}]
    ELSE [batch EXCEPT !.open = FALSE]

\* A record that is gone is passed over, and one that only makes room is taken as
\* long as a bound is above its target.
Consider(batch, k, pressed) ==
    IF k \notin Stored \/ (pressed /\ ~OverTarget(batch.ids)) THEN batch ELSE Take(batch, k)
Selected(batch, selection, pressed) ==
    LET after[n \in 0..Len(selection)] ==
            IF n = 0 THEN batch ELSE Consider(after[n - 1], selection[n], pressed)
    IN after[Len(selection)]

InvalidBatch(p) == Selected([ids |-> {}, open |-> TRUE], invalid[p], FALSE)
OldestFirst(S) == InOrder({pair \in S \X S : ByAcquisition(pair[1], pair[2])}, S)
ExpiredBatch(p) ==
    Selected(InvalidBatch(p), Candidates(OldestFirst({k \in Stored : Expired(k)})), FALSE)
LeastUsedFirst(S) == InOrder({pair \in S \X S : ByUse(pair[1], pair[2])}, S)

\* s.selectBatch
Batch(p) == Selected(ExpiredBatch(p), Candidates(LeastUsedFirst(Stored)), TRUE).ids

\* The queue from the first record the batch could not reach.  Bug: the queue
\* is forgotten with the batch.
CarryNothing(p) == <<>>
InvalidCarry(p) ==
    LET unreached == SelectInSeq(invalid[p], LAMBDA k : k \in Stored \ InvalidBatch(p).ids)
    IN IF unreached = 0 THEN <<>>
       ELSE SubSeq(invalid[p], unreached, Len(invalid[p]))

\* s.compact: an incremental vacuum and a truncating checkpoint that completes,
\* or ends busy and disables a store above its ceiling; or either of them fails.
Vacuumed(count) ==
    LET free == pages - count IN
    pages - (IF free < VacuumPages THEN free ELSE VacuumPages)

Compact(p, count) ==
    \/ /\ pages' = Vacuumed(count) /\ bytes' = pages'
       /\ UNCHANGED disabled
    \/ /\ pages' = Vacuumed(count)
       /\ \E b \in Grown(CleanupReservation, pages') : bytes' = b
       /\ disabled' = [disabled EXCEPT ![p] = bytes' > RetainedPages]
    \/ /\ pages' \in {pages, Vacuumed(count)}
       /\ \E b \in Grown(CleanupReservation, pages') : bytes' = b
       /\ UNCHANGED disabled

\* s.Maintain
Maintain(p) ==
    /\ phase[p] = "cleaning" /\ ~disabled[p] /\ Admits(CleanupReservation)
    /\ \E ids \in {Batch(p)} :
       IF ids = {} THEN UNCHANGED <<db, pages, bytes, invalid, disabled>>
       ELSE /\ db' = [k \in Keys |-> IF k \in ids THEN None ELSE db[k]]
            /\ invalid' = [invalid EXCEPT ![p] = InvalidCarry(p)]
            /\ Compact(p, Cardinality(Stored \ ids))
    /\ NextRefresh(p)
    /\ UNCHANGED <<now, saving, touched>>

-----------------------------------------------------------------------------
(* The environment                                                         *)

\* The wall clock, read by every process of the host, runs or is set back.
Clock ==
    /\ \/ now < MaxTime /\ now' = now + 1
       \/ \E t \in Times : t < now /\ now' = t
    /\ UNCHANGED <<db, pages, bytes, process>>

\* A record loses its child rows to something that is not orgtop.
Damage(k) ==
    /\ k \in Stored /\ db[k].valid
    /\ db' = [db EXCEPT ![k].valid = FALSE]
    /\ UNCHANGED <<now, pages, bytes, process>>

Start(p) ==
    /\ phase[p] = "down"
    /\ phase' = [phase EXCEPT ![p] = "working"]
    /\ UNCHANGED <<now, db, pages, bytes, saving, missed, invalid, touched, disabled>>

\* A process closes its store or is killed; its queues die with it.  The last
\* connection to close truncates the log.
Stop(p) ==
    /\ phase[p] # "down"
    /\ phase' = [phase EXCEPT ![p] = "down"]
    /\ saving' = [saving EXCEPT ![p] = None]
    /\ missed' = [missed EXCEPT ![p] = {}]
    /\ invalid' = [invalid EXCEPT ![p] = <<>>]
    /\ touched' = [touched EXCEPT ![p] = {}]
    /\ disabled' = [disabled EXCEPT ![p] = FALSE]
    /\ \/ UNCHANGED bytes
       \/ (\A q \in Processes \ {p} : phase[q] = "down") /\ bytes' = pages
    /\ UNCHANGED <<now, db, pages>>

Refreshing(p) ==
    \/ \E k \in Keys : Miss(p, k) \/ FindInvalid(p, k) \/ Hit(p, k) \/ RequestSave(p, k)
    \/ Save(p) \/ FailSave(p)
    \/ Touch(p) \/ FindDue(p) \/ FindNotDue(p) \/ SkipMaintenance(p) \/ Maintain(p)

Next ==
    \/ \E p \in Processes : Refreshing(p) \/ Start(p) \/ Stop(p)
    \/ Clock \/ \E k \in Keys : Damage(k)

Spec == Init /\ [][Next]_vars

\* A refresh that runs gets through its lookups and its end; the busy waits are
\* long enough for a cleanup batch to get its turn again and again.
FairSpec ==
    Spec /\ \A p \in Processes :
        /\ WF_vars(Save(p) \/ FailSave(p))
        /\ SF_vars(Touch(p)) /\ SF_vars(FindDue(p)) /\ SF_vars(Maintain(p))
-----------------------------------------------------------------------------
(* Properties                                                              *)

\* The row limits, the ceiling of a checkpointed database, and the temporary
\* envelope hold in every order of replacements, touches and cleanups of all
\* processes, although admission and growth look at different figures.
WithinLimits ==
    /\ Cardinality(Stored) <= EvidenceRecords /\ Rows(Stored) <= ChildRecords
    /\ pages <= RetainedPages /\ bytes <= TemporaryPages

\* A process forgets no invalid record it has queued while the record stays
\* stored, whatever the batch could reach and whoever else cleans up: nothing
\* else rediscovers it.
InvalidKeepsPriority ==
    [][\A p \in Processes, k \in Keys :
          k \in Range(invalid[p]) /\ db'[k] # None /\ phase'[p] # "down"
             => k \in Range(invalid'[p])]_vars

\* The clock the step's writer goes by: a replacement read it before its wait.
WriterClock ==
    LET ending == {p \in Processes : saving[p] # None /\ saving'[p] = None} IN
    IF ending = {} THEN now ELSE saving[CHOOSE p \in ending : TRUE].at

\* A replacement or a touch never moves a record's clocks back, unless they are
\* implausibly far ahead of the writer: a racing refresh cannot rewind the age
\* of evidence, and use never extends it.
ClocksKeepUp ==
    [][\A k \in Keys : db[k] # None /\ db'[k] # None =>
          /\ Plausible(db[k].acquired, WriterClock) => db'[k].acquired >= db[k].acquired
          /\ Plausible(db[k].used, WriterClock) => db'[k].used >= db[k].used
          /\ db'[k].acquired # db[k].acquired => saving' # saving]_vars

\* The records a step removes although they are neither expired nor queued by the
\* process that takes it.
Evicted ==
    {k \in Stored : db'[k] = None /\ ~Expired(k)
                     /\ \A p \in Processes : phase'[p] # phase[p] => k \notin Range(invalid[p])}

\* Eviction is the last resort: nothing expired is left, nothing that is left was
\* used less recently, and without the last record evicted a bound would still
\* be above its target, the bytes being those measured before the batch.
EvictionIsLast ==
    [][LET left == {k \in Keys : db'[k] # None} IN
       Evicted # {} =>
          /\ \A k \in left : ~Expired(k)
          /\ \A e \in Evicted, k \in left : db[e].used <= db[k].used
          /\ \E e \in Evicted : OverTarget(Stored \ (left \cup {e}))]_vars

\* Expired evidence is removed in the end, unless the files stay above the
\* ceiling or no process with a usable cache is left to remove it.
Stuck == bytes > RetainedPages \/ \A p \in Processes : phase[p] = "down" \/ disabled[p]
ExpiredLeaves ==
    \A k \in Keys : db[k] # None /\ Expired(k) ~> Stuck \/ db[k] = None \/ ~Expired(k)
=============================================================================
