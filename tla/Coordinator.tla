---------------------------- MODULE Coordinator ----------------------------
(***************************************************************************)
(* One call of Coordinator.Evidence (src/internal/enrichment/              *)
(* coordinator.go): the changed-file evidence of one refresh's retained    *)
(* events is settled from the cache and from at most Requests adapter      *)
(* calls, in two stages, by at most Concurrency goroutines.                *)
(*                                                                         *)
(* The calling goroutine is "main", described by pc, stage and cursor;     *)
(* each dispatched work key k has one goroutine, described by worker[k].   *)
(* A critical section of run.mu is one step.  The caller may cancel the    *)
(* context between any two steps.                                          *)
(*                                                                         *)
(* A work key stands for a descriptor's Key(): a commit, a compare, or a   *)
(* pull request's metadata.  A changed-path set is abstracted to the key   *)
(* it was proven for (field "of" of an outcome).                           *)
(*                                                                         *)
(* A definition whose comment starts with "Bug:" is a plausible mistake in *)
(* the definition after it; no specification uses it.  PROJECT.json names  *)
(* the property each one must break.                                       *)
(***************************************************************************)
EXTENDS Integers, Sequences, FiniteSets

CONSTANTS
    Commits, Compares, Pulls,   \* the work keys, by operation
    NoKey,                      \* the empty key: evidence already settled
    Objects,                    \* git objects an event names as its before
    ParentOf,                   \* the sole parent GitHub reports of a commit
    Inputs,                     \* the event sequences a refresh may retain
    Records,                    \* the sets of keys the cache may hold
    Requests, QueuedUnits, Concurrency, CacheReads, CacheWrites,  \* Bounds
    MaxPages,                   \* domain.MaxEvidencePages
    RetryTimes,                 \* instants a rate limit may name
    WithCache                   \* FALSE is a nil Cache

Persistable == Commits \cup Compares          \* cache.KeyFor is usable
Keys == Persistable \cup Pulls
Event == [key : Keys \cup {NoKey}, before : Objects]

ASSUME KeyAssumption ==
    /\ Commits \cap Compares = {} /\ Persistable \cap Pulls = {}
    /\ NoKey \notin Keys
    /\ ParentOf \in [Commits -> Objects]
    /\ Inputs \subseteq Seq(Event)
    /\ \A set \in Records : set \subseteq Persistable
    /\ WithCache \in BOOLEAN
ASSUME BoundAssumption ==
    \A bound \in {Requests, QueuedUnits, Concurrency, CacheReads, CacheWrites, MaxPages} :
        bound \in Nat \ {0}                   \* Bounds.normalized
ASSUME RetryAssumption == RetryTimes \subseteq Nat \ {0}

-----------------------------------------------------------------------------
(* domain.EvidenceOutcome                                                  *)

Provenances == {"none", "event-time", "current-pr"}
Kinds == {"complete", "failed", "limited", "canceled", "queueFull", "noBudget",
          "wrongParent", "given"}
Outcomes == [kind : Kinds, of : Keys \cup {NoKey}, prov : Provenances,
             retryAt : RetryTimes \cup {0}]

\* Reading a Go map at an absent key yields the zero EvidenceOutcome, whose
\* kind is OutcomeComplete with no path: a proven empty change set.
Missing == [kind |-> "complete", of |-> NoKey, prov |-> "none", retryAt |-> 0]

Unknown(kind) == [Missing EXCEPT !.kind = kind]
RateLimited(t) == [Unknown("limited") EXCEPT !.retryAt = t]
Complete(k, p) == [Missing EXCEPT !.of = k, !.prov = p]

IsComplete(o) == o.kind = "complete"

\* The provenance of the descriptor an event carries, and of the one queued in
\* stage s: a compare of stage 2 was derived from current pull request refs.
EventProvenance(k) == IF k \in Pulls THEN "current-pr" ELSE "event-time"
UnitProvenance(k, s) == IF s = 2 THEN "current-pr" ELSE EventProvenance(k)

-----------------------------------------------------------------------------
VARIABLES
    events,      \* the retained events of this refresh
    canceled,    \* ctx.Err() # nil
    stored,      \* keys with a valid record in the cache
    pc, stage, cursor,  \* main: where it is, in which dispatch, at which item
    queue,       \* queue[s]: the units admitted to stage s, in order
    seen,        \* run.settle's seen
    identities,  \* run.identities
    aliases,     \* run.aliases; NoKey is an absent entry
    derived,     \* pending[i].descriptor of a metadata unit; NoKey is unit{}
    worker,      \* the goroutine of a unit
    reply,       \* what the adapter returned to that goroutine
    sent,        \* HTTP requests sent for a unit
    slots,       \* tokens in dispatch's slots channel
    running,     \* dispatch's running
    limited,     \* run.limited
    refused,     \* the outcome gate refused the current unit with
    ledger,      \* run.ledger
    outcomes     \* Result.Outcomes; <<>> until Evidence returns

main == <<pc, stage, cursor, refused>>
work == <<identities, aliases, derived, seen, queue>>
vars == <<events, canceled, stored, main, work, worker, reply, sent, slots,
          running, limited, ledger, outcomes>>

MainPhases == {"admit", "slot", "gate", "refuse", "launch", "join", "derive",
               "maintain", "assemble", "done"}
WorkerPhases == {"idle", "ready", "waiting", "settling", "saving", "writing",
                 "leaving", "releasing", "done"}
Ledgers == [requests : Nat, queued : Nat, peak : Nat, reads : Nat, hits : Nat,
            writes : Nat, touched : BOOLEAN, cleaned : BOOLEAN,
            canceled : BOOLEAN, retryAt : RetryTimes \cup {0}, degraded : BOOLEAN]

TypeOK ==
    /\ events \in Seq(Event)
    /\ canceled \in BOOLEAN
    /\ stored \subseteq Persistable
    /\ pc \in MainPhases /\ stage \in {1, 2} /\ cursor \in Nat \ {0}
    /\ queue \in [{1, 2} -> Seq(Keys)]
    /\ seen \subseteq Keys
    /\ identities \in [Keys -> Outcomes]
    /\ aliases \in [Pulls -> Compares \cup {NoKey}]
    /\ derived \in [Pulls -> Compares \cup {NoKey}]
    /\ worker \in [Keys -> WorkerPhases]
    /\ reply \in [Keys -> Outcomes]
    /\ sent \in [Keys -> Nat]
    /\ slots \in Int /\ running \in Int
    /\ limited \in BOOLEAN
    /\ refused \in Outcomes
    /\ ledger \in Ledgers
    /\ outcomes \in Seq(Outcomes)

Init ==
    /\ events \in Inputs
    /\ canceled = FALSE
    /\ stored \in Records
    /\ pc = "admit" /\ stage = 1 /\ cursor = 1
    /\ queue = [s \in {1, 2} |-> <<>>]
    /\ seen = {}
    /\ identities = [k \in Keys |-> Missing]
    /\ aliases = [p \in Pulls |-> NoKey]
    /\ derived = [p \in Pulls |-> NoKey]
    /\ worker = [k \in Keys |-> "idle"]
    /\ reply = [k \in Keys |-> Missing]
    /\ sent = [k \in Keys |-> 0]
    /\ slots = 0 /\ running = 0
    /\ limited = FALSE
    /\ refused = Missing
    /\ ledger = [requests |-> 0, queued |-> 0, peak |-> 0, reads |-> 0, hits |-> 0,
                 writes |-> 0, touched |-> FALSE, cleaned |-> FALSE,
                 canceled |-> FALSE, retryAt |-> 0, degraded |-> FALSE]
    /\ outcomes = <<>>

-----------------------------------------------------------------------------
(* Admission: main alone, no goroutine is live                             *)

\* run.lookup.  "miss" is an absent, expired or invalid record, "error" a
\* contended or failing store, "none" a lookup not attempted.
CanLookup(k) == ~canceled /\ WithCache /\ ledger.reads < CacheReads /\ k \in Persistable
LookupResults(k) ==
    IF ~CanLookup(k) THEN {"none"}
    ELSE {"miss", "error"} \cup (IF k \in stored THEN {"hit"} ELSE {})
AfterLookup(r) ==
    [ledger EXCEPT !.reads = IF r = "none" THEN @ ELSE @ + 1,
                   !.hits = IF r = "hit" THEN @ + 1 ELSE @,
                   !.degraded = @ \/ r = "error"]

\* Equal identities coalesce: only the first request for a key is admitted.
\* Bug: every request is.
AlwaysUnseen(k) == TRUE
Unseen(k) == k \notin seen

\* run.admit: a hit settles the identity, a full queue settles it as
\* incomplete, and otherwise the unit joins the stage's queue.
Admit(k, s) ==
    \E r \in LookupResults(k) :
        \/ /\ r = "hit"
           /\ identities' = [identities EXCEPT ![k] = Complete(k, UnitProvenance(k, s))]
           /\ ledger' = AfterLookup(r)
           /\ UNCHANGED queue
        \/ /\ r # "hit" /\ ledger.queued >= QueuedUnits
           /\ identities' = [identities EXCEPT ![k] = Unknown("queueFull")]
           /\ ledger' = AfterLookup(r)
           /\ UNCHANGED queue
        \/ /\ r # "hit" /\ ledger.queued < QueuedUnits
           /\ queue' = [queue EXCEPT ![s] = Append(@, k)]
           /\ ledger' = [AfterLookup(r) EXCEPT !.queued = @ + 1]
           /\ UNCHANGED identities

\* The first loop of run.settle, one event per step.
AdmitEvent ==
    /\ pc = "admit" /\ cursor <= Len(events)
    /\ LET k == events[cursor].key IN
       IF k # NoKey /\ Unseen(k)
       THEN seen' = seen \cup {k} /\ Admit(k, 1)
       ELSE UNCHANGED <<seen, identities, queue, ledger>>
    /\ cursor' = cursor + 1
    /\ UNCHANGED <<events, canceled, stored, pc, stage, refused, aliases, derived, worker,
                   reply, sent, slots, running, limited, outcomes>>

\* run.deriveCompares, one unit of the first dispatch per step.  The adapter
\* hands over only compares with a key (github.Enricher.CurrentPullRequest).
DeriveCompare ==
    /\ pc = "derive" /\ cursor <= Len(queue[1])
    /\ LET pull == queue[1][cursor] IN
       IF pull \in Pulls /\ derived[pull] # NoKey
       THEN /\ aliases' = [aliases EXCEPT ![pull] = derived[pull]]
            /\ IF Unseen(derived[pull])
               THEN seen' = seen \cup {derived[pull]} /\ Admit(derived[pull], 2)
               ELSE UNCHANGED <<seen, identities, queue, ledger>>
       ELSE UNCHANGED <<aliases, seen, identities, queue, ledger>>
    /\ cursor' = cursor + 1
    /\ UNCHANGED <<events, canceled, stored, pc, stage, refused, derived, worker,
                   reply, sent, slots, running, limited, outcomes>>

\* Both loops hand their queue to dispatch.
StartDispatch ==
    /\ \/ pc = "admit" /\ cursor > Len(events) /\ stage' = 1
       \/ pc = "derive" /\ cursor > Len(queue[1]) /\ stage' = 2
    /\ pc' = "slot" /\ cursor' = 1
    /\ UNCHANGED <<events, canceled, stored, refused, work, worker, reply, sent, slots,
                   running, limited, ledger, outcomes>>

-----------------------------------------------------------------------------
(* Dispatch: main launches one goroutine per unit the gate lets through    *)

unit == queue[stage][cursor]

\* slots <- struct{}{}
TakeSlot ==
    /\ pc = "slot" /\ cursor <= Len(queue[stage]) /\ slots < Concurrency
    /\ slots' = slots + 1
    /\ pc' = "gate"
    /\ UNCHANGED <<events, canceled, stored, stage, cursor, refused, work, worker, reply,
                   sent, running, limited, ledger, outcomes>>

\* run.gate, under mu.
GateRefuse ==
    /\ pc = "gate"
    /\ \/ /\ canceled
          /\ refused' = Unknown("canceled")
          /\ ledger' = [ledger EXCEPT !.canceled = TRUE]
       \/ /\ ~canceled /\ limited
          /\ refused' = RateLimited(ledger.retryAt)
          /\ UNCHANGED ledger
       \/ /\ ~canceled /\ ~limited /\ ledger.requests >= Requests
          /\ refused' = Unknown("noBudget")
          /\ UNCHANGED ledger
    /\ pc' = "refuse"
    /\ UNCHANGED <<events, canceled, stored, stage, cursor, work, worker, reply, sent,
                   slots, running, limited, outcomes>>

GateAdmit ==
    /\ pc = "gate" /\ ~canceled /\ ~limited /\ ledger.requests < Requests
    /\ ledger' = [ledger EXCEPT !.requests = @ + 1]
    /\ pc' = "launch"
    /\ UNCHANGED <<events, canceled, stored, stage, cursor, refused, work, worker, reply,
                   sent, slots, running, limited, outcomes>>

\* Every limited response extends the retry floor, none shortens it.
\* Bug: the last one sets it.
LastRetry(o) == IF o.kind = "limited" THEN o.retryAt ELSE ledger.retryAt
RetryFloor(o) ==
    IF o.kind = "limited" /\ o.retryAt > ledger.retryAt THEN o.retryAt ELSE ledger.retryAt

\* The rate-limit stop stays.  Bug: only an outcome that extends the retry floor
\* sets it, and any other lifts it.
LimitedExtends(o) == o.kind = "limited" /\ o.retryAt > ledger.retryAt
LimitedFrom(o) == limited \/ o.kind = "limited"

\* Bug: a unit canceled in flight is not reported.
CanceledBefore(o) == ledger.canceled
CanceledFrom(o) == ledger.canceled \/ o.kind = "canceled"

\* run.settleIdentity, under mu: the identity's outcome and what it reports of
\* rate limiting and cancellation.
SettleIdentity(k, o) ==
    /\ identities' = [identities EXCEPT ![k] = o]
    /\ limited' = LimitedFrom(o)
    /\ ledger' = [ledger EXCEPT !.retryAt = RetryFloor(o), !.canceled = CanceledFrom(o)]

\* Bug: a refused unit keeps its slot.
RefuseHolding ==
    /\ pc = "refuse"
    /\ SettleIdentity(unit, refused)
    /\ pc' = "slot" /\ cursor' = cursor + 1
    /\ UNCHANGED <<events, canceled, stored, stage, refused, aliases, derived, seen, queue,
                   worker, reply, sent, slots, running, outcomes>>

\* <-slots, then settleIdentity with the gate's outcome.
Refuse ==
    /\ pc = "refuse"
    /\ slots' = slots - 1
    /\ SettleIdentity(unit, refused)
    /\ pc' = "slot" /\ cursor' = cursor + 1
    /\ UNCHANGED <<events, canceled, stored, stage, refused, aliases, derived, seen, queue,
                   worker, reply, sent, running, outcomes>>

\* running++ under mu, then the go statement.
Launch ==
    /\ pc = "launch"
    /\ running' = running + 1
    /\ ledger' = [ledger EXCEPT !.peak = IF running + 1 > @ THEN running + 1 ELSE @]
    /\ worker' = [worker EXCEPT ![unit] = "ready"]
    /\ pc' = "slot" /\ cursor' = cursor + 1
    /\ UNCHANGED <<events, canceled, stored, stage, refused, work, reply, sent, slots,
                   limited, outcomes>>

StartJoin ==
    /\ pc = "slot" /\ cursor > Len(queue[stage])
    /\ pc' = "join"
    /\ UNCHANGED <<events, canceled, stored, stage, cursor, refused, work, worker, reply,
                   sent, slots, running, limited, ledger, outcomes>>

\* group.Wait: every goroutine has ended.  Bug: main does not wait.
NoWait == TRUE
AllEnded == \A k \in Keys : worker[k] \in {"idle", "done"}

Join ==
    /\ pc = "join" /\ AllEnded
    /\ pc' = IF stage = 1 THEN "derive" ELSE "maintain"
    /\ cursor' = 1
    /\ UNCHANGED <<events, canceled, stored, stage, refused, work, worker, reply, sent,
                   slots, running, limited, ledger, outcomes>>

-----------------------------------------------------------------------------
(* A goroutine: run.perform and its deferred cleanup                       *)

\* Enricher.read, up to Do: a canceled refresh sends nothing.
Send(k) ==
    /\ worker[k] = "ready"
    /\ \/ /\ ~canceled
          /\ sent' = [sent EXCEPT ![k] = @ + 1]
          /\ worker' = [worker EXCEPT ![k] = "waiting"]
          /\ UNCHANGED reply
       \/ /\ canceled
          /\ reply' = [reply EXCEPT ![k] = Unknown("canceled")]
          /\ worker' = [worker EXCEPT ![k] = "settling"]
          /\ UNCHANGED sent
    /\ UNCHANGED <<events, canceled, stored, main, work, slots, running, limited, ledger,
                   outcomes>>

\* What a response can settle.  A next link on the last admitted page proves
\* incompleteness, and every other unproven answer is alike to the coordinator.
Replies(k) ==
    {Unknown("failed")}
        \cup {RateLimited(t) : t \in RetryTimes}
        \cup (IF canceled THEN {Unknown("canceled")} ELSE {})
        \cup {Complete(k, UnitProvenance(k, stage))}

Receive(k) ==
    /\ worker[k] = "waiting"
    /\ \E o \in Replies(k) : reply' = [reply EXCEPT ![k] = o]
    /\ worker' = [worker EXCEPT ![k] = "settling"]
    /\ UNCHANGED <<events, canceled, stored, main, work, sent, slots, running, limited,
                   ledger, outcomes>>

\* Enricher.commitEvidence follows a next link.
NextPage(k) ==
    /\ k \in Commits /\ worker[k] = "waiting" /\ sent[k] < MaxPages
    /\ worker' = [worker EXCEPT ![k] = "ready"]
    /\ UNCHANGED <<events, canceled, stored, main, work, reply, sent, slots, running,
                   limited, ledger, outcomes>>

\* Enricher.CurrentPullRequest derives a live compare; perform settles nothing.
ReceiveRefs(k) ==
    /\ k \in Pulls /\ worker[k] = "waiting"
    /\ \E c \in Compares : derived' = [derived EXCEPT ![k] = c]
    /\ worker' = [worker EXCEPT ![k] = "leaving"]
    /\ UNCHANGED <<events, canceled, stored, main, identities, aliases, seen, queue, reply,
                   sent, slots, running, limited, ledger, outcomes>>

Settle(k) ==
    /\ worker[k] = "settling"
    /\ SettleIdentity(k, reply[k])
    /\ worker' = [worker EXCEPT ![k] = IF k \in Pulls THEN "leaving" ELSE "saving"]
    /\ UNCHANGED <<events, canceled, stored, main, aliases, derived, seen, queue, reply,
                   sent, slots, running, outcomes>>

\* run.save before it takes mu.
CanSave(k) == ~canceled /\ WithCache /\ IsComplete(reply[k])

CheckSave(k) ==
    /\ worker[k] = "saving"
    /\ worker' = [worker EXCEPT ![k] = IF CanSave(k) THEN "writing" ELSE "leaving"]
    /\ UNCHANGED <<events, canceled, stored, main, work, reply, sent, slots, running,
                   limited, ledger, outcomes>>

\* Bug: the bound is not looked at again once mu is held.
WritesUnbounded == FALSE
WritesSpent == ledger.writes >= CacheWrites

\* run.save under mu.  The store refuses a canceled context.
Save(k) ==
    /\ worker[k] = "writing"
    /\ \/ /\ WritesSpent
          /\ UNCHANGED <<ledger, stored>>
       \/ /\ ~WritesSpent /\ ~canceled
          /\ ledger' = [ledger EXCEPT !.writes = @ + 1]
          /\ stored' = stored \cup {k}
       \/ /\ ~WritesSpent
          /\ ledger' = [ledger EXCEPT !.degraded = TRUE]
          /\ UNCHANGED stored
    /\ worker' = [worker EXCEPT ![k] = "leaving"]
    /\ UNCHANGED <<events, canceled, main, work, reply, sent, slots, running, limited,
                   outcomes>>

\* The deferred running-- under mu, and after it <-slots.
Leave(k) ==
    /\ worker[k] = "leaving"
    /\ running' = running - 1
    /\ worker' = [worker EXCEPT ![k] = "releasing"]
    /\ UNCHANGED <<events, canceled, stored, main, work, reply, sent, slots, limited,
                   ledger, outcomes>>

Release(k) ==
    /\ worker[k] = "releasing"
    /\ slots' = slots - 1
    /\ worker' = [worker EXCEPT ![k] = "done"]
    /\ UNCHANGED <<events, canceled, stored, main, work, reply, sent, running, limited,
                   ledger, outcomes>>

-----------------------------------------------------------------------------
(* After both dispatches: main alone again                                 *)

\* run.maintainCache.  Every store call may fail; touching comes first.
MaintainCache ==
    /\ pc = "maintain"
    /\ \/ /\ ~WithCache \/ canceled
          /\ UNCHANGED ledger
       \/ /\ WithCache /\ ~canceled
          /\ \E touch \in {"ok", "error"}, upkeep \in {"none", "ok", "error"} :
                ledger' = [ledger EXCEPT !.touched = touch = "ok",
                                         !.cleaned = upkeep = "ok",
                                         !.degraded = @ \/ "error" \in {touch, upkeep}]
    /\ pc' = "assemble"
    /\ UNCHANGED <<events, canceled, stored, stage, cursor, refused, work, worker, reply,
                   sent, slots, running, limited, outcomes>>

\* run.resolve
Resolve(k) == IF k \in Pulls /\ aliases[k] # NoKey THEN aliases[k] ELSE k

\* Bug: a coalesced commit serves every event that names its head.
ForAnyParent(o, event) ==
    IF IsComplete(o) THEN [o EXCEPT !.prov = EventProvenance(event.key)] ELSE o

\* forDescriptor: the parent qualification, then the requester's provenance.
ForDescriptor(o, event) ==
    IF event.key \in Commits /\ IsComplete(o) /\ (o.of \notin Commits \/ ParentOf[o.of] # event.before)
    THEN Unknown("wrongParent")
    ELSE IF IsComplete(o) THEN [o EXCEPT !.prov = EventProvenance(event.key)] ELSE o

\* The last loop of run.settle.
Answer(event) ==
    IF event.key = NoKey THEN Unknown("given")
    ELSE LET o == ForDescriptor(identities[Resolve(event.key)], event) IN
         IF o.kind = "limited" THEN RateLimited(ledger.retryAt) ELSE o

Assemble ==
    /\ pc = "assemble"
    /\ outcomes' = [i \in 1..Len(events) |-> Answer(events[i])]
    /\ pc' = "done"
    /\ UNCHANGED <<events, canceled, stored, stage, cursor, refused, work, worker, reply,
                   sent, slots, running, limited, ledger>>

-----------------------------------------------------------------------------
\* The caller's context ends: a newer refresh, or shutdown.
Cancel ==
    /\ ~canceled /\ pc # "done"
    /\ canceled' = TRUE
    /\ UNCHANGED <<events, stored, main, work, worker, reply, sent, slots, running,
                   limited, ledger, outcomes>>

Returned == pc = "done" /\ UNCHANGED vars

MainStep ==
    \/ AdmitEvent \/ DeriveCompare \/ StartDispatch
    \/ TakeSlot \/ GateRefuse \/ GateAdmit \/ Refuse \/ Launch
    \/ StartJoin \/ Join \/ MaintainCache \/ Assemble
Goroutine(k) ==
    \/ Send(k) \/ Receive(k) \/ NextPage(k) \/ ReceiveRefs(k)
    \/ Settle(k) \/ CheckSave(k) \/ Save(k) \/ Leave(k) \/ Release(k)

Next == MainStep \/ (\E k \in Keys : Goroutine(k)) \/ Cancel \/ Returned

Spec == Init /\ [][Next]_vars

\* Goroutines are scheduled, and every HTTP request ends within its timeout.
FairSpec == Spec /\ WF_vars(MainStep) /\ \A k \in Keys : WF_vars(Goroutine(k))
-----------------------------------------------------------------------------
(* Properties                                                              *)

\* No interleaving of goroutines, cancellation and rate limiting spends more
\* than a bound, and no more than Concurrency units ever run at once: running
\* is lowered before the slot is handed on.
LedgerWithinBounds ==
    /\ ledger.requests <= Requests /\ ledger.queued <= QueuedUnits
    /\ ledger.reads <= CacheReads /\ ledger.hits <= ledger.reads
    /\ ledger.writes <= CacheWrites
    /\ ledger.peak <= Concurrency /\ slots \in 0..Concurrency /\ running \in 0..Concurrency

\* A complete outcome, the only kind that may decide "not a member", was proven
\* for this very event: by GitHub in this refresh or by a stored record, for the
\* identity the event names or its pull request's metadata derived, with the
\* commit's sole parent the event's before object, and with the provenance of
\* the requester.  In particular it is never the zero value of an identity the
\* refresh lost track of.
CompleteIsProven ==
    \A i \in DOMAIN outcomes : IsComplete(outcomes[i]) =>
        LET o == outcomes[i]
            k == events[i].key
        IN /\ o.of # NoKey /\ k # NoKey
           /\ o.of = IF k \in Pulls /\ derived[k] # NoKey THEN derived[k] ELSE k
           /\ o.of \in stored \/ reply[o.of] = Complete(o.of, reply[o.of].prov)
           /\ k \in Commits => ParentOf[k] = events[i].before
           /\ o.prov = "current-pr" <=> k \in Pulls

\* Every limited outcome names one instant, and it is the latest any response of
\* this refresh instructed, also for units settled before that response came.
RateLimitShared ==
    \A i \in DOMAIN outcomes : outcomes[i].kind = "limited" =>
        /\ outcomes[i].retryAt > 0
        /\ \A k \in Keys : outcomes[i].retryAt >= reply[k].retryAt
        /\ \E k \in Keys : outcomes[i].retryAt = reply[k].retryAt

\* The units that ran are a prefix of the admission order over both stages:
\* once the gate refuses, for whichever reason, no later unit overtakes.
DispatchIsPrefix ==
    LET admitted == queue[1] \o queue[2] IN
    \A i, j \in DOMAIN admitted :
        i < j /\ worker[admitted[j]] # "idle" => worker[admitted[i]] # "idle"

\* identities, aliases and the ledger are touched without mu only while main is
\* the one goroutine alive, and nothing runs on after Evidence returned.
MainAlone ==
    pc \in {"admit", "derive", "maintain", "assemble", "done"} =>
        slots = 0 /\ running = 0 /\ \A k \in Keys : worker[k] \in {"idle", "done"}

\* Each unknown outcome is backed by the ledger: a refused unit by a spent
\* bound, a limited one by a response that limited, a canceled one by
\* Ledger.Canceled, which in turn never claims a cancellation no event shows.
UnknownIsAccounted ==
    pc = "done" =>
        LET Has(kind) == \E i \in DOMAIN outcomes : outcomes[i].kind = kind IN
        /\ Has("noBudget") => ledger.requests = Requests
        /\ Has("queueFull") => ledger.queued = QueuedUnits
        /\ Has("limited") => limited
        /\ Has("canceled") <=> ledger.canceled

\* Evidence returns, whatever the adapter answers, the cache does and whenever
\* the context ends: no slot is lost and nobody waits on a unit never launched.
Termination == <>(pc = "done")

\* The coordination implements the settlement contract.
Settlement == INSTANCE EvidenceSettlement WITH
    Verdicts <- Kinds,
    asked <- events,
    known <- stored,
    called <- {k \in Keys : worker[k] # "idle"},
    link <- derived,
    verdict <- [k \in Keys |-> IF identities[k] = Missing THEN "open" ELSE identities[k].kind],
    answers <- [i \in DOMAIN outcomes |-> outcomes[i].kind]
Settles == Settlement!Spec
=============================================================================
