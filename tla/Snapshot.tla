------------------------------ MODULE Snapshot ------------------------------
(***************************************************************************)
(* From the activity of one successful poll to the snapshot the views read *)
(* (src/internal/domain scope.go, event.go, membership.go and              *)
(* scoped_snapshot.go, between them settle of src/internal/tui/            *)
(* enrichment.go).  Events are retained first, their evidence is settled   *)
(* next, and only then is their membership decided and counted.            *)
(*                                                                         *)
(* A Scope is its identity: a repository and a matcher, NoMatcher for a    *)
(* repository Scope.  Repositories and matchers are numbers whose order is *)
(* the byte order of their keys, NoMatcher being the least.                *)
(***************************************************************************)
EXTENDS Evidence, Ranking, SequencesExt, FiniteSets

CONSTANTS
  NoMatcher,          \* what a repository Scope has for a matcher
  SelectedBy,         \* the paths each matcher selects
  Selections,         \* the Scopes an invocation may ask for, in request order
  Activities,         \* what a poll may return: per repository its events
  Results,            \* the outcomes a commit identity may settle at
  MaxSnapshotEvents,
  ScopeLimit,         \* MaxScopes
  RepositoryLimit     \* MaxSelectedRepositories

\* The events a poll may return, and what any outcome may be.
Delivered == UNION {UNION {Range(list) : list \in Range(activities)} : activities \in Activities}
Reasons == {"unsupported", "incomplete", "unavailable", "denied", "rate-limited", "failed"}

ASSUME SnapshotAssumption ==
  /\ {MaxSnapshotEvents, ScopeLimit, RepositoryLimit} \subseteq Nat \ {0}
  /\ Selections \subseteq Seq([repository : Nat, matcher : Nat])
  /\ Activities \subseteq Seq(Seq(Delivered))
  /\ \A e \in Delivered :
       /\ {e.id, e.at} \subseteq Nat
       /\ Key(e.evidence) = Absent => e.evidence.settled.kind \in Reasons \cup {"complete"}
  /\ \A r \in Results :
       /\ r \in [kind : Reasons \cup {"complete"}, provenance : {r.provenance},
                   paths : {r.paths}, parent : {r.parent}, retryAt : {r.retryAt}]

VARIABLES
  scopes,     \* the ScopeSet's Scopes, Absent before NewScopeSet, <<>> when it refuses
  retention,  \* what RetainWithCoverage returned, Absent until then
  settled,    \* the outcome of every evidence identity the enrichment settled
  outcomes,   \* one outcome per retained event, Absent until settle returns
  snapshot    \* the published ScopedSnapshot, Absent until then

snapshotVars == <<scopes, retention, settled, outcomes, snapshot>>

SnapshotInit ==
  /\ scopes = Absent /\ retention = Absent /\ settled = <<>>
  /\ outcomes = Absent /\ snapshot = Absent

-----------------------------------------------------------------------------
(* ScopeSet. *)

\* The elements whose key occurs at no earlier index, in order.
FirstIndices(keys) == {k \in DOMAIN keys : \A l \in 1 .. k - 1 : keys[l] # keys[k]}
FirstOf(elements, keys) == Picked(elements, FirstIndices(keys))

CheckSelectionCapacity(set) ==
  /\ Cardinality({set[k].repository : k \in DOMAIN set}) <= RepositoryLimit
  /\ Len(set) <= ScopeLimit

\* NewScopeSet: repeated identities count once; nothing that is explicit is truncated.
NewScopeSet(requested) ==
  /\ scopes = Absent
  /\ LET set == FirstOf(requested, requested)
     IN scopes' = IF CheckSelectionCapacity(set) THEN set ELSE <<>>
  /\ UNCHANGED <<retention, settled, outcomes, snapshot>>

ScopeBefore(a, b) ==
  a.repository < b.repository \/ (a.repository = b.repository /\ a.matcher < b.matcher)

Ordered ==
  LET all == Range(scopes)
  IN InOrder({pair \in all \X all : ScopeBefore(pair[1], pair[2])}, all)

IsSelected(repository) == \E k \in DOMAIN scopes : scopes[k].repository = repository

HasPathScopes == \E k \in DOMAIN scopes : scopes[k].matcher # NoMatcher

-----------------------------------------------------------------------------
(* Retention. *)

Deduplicate(events) == FirstOf(events, [k \in DOMAIN events |-> events[k].id])

\* A mistake: the bound takes the events as the repositories were answered.
SortAsAnswered(events) == events

\* SortByRecency: the newest first, equal instants by ID.
NewerThan(a, b) == a.at > b.at \/ (a.at = b.at /\ a.id < b.id)

SortByRecency(events) ==
  LET all == Range(events)
  IN InOrder({pair \in all \X all : NewerThan(pair[1], pair[2])}, all)

Retain(activities) ==
  /\ scopes \notin {Absent, <<>>} /\ retention = Absent
  /\ LET answered == FlattenSeq(activities)
         candidates == Picked(answered, {k \in DOMAIN answered : IsSelected(answered[k].repository)})
         bounded == SortByRecency(Deduplicate(candidates))
     IN retention' = [events |-> SubSeq(bounded, 1, Min({Len(bounded), MaxSnapshotEvents})),
                      total |-> Len(bounded),
                      truncated |-> Len(bounded) > MaxSnapshotEvents,
                      candidates |-> candidates]
  /\ UNCHANGED <<scopes, settled, outcomes, snapshot>>

-----------------------------------------------------------------------------
(* Settling. *)

Identities == {Key(retention.events[k].evidence) : k \in DOMAIN retention.events} \ {Absent}

\* The coordinator settles one identity, once for all the events that share it.
SettleIdentity ==
  /\ retention # Absent /\ outcomes = Absent /\ HasPathScopes
  /\ \E key \in Identities \ DOMAIN settled, result \in Results :
       /\ result.kind = "complete" => (result.parent # Absent <=> key[1] = "commit")
       /\ settled' = [k \in DOMAIN settled \cup {key} |-> IF k = key THEN result ELSE settled[k]]
  /\ UNCHANGED <<scopes, retention, outcomes, snapshot>>

\* forDescriptor: what the identity's result means for one event, under its own provenance.
OutcomeOf(event) ==
  LET evidence == event.evidence
      own == IF evidence.operation = "commit"
             THEN ForSoleParent(settled[Key(evidence)], evidence.before)
             ELSE settled[Key(evidence)]
  IN IF Key(evidence) = Absent THEN evidence.settled
     ELSE IF own.kind # "complete" THEN own
     ELSE [own EXCEPT !.provenance = evidence.provenance]

SettleAs(outcomeOf) ==
  /\ retention # Absent /\ outcomes = Absent
  /\ outcomes' = outcomeOf
  /\ UNCHANGED <<scopes, retention, settled, snapshot>>

ForEvery(outcome) == [k \in DOMAIN retention.events |-> outcome]

\* The zero EvidenceOutcome: complete, and of no path.
Zero == Complete("none", <<>>)

\* settle, when no Scope consults evidence.
NoEvidenceWanted == retention # Absent /\ ~HasPathScopes /\ SettleAs(ForEvery(Zero))

\* settle, without an enricher and for an attempt that failed.
NoEvidence ==
  /\ retention # Absent /\ HasPathScopes /\ settled = <<>>
  /\ \E kind \in {"incomplete", "failed"} : SettleAs(ForEvery(Unknown(kind)))

\* A mistake: what the enrichment said nothing about keeps the zero outcome.
WithZeroTail(reported) ==
  [k \in DOMAIN retention.events |->
     IF k <= reported THEN OutcomeOf(retention.events[k]) ELSE Zero]

\* A short result leaves its tail undecided.
WithTail(reported) ==
  [k \in DOMAIN retention.events |->
     IF k <= reported THEN OutcomeOf(retention.events[k]) ELSE Unknown("incomplete")]

Enriched ==
  /\ retention # Absent /\ HasPathScopes /\ Identities \subseteq DOMAIN settled
  /\ \E reported \in 0 .. Len(retention.events) : SettleAs(WithTail(reported))

-----------------------------------------------------------------------------
(* Membership and the rows. *)

NotMember == [kind |-> "not-member", reason |-> "none", provenance |-> "none"]

\* Scope.Evaluate for an event of the Scope's repository.  No outcome here is canceled: a
\* refresh discards a canceled attempt before it builds a snapshot (refresh.go:161-163),
\* so what Evaluate answers to one (membership.go:187-188, 224-226) is left out.
MembershipIn(scope, outcome) ==
  IF scope.matcher = NoMatcher THEN [NotMember EXCEPT !.kind = "member"]
  ELSE IF outcome.kind # "complete" THEN [NotMember EXCEPT !.kind = "unknown", !.reason = outcome.kind]
  ELSE [NotMember EXCEPT
          !.kind = IF Range(outcome.paths) \cap SelectedBy[scope.matcher] # {}
                   THEN "member" ELSE "not-member",
          !.provenance = outcome.provenance]

\* ScopeSet.Evaluate: one membership in every Scope of the event's repository.
Evaluate(event, outcome) ==
  LET own == Picked(Ordered, {k \in DOMAIN Ordered : Ordered[k].repository = event.repository})
  IN [k \in DOMAIN own |-> [scope |-> own[k], membership |-> MembershipIn(own[k], outcome)]]

\* isPullRequestActivity.
IsPullRequestActivity(event) ==
  \/ event.category \in {"pull_request", "review"}
  \/ event.category = "comment" /\ event.entity = "pull_request"

\* The memberships of the scoped events in one Scope: the index of the event and the outcome.
HeldBy(events, scope, kind) ==
  {k \in DOMAIN events : \E m \in Range(events[k].memberships) :
     m.scope = scope /\ m.membership.kind = kind}

\* A mistake: an event nothing is known of counts as activity.
ActivityAtLeast(events, scope) ==
  HeldBy(events, scope, "member") \cup HeldBy(events, scope, "unknown")

Active(events, scope) == HeldBy(events, scope, "member")

\* count, over every event.
Row(events, scope) ==
  LET active == Active(events, scope)
      unknown == HeldBy(events, scope, "unknown")
      notMember == HeldBy(events, scope, "not-member")
      Of(set, Has(_)) == Cardinality({k \in set : Has(events[k])})
      InScope(e) == CHOOSE m \in Range(e.memberships) : m.scope = scope
  IN [scope |-> scope, activity |-> Cardinality(active),
      pushes |-> Of(active, LAMBDA e : e.event.category = "push"),
      pullRequests |-> Of(active, LAMBDA e : IsPullRequestActivity(e.event)),
      currentPR |-> Of(active, LAMBDA e : InScope(e).membership.provenance = "current-pr"),
      notMember |-> Cardinality(notMember), unknown |-> Cardinality(unknown),
      evaluated |-> Cardinality(active \cup notMember \cup unknown),
      byReason |-> [reason \in Reasons |->
                      Of(unknown, LAMBDA e : InScope(e).membership.reason = reason)]]

\* aggregateScopes: every Scope has a row, the most active first.
MoreActive(events, a, b) ==
  LET activity == [s \in {a, b} |-> Cardinality(Active(events, s))]
  IN activity[a] > activity[b] \/ (activity[a] = activity[b] /\ ScopeBefore(a, b))

Rows(events) ==
  LET all == Range(scopes)
      order == InOrder({pair \in all \X all : MoreActive(events, pair[1], pair[2])}, all)
  IN [k \in DOMAIN order |-> Row(events, order[k])]

MembersOf(scoped) == {k \in DOMAIN scoped.memberships : scoped.memberships[k].membership.kind = "member"}

\* countDistinctMembership.
DistinctActivity(events) == Cardinality({k \in DOMAIN events : MembersOf(events[k]) # {}})

Overlapping(events) == \E k \in DOMAIN events : Cardinality(MembersOf(events[k])) > 1

\* A mistake: the stream leaves out what nothing is known of.
IncludedMembers(scoped) == \E m \in Range(scoped.memberships) : m.membership.kind = "member"

\* StreamEvents: not those that are no member of any Scope.
Included(scoped) == \E m \in Range(scoped.memberships) : m.membership.kind # "not-member"

StreamEvents(events) == Picked(events, {k \in DOMAIN events : Included(events[k])})

\* NewRetainedSnapshot: each retained event with its memberships.
ScopedEvents ==
  [k \in DOMAIN retention.events |->
     [event |-> retention.events[k], memberships |-> Evaluate(retention.events[k], outcomes[k])]]

ScopedSnapshot(events) ==
  [events |-> events, rows |-> Rows(events), stream |-> StreamEvents(events),
   total |-> retention.total, retained |-> Len(retention.events),
   truncated |-> retention.truncated,
   distinct |-> DistinctActivity(events), overlapping |-> Overlapping(events)]

NewRetainedSnapshot ==
  /\ outcomes # Absent /\ snapshot = Absent
  /\ snapshot' = ScopedSnapshot(ScopedEvents)
  /\ UNCHANGED <<scopes, retention, settled, outcomes>>

SnapshotNext ==
  \/ \E requested \in Selections : NewScopeSet(requested)
  \/ \E activities \in Activities : Retain(activities)
  \/ SettleIdentity
  \/ NoEvidenceWanted
  \/ NoEvidence
  \/ Enriched
  \/ NewRetainedSnapshot

-----------------------------------------------------------------------------
(* Properties. *)

\* Retention drops an event only for newer ones: the retained IDs are distinct, each is its
\* first copy, and nothing the bound discarded is newer than something it kept; and the
\* coverage says how many there were (scoped_snapshot.go retain).
NewestAreRetained ==
  retention # Absent =>
    LET kept == Range(retention.events)
        ids == {e.id : e \in Range(retention.candidates)}
    IN /\ Cardinality({e.id : e \in kept}) = Len(retention.events)
       /\ retention.total = Cardinality(ids)
       /\ retention.truncated <=> Len(retention.events) < retention.total
       /\ \A k \in DOMAIN retention.candidates :
            LET e == retention.candidates[k]
                first == \A l \in 1 .. k - 1 : retention.candidates[l].id # e.id
            IN first /\ e \notin kept => \A r \in kept : r.at >= e.at

\* The rows account for the events: every selected Scope has one, the most active first, and
\* in it every retained event of its repository is a member, no member, or unknown for one
\* reason; whether the rows count an event twice is disclosed exactly
\* (scoped_snapshot.go aggregateScopes, count, countDistinctMembership).
RowsAccount ==
  snapshot # Absent =>
    LET rows == snapshot.rows IN
    /\ {rows[k].scope : k \in DOMAIN rows} = Range(scopes) /\ Len(rows) = Len(scopes)
    /\ \A k \in DOMAIN rows :
         LET row == rows[k]
             own == {l \in DOMAIN retention.events : retention.events[l].repository = row.scope.repository}
         IN /\ row.activity + row.notMember + row.unknown = Cardinality(own)
            /\ row.evaluated = Cardinality(own)
            /\ row.unknown = SumFunction(row.byReason)
            /\ row.pushes + row.pullRequests <= row.activity /\ row.currentPR <= row.activity
            /\ k > 1 => rows[k - 1].activity >= row.activity
    /\ snapshot.overlapping <=>
         SumFunction([k \in DOMAIN rows |-> rows[k].activity]) > snapshot.distinct

\* Nothing is guessed: a path Scope decides an event only from an outcome the enrichment
\* reported for it, complete, and of a commit only if its sole parent is the event's own
\* before object (tui/enrichment.go settle, outcome.go ForSoleParent, membership.go).
NothingIsGuessed ==
  snapshot # Absent => \A k \in DOMAIN snapshot.events :
    \A m \in Range(snapshot.events[k].memberships) :
      LET evidence == snapshot.events[k].event.evidence
          key == Key(evidence)
      IN m.scope.matcher # NoMatcher /\ m.membership.kind # "unknown" =>
           IF key = Absent THEN evidence.settled.kind = "complete"
           ELSE /\ key \in DOMAIN settled /\ settled[key].kind = "complete"
                /\ evidence.operation = "commit" => settled[key].parent = evidence.before

\* The stream agrees with the rows: it shows as many confirmed events as the rows count
\* distinctly, every undecided one, and no other (scoped_snapshot.go StreamEvents).
StreamShowsUndecided ==
  snapshot # Absent =>
    LET Confirmed(e) == MembersOf(e) # {}
        undecided == UNION {HeldBy(snapshot.events, s, "unknown") : s \in Range(scopes)}
        shown == Range(snapshot.stream)
    IN /\ Cardinality({e \in shown : Confirmed(e)}) = snapshot.distinct
       /\ {snapshot.events[k] : k \in undecided} \subseteq shown
       /\ Cardinality(shown) <= snapshot.distinct + Cardinality(undecided)

\* The snapshot says of the retained events what their evidence decides, and accounts for
\* all of them (scoped_snapshot.go, membership.go).
SnapshotIsTrue == NewestAreRetained /\ RowsAccount /\ NothingIsGuessed /\ StreamShowsUndecided
=============================================================================
