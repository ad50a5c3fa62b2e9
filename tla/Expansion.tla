------------------------------ MODULE Expansion ------------------------------
(***************************************************************************)
(* One expansion of organization selectors into repository Scopes:         *)
(* src/internal/github/expand.go, expand_normalize.go, expand_pagination.go*)
(* and expand_allocate.go.  Listing pages are requested one at a time,     *)
(* round robin over the selectors, within one budget; what was listed is   *)
(* then allocated to the Scopes the exact selection leaves free.           *)
(*                                                                         *)
(* An organization, a repository name and a path matcher are values that   *)
(* stand for their canonical keys.  A page link is the number of the page  *)
(* it names.                                                               *)
(***************************************************************************)
EXTENDS Schedule, Ranking, Sequences, SequencesExt

CONSTANTS
  Organizations,            \* the lexically valid organization keys
  Requests,                 \* the requests an invocation may make
  Bodies,                   \* the listing pages an API may answer with; a name is its canonical rank
  Links,                    \* the next links an API may offer, Absent for none
  Unreadable,               \* an offered link nobody can read
  ExpansionRequests,        \* the budget of listing requests
  PageSize,                 \* the records of a page, at most
  MaxScopes,                \* the Scopes of a selection, at most
  MaxSelectedRepositories   \* the distinct repositories of a selection, at most

ASSUME ExpansionAssumption ==
  /\ {ExpansionRequests, PageSize, MaxScopes, MaxSelectedRepositories} \subseteq Nat \ {0}
  /\ Absent \notin Requests /\ Absent \notin Nat
  /\ \A body \in Bodies \ {Absent} : body \in Seq(ToSet(body)) /\ \A k \in DOMAIN body : body[k].name \in Nat
  /\ \A r \in Requests :
       LET exact == ToSet(r.exact) IN
       /\ r.organizations \in Seq(ToSet(r.organizations))
       /\ r.exact \in Seq(exact) /\ Cardinality(exact) = Len(r.exact)
       /\ Len(r.exact) <= MaxScopes
       /\ Cardinality({scope.repository : scope \in exact}) <= MaxSelectedRepositories

VARIABLES
  request,    \* the ExpansionRequest, Absent before the call
  listings,   \* per selector: the page to request next, its number, the records so far
  turn,       \* the selector the round looks at next, then the candidate
  spent,      \* the requests dispatched
  selection,  \* the Scopes allocated so far, Absent while pages are listed
  expansion,  \* what Expand returned, Absent until then
  asked       \* history: the <<selector, page, body, link>> of every request

expansionVars == <<request, listings, turn, spent, selection, expansion, asked>>

ExpansionInit ==
  /\ request = Absent /\ listings = <<>> /\ turn = 1 /\ spent = 0
  /\ selection = Absent /\ expansion = Absent /\ asked = <<>>

\* Why an attempt published nothing.
Failure(organization, cause, delay) ==
  [kind |-> "failed", organization |-> organization, cause |-> cause, delay |-> delay,
   requests |-> spent + 1]

-----------------------------------------------------------------------------
(* Expand and newListings: the selectors are validated before any request.  *)

Selectable(organizations) ==
  /\ Range(organizations) \subseteq Organizations
  /\ Cardinality(Range(organizations)) = Len(organizations)

NewListing(organization) ==
  [organization |-> organization, url |-> 1, page |-> 1, records |-> {}]

Expand(r) ==
  /\ request = Absent
  /\ request' = r
  /\ IF Selectable(r.organizations)
     THEN /\ listings' = [i \in DOMAIN r.organizations |-> NewListing(r.organizations[i])]
          /\ UNCHANGED expansion
     ELSE /\ expansion' = [kind |-> "rejected"]
          /\ UNCHANGED listings
  /\ UNCHANGED <<turn, spent, selection, asked>>

-----------------------------------------------------------------------------
(* One listing page. *)

NormalizeListingRecord(organization, payload) ==
  /\ payload.complete
  /\ payload.repeatsItself
  /\ payload.owner = organization
  /\ payload.ownerType = "Organization"

DecodeListingPage(organization, body) ==
  /\ body # Absent
  /\ Len(body) <= PageSize
  /\ \A i \in DOMAIN body : NormalizeListingRecord(organization, body[i])

\* add: a repeated repository counts once, and must repeat its facts.
RecordsOf(body) == {[name |-> body[k].name, facts |-> body[k].facts] : k \in DOMAIN body}

\* A mistake: the facts of a repeated repository are not compared.
ConflictsNever(records) == FALSE

Conflicts(records) == \E r, q \in records : r.name = q.name /\ r # q

\* A mistake: a link that cannot be read ends the list.
OfferedReadable(link) == link \notin {Absent, Unreadable}

\* nextListingLink: no link ends the list; one that cannot be read does not.
Offered(link) == link # Absent

\* nextListingPage: the same organization's listing, advanced by exactly one page.
Followable(link, entry) ==
  /\ link # Unreadable
  /\ link.organization = entry.organization
  /\ link.sameQuery
  /\ link.page = entry.page + 1

\* The listing a page leaves behind: the next page to request, if one is offered.
ListedPage(entry, body, link) ==
  [entry EXCEPT !.records = @ \cup RecordsOf(body),
                !.url = IF Offered(link) THEN link.page ELSE Absent,
                !.page = @ + 1]

\* A mistake: a selector is followed to its end before the next one.
NextListingDepthFirst ==
  LET open == {i \in DOMAIN listings : listings[i].url # Absent}
  IN IF open = {} THEN 0 ELSE Min(open)

\* list: the selector the round asks next, 0 when every list has ended.
NextListing ==
  LET n == Len(listings)
      open == {k \in 0 .. n - 1 : listings[(((turn + k) - 1) % n) + 1].url # Absent}
  IN IF open = {} THEN 0 ELSE (((turn + Min(open)) - 1) % n) + 1

Listing ==
  /\ request # Absent /\ expansion = Absent /\ selection = Absent
  /\ NextListing # 0 /\ spent < ExpansionRequests

\* fetchListingPage, with everything the answer may be.  The first failure fails
\* the whole attempt.
Dispatched(body, link) ==
  LET i == NextListing IN
  /\ Listing
  /\ spent' = spent + 1
  /\ turn' = (i % Len(listings)) + 1
  /\ asked' = Append(asked, <<i, listings[i].url, body, link>>)
  /\ UNCHANGED <<request, selection>>

FetchFails(cause, delay) ==
  /\ Dispatched(Absent, Absent)
  /\ expansion' = Failure(listings[NextListing].organization, cause, delay)
  /\ UNCHANGED listings

ListingBreaksOff == FetchFails("transport", RetryDelay([poll |-> Absent], FALSE))

ListingRefused ==
  \E status \in Statuses, header \in Headers :
    LET cause == StatusError(status, header) IN
    /\ cause # "none"
    /\ FetchFails(cause, RetryDelay(header, cause = "rate limited"))

FetchListingPage ==
  /\ Listing
  /\ \E body \in Bodies, link \in Links :
    LET i == NextListing
        entry == listings[i]
        cause == IF \/ ~DecodeListingPage(entry.organization, body)
                    \/ Conflicts(entry.records \cup RecordsOf(body)) THEN "invalid listing"
                 ELSE IF Offered(link) /\ ~Followable(link, entry) THEN "invalid pagination"
                 ELSE "none"
    IN IF cause = "none"
       THEN /\ Dispatched(body, link)
            /\ listings' = [listings EXCEPT ![i] = ListedPage(entry, body, link)]
            /\ UNCHANGED expansion
       ELSE FetchFails(cause, Seconds(DefaultInterval))

-----------------------------------------------------------------------------
(* Allocation. *)

\* eligible: the disjoint bucket a record is counted in.
Bucket(record) ==
  IF "disabled" \in record.facts THEN "disabled"
  ELSE IF "archived" \in record.facts /\ ~request.includeArchived THEN "archived"
  ELSE IF "fork" \in record.facts /\ ~request.includeForks THEN "fork"
  ELSE "eligible"

InBucket(entry, bucket) == {record \in entry.records : Bucket(record) = bucket}

\* The candidates of a selector, in canonical order.
Queue(entry) ==
  LET names == {record.name : record \in InBucket(entry, "eligible")}
      ranked == InOrder({pair \in names \X names : pair[1] < pair[2]}, names)
  IN [k \in DOMAIN ranked |-> <<entry.organization, ranked[k]>>]

\* A mistake: all the candidates of a selector before the next one's.
TurnsBySelector(queues) ==
  FlattenSeq([i \in DOMAIN queues |-> [round \in DOMAIN queues[i] |-> <<round, i>>]])

\* A turn is a round and the selector that has a candidate in it.
TurnsOf(queues) == UNION {{<<round, i>> : round \in DOMAIN queues[i]} : i \in DOMAIN queues}

\* The round robin: one candidate of every selector a round, in request order, until
\* every candidate was examined (allocationRounds).
Earlier(t, u) == t[1] < u[1] \/ (t[1] = u[1] /\ t[2] < u[2])

Turns(queues) ==
  LET turns == TurnsOf(queues)
  IN InOrder({pair \in turns \X turns : Earlier(pair[1], pair[2])}, turns)

RepositoryScope(repository) == [repository |-> repository, matcher |-> Absent]

Referenced(scopes) == {scopes[k].repository : k \in DOMAIN scopes}

\* newSelection, when the budget is spent or every list has ended: the exact Scopes come
\* first, in request order.
BeginAllocation ==
  /\ request # Absent /\ expansion = Absent /\ selection = Absent
  /\ NextListing = 0 \/ spent >= ExpansionRequests
  /\ selection' =
       [scopes |-> request.exact,
        provenance |-> [k \in DOMAIN request.exact |-> [exact |-> TRUE, selector |-> Absent]],
        retained |-> [i \in DOMAIN listings |-> 0],
        omitted |-> [i \in DOMAIN listings |-> 0]]
  /\ turn' = 1
  /\ UNCHANGED <<request, listings, spent, expansion, asked>>

\* A mistake: a Scope takes a repository's place even where it is referenced already.
HasRoomForEach(repository) ==
  /\ Len(selection.scopes) < MaxScopes
  /\ Cardinality(Referenced(selection.scopes)) <= MaxSelectedRepositories

HasRoom(repository) ==
  /\ Len(selection.scopes) < MaxScopes
  /\ \/ repository \in Referenced(selection.scopes)
     \/ Cardinality(Referenced(selection.scopes)) < MaxSelectedRepositories

\* admit and record: an existing Scope gains the selector, a new one takes room, and a
\* candidate without room evicts nothing.
Admitted(i, repository) ==
  LET scope == RepositoryScope(repository)
      organization == listings[i].organization
      Reached(k) == selection.scopes[k] = scope /\ selection.provenance[k].selector = Absent
      kept == [selection EXCEPT !.retained[i] = @ + 1]
  IN IF scope \in Range(selection.scopes) THEN
       [kept EXCEPT !.provenance = [k \in DOMAIN @ |->
          IF Reached(k) THEN [@[k] EXCEPT !.selector = organization] ELSE @[k]]]
     ELSE IF HasRoom(repository) THEN
       [kept EXCEPT !.scopes = Append(@, scope),
                    !.provenance = Append(@, [exact |-> FALSE, selector |-> organization])]
     ELSE [selection EXCEPT !.omitted[i] = @ + 1]

Queues == [i \in DOMAIN listings |-> Queue(listings[i])]

\* allocate: every candidate is examined, also once nothing fits any more.
Allocate ==
  LET turns == Turns(Queues) IN
  /\ expansion = Absent /\ selection # Absent /\ turn <= Len(turns)
  /\ selection' = Admitted(turns[turn][2], Queues[turns[turn][2]][turns[turn][1]])
  /\ turn' = turn + 1
  /\ UNCHANGED <<request, listings, spent, expansion, asked>>

Report(i) ==
  LET Size(bucket) == Cardinality(InBucket(listings[i], bucket))
  IN [listed |-> Cardinality(listings[i].records), hasMore |-> listings[i].url # Absent,
      disabled |-> Size("disabled"), archived |-> Size("archived"), fork |-> Size("fork"),
      eligible |-> Size("eligible"), retained |-> selection.retained[i],
      omitted |-> selection.omitted[i]]

Publish ==
  /\ expansion = Absent /\ selection # Absent /\ turn > Len(Turns(Queues))
  /\ expansion' = [kind |-> "done", scopes |-> selection.scopes,
                   provenance |-> selection.provenance,
                   selectors |-> [i \in DOMAIN listings |-> Report(i)],
                   remains |-> \E i \in DOMAIN listings : listings[i].url # Absent,
                   requests |-> spent]
  /\ UNCHANGED <<request, listings, turn, spent, selection, asked>>

ExpansionNext ==
  \/ \E r \in Requests : Expand(r)
  \/ ListingBreaksOff
  \/ ListingRefused
  \/ FetchListingPage
  \/ BeginAllocation
  \/ Allocate
  \/ Publish

ExpansionSpec == ExpansionInit /\ [][ExpansionNext]_expansionVars /\ WF_expansionVars(ExpansionNext)
-----------------------------------------------------------------------------
(* Properties. *)

Expanded == expansion # Absent /\ expansion.kind = "done"

\* The places of a selector's requests among all of them.
AskedOf(i) == {k \in DOMAIN asked : asked[k][1] = i}

\* Every dispatch takes from the one budget, a failed page too; a selector's pages are
\* asked once each and in order; and while a list is open no other selector gets two
\* pages ahead of it (expand.go list).
ListingIsFair ==
  /\ spent = Len(asked) /\ spent <= ExpansionRequests
  /\ \A i \in DOMAIN listings : \A k \in AskedOf(i) :
       asked[k][2] = Cardinality({l \in AskedOf(i) : l <= k})
  /\ \A i, j \in DOMAIN listings :
       listings[i].url # Absent => Cardinality(AskedOf(j)) <= Cardinality(AskedOf(i)) + 1

\* The disclosed numbers account for everything the API listed: each distinct repository
\* of the pages is in exactly one bucket, and each eligible one retained or omitted
\* (expand.go add, expand_allocate.go eligible and allocate).
CountsAddUp ==
  Expanded => \A i \in DOMAIN listings :
    LET s == expansion.selectors[i]
        names == UNION {{asked[k][3][r].name : r \in DOMAIN asked[k][3]} : k \in AskedOf(i)}
    IN /\ s.listed = Cardinality(names)
       /\ s.disabled + s.archived + s.fork + s.eligible = s.listed
       /\ s.retained + s.omitted = s.eligible

\* Whether more exists is disclosed exactly: for a selector the budget never reached, and
\* for one whose last page offered a next one (expand_allocate.go HasMore).
MoreIsDisclosed ==
  Expanded => \A i \in DOMAIN listings :
    LET more == \A k \in AskedOf(i) : (\A l \in AskedOf(i) : l <= k) => asked[k][4] # Absent
    IN expansion.selectors[i].hasMore = more /\ (more => expansion.remains)

\* The exact Scopes keep their places and their capacity, and what expansion adds neither
\* repeats one nor passes a limit (expand_allocate.go newSelection, admit).
ExactKeepsPrecedence ==
  Expanded => /\ IsPrefix(request.exact, expansion.scopes)
          /\ Cardinality(Range(expansion.scopes)) = Len(expansion.scopes)
          /\ Len(expansion.scopes) <= MaxScopes
          /\ Cardinality(Referenced(expansion.scopes)) <= MaxSelectedRepositories
          /\ \A k \in DOMAIN expansion.scopes :
               expansion.provenance[k].exact <=> k <= Len(request.exact)

\* A candidate is omitted only for want of room, and no candidate of a later turn gets a
\* place it was refused, unless its repository was selected exactly and takes none
\* (expand_allocate.go allocate, admit).
EarlierTurnFirst ==
  Expanded =>
    LET candidates == TurnsOf(Queues)
        ScopeOf(t) == RepositoryScope(Queues[t[2]][t[1]])
        published == Range(expansion.scopes)
        full == \/ Len(expansion.scopes) = MaxScopes
                \/ Cardinality(Referenced(expansion.scopes)) = MaxSelectedRepositories
    IN \A t \in candidates : ScopeOf(t) \notin published =>
         /\ full
         /\ \A u \in candidates :
              Earlier(t, u) /\ ScopeOf(u) \in published \ Range(request.exact) =>
                ScopeOf(u).repository \in Referenced(request.exact)

\* What is published is the allocation the disclosed numbers describe, the exact Scopes
\* first (expand.go, expand_allocate.go).
AllocationIsTrue == CountsAddUp /\ MoreIsDisclosed /\ ExactKeepsPrecedence /\ EarlierTurnFirst
=============================================================================
