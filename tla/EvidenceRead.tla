---------------------------- MODULE EvidenceRead ----------------------------
(***************************************************************************)
(* One evidence lookup against the API: Enricher.Changed and               *)
(* CurrentPullRequest of src/internal/github/enrich.go, the commit walk of *)
(* enrich_commit.go, the single comparison of enrich_compare.go, and the   *)
(* path set of enrich_files.go.  A lookup that cannot prove its answer     *)
(* complete publishes no path at all.                                      *)
(*                                                                         *)
(* Objects and paths are values; a value outside Objects or Paths is one   *)
(* the code refuses to parse.  A page link is the number of the page.      *)
(***************************************************************************)
EXTENDS Evidence, SequencesExt, FiniteSets

CONSTANTS
  BytesOf,           \* the UTF-8 bytes of each path
  Descriptors,       \* the descriptors a caller may pass
  CommitPages,       \* the bodies a commit request may be answered with
  Comparisons,       \* the bodies a compare request may be answered with
  PullRequests,      \* the bodies a pull request read may be answered with
  PageLinks,         \* the next links a commit page may offer, Absent for none
  MaxEvidencePages, MaxEvidencePaths, MaxChangedPathBytes, MaxEvidenceBytes,
  MaxCompareFiles

ASSUME EvidenceReadAssumption ==
  /\ {MaxEvidencePages, MaxEvidencePaths, MaxEvidenceBytes, MaxCompareFiles} \subseteq Nat \ {0}
  /\ Paths \subseteq DOMAIN BytesOf
  /\ Absent \notin Objects
  /\ \A d \in Descriptors :
       d.operation = "settled" => d.settled # Absent /\ d.settled.kind # "canceled"
  /\ \A body \in CommitPages : body # Absent =>
       /\ body.parents \in Seq(ToSet(body.parents))
       /\ body.files # Absent => body.files \in Seq(ToSet(body.files))
  /\ \A link \in PageLinks : link # Absent => link.page \in Nat

VARIABLES
  lookup,    \* the entry point and its descriptor, Absent before the call
  canceled,  \* the refresh's context has ended
  phase,     \* "ready" between requests, "waiting" for an answer
  walk,      \* the page being read, the sole parent seen, the paths collected
  visited,   \* the pages requested
  outcome,   \* the EvidenceOutcome or derived descriptor, Absent until then
  answers    \* history: the bodies and links answered, in order

readVars == <<lookup, canceled, phase, walk, visited, outcome, answers>>

ReadInit ==
  /\ lookup = Absent /\ canceled = FALSE /\ phase = "ready"
  /\ walk = [page |-> 1, parent |-> Absent, paths |-> <<>>]
  /\ visited = {} /\ outcome = Absent /\ answers = <<>>

-----------------------------------------------------------------------------
(* The path set. *)

Documented == {"added", "removed", "modified", "renamed", "copied", "changed", "unchanged"}

\* The paths the records name: a rename names its new and its old one.
Named(files) ==
  FlattenSeq([k \in DOMAIN files |->
    IF files[k].status = "renamed" THEN <<files[k].filename, files[k].previous>>
                                   ELSE <<files[k].filename>>])

BytesIn(paths) == MapThenSumSet(LAMBDA p : BytesOf[p], Range(paths))

\* addRecords: every path is valid and new, and nothing passes a capacity; the capacities
\* count what the earlier pages collected.
Admits(paths, files) ==
  /\ files # Absent
  /\ \A k \in DOMAIN files : files[k].status \in Documented
  /\ Range(Named(files)) \subseteq {p \in Paths : BytesOf[p] <= MaxChangedPathBytes}
  /\ LET all == paths \o Named(files) IN
     /\ Cardinality(Range(all)) = Len(all)
     /\ Len(all) <= MaxEvidencePaths
     /\ BytesIn(all) <= MaxEvidenceBytes

-----------------------------------------------------------------------------
(* The two entry points. *)

Settles(result) == outcome' = result /\ UNCHANGED <<canceled, phase, walk, visited, answers>>

Changed(descriptor) ==
  /\ lookup = Absent
  /\ lookup' = [entry |-> "Changed", of |-> descriptor]
  /\ CASE descriptor.operation = "settled"     -> Settles(descriptor.settled)
       [] descriptor.operation = "pr-metadata" -> Settles(Unknown("incomplete"))
       [] OTHER -> UNCHANGED <<canceled, phase, walk, visited, outcome, answers>>

CurrentPullRequest(descriptor) ==
  /\ lookup = Absent
  /\ lookup' = [entry |-> "CurrentPullRequest", of |-> descriptor]
  /\ IF descriptor.operation = "pr-metadata"
     THEN UNCHANGED <<canceled, phase, walk, visited, outcome, answers>>
     ELSE Settles(Unknown("incomplete"))

\* The refresh ends: a newer one began, or the program stops.
Cancel ==
  /\ lookup # Absent /\ outcome = Absent /\ ~canceled
  /\ canceled' = TRUE
  /\ UNCHANGED <<lookup, phase, walk, visited, outcome, answers>>

-----------------------------------------------------------------------------
(* One request. *)

Reading == lookup # Absent /\ outcome = Absent

\* A mistake: a refresh that ended leaves the lookup where it is.
DispatchWhileWanted ==
  /\ Reading /\ phase = "ready" /\ ~canceled
  /\ phase' = "waiting" /\ visited' = visited \cup {walk.page}
  /\ UNCHANGED <<lookup, canceled, walk, outcome, answers>>

\* The loop's check of the page, then read up to the dispatch.
Dispatch ==
  /\ Reading /\ phase = "ready"
  /\ IF walk.page \in visited THEN outcome' = Unknown("incomplete") /\ UNCHANGED <<phase, visited>>
     ELSE IF canceled THEN outcome' = Unknown("canceled") /\ UNCHANGED <<phase, visited>>
     ELSE phase' = "waiting" /\ visited' = visited \cup {walk.page} /\ UNCHANGED outcome
  /\ UNCHANGED <<lookup, canceled, walk, answers>>

Answered(result) ==
  /\ outcome' = result /\ phase' = "ready"
  /\ UNCHANGED <<lookup, canceled, walk, visited>>

\* A mistake: an ended refresh is reported as a failed request.
CancellationFailed(ended) == "failed"

\* cancellationOutcome: the context, not the request's own time limit, decides.
CancellationOutcome(ended) == IF ended THEN "canceled" ELSE "failed"

\* The request or its body breaks off: no connection, a timeout, an ended refresh.
BreaksOff ==
  /\ Reading /\ phase = "waiting"
  /\ Answered(Unknown(CancellationOutcome(canceled)))
  /\ UNCHANGED answers

\* An answer that is no success settles the lookup.
ReadRefused ==
  /\ Reading /\ phase = "waiting"
  /\ \E status \in Statuses, header \in Headers :
       status \notin 200 .. 299 /\ Answered(StatusOutcome(status, header))
  /\ answers' = Append(answers, [body |-> Absent, link |-> Absent])

-----------------------------------------------------------------------------
(* commitEvidence: the walk over the pages of one commit. *)

\* commitPageIdentity: the page repeats the commit and the parent of the pages before.
SameCommit(body) ==
  /\ body.sha = lookup.of.head
  /\ Len(body.parents) = 1
  /\ body.parents[1] \in Objects
  /\ walk.parent \in {Absent, body.parents[1]}

\* A mistake: a link that does not advance is followed.
SafeAnywhere(link) == link.commit = lookup.of.head /\ link.sameQuery

\* nextCommitPage: the same commit, by the query of the request, on a later page.
Safe(link) == link.commit = lookup.of.head /\ link.sameQuery /\ link.page > walk.page

\* The pages the walk may still read: the bound counts every page, the last one too.
PagesLeft == Cardinality(visited) < MaxEvidencePages

\* A mistake: what a page with a bad link proved so far is published.
UnsafeAsLast(body, link) ==
  IF link = Absent \/ ~PagesLeft \/ ~Safe(link)
  THEN Answered(WithSoleParent(Complete("event-time", walk.paths \o Named(body.files)),
                               body.parents[1]))
  ELSE /\ walk' = [page |-> link.page, parent |-> body.parents[1],
                   paths |-> walk.paths \o Named(body.files)]
       /\ phase' = "ready" /\ UNCHANGED <<lookup, canceled, visited, outcome>>

\* Only a page without a next link proves the set whole; a link that is unsafe, or one
\* left at the bound, proves it is not.
Continues(body, link) ==
  IF link = Absent
  THEN Answered(WithSoleParent(Complete("event-time", walk.paths \o Named(body.files)),
                               body.parents[1]))
  ELSE IF ~Safe(link) \/ ~PagesLeft THEN Answered(Unknown("incomplete"))
  ELSE /\ walk' = [page |-> link.page, parent |-> body.parents[1],
                   paths |-> walk.paths \o Named(body.files)]
       /\ phase' = "ready" /\ UNCHANGED <<lookup, canceled, visited, outcome>>

ReadCommitPage ==
  /\ Reading /\ phase = "waiting" /\ lookup.of.operation = "commit"
  /\ \E body \in CommitPages, link \in PageLinks :
       /\ answers' = Append(answers, [body |-> body, link |-> link])
       /\ IF body # Absent /\ SameCommit(body) /\ Admits(walk.paths, body.files)
          THEN Continues(body, link)
          ELSE Answered(Unknown("incomplete"))

-----------------------------------------------------------------------------
(* compareEvidence and CurrentPullRequest: one answer proves all or nothing. *)

\* A mistake: a response cut off at the documented cap is taken for the whole.
WholeUpToCap(files) == files # Absent /\ Len(files) <= MaxCompareFiles

WholeComparison(files) == files # Absent /\ Len(files) < MaxCompareFiles

\* matchesCompareURL and the base commit: the response is of the comparison asked for.
Describes(body) == body.base = lookup.of.base /\ body.head = lookup.of.head

ReadComparison ==
  /\ Reading /\ phase = "waiting" /\ lookup.of.operation = "compare"
  /\ \E body \in Comparisons :
       /\ answers' = Append(answers, [body |-> body, link |-> Absent])
       /\ IF body # Absent /\ Describes(body) /\ WholeComparison(body.files) /\ Admits(<<>>, body.files)
          THEN Answered(Complete(lookup.of.provenance, Named(body.files)))
          ELSE Answered(Unknown("incomplete"))

\* A mistake: the comparison read from a pull request's refs is called event-time.
DerivedAtEventTime(base, head) ==
  NewCompareEvidence(lookup.of.repository, base, head, "event-time")

\* The comparison the pull request's refs select now.
Derived(base, head) == NewCompareEvidence(lookup.of.repository, base, head, "current-pr")

ReadPullRequest ==
  /\ Reading /\ phase = "waiting" /\ lookup.of.operation = "pr-metadata"
  /\ \E body \in PullRequests :
       /\ answers' = Append(answers, [body |-> body, link |-> Absent])
       /\ IF body = Absent \/ body.number # lookup.of.number \/ ~({body.base, body.head} \subseteq Objects)
          THEN Answered(Unknown("incomplete"))
          ELSE IF body.base = body.head THEN Answered(Complete("current-pr", <<>>))
          ELSE Answered(Derived(body.base, body.head))

ReadNext ==
  \/ \E descriptor \in Descriptors : Changed(descriptor) \/ CurrentPullRequest(descriptor)
  \/ Cancel
  \/ Dispatch
  \/ BreaksOff
  \/ ReadRefused
  \/ ReadCommitPage
  \/ ReadComparison
  \/ ReadPullRequest

\* An exchange ends: every request is bound to a context with a time limit.
ReadFairness == WF_readVars(Dispatch) /\ WF_readVars(BreaksOff \/ ReadRefused \/ ReadCommitPage
                                                      \/ ReadComparison \/ ReadPullRequest)

ReadSpec == ReadInit /\ [][ReadNext]_readVars /\ ReadFairness

-----------------------------------------------------------------------------
(* Properties. *)

IsComplete == outcome # Absent /\ "kind" \in DOMAIN outcome /\ outcome.kind = "complete"

\* A complete commit is one commit to its end: every page was of the requested commit with
\* the one parent published, only the last had no next link, and no path is repeated or
\* passes the capacities (enrich_commit.go commitEvidence).
CompleteIsOneCommit ==
  IsComplete /\ lookup.of.operation = "commit" =>
    /\ Last(answers).link = Absent
    /\ \A k \in DOMAIN answers :
         /\ k < Len(answers) => answers[k].link # Absent
         /\ answers[k].body.sha = lookup.of.head
         /\ answers[k].body.parents = <<outcome.parent>>
    /\ Cardinality(Range(outcome.paths)) = Len(outcome.paths)
    /\ BytesIn(outcome.paths) <= MaxEvidenceBytes

\* The paths of a complete commit are those of all its pages, in order
\* (enrich_files.go addRecords).
CompleteIsWhole ==
  IsComplete /\ lookup.of.operation = "commit" =>
    outcome.paths = FlattenSeq([k \in DOMAIN answers |-> Named(answers[k].body.files)])

\* A complete comparison is of the two objects asked for and was not cut off at the
\* documented cap (enrich_compare.go compareEvidence).
ComparisonIsWhole ==
  IsComplete /\ lookup.of.operation = "compare" =>
    /\ Len(answers) = 1 /\ Len(answers[1].body.files) < MaxCompareFiles
    /\ answers[1].body.base = lookup.of.base /\ answers[1].body.head = lookup.of.head
    /\ outcome.paths = Named(answers[1].body.files)
    /\ outcome.provenance = lookup.of.provenance

\* The walk only goes forward, and never past the page bound, whatever links the API
\* offers (enrich_commit.go commitEvidence, nextCommitPage).
WalkAdvances ==
  /\ Cardinality(visited) <= MaxEvidencePages
  /\ \A page \in visited : page <= walk.page
  /\ phase = "waiting" => Len(answers) = Cardinality(visited) - 1

\* A lookup whose refresh ended reports a failure only when the API answered every request
\* it sent; an exchange the end broke off is canceled (enrich.go cancellationOutcome).
CancellationIsNoFailure ==
  outcome # Absent /\ "kind" \in DOMAIN outcome =>
    /\ outcome.kind = "canceled" => canceled
    /\ outcome.kind = "failed" /\ canceled => Len(answers) = Cardinality(visited)

\* What is read through a pull request's present refs is never event-time evidence, the
\* descriptor derived from them included (enrich.go CurrentPullRequest).
CurrentPRStaysCurrent ==
  lookup # Absent /\ lookup.entry = "CurrentPullRequest" /\ outcome # Absent =>
    outcome.provenance # "event-time"

\* Every lookup settles: a server that offers next pages without end, or a refresh that
\* ends in between, cannot keep it (enrich_commit.go commitEvidence, enrich.go read).
LookupSettles == (lookup # Absent) ~> (outcome # Absent)

\* The outcome says no more than the answers prove (enrich.go, enrich_commit.go,
\* enrich_compare.go).
OutcomeIsProven ==
  CompleteIsOneCommit /\ CompleteIsWhole /\ ComparisonIsWhole /\ WalkAdvances
    /\ CancellationIsNoFailure /\ CurrentPRStaysCurrent
=============================================================================
