------------------------------ MODULE Evidence ------------------------------
(***************************************************************************)
(* What a lookup of changed files is asked and what it answers: the        *)
(* descriptors of src/internal/domain/evidence.go, the outcomes of         *)
(* outcome.go, and the classification of an event's payload,               *)
(* src/internal/github/evidence.go.                                        *)
(*                                                                         *)
(* Object SHAs and paths are values; what the code refuses to parse is a   *)
(* value outside Objects or Paths, and the all-zero SHA is one of them.    *)
(***************************************************************************)
EXTENDS Schedule, Sequences

CONSTANTS
  Objects,  \* the valid object SHAs
  Paths     \* the valid changed paths

-----------------------------------------------------------------------------
(* Outcomes. *)

Unknown(kind) ==
  [kind |-> kind, provenance |-> "none", paths |-> <<>>, parent |-> Absent, retryAt |-> Absent]

Complete(provenance, paths) ==
  [Unknown("complete") EXCEPT !.provenance = provenance, !.paths = paths]

RateLimited(header) ==
  [Unknown("rate-limited") EXCEPT !.retryAt = Now * Second + RetryDelay(header, TRUE)]

\* statusOutcome: the outcome of an answer that is no success.
StatusOutcome(status, header) ==
  IF IsRateLimited(status, header) THEN RateLimited(header)
  ELSE IF status \in {401, 403} THEN Unknown("denied")
  ELSE IF status \in {404, 409} THEN Unknown("unavailable")
  ELSE Unknown("failed")

\* The sole parent a commit was proved to have goes with its paths.
WithSoleParent(outcome, sha) ==
  IF sha \in Objects THEN [outcome EXCEPT !.parent = sha] ELSE Unknown("incomplete")

\* A mistake: every event of a head receives the paths of the commit.
ForAnyParent(outcome, before) == outcome

\* One result of a commit serves every event that names its head, but only an event whose
\* own before object is the proved parent receives the paths.
ForSoleParent(outcome, before) ==
  IF outcome.kind = "complete" /\ (before \notin Objects \/ before # outcome.parent)
  THEN Unknown("incomplete") ELSE outcome

-----------------------------------------------------------------------------
(* Descriptors. *)

NewSettledEvidence(outcome) ==
  [operation |-> "settled", provenance |-> outcome.provenance, repository |-> Absent,
   before |-> Absent, base |-> Absent, head |-> Absent, number |-> 0, settled |-> outcome]

Unsupported == NewSettledEvidence(Unknown("unsupported"))

Needs(operation, repository, provenance) ==
  [NewSettledEvidence(Unknown("complete")) EXCEPT
     !.operation = operation, !.repository = repository, !.provenance = provenance,
     !.settled = Absent]

NewCommitEvidence(repository, before, head) ==
  IF {before, head} \subseteq Objects
  THEN [Needs("commit", repository, "event-time") EXCEPT !.before = before, !.head = head]
  ELSE Unsupported

NewCompareEvidence(repository, base, head, provenance) ==
  IF {base, head} \subseteq Objects /\ base # head
  THEN [Needs("compare", repository, provenance) EXCEPT !.base = base, !.head = head]
  ELSE Unsupported

NewPullRequestEvidence(repository, number) ==
  IF number > 0 THEN [Needs("pr-metadata", repository, "current-pr") EXCEPT !.number = number]
                ELSE Unsupported

\* The work key: equal work is done once, whichever events and Scopes ask for it.
Key(descriptor) ==
  IF descriptor.operation = "settled" THEN Absent
  ELSE <<descriptor.operation, descriptor.repository, descriptor.base, descriptor.head,
         descriptor.number>>

-----------------------------------------------------------------------------
(* Classification: the evidence a payload's facts select.                   *)

NewUnchangedEvidence == NewSettledEvidence(Complete("event-time", <<>>))

\* pushEvidence: syntax, then equality, then the one-commit form, then comparison.
PushEvidence(repository, detail) ==
  IF ~({detail.before, detail.head} \subseteq Objects) THEN Unsupported
  ELSE IF detail.before = detail.head THEN NewUnchangedEvidence
  ELSE IF detail.size = 1 THEN NewCommitEvidence(repository, detail.before, detail.head)
  ELSE NewCompareEvidence(repository, detail.before, detail.head, "event-time")

\* reviewCommentEvidence: the one path the comment names, and no other evidence.
ReviewCommentEvidence(detail) ==
  NewSettledEvidence(IF detail.comment \in Paths THEN Complete("direct-event", <<detail.comment>>)
                                                 ELSE Unknown("incomplete"))

\* eventTimeEvidence: the base and head the event itself carried.
EventTimeEvidence(repository, pullRequest) ==
  IF pullRequest = Absent \/ ~({pullRequest.base, pullRequest.head} \subseteq Objects) THEN Unsupported
  ELSE IF pullRequest.base = pullRequest.head THEN NewUnchangedEvidence
  ELSE NewCompareEvidence(repository, pullRequest.base, pullRequest.head, "event-time")

\* A mistake: any comment with a number asks for the pull request of that number.
IssueCommentByNumber(repository, issue) ==
  IF issue = Absent THEN Unsupported ELSE NewPullRequestEvidence(repository, issue.number)

\* issueCommentEvidence: only a comment on a pull request has changed files.
IssueCommentEvidence(repository, issue) ==
  IF issue = Absent \/ ~issue.onPullRequest THEN Unsupported
  ELSE NewPullRequestEvidence(repository, issue.number)

ChangedFileEvidence(repository, payload) ==
  LET detail == payload.detail IN
  IF detail = Absent THEN Unsupported
  ELSE CASE payload.type = "PushEvent" -> PushEvidence(repository, detail)
         [] payload.type = "PullRequestReviewCommentEvent" -> ReviewCommentEvidence(detail)
         [] payload.type \in {"PullRequestEvent", "PullRequestReviewEvent"} ->
              EventTimeEvidence(repository, detail.pullRequest)
         [] payload.type = "IssueCommentEvent" -> IssueCommentEvidence(repository, detail.issue)
         [] OTHER -> Unsupported
=============================================================================
