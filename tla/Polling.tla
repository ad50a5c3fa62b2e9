------------------------------- MODULE Polling -------------------------------
(***************************************************************************)
(* One poll of the selected repositories: Source.Refresh and fetch of      *)
(* src/internal/github/source.go, and the normalization of an events page, *)
(* normalize.go.  A poll is atomic: the first repository that fails, or    *)
(* the first event that cannot be normalized, fails it whole.              *)
(*                                                                         *)
(* Wording is left out: an event keeps what the views and the enrichment   *)
(* decide by, its category, its entity and the evidence it needs.          *)
(***************************************************************************)
EXTENDS Evidence, SequencesExt

CONSTANTS
  Polls,  \* the repositories a poll may ask, in request order
  Pages   \* the events pages an API may answer with, Absent for an unusable body

\* Why a poll fails.
Causes == {"transport", "authentication", "not found", "rate limited", "access denied",
           "unexpected", "invalid payload", "repository mismatch"}

ASSUME PollingAssumption ==
  /\ \A repositories \in Polls : repositories \in Seq(ToSet(repositories))
  /\ \A page \in Pages : page # Absent => page \in Seq(ToSet(page))
  /\ Absent \notin [kind : {"failed"}, cause : Causes, delay : -Half .. Half - 1,
                   repository : UNION {ToSet(repositories) : repositories \in Polls}]

VARIABLES
  polling,     \* the repositories of the poll, Absent before the call
  activities,  \* the events of the repositories answered so far
  intervals,   \* the poll intervals they advertised
  polled,      \* what Refresh returned, Absent until then
  replies      \* history: the headers and the page of every success

pollVars == <<polling, activities, intervals, polled, replies>>

PollInit ==
  polling = Absent /\ activities = <<>> /\ intervals = {} /\ polled = Absent /\ replies = <<>>

\* Refresh: a selection without repositories fails before any request.
Poll(repositories) ==
  /\ polling = Absent
  /\ polling' = repositories
  /\ polled' = IF repositories = <<>> THEN [kind |-> "empty"] ELSE Absent
  /\ UNCHANGED <<activities, intervals, replies>>

Polling == polling # Absent /\ polled = Absent /\ Len(activities) < Len(polling)

Requested == polling[Len(activities) + 1]

\* failure: the attempt ends, with the delay before the next one.
PollFails(cause, delay) ==
  /\ Polling
  /\ polled' = [kind |-> "failed", repository |-> Requested, cause |-> cause, delay |-> delay]
  /\ UNCHANGED <<polling, activities, intervals>>

PollBreaksOff == PollFails("transport", Seconds(DefaultInterval)) /\ UNCHANGED replies

PollRefused ==
  \E status \in Statuses, header \in Headers :
    LET cause == StatusError(status, header) IN
    /\ cause # "none"
    /\ PollFails(cause, RetryDelay(header, cause = "rate limited"))
    /\ replies' = Append(replies, [header |-> header, page |-> Absent])

-----------------------------------------------------------------------------
(* NormalizeEvents. *)

\* The required facts of an event, and the repository that was asked for.
Malformed(payload) ==
  payload.id = Absent \/ payload.createdAt = Absent \/ payload.repository = Absent
Mismatched(payload) == payload.repository # Requested

NumberRef(number) == IF number > 0 THEN number ELSE Absent
PullRequestRef(detail) ==
  IF detail = Absent \/ detail.pullRequest = Absent THEN Absent ELSE NumberRef(detail.pullRequest.number)

Classified(category, entity, ref) == [category |-> category, entity |-> entity, ref |-> ref]

\* classifyIssueComment: a comment on a pull request is pull-request activity.
ClassifyIssueComment(issue) ==
  IF issue = Absent THEN Classified("other", "other", Absent)
  ELSE IF issue.onPullRequest THEN Classified("comment", "pull_request", NumberRef(issue.number))
  ELSE Classified("other", "other", NumberRef(issue.number))

Classify(payload) ==
  LET detail == payload.detail IN
  CASE payload.type = "PushEvent" ->
         Classified("push", "commit", IF detail = Absent THEN Absent ELSE detail.head)
    [] payload.type = "PullRequestEvent" ->
         Classified("pull_request", "pull_request", PullRequestRef(detail))
    [] payload.type = "PullRequestReviewEvent" ->
         Classified("review", "pull_request", PullRequestRef(detail))
    [] payload.type = "PullRequestReviewCommentEvent" ->
         Classified("comment", "pull_request", PullRequestRef(detail))
    [] payload.type = "IssueCommentEvent" ->
         ClassifyIssueComment(IF detail = Absent THEN Absent ELSE detail.issue)
    [] OTHER -> Classified("other", "repository", Absent)

NormalizeEvent(payload) ==
  [id |-> payload.id, occurredAt |-> payload.createdAt, repository |-> payload.repository,
   class |-> Classify(payload), evidence |-> ChangedFileEvidence(payload.repository, payload)]

NormalizeEvents(page) == [k \in DOMAIN page |-> NormalizeEvent(page[k])]

\* A mistake: the repository an event names is not compared with the one asked for.
PageErrorOfFacts(page) ==
  IF page = Absent \/ \E k \in DOMAIN page : Malformed(page[k]) THEN "invalid payload" ELSE "none"

\* The first event without its required facts decides the class of the failure.
PageError(page) ==
  IF page = Absent THEN "invalid payload"
  ELSE IF \E k \in DOMAIN page : Malformed(page[k]) /\ \A l \in 1 .. k - 1 : ~Mismatched(page[l])
    THEN "invalid payload"
  ELSE IF \E k \in DOMAIN page : Mismatched(page[k]) THEN "repository mismatch"
  ELSE "none"

\* fetch, for a success: the page is kept only when every event of it is usable.
FetchPage ==
  \E header \in Headers, page \in Pages :
    /\ Polling
    /\ IF PageError(page) # "none"
       THEN PollFails(PageError(page), RetryDelay(header, FALSE)) /\ UNCHANGED replies
       ELSE /\ activities' = Append(activities, NormalizeEvents(page))
            /\ intervals' = intervals \cup {PollInterval(header)}
            /\ replies' = Append(replies, [header |-> header, page |-> page])
            /\ UNCHANGED <<polling, polled>>

FinishPoll ==
  /\ polling # Absent /\ polled = Absent /\ Len(activities) = Len(polling)
  /\ polled' = [kind |-> "done", activities |-> activities, delay |-> PollDelay(intervals)]
  /\ UNCHANGED <<polling, activities, intervals, replies>>

PollNext ==
  \/ \E repositories \in Polls : Poll(repositories)
  \/ PollBreaksOff
  \/ PollRefused
  \/ FetchPage
  \/ FinishPoll

PollSpec == PollInit /\ [][PollNext]_pollVars

-----------------------------------------------------------------------------
(* Properties. *)

\* The next request waits for every instruction of the replies that a Duration can hold:
\* each poll interval of a success, and the Retry-After and the reset of a rate limit; and
\* never less than the floor, whatever a header says (schedule.go pollDelay, retryDelay).
DelayHonoursReplies ==
  polled # Absent /\ polled.kind # "empty" =>
    /\ KeepsFloor(polled.delay)
    /\ polled.kind = "done" =>
         \A k \in DOMAIN replies : HonoursPoll(polled.delay, replies[k].header)
    /\ polled.kind = "failed" /\ polled.cause = "rate limited" =>
         HonoursRetry(polled.delay, replies[Len(replies)].header)

\* A poll publishes every event of every repository it asked, in order, or nothing: each
\* carries the repository it was asked for (source.go Refresh, normalize.go NormalizeEvents).
PollIsAtomic ==
  polled # Absent /\ polled.kind = "done" =>
    /\ Len(polled.activities) = Len(polling) /\ Len(replies) = Len(polling)
    /\ \A i \in DOMAIN polling :
         /\ Len(polled.activities[i]) = Len(replies[i].page)
         /\ \A k \in DOMAIN polled.activities[i] :
              /\ polled.activities[i][k].id = replies[i].page[k].id
              /\ polled.activities[i][k].repository = polling[i]

\* The two classifications of an event agree: it asks for a pull request's refs exactly if
\* it is shown as a comment on that pull request that named no file, and for a comparison
\* only of two different objects; an event shown as other activity asks for nothing
\* (normalize.go classify, evidence.go changedFileEvidence).
ClassificationsAgree ==
  \A i \in DOMAIN activities : \A k \in DOMAIN activities[i] :
    LET event == activities[i][k]
        evidence == event.evidence
    IN /\ evidence.operation = "pr-metadata" =>
            /\ event.class.category = "comment" /\ event.class.ref = evidence.number
       /\ event.class.category = "other" =>
            Key(evidence) = Absent /\ evidence.settled.kind = "unsupported"
       /\ evidence.operation = "compare" => evidence.base # evidence.head
       /\ event.class.category = "push" /\ Key(evidence) # Absent =>
            evidence.head = event.class.ref
       /\ Key(evidence) # Absent => evidence.repository = event.repository

\* What a poll publishes is what the API said, whole and classified one way (source.go,
\* normalize.go, evidence.go).
PollIsTrue == PollIsAtomic /\ ClassificationsAgree
=============================================================================
