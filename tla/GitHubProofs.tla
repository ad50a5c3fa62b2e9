---------------------------- MODULE GitHubProofs ----------------------------
(***************************************************************************)
(* The theorems of the GitHub source, for every word size, every header    *)
(* and every answer: the delays it reports, what a poll publishes, what a  *)
(* lookup of changed files concludes, and what an expansion of             *)
(* organizations lists, allocates and discloses.                           *)
(***************************************************************************)
EXTENDS Polling, EvidenceRead, Expansion, DataLemmas

-----------------------------------------------------------------------------
(* Machine words *)

\* The Durations: the nanoseconds a machine word holds.
Words == -Half .. Half - 1

\* A number divided by more than itself leaves itself.
LEMMA SmallRemainder ==
    ASSUME NEW a \in Nat, NEW m \in Nat, a < m
    PROVE  a % m = a
OBVIOUS

\* What is wrapped is in the word, and what was in it stays as it is.
LEMMA WrappedInWord ==
    ASSUME NEW n \in Int
    PROVE  Wrapped(n) \in Words /\ (n \in Words => Wrapped(n) = n)
<1>1. Half \in Nat \ {0} BY ScheduleAssumption
<1>2. (n + Half) % (2 * Half) \in 0 .. 2 * Half - 1
  BY <1>1
<1>3. ASSUME n \in Words PROVE (n + Half) % (2 * Half) = n + Half
  <2>1. n + Half \in Nat /\ 2 * Half \in Nat /\ n + Half < 2 * Half
    BY <1>1, <1>3 DEF Words
  <2> QED BY <2>1, SmallRemainder
<1> QED BY <1>1, <1>2, <1>3 DEF Wrapped, Words

\* A product of a number and the nanoseconds of a second is a number, and not negative if
\* the number is not.
LEMMA ProductIsNumber ==
    ASSUME NEW n \in Int
    PROVE  n * Second \in Int /\ (n >= 0 => n * Second >= 0)
BY ScheduleAssumption

\* A number of seconds is a Duration; the one meant, if a Duration can hold it.
LEMMA SecondsFit ==
    ASSUME NEW n \in Int
    PROVE  Seconds(n) \in Words /\ (n >= 0 /\ Fits(n) => Seconds(n) = n * Second)
<1>1. n * Second \in Int /\ (n >= 0 => n * Second >= 0)
  BY ProductIsNumber
<1>2. n >= 0 /\ Fits(n) => n * Second \in Words
  BY <1>1, ScheduleAssumption DEF Fits, Words
<1> QED BY <1>1, <1>2, WrappedInWord DEF Seconds

\* The polling floor is a Duration.
LEMMA FloorFits ==
    Seconds(DefaultInterval) = DefaultInterval * Second
BY SecondsFit, ScheduleAssumption DEF Fits

\* A nonempty set of Durations has a greatest one.
LEMMA GreatestDuration ==
    ASSUME NEW S \in SUBSET Words, S # {}
    PROVE  Max(S) \in S /\ \A x \in S : Max(S) >= x
<1> DEFINE Below == {Half - x : x \in S}
<1>1. Half \in Nat \ {0} BY ScheduleAssumption
<1>2. Below \subseteq Nat /\ Below # {}
  <2>1. ASSUME NEW x \in S PROVE Half - x \in Nat
    <3>1. x \in Int /\ x <= Half - 1 BY <1>1, <2>1 DEF Words
    <3> QED BY <1>1, <3>1
  <2> QED BY <2>1
<1>3. PICK n \in Below : \A m \in Below : n <= m
  <2> HIDE DEF Below
  <2> QED BY <1>2, LeastNumber
<1>4. \A m \in Below : n <= m
  BY <1>3
<1>5. PICK x \in S : n = Half - x
  BY <1>3
<1>6. \A y \in S : x >= y
  <2>1. ASSUME NEW y \in S PROVE x >= y
    <3>1. Half - y \in Below BY <2>1
    <3> HIDE DEF Below
    <3>2. n <= Half - y BY <1>4, <3>1
    <3> QED BY <1>1, <1>5, <2>1, <3>2 DEF Words
  <2> QED BY <2>1
<1> QED BY <1>6 DEF Max

-----------------------------------------------------------------------------
(* Delays *)

\* The time until an instant is a Duration, and long enough if one can hold it.
LEMMA DelayUntilFits ==
    ASSUME NEW n \in Int
    PROVE  /\ DelayUntil(n) \in Words
           /\ Fits(n - Now) => DelayUntil(n) >= (n - Now) * Second
<1>1. Half \in Nat \ {0} /\ Now \in Nat BY ScheduleAssumption
<1>2. PICK d \in Int : d = (n - Now) * Second
  BY <1>1, ProductIsNumber
<1>3. PICK e \in Int : e = IF d <= Half - 1 THEN d ELSE Half - 1
  BY <1>1, <1>2
<1>4. Min({d, Half - 1}) = e
  BY <1>1, <1>2, <1>3 DEF Min
<1>5. Max({0, e}) = IF e >= 0 THEN e ELSE 0
  BY <1>3 DEF Max
<1>6. DelayUntil(n) = IF e >= 0 THEN e ELSE 0
  BY <1>2, <1>4, <1>5 DEF DelayUntil
<1>7. Fits(n - Now) => d < Half
  BY <1>2 DEF Fits
<1>8. DelayUntil(n) \in Words /\ (d < Half => DelayUntil(n) >= d)
  BY <1>1, <1>3, <1>6 DEF Words
<1> HIDE DEF DelayUntil
<1> QED BY <1>2, <1>7, <1>8

\* An advertised interval is a Duration; the one meant, if a Duration can hold it.
LEMMA PollIntervalFits ==
    ASSUME NEW header
    PROVE  /\ PollInterval(header) \in Words
           /\ Spells(header.poll) /\ header.poll >= 0 /\ Fits(header.poll) =>
                PollInterval(header) = header.poll * Second
<1>1. Half \in Nat \ {0} BY ScheduleAssumption
<1>2. CASE Spells(header.poll) /\ header.poll >= 0
  <2>1. header.poll \in Int BY <1>1, <1>2 DEF Spells
  <2> QED BY <1>2, <2>1, SecondsFit DEF PollInterval
<1>3. CASE ~(Spells(header.poll) /\ header.poll >= 0)
  BY <1>1, <1>3 DEF PollInterval, Words
<1> QED BY <1>2, <1>3

\* The delay of a poll is a Duration, the floor and every advertised interval at least.
LEMMA PollDelayHonours ==
    ASSUME NEW S \in SUBSET Words
    PROVE  PollDelay(S) \in Words /\ KeepsFloor(PollDelay(S)) /\ \A x \in S : PollDelay(S) >= x
<1>1. Seconds(DefaultInterval) \in Words BY SecondsFit, ScheduleAssumption
<1>2. {Seconds(DefaultInterval)} \cup S \in SUBSET Words BY <1>1
<1> QED BY <1>2, FloorFits, GreatestDuration DEF PollDelay, KeepsFloor

\* Every instruction of a rate limit is a Duration.
LEMMA InstructedFits ==
    ASSUME NEW header \in Headers
    PROVE  /\ Instructed(header) \subseteq Words
           /\ RetryAfterIsValid(header) /\ header.retryAfter.form = "seconds" =>
                header.retryAfter.value \in Nat
           /\ RetryAfterIsValid(header) /\ header.retryAfter.form # "seconds" =>
                header.retryAfter.value \in Int
           /\ ResetIsValid(header) => header.reset \in Nat
<1>1. Half \in Nat \ {0} /\ UnixEpoch \in Nat BY ScheduleAssumption
<1>2. ASSUME RetryAfterIsValid(header), header.retryAfter.form = "seconds"
      PROVE  header.retryAfter.value \in Nat
  BY <1>1, <1>2 DEF RetryAfterIsValid, Spells
<1>3. ASSUME RetryAfterIsValid(header), header.retryAfter.form # "seconds"
      PROVE  header.retryAfter.value \in Int
  BY <1>3, ScheduleAssumption DEF RetryAfterIsValid
<1>4. ASSUME ResetIsValid(header) PROVE header.reset \in Nat
  BY <1>1, <1>4 DEF ResetIsValid, Spells
<1>5. RetryAfterIsValid(header) => RetryAfterDelay(header) \in Words
  BY <1>2, <1>3, SecondsFit, DelayUntilFits DEF RetryAfterDelay
<1>6. ASSUME ResetIsValid(header) PROVE RateLimitResetDelay(header) \in Words
  <2>1. header.reset + UnixEpoch \in Int BY <1>1, <1>4, <1>6
  <2>2. UnixInstant(header.reset) \in Int
    BY <1>1, <2>1, WrappedInWord DEF UnixInstant, Words
  <2> QED BY <2>2, DelayUntilFits DEF RateLimitResetDelay
<1> QED BY <1>2, <1>3, <1>4, <1>5, <1>6 DEF Instructed

\* The delay after a failure is a Duration, the floor at least, and after a rate limit it
\* honours every instruction of the reply.
LEMMA RetryDelayHonours ==
    ASSUME NEW header \in Headers, NEW limited \in BOOLEAN
    PROVE  /\ RetryDelay(header, limited) \in Words
           /\ KeepsFloor(RetryDelay(header, limited))
           /\ limited => HonoursRetry(RetryDelay(header, limited), header)
<1> DEFINE delays == {Seconds(DefaultInterval)} \cup IF limited THEN Instructed(header) ELSE {}
           delay == RetryDelay(header, limited)
<1>1. Half \in Nat \ {0} /\ UnixEpoch \in Nat /\ Now \in Nat BY ScheduleAssumption
<1>2. Seconds(DefaultInterval) \in Words BY SecondsFit, ScheduleAssumption
<1>3. delays \in SUBSET Words BY <1>2, InstructedFits
<1>4. delay \in Words /\ \A x \in delays : delay >= x
  BY <1>3, GreatestDuration DEF RetryDelay
<1>5. KeepsFloor(delay) BY <1>4, FloorFits DEF KeepsFloor
<1>6. ASSUME limited, RetryAfterIsValid(header)
      PROVE  LET after == header.retryAfter IN
             IF after.form = "seconds" THEN Fits(after.value) => delay >= after.value * Second
             ELSE Fits(after.value - Now) => delay >= (after.value - Now) * Second
  <2>1. RetryAfterDelay(header) \in delays BY <1>6 DEF Instructed
  <2>2. delay >= RetryAfterDelay(header) BY <1>4, <2>1
  <2>3. CASE header.retryAfter.form = "seconds"
    <3>1. PICK n \in Nat : n = header.retryAfter.value BY <1>6, <2>3, InstructedFits
    <3>2. delay >= Seconds(n) BY <2>2, <2>3, <3>1 DEF RetryAfterDelay
    <3>3. Fits(n) => delay >= n * Second BY <3>2, SecondsFit
    <3> QED BY <2>3, <3>1, <3>3
  <2>4. CASE header.retryAfter.form # "seconds"
    <3>1. PICK n \in Int : n = header.retryAfter.value BY <1>6, <2>4, InstructedFits
    <3>2. DelayUntil(n) \in Words /\ (Fits(n - Now) => DelayUntil(n) >= (n - Now) * Second)
      BY DelayUntilFits
    <3>3. delay >= DelayUntil(n) BY <2>2, <2>4, <3>1 DEF RetryAfterDelay
    <3>4. (n - Now) * Second \in Int BY <1>1, ProductIsNumber
    <3>5. Fits(n - Now) => delay >= (n - Now) * Second
      BY <1>1, <1>4, <3>2, <3>3, <3>4 DEF Words
    <3> QED BY <2>4, <3>1, <3>5
  <2> HIDE DEF delay
  <2> QED BY <2>3, <2>4
<1>7. ASSUME limited, ResetIsValid(header), header.reset + UnixEpoch < Half,
             Fits(header.reset + UnixEpoch - Now)
      PROVE  delay >= (header.reset + UnixEpoch - Now) * Second
  <2>1. PICK r \in Nat : r = header.reset BY <1>7, InstructedFits
  <2> DEFINE n == r + UnixEpoch
  <2>2. UnixInstant(header.reset) = n
    BY <1>1, <1>7, <2>1, WrappedInWord DEF UnixInstant, Words
  <2>3. RateLimitResetDelay(header) \in delays BY <1>7 DEF Instructed
  <2>4. delay >= DelayUntil(n) BY <1>4, <2>2, <2>3 DEF RateLimitResetDelay
  <2>5. DelayUntil(n) \in Words /\ DelayUntil(n) >= (n - Now) * Second
    <3>1. n \in Int BY <1>1
    <3>2. Fits(n - Now) BY <1>1, <1>7, <2>1
    <3> HIDE DEF n
    <3> QED BY <3>1, <3>2, DelayUntilFits
  <2>6. (n - Now) * Second \in Int BY <1>1, ProductIsNumber
  <2>7. delay >= (n - Now) * Second BY <1>1, <1>4, <2>4, <2>5, <2>6 DEF Words
  <2> HIDE DEF delay
  <2> QED BY <1>1, <2>1, <2>7
<1> QED BY <1>4, <1>5, <1>6, <1>7 DEF HonoursRetry
-----------------------------------------------------------------------------
(* A poll *)

\* What a page becomes.
Listings == {NormalizeEvents(page) : page \in Pages \ {Absent}}

\* The state of a poll: every listing so far is that of the page the API answered with,
\* for the repository asked, and its interval is kept; the results account for all.
PollState ==
    /\ activities \in Seq(Listings)
    /\ replies \in Seq([header : Headers, page : Pages \cup {Absent}])
    /\ intervals \subseteq Words
    /\ polling # Absent => polling \in Polls /\ Len(activities) <= Len(polling)
    /\ polling = Absent => activities = <<>> /\ replies = <<>>
    /\ polled = Absent => Len(replies) = Len(activities)

\* What each answered repository contributed.
PagesKept ==
    /\ Len(activities) <= Len(replies)
    /\ \A i \in 1 .. Len(activities) :
        /\ replies[i].page \in Pages \ {Absent}
        /\ \A k \in DOMAIN replies[i].page : replies[i].page[k].repository = polling[i]
        /\ activities[i] = NormalizeEvents(replies[i].page)
        /\ PollInterval(replies[i].header) \in intervals

\* What Refresh returned.
ResultKept ==
    polled # Absent =>
      /\ polled.kind \in {"empty", "done", "failed"}
      /\ polled.kind = "done" =>
           /\ polled.activities = activities /\ polled.delay = PollDelay(intervals)
           /\ Len(activities) = Len(polling) /\ Len(replies) = Len(polling)
      /\ polled.kind = "failed" =>
           /\ KeepsFloor(polled.delay)
           /\ polled.cause = "rate limited" =>
                HonoursRetry(polled.delay, replies[Len(replies)].header)

\* The invariant of a poll.
PollInv == PollState /\ PagesKept /\ ResultKept
\* A page that is kept is a sequence, and all of it is of the repository asked.
LEMMA KeptPage ==
    ASSUME NEW page \in Pages, PageError(page) = "none"
    PROVE  page # Absent /\ \A k \in DOMAIN page : page[k].repository = Requested
BY DEF PageError, Mismatched

\* A status that is refused has a class.
LEMMA StatusHasClass ==
    ASSUME NEW status, NEW header
    PROVE  StatusError(status, header) \in Causes \cup {"none"}
BY DEF StatusError, Causes

\* A page is read, or refused for one of two causes.
LEMMA PageHasClass ==
    ASSUME NEW page
    PROVE  PageError(page) \in {"none", "invalid payload", "repository mismatch"}
BY DEF PageError

\* A poll that fails reports a result.
LEMMA PollFailsReports ==
    ASSUME PollInv, NEW cause \in Causes, NEW delay \in Words, PollFails(cause, delay)
    PROVE  polled' # Absent
<1>1. polling # Absent /\ Len(activities) < Len(polling)
  BY DEF PollFails, Polling
<1>2. polling \in Polls /\ polling \in Seq(ToSet(polling)) /\ Len(activities) \in Nat
  BY <1>1, PollingAssumption DEF PollInv, PollState
<1>3. Requested \in ToSet(polling)
  BY <1>1, <1>2 DEF Requested
<1>4. polled' \in [kind : {"failed"}, cause : Causes, delay : Words,
                  repository : UNION {ToSet(repositories) : repositories \in Polls}]
  BY <1>2, <1>3 DEF PollFails
<1> QED BY <1>4, PollingAssumption DEF Words

\* A poll begins with nothing asked and nothing published.
LEMMA PollInitHolds ==
    ASSUME PollInit
    PROVE  PollInv
BY DEF PollInit, PollInv, PollState, PagesKept, ResultKept

\* Every step of a poll keeps its invariant.
LEMMA PollKept ==
    ASSUME PollInv, [PollNext]_pollVars
    PROVE  PollInv'
<1> USE DEF PollInv
<1>1. ASSUME NEW repositories \in Polls, Poll(repositories) PROVE PollInv'
  <2>1. activities = <<>> /\ replies = <<>> BY <1>1 DEF Poll, PollState
  <2>2. PollState'
    <3>1. repositories \in Seq(ToSet(repositories)) BY PollingAssumption
    <3> QED BY <1>1, <2>1, <3>1 DEF Poll, PollState
  <2>3. PagesKept' BY <1>1, <2>1 DEF Poll, PagesKept
  <2>4. ResultKept' BY <1>1 DEF Poll, ResultKept
  <2> QED BY <2>2, <2>3, <2>4
<1>2. ASSUME NEW cause \in Causes \ {"rate limited"}, NEW delay \in Words, KeepsFloor(delay),
             PollFails(cause, delay), UNCHANGED replies
      PROVE  PollInv'
  <2>1. polled' # Absent BY <1>2, PollFailsReports
  <2>2. PollState' BY <1>2, <2>1 DEF PollFails, PollState
  <2>3. PagesKept' BY <1>2 DEF PollFails, PagesKept
  <2>4. ResultKept' BY <1>2 DEF PollFails, ResultKept
  <2> QED BY <2>2, <2>3, <2>4
<1>3. ASSUME PollBreaksOff PROVE PollInv'
  <2>1. Seconds(DefaultInterval) \in Words /\ KeepsFloor(Seconds(DefaultInterval))
    <3>1. Seconds(DefaultInterval) \in Words BY SecondsFit, ScheduleAssumption
    <3> QED BY <3>1, FloorFits, ScheduleAssumption DEF KeepsFloor, Words
  <2> QED BY <1>2, <1>3, <2>1 DEF PollBreaksOff, Causes
<1>4. ASSUME PollRefused PROVE PollInv'
  <2>1. PICK status \in Statuses, header \in Headers :
          LET cause == StatusError(status, header) IN
          /\ cause # "none"
          /\ PollFails(cause, RetryDelay(header, cause = "rate limited"))
          /\ replies' = Append(replies, [header |-> header, page |-> Absent])
    BY <1>4 DEF PollRefused
  <2> DEFINE cause == StatusError(status, header)
             delay == RetryDelay(header, cause = "rate limited")
             reply == [header |-> header, page |-> Absent]
  <2>2. cause \in Causes /\ PollFails(cause, delay) BY <2>1, StatusHasClass
  <2>3. /\ delay \in Words /\ KeepsFloor(delay)
        /\ cause = "rate limited" => HonoursRetry(delay, header)
    BY RetryDelayHonours
  <2>4. reply \in [header : Headers, page : Pages \cup {Absent}] OBVIOUS
  <2>5. /\ replies' \in Seq([header : Headers, page : Pages \cup {Absent}])
        /\ Len(replies') = Len(replies) + 1 /\ replies'[Len(replies')] = reply
        /\ \A i \in 1 .. Len(replies) : replies'[i] = replies[i]
        /\ Len(replies) \in Nat /\ Len(activities) \in Nat
    <3>1. replies' = Append(replies, reply) BY <2>1
    <3> HIDE DEF reply
    <3> QED BY <2>4, <3>1 DEF PollState
  <2>6. polled' # Absent BY <2>2, <2>3, PollFailsReports
  <2> HIDE DEF cause, delay
  <2>7. /\ UNCHANGED <<polling, activities, intervals>> /\ polling # Absent
        /\ polled'.kind = "failed" /\ polled'.cause = cause /\ polled'.delay = delay
    BY <2>2 DEF PollFails, Polling
  <2>8. PollState' BY <2>5, <2>6, <2>7 DEF PollState
  <2>9. PagesKept' BY <2>5, <2>7 DEF PagesKept
  <2>10. ResultKept'
    <3>1. replies'[Len(replies')].header = header BY <2>5
    <3> QED BY <2>3, <2>7, <3>1 DEF ResultKept
  <2> QED BY <2>8, <2>9, <2>10
<1>5. ASSUME FetchPage PROVE PollInv'
  <2>1. PICK header \in Headers, page \in Pages :
          /\ Polling
          /\ IF PageError(page) # "none"
             THEN PollFails(PageError(page), RetryDelay(header, FALSE)) /\ UNCHANGED replies
             ELSE /\ activities' = Append(activities, NormalizeEvents(page))
                  /\ intervals' = intervals \cup {PollInterval(header)}
                  /\ replies' = Append(replies, [header |-> header, page |-> page])
                  /\ UNCHANGED <<polling, polled>>
    BY <1>5 DEF FetchPage
  <2>2. CASE PageError(page) # "none"
    <3>1. RetryDelay(header, FALSE) \in Words /\ KeepsFloor(RetryDelay(header, FALSE))
      BY RetryDelayHonours
    <3>2. PageError(page) \in Causes \ {"rate limited"}
      BY <2>2, PageHasClass DEF Causes
    <3> QED BY <1>2, <2>1, <2>2, <3>1, <3>2
  <2>3. CASE PageError(page) = "none"
    <3> DEFINE reply == [header |-> header, page |-> page]
               listing == NormalizeEvents(page)
    <3>1. page # Absent /\ \A k \in DOMAIN page : page[k].repository = polling[Len(activities) + 1]
      BY <2>3, KeptPage DEF Requested
    <3>2. /\ reply \in [header : Headers, page : Pages \cup {Absent}] /\ listing \in Listings
          /\ reply.page = page /\ reply.header = header
      BY <3>1 DEF Listings
    <3>3. /\ activities' = Append(activities, listing) /\ replies' = Append(replies, reply)
          /\ intervals' = intervals \cup {PollInterval(header)}
          /\ UNCHANGED <<polling, polled>>
          /\ polling # Absent /\ polled = Absent /\ Len(activities) < Len(polling)
      BY <2>1, <2>3 DEF Polling
    <3> HIDE DEF reply, listing
    <3>4. /\ activities' \in Seq(Listings) /\ Len(activities') = Len(activities) + 1
          /\ replies' \in Seq([header : Headers, page : Pages \cup {Absent}])
          /\ Len(replies') = Len(replies) + 1 /\ Len(replies) = Len(activities)
          /\ \A i \in 1 .. Len(replies) : replies'[i] = replies[i] /\ activities'[i] = activities[i]
          /\ replies'[Len(replies')] = reply /\ activities'[Len(replies')] = listing
          /\ Len(replies) \in Nat
      BY <3>2, <3>3 DEF PollState
    <3>5. PollInterval(header) \in Words BY PollIntervalFits
    <3>6. Len(polling) \in Nat
      BY <3>3, PollingAssumption DEF PollState
    <3>7. PollState' BY <3>3, <3>4, <3>5, <3>6 DEF PollState
    <3>8. PagesKept'
      <4>1. ASSUME NEW i \in 1 .. Len(replies')
            PROVE  /\ replies'[i].page \in Pages \ {Absent}
                   /\ \A k \in DOMAIN replies'[i].page : replies'[i].page[k].repository = polling[i]
                   /\ activities'[i] = NormalizeEvents(replies'[i].page)
                   /\ PollInterval(replies'[i].header) \in intervals'
        <5>1. CASE i \in 1 .. Len(replies) BY <3>3, <3>4, <5>1 DEF PagesKept
        <5>2. CASE i = Len(replies')
          BY <3>1, <3>2, <3>3, <3>4, <5>2 DEF listing
        <5> QED BY <3>4, <4>1, <5>1, <5>2
      <4> QED BY <3>3, <3>4, <4>1 DEF PagesKept
    <3>9. ResultKept' BY <3>3 DEF ResultKept
    <3> QED BY <3>7, <3>8, <3>9
  <2> QED BY <2>2, <2>3
<1>6. ASSUME FinishPoll PROVE PollInv'
  <2>1. PollState' BY <1>6 DEF FinishPoll, PollState
  <2>2. PagesKept' BY <1>6 DEF FinishPoll, PagesKept
  <2>3. ResultKept' BY <1>6 DEF FinishPoll, ResultKept, PollState
  <2> QED BY <2>1, <2>2, <2>3
<1>7. ASSUME UNCHANGED pollVars PROVE PollInv'
  BY <1>7 DEF pollVars, PollState, PagesKept, ResultKept
<1> QED BY <1>1, <1>3, <1>4, <1>5, <1>6, <1>7 DEF PollNext
\* What a descriptor is.
LEMMA DescriptorShapes ==
    ASSUME NEW repository
    PROVE  /\ \A o : NewSettledEvidence(o).operation = "settled" /\ Key(NewSettledEvidence(o)) = Absent
           /\ Unsupported.operation = "settled" /\ Key(Unsupported) = Absent
           /\ Unsupported.settled.kind = "unsupported"
           /\ \A before, head : LET e == NewCommitEvidence(repository, before, head) IN
                \/ e = Unsupported
                \/ e.operation = "commit" /\ e.repository = repository /\ e.head = head
           /\ \A base, head, provenance :
                LET e == NewCompareEvidence(repository, base, head, provenance) IN
                \/ e = Unsupported
                \/ /\ e.operation = "compare" /\ e.repository = repository
                   /\ e.base = base /\ e.head = head /\ base # head
           /\ \A number : LET e == NewPullRequestEvidence(repository, number) IN
                \/ e = Unsupported
                \/ /\ e.operation = "pr-metadata" /\ e.repository = repository
                   /\ e.number = number /\ number > 0
<1>1. \A o : NewSettledEvidence(o).operation = "settled" /\ Key(NewSettledEvidence(o)) = Absent
  BY DEF NewSettledEvidence, Key
<1>2. /\ Unsupported.operation = "settled" /\ Key(Unsupported) = Absent
      /\ Unsupported.settled.kind = "unsupported"
  BY DEF Unsupported, NewSettledEvidence, Unknown, Key
<1>3. ASSUME NEW before, NEW head
      PROVE  LET e == NewCommitEvidence(repository, before, head) IN
             \/ e = Unsupported
             \/ e.operation = "commit" /\ e.repository = repository /\ e.head = head
  BY DEF NewCommitEvidence, Needs, NewSettledEvidence
<1>4. ASSUME NEW base, NEW head, NEW provenance
      PROVE  LET e == NewCompareEvidence(repository, base, head, provenance) IN
             \/ e = Unsupported
             \/ /\ e.operation = "compare" /\ e.repository = repository
                /\ e.base = base /\ e.head = head /\ base # head
  BY DEF NewCompareEvidence, Needs, NewSettledEvidence
<1>5. ASSUME NEW number
      PROVE  LET e == NewPullRequestEvidence(repository, number) IN
             \/ e = Unsupported
             \/ /\ e.operation = "pr-metadata" /\ e.repository = repository
                /\ e.number = number /\ number > 0
  BY DEF NewPullRequestEvidence, Needs, NewSettledEvidence
<1> QED BY <1>1, <1>2, <1>3, <1>4, <1>5

\* The two classifications of an event, its class and its evidence, agree.
Agree(class, evidence, repository) ==
    /\ evidence.operation = "pr-metadata" =>
         class.category = "comment" /\ class.ref = evidence.number
    /\ class.category = "other" => Key(evidence) = Absent /\ evidence.settled.kind = "unsupported"
    /\ evidence.operation = "compare" => evidence.base # evidence.head
    /\ class.category = "push" /\ Key(evidence) # Absent => evidence.head = class.ref
    /\ Key(evidence) # Absent => evidence.repository = repository

\* The two classifications of an event agree.
LEMMA EventAgrees ==
    ASSUME NEW payload
    PROVE  Agree(Classify(payload), ChangedFileEvidence(payload.repository, payload),
                 payload.repository)
<1> DEFINE class == Classify(payload)
           evidence == ChangedFileEvidence(payload.repository, payload)
           detail == payload.detail
           types == {"PushEvent", "PullRequestEvent", "PullRequestReviewEvent",
                     "PullRequestReviewCommentEvent", "IssueCommentEvent"}
<1> SUFFICES Agree(class, evidence, payload.repository) OBVIOUS
<1>1. CASE detail = Absent \/ payload.type \notin types
  <2>1. evidence = Unsupported BY <1>1 DEF ChangedFileEvidence
  <2>2. Agree(class, Unsupported, payload.repository) BY DescriptorShapes DEF Agree
  <2> QED BY <2>1, <2>2
<1>2. CASE detail # Absent /\ payload.type = "PushEvent"
  <2>1. class.category = "push" /\ class.ref = detail.head BY <1>2 DEF Classify, Classified
  <2>2. evidence = PushEvidence(payload.repository, detail) BY <1>2 DEF ChangedFileEvidence
  <2>3. \/ evidence = Unsupported \/ evidence = NewUnchangedEvidence
        \/ evidence = NewCommitEvidence(payload.repository, detail.before, detail.head)
        \/ evidence = NewCompareEvidence(payload.repository, detail.before, detail.head, "event-time")
    BY <2>2 DEF PushEvidence
  <2> HIDE DEF class, evidence
  <2> QED BY <2>1, <2>3, DescriptorShapes DEF Agree, NewUnchangedEvidence
<1>3. CASE detail # Absent /\ payload.type \in {"PullRequestEvent", "PullRequestReviewEvent"}
  <2>1. class.category \in {"pull_request", "review"} BY <1>3 DEF Classify, Classified
  <2>2. evidence = EventTimeEvidence(payload.repository, detail.pullRequest)
    BY <1>3 DEF ChangedFileEvidence
  <2>3. \/ evidence = Unsupported \/ evidence = NewUnchangedEvidence
        \/ evidence = NewCompareEvidence(payload.repository, detail.pullRequest.base,
                                         detail.pullRequest.head, "event-time")
    BY <2>2 DEF EventTimeEvidence
  <2> HIDE DEF class, evidence
  <2> QED BY <2>1, <2>3, DescriptorShapes DEF Agree, NewUnchangedEvidence
<1>4. CASE detail # Absent /\ payload.type = "PullRequestReviewCommentEvent"
  <2>1. class.category = "comment" BY <1>4 DEF Classify, Classified
  <2>2. PICK o : evidence = NewSettledEvidence(o)
    BY <1>4 DEF ChangedFileEvidence, ReviewCommentEvidence
  <2> HIDE DEF class, evidence
  <2> QED BY <2>1, <2>2, DescriptorShapes DEF Agree
<1>5. CASE detail # Absent /\ payload.type = "IssueCommentEvent"
  <2>1. class = ClassifyIssueComment(detail.issue) BY <1>5 DEF Classify
  <2>2. evidence = IssueCommentEvidence(payload.repository, detail.issue)
    BY <1>5 DEF ChangedFileEvidence
  <2> HIDE DEF class, evidence
  <2>3. CASE detail.issue = Absent \/ ~detail.issue.onPullRequest
    <3>1. evidence = Unsupported BY <2>2, <2>3 DEF IssueCommentEvidence
    <3> QED BY <3>1, DescriptorShapes DEF Agree
  <2>4. CASE ~(detail.issue = Absent \/ ~detail.issue.onPullRequest)
    <3>1. class = Classified("comment", "pull_request", NumberRef(detail.issue.number))
      BY <2>1, <2>4 DEF ClassifyIssueComment
    <3>2. evidence = NewPullRequestEvidence(payload.repository, detail.issue.number)
      BY <2>2, <2>4 DEF IssueCommentEvidence
    <3> QED BY <3>1, <3>2, DescriptorShapes DEF Agree, Classified, NumberRef
  <2> QED BY <2>3, <2>4
<1> QED BY <1>1, <1>2, <1>3, <1>4, <1>5

-----------------------------------------------------------------------------
(* A lookup *)

\* Absent stands for what is missing: it has no field of an outcome, a descriptor or a call.
AbsentIsNothing == {"kind", "operation", "entry", "scopes"} \cap DOMAIN Absent = {}

\* What a request is answered with.
ReplyBodies == CommitPages \cup Comparisons \cup PullRequests \cup {Absent}
Replies == [body : ReplyBodies, link : PageLinks \cup {Absent}]

\* The state of a lookup.
LookupState ==
    /\ visited \subseteq Nat /\ IsFiniteSet(visited) /\ walk.page \in Nat
    /\ answers \in Seq(Replies)
    /\ phase \in {"ready", "waiting"} /\ canceled \in BOOLEAN
    /\ lookup = Absent => /\ phase = "ready" /\ outcome = Absent /\ visited = {} /\ answers = <<>>
                          /\ walk.paths = <<>>
    /\ lookup # Absent => lookup.of \in Descriptors /\ lookup.entry \in {"Changed", "CurrentPullRequest"}

\* Every page visited is one request, answered before the next is sent.
RequestsCount ==
    /\ Cardinality(visited) <= MaxEvidencePages
    /\ \A page \in visited : page <= walk.page
    /\ phase = "waiting" => outcome = Absent /\ Len(answers) = Cardinality(visited) - 1
    /\ phase = "ready" /\ outcome = Absent =>
         Cardinality(visited) < MaxEvidencePages /\ Len(answers) = Cardinality(visited)

\* The paths of all the pages answered.
Collected(pages) == FlattenSeq([k \in DOMAIN pages |-> Named(pages[k].body.files)])

\* A walk that goes on is of one commit and holds the paths of all its pages, and only a
\* commit has more than one answer.
WalkIsOneCommit ==
    lookup # Absent /\ outcome = Absent =>
      /\ lookup.of.operation # "settled"
      /\ lookup.entry = "Changed" => lookup.of.operation # "pr-metadata"
      /\ lookup.entry = "CurrentPullRequest" => lookup.of.operation = "pr-metadata"
      /\ lookup.of.operation # "commit" => answers = <<>>
      /\ walk.paths = Collected(answers)
      /\ \A k \in 1 .. Len(answers) :
           /\ answers[k].link # Absent /\ answers[k].body.sha = lookup.of.head
           /\ answers[k].body.parents = <<walk.parent>> /\ walk.parent \in Objects

\* What a lookup that ended says.
OutcomeKept ==
    /\ CompleteIsOneCommit /\ CompleteIsWhole /\ ComparisonIsWhole
    /\ CancellationIsNoFailure /\ CurrentPRStaysCurrent

\* The invariant of a lookup.
LookupInv == LookupState /\ RequestsCount /\ WalkIsOneCommit /\ OutcomeKept

\* No answer, no path.
LEMMA CollectedNone == Collected(<<>>) = <<>>
<1>1. [k \in DOMAIN <<>> |-> Named(<<>>[k].body.files)] = <<>> OBVIOUS
<1>2. FlattenSeq(<<>>) = <<>> BY FlattenUnfolds
<1> QED BY <1>1, <1>2 DEF Collected

\* One more page adds its paths.
LEMMA CollectedOneMore ==
    ASSUME NEW pages \in Seq(Replies), NEW reply \in Replies
    PROVE  Collected(Append(pages, reply)) =
             IF pages = <<>> THEN Named(reply.body.files)
                             ELSE Collected(pages) \o Named(reply.body.files)
<1> DEFINE all == Append(pages, reply)
           T == {Named(r.body.files) : r \in Replies}
           s == [k \in DOMAIN pages |-> Named(pages[k].body.files)]
           t == [k \in DOMAIN all |-> Named(all[k].body.files)]
           x == Named(reply.body.files)
<1>1. s \in Seq(T) /\ x \in T /\ Len(s) = Len(pages) OBVIOUS
<1>2. t = Append(s, x) OBVIOUS
<1>3. s = <<>> <=> pages = <<>> OBVIOUS
<1>4. FlattenSeq(Append(s, x)) = IF s = <<>> THEN x ELSE FlattenSeq(s) \o x
  <2> HIDE DEF s, T, x
  <2> QED BY <1>1, FlattenOneMore
<1> QED BY <1>2, <1>3, <1>4 DEF Collected

\* The paths a list of records names are a sequence.
LEMMA NamedTyped ==
    ASSUME NEW files, files \in Seq(ToSet(files))
    PROVE  \E T : Named(files) \in Seq(T)
<1> DEFINE T == {files[k].filename : k \in DOMAIN files} \cup {files[k].previous : k \in DOMAIN files}
           s == [k \in DOMAIN files |->
                   IF files[k].status = "renamed" THEN <<files[k].filename, files[k].previous>>
                                                  ELSE <<files[k].filename>>]
<1>1. s \in Seq(Seq(T))
  <2>1. Len(files) \in Nat /\ DOMAIN files = 1 .. Len(files) OBVIOUS
  <2>2. \A k \in DOMAIN files : s[k] \in Seq(T)
    <3>1. ASSUME NEW k \in DOMAIN files PROVE s[k] \in Seq(T)
      <4>1. files[k].filename \in T /\ files[k].previous \in T BY <3>1
      <4> HIDE DEF T
      <4> QED BY <3>1, <4>1
    <3> QED BY <3>1
  <2> HIDE DEF T
  <2>3. DOMAIN s = 1 .. Len(files) BY <2>1
  <2>4. s = [k \in 1 .. Len(files) |-> s[k]] BY <2>3
  <2> HIDE DEF s
  <2> QED BY <2>1, <2>2, <2>3, <2>4
<1>2. Named(files) = FlattenSeq(s) BY DEF Named
<1> HIDE DEF T, s
<1> QED BY <1>1, <1>2, FlattenTyped

\* The outcomes that name no path say nothing of the answers.
LEMMA NoPathOutcome ==
    ASSUME outcome'.kind # "complete", outcome'.provenance # "event-time",
           outcome'.kind = "canceled" => canceled',
           outcome'.kind = "failed" /\ canceled' => Len(answers') = Cardinality(visited')
    PROVE  OutcomeKept'
BY DEF OutcomeKept, CompleteIsOneCommit, CompleteIsWhole, ComparisonIsWhole, CancellationIsNoFailure,
       CurrentPRStaysCurrent, IsComplete

\* While a lookup goes on nothing is said.
LEMMA NoOutcome ==
    ASSUME outcome' = Absent
    PROVE  OutcomeKept'
BY DEF OutcomeKept, CompleteIsOneCommit, CompleteIsWhole, ComparisonIsWhole, CancellationIsNoFailure,
       CurrentPRStaysCurrent, IsComplete

\* An unknown outcome has its kind and no provenance.
LEMMA UnknownShape ==
    ASSUME NEW kind
    PROVE  /\ Unknown(kind).kind = kind /\ Unknown(kind).provenance = "none"
           /\ AbsentIsNothing => Unknown(kind) # Absent
BY DEF Unknown, AbsentIsNothing

\* An answer that is no success.
LEMMA StatusOutcomeShape ==
    ASSUME NEW status, NEW header, AbsentIsNothing
    PROVE  LET o == StatusOutcome(status, header) IN
           /\ o # Absent /\ o.provenance = "none"
           /\ o.kind \in {"rate-limited", "denied", "unavailable", "failed"}
<1>1. RateLimited(header) # Absent /\ RateLimited(header).provenance = "none"
      /\ RateLimited(header).kind = "rate-limited"
  <2>1. "kind" \in DOMAIN RateLimited(header) BY DEF RateLimited, Unknown
  <2> QED BY <2>1 DEF AbsentIsNothing, RateLimited, Unknown
<1> QED BY <1>1, UnknownShape DEF StatusOutcome

\* Complete evidence, with or without the proved parent.
LEMMA CompleteShape ==
    ASSUME NEW provenance, NEW paths, NEW sha, AbsentIsNothing
    PROVE  /\ LET o == Complete(provenance, paths) IN
              /\ o # Absent /\ o.kind = "complete" /\ o.provenance = provenance /\ o.paths = paths
           /\ LET o == WithSoleParent(Complete(provenance, paths), sha) IN
              /\ o # Absent
              /\ sha \in Objects => /\ o.kind = "complete" /\ o.provenance = provenance
                                    /\ o.paths = paths /\ o.parent = sha
<1> DEFINE o == Complete(provenance, paths)
           p == [o EXCEPT !.parent = sha]
<1>1. /\ DOMAIN o = {"kind", "provenance", "paths", "parent", "retryAt"}
      /\ o.kind = "complete" /\ o.provenance = provenance /\ o.paths = paths
  BY DEF Complete, Unknown
<1> HIDE DEF o
<1>2. /\ DOMAIN p = DOMAIN o /\ p.kind = "complete" /\ p.provenance = provenance
      /\ p.paths = paths /\ p.parent = sha
  BY <1>1
<1>3. WithSoleParent(o, sha) = IF sha \in Objects THEN p ELSE Unknown("incomplete")
  BY DEF WithSoleParent
<1> HIDE DEF p
<1>4. o # Absent /\ p # Absent BY <1>1, <1>2 DEF AbsentIsNothing
<1> QED BY <1>1, <1>2, <1>3, <1>4, UnknownShape DEF o

\* Nothing is looked up yet.
LEMMA ReadInitHolds ==
    ASSUME ReadInit
    PROVE  LookupInv
<1>1. IsFiniteSet({}) /\ Cardinality({}) = 0 BY FS_EmptySet
<1>2. MaxEvidencePages \in Nat \ {0} BY EvidenceReadAssumption
<1>3. LookupState
  <2>1. visited \subseteq Nat /\ walk.page \in Nat BY DEF ReadInit
  <2>2. answers \in Seq(Replies) BY DEF ReadInit
  <2> QED BY <1>1, <2>1, <2>2 DEF ReadInit, LookupState
<1>4. RequestsCount BY <1>1, <1>2 DEF ReadInit, RequestsCount
<1>5. WalkIsOneCommit BY DEF ReadInit, WalkIsOneCommit
<1>6. OutcomeKept
  BY DEF ReadInit, OutcomeKept, CompleteIsOneCommit, CompleteIsWhole, ComparisonIsWhole,
         CancellationIsNoFailure,
         CurrentPRStaysCurrent, IsComplete
<1> QED BY <1>3, <1>4, <1>5, <1>6 DEF LookupInv

\* A lookup begins without an answer.
LEMMA BeginningKept ==
    ASSUME LookupInv, AbsentIsNothing, NEW d \in Descriptors, Changed(d) \/ CurrentPullRequest(d)
    PROVE  LookupInv'
<1> USE DEF LookupInv
<1>1. /\ lookup = Absent /\ outcome = Absent /\ visited = {} /\ answers = <<>> /\ phase = "ready"
      /\ UNCHANGED <<canceled, phase, walk, visited, answers>>
      /\ lookup' # Absent /\ lookup'.of = d /\ lookup'.entry \in {"Changed", "CurrentPullRequest"}
  BY DEF Changed, CurrentPullRequest, Settles, LookupState, AbsentIsNothing
<1>2. Cardinality({}) = 0 /\ MaxEvidencePages \in Nat \ {0} /\ Len(<<>>) = 0
  BY FS_EmptySet, EvidenceReadAssumption
<1>3. LookupState' BY <1>1 DEF LookupState
<1>4. RequestsCount' BY <1>1, <1>2 DEF RequestsCount
<1>5. CASE Changed(d)
  <2>1. lookup'.entry = "Changed" BY <1>5 DEF Changed
  <2>2. CASE d.operation = "settled"
    <3>1. outcome' = d.settled BY <1>5, <2>2 DEF Changed, Settles
    <3>2. outcome' # Absent /\ outcome'.kind # "canceled"
      BY <2>2, <3>1, EvidenceReadAssumption
    <3>3. WalkIsOneCommit' BY <3>2 DEF WalkIsOneCommit
    <3>4. OutcomeKept'
      BY <1>1, <1>2, <2>1, <2>2, <3>2
      DEF OutcomeKept, CompleteIsOneCommit, CompleteIsWhole, ComparisonIsWhole, CancellationIsNoFailure,
          CurrentPRStaysCurrent
    <3> QED BY <1>3, <1>4, <3>3, <3>4
  <2>3. CASE d.operation = "pr-metadata"
    <3>1. outcome' = Unknown("incomplete") BY <1>5, <2>3 DEF Changed, Settles
    <3>2. OutcomeKept' BY <3>1, UnknownShape, NoPathOutcome
    <3>3. WalkIsOneCommit' BY <3>1, UnknownShape DEF WalkIsOneCommit
    <3> QED BY <1>3, <1>4, <3>2, <3>3
  <2>4. CASE d.operation \notin {"settled", "pr-metadata"}
    <3>1. outcome' = Absent BY <1>1, <1>5, <2>4 DEF Changed
    <3>2. WalkIsOneCommit' BY <1>1, <1>2, <2>1, <2>4, CollectedNone DEF WalkIsOneCommit, LookupState
    <3> QED BY <1>3, <1>4, <3>1, <3>2, NoOutcome
  <2> QED BY <2>2, <2>3, <2>4
<1>6. CASE CurrentPullRequest(d)
  <2>1. lookup'.entry = "CurrentPullRequest" BY <1>6 DEF CurrentPullRequest
  <2>2. CASE d.operation = "pr-metadata"
    <3>1. outcome' = Absent BY <1>1, <1>6, <2>2 DEF CurrentPullRequest
    <3>2. WalkIsOneCommit' BY <1>1, <1>2, <2>1, <2>2, CollectedNone DEF WalkIsOneCommit, LookupState
    <3> QED BY <1>3, <1>4, <3>1, <3>2, NoOutcome
  <2>3. CASE d.operation # "pr-metadata"
    <3>1. outcome' = Unknown("incomplete") BY <1>6, <2>3 DEF CurrentPullRequest, Settles
    <3>2. OutcomeKept' BY <3>1, UnknownShape, NoPathOutcome
    <3>3. WalkIsOneCommit' BY <3>1, UnknownShape DEF WalkIsOneCommit
    <3> QED BY <1>3, <1>4, <3>2, <3>3
  <2> QED BY <2>2, <2>3
<1> QED BY <1>5, <1>6

\* One more request, or the end of the walk.
LEMMA DispatchKept ==
    ASSUME LookupInv, AbsentIsNothing, Dispatch
    PROVE  LookupInv'
<1> USE DEF LookupInv
<1>1. /\ lookup # Absent /\ outcome = Absent /\ phase = "ready"
      /\ UNCHANGED <<lookup, canceled, walk, answers>>
  BY DEF Dispatch, Reading
<1>2. CASE outcome' \in {Unknown("incomplete"), Unknown("canceled")} /\ UNCHANGED <<phase, visited>>
           /\ (outcome' = Unknown("canceled") => canceled)
  <2>1. outcome' # Absent BY <1>2, UnknownShape
  <2>2. LookupState' BY <1>1, <1>2 DEF LookupState
  <2>3. RequestsCount' BY <1>1, <1>2, <2>1 DEF RequestsCount
  <2>4. WalkIsOneCommit' BY <2>1 DEF WalkIsOneCommit
  <2>5. OutcomeKept' BY <1>1, <1>2, UnknownShape, NoPathOutcome
  <2> QED BY <2>2, <2>3, <2>4, <2>5
<1>3. CASE walk.page \notin visited /\ phase' = "waiting" /\ visited' = visited \cup {walk.page}
           /\ UNCHANGED outcome
  <2>1. /\ IsFiniteSet(visited') /\ Cardinality(visited') = Cardinality(visited) + 1
        /\ Cardinality(visited) \in Nat
    BY <1>3, FS_AddElement, FS_CardinalityType DEF LookupState
  <2>2. Cardinality(visited) < MaxEvidencePages /\ MaxEvidencePages \in Nat
    BY <1>1, EvidenceReadAssumption DEF RequestsCount
  <2>3. LookupState' BY <1>1, <1>3, <2>1 DEF LookupState
  <2>4. RequestsCount' BY <1>1, <1>3, <2>1, <2>2 DEF RequestsCount, LookupState
  <2>5. WalkIsOneCommit' BY <1>1, <1>3 DEF WalkIsOneCommit
  <2>6. OutcomeKept' BY <1>1, <1>3, NoOutcome
  <2> QED BY <2>3, <2>4, <2>5, <2>6
<1>4. CASE walk.page \in visited BY <1>2, <1>4, UnknownShape DEF Dispatch
<1>5. CASE walk.page \notin visited /\ canceled BY <1>2, <1>5 DEF Dispatch
<1>6. CASE walk.page \notin visited /\ ~canceled BY <1>3, <1>6 DEF Dispatch
<1> QED BY <1>4, <1>5, <1>6

\* An answer, or the want of one, that ends the lookup.
LEMMA AnsweredKept ==
    ASSUME LookupInv, Reading, phase = "waiting", NEW result, result # Absent, Answered(result),
           UNCHANGED answers \/ \E reply \in Replies : answers' = Append(answers, reply)
    PROVE  LookupState' /\ RequestsCount' /\ WalkIsOneCommit'
<1> USE DEF LookupInv
<1>1. outcome' = result /\ phase' = "ready" /\ UNCHANGED <<lookup, canceled, walk, visited>>
  BY DEF Answered
<1>2. answers' \in Seq(Replies) BY DEF LookupState
<1>3. LookupState' BY <1>1, <1>2 DEF LookupState, Reading
<1>4. RequestsCount' BY <1>1 DEF RequestsCount
<1>5. WalkIsOneCommit' BY <1>1 DEF WalkIsOneCommit
<1> QED BY <1>3, <1>4, <1>5

\* One more answer is one more request answered.
LEMMA OneMoreAnswer ==
    ASSUME LookupInv, phase = "waiting", NEW reply \in Replies, answers' = Append(answers, reply)
    PROVE  /\ answers' \in Seq(Replies) /\ Len(answers) \in Nat
           /\ Len(answers') = Len(answers) + 1 /\ answers'[Len(answers')] = reply
           /\ \A k \in 1 .. Len(answers) : answers'[k] = answers[k]
           /\ DOMAIN answers' = 1 .. Len(answers')
           /\ Len(answers') = Cardinality(visited)
<1>1. answers \in Seq(Replies) BY DEF LookupInv, LookupState
<1>2. Cardinality(visited) \in Nat BY FS_CardinalityType DEF LookupInv, LookupState
<1>3. Len(answers) = Cardinality(visited) - 1 BY DEF LookupInv, RequestsCount
<1> QED BY <1>1, <1>2, <1>3

\* A lookup that learns nothing ends without a path.
LEMMA IncompleteKept ==
    ASSUME LookupInv, AbsentIsNothing, Reading, phase = "waiting", Answered(Unknown("incomplete")),
           UNCHANGED answers \/ \E reply \in Replies : answers' = Append(answers, reply)
    PROVE  LookupInv'
<1>1. Unknown("incomplete") # Absent BY UnknownShape
<1>2. LookupState' /\ RequestsCount' /\ WalkIsOneCommit' BY <1>1, AnsweredKept
<1>3. OutcomeKept' BY UnknownShape, NoPathOutcome DEF Answered
<1> QED BY <1>2, <1>3 DEF LookupInv

\* A lookup may end when the refresh does.
LEMMA CancelKept ==
    ASSUME LookupInv, Cancel
    PROVE  LookupInv'
<1> USE DEF LookupInv
<1>1. outcome' = Absent /\ UNCHANGED <<lookup, phase, walk, visited, outcome, answers>>
      /\ canceled' = TRUE
  BY DEF Cancel
<1>2. LookupState' BY <1>1 DEF LookupState, Cancel
<1>3. RequestsCount' BY <1>1 DEF RequestsCount
<1>4. WalkIsOneCommit' BY <1>1 DEF WalkIsOneCommit
<1> QED BY <1>1, <1>2, <1>3, <1>4, NoOutcome

\* A connection that breaks off proves nothing.
LEMMA BreaksOffKept ==
    ASSUME LookupInv, AbsentIsNothing, BreaksOff
    PROVE  LookupInv'
<1>1. /\ Reading /\ phase = "waiting" /\ UNCHANGED answers
      /\ Answered(Unknown(CancellationOutcome(canceled)))
  BY DEF BreaksOff
<1>2. Unknown(CancellationOutcome(canceled)) # Absent BY UnknownShape
<1>3. LookupState' /\ RequestsCount' /\ WalkIsOneCommit' BY <1>1, <1>2, AnsweredKept
<1>4. OutcomeKept' BY <1>1, UnknownShape, NoPathOutcome DEF Answered, CancellationOutcome
<1> QED BY <1>3, <1>4 DEF LookupInv

\* A refusal proves nothing.
LEMMA ReadRefusedKept ==
    ASSUME LookupInv, AbsentIsNothing, ReadRefused
    PROVE  LookupInv'
<1> DEFINE reply == [body |-> Absent, link |-> Absent]
<1>1. PICK status \in Statuses, header \in Headers : Answered(StatusOutcome(status, header))
  BY DEF ReadRefused
<1>2. Reading /\ phase = "waiting" /\ answers' = Append(answers, reply) /\ reply \in Replies
  BY DEF ReadRefused, Replies, ReplyBodies
<1>3. /\ StatusOutcome(status, header) # Absent /\ outcome' = StatusOutcome(status, header)
      /\ outcome'.provenance = "none"
      /\ outcome'.kind \in {"rate-limited", "denied", "unavailable", "failed"}
  BY <1>1, StatusOutcomeShape DEF Answered
<1>4. LookupState' /\ RequestsCount' /\ WalkIsOneCommit' BY <1>1, <1>2, <1>3, AnsweredKept
<1>5. Len(answers') = Cardinality(visited') BY <1>1, <1>2, OneMoreAnswer DEF Answered
<1>6. OutcomeKept' BY <1>3, <1>5, NoPathOutcome
<1> QED BY <1>4, <1>6 DEF LookupInv

\* A comparison is answered.
LEMMA ReadComparisonKept ==
    ASSUME LookupInv, AbsentIsNothing, ReadComparison
    PROVE  LookupInv'
<1>1. PICK body \in Comparisons :
        /\ answers' = Append(answers, [body |-> body, link |-> Absent])
        /\ IF body # Absent /\ Describes(body) /\ WholeComparison(body.files) /\ Admits(<<>>, body.files)
           THEN Answered(Complete(lookup.of.provenance, Named(body.files)))
           ELSE Answered(Unknown("incomplete"))
  BY DEF ReadComparison
<1> DEFINE reply == [body |-> body, link |-> Absent]
           result == Complete(lookup.of.provenance, Named(body.files))
<1>2. /\ Reading /\ phase = "waiting" /\ lookup.of.operation = "compare"
      /\ answers' = Append(answers, reply) /\ reply \in Replies
  BY <1>1 DEF ReadComparison, Replies, ReplyBodies
<1>3. CASE Answered(Unknown("incomplete")) BY <1>2, <1>3, IncompleteKept
<1>4. CASE Describes(body) /\ WholeComparison(body.files) /\ Answered(result)
  <2>1. /\ result # Absent /\ result.kind = "complete" /\ result.provenance = lookup.of.provenance
        /\ result.paths = Named(body.files)
    BY CompleteShape
  <2>2. LookupState' /\ RequestsCount' /\ WalkIsOneCommit' BY <1>2, <1>4, <2>1, AnsweredKept
  <2>3. outcome' = result /\ lookup' = lookup BY <1>4 DEF Answered
  <2>4. answers = <<>> BY <1>2 DEF LookupInv, WalkIsOneCommit, Reading
  <2>5. Len(answers') = 1 /\ answers'[1] = reply BY <1>2, <2>4, OneMoreAnswer
  <2>6. ComparisonIsWhole'
    BY <1>4, <2>1, <2>3, <2>5 DEF ComparisonIsWhole, Describes, WholeComparison
  <2>7. CompleteIsOneCommit' /\ CompleteIsWhole'
    BY <1>2, <2>3 DEF CompleteIsOneCommit, CompleteIsWhole
  <2>8. CancellationIsNoFailure' BY <2>1, <2>3 DEF CancellationIsNoFailure
  <2>9. CurrentPRStaysCurrent'
    BY <1>2, <2>3 DEF CurrentPRStaysCurrent, LookupInv, WalkIsOneCommit, Reading
  <2> QED BY <2>2, <2>6, <2>7, <2>8, <2>9 DEF LookupInv, OutcomeKept
<1> QED BY <1>1, <1>3, <1>4

\* A pull request is answered.
LEMMA ReadPullRequestKept ==
    ASSUME LookupInv, AbsentIsNothing, ReadPullRequest
    PROVE  LookupInv'
<1>1. PICK body \in PullRequests :
        /\ answers' = Append(answers, [body |-> body, link |-> Absent])
        /\ \/ Answered(Unknown("incomplete"))
           \/ Answered(Complete("current-pr", <<>>))
           \/ Answered(Derived(body.base, body.head))
  BY DEF ReadPullRequest
<1> DEFINE reply == [body |-> body, link |-> Absent]
<1>2. /\ Reading /\ phase = "waiting" /\ lookup.of.operation = "pr-metadata"
      /\ answers' = Append(answers, reply) /\ reply \in Replies
  BY <1>1 DEF ReadPullRequest, Replies, ReplyBodies
<1>3. ASSUME NEW result, Answered(result), result # Absent, result.provenance # "event-time",
             "kind" \in DOMAIN result => result.kind = "complete"
      PROVE  LookupInv'
  <2>1. LookupState' /\ RequestsCount' /\ WalkIsOneCommit' BY <1>2, <1>3, AnsweredKept
  <2>2. outcome' = result /\ lookup' = lookup BY <1>3 DEF Answered
  <2>3. OutcomeKept'
    BY <1>2, <1>3, <2>2
    DEF OutcomeKept, CompleteIsOneCommit, CompleteIsWhole, ComparisonIsWhole, CancellationIsNoFailure,
        CurrentPRStaysCurrent
  <2> QED BY <2>1, <2>3 DEF LookupInv
<1>4. CASE Answered(Unknown("incomplete")) BY <1>2, <1>4, IncompleteKept
<1>5. CASE Answered(Complete("current-pr", <<>>)) BY <1>3, <1>5, CompleteShape
<1>6. CASE Answered(Derived(body.base, body.head))
  <2> DEFINE d == Derived(body.base, body.head)
  <2>1. d.provenance # "event-time" /\ "operation" \in DOMAIN d /\ "kind" \notin DOMAIN d
    BY DEF Derived, NewCompareEvidence, Needs, Unsupported, NewSettledEvidence, Unknown
  <2> HIDE DEF d
  <2>2. d # Absent BY <2>1 DEF AbsentIsNothing
  <2> QED BY <1>3, <1>6, <2>1, <2>2 DEF d
<1> QED BY <1>1, <1>4, <1>5, <1>6

\* A page of a commit is answered.
LEMMA ReadCommitPageKept ==
    ASSUME LookupInv, AbsentIsNothing, ReadCommitPage
    PROVE  LookupInv'
<1>1. PICK body \in CommitPages, link \in PageLinks :
        /\ answers' = Append(answers, [body |-> body, link |-> link])
        /\ IF body # Absent /\ SameCommit(body) /\ Admits(walk.paths, body.files)
           THEN Continues(body, link)
           ELSE Answered(Unknown("incomplete"))
  BY DEF ReadCommitPage
<1> DEFINE reply == [body |-> body, link |-> link]
           paths == walk.paths \o Named(body.files)
           parent == body.parents[1]
           result == WithSoleParent(Complete("event-time", paths), parent)
<1>2. /\ Reading /\ phase = "waiting" /\ lookup.of.operation = "commit"
      /\ answers' = Append(answers, reply) /\ reply \in Replies
      /\ reply.body = body /\ reply.link = link
  BY <1>1 DEF ReadCommitPage, Replies, ReplyBodies
<1>3. CASE Answered(Unknown("incomplete")) BY <1>2, <1>3, IncompleteKept
<1>4. ASSUME body # Absent, SameCommit(body), Admits(walk.paths, body.files),
             ~Answered(Unknown("incomplete"))
      PROVE  LookupInv'
  <2>1. /\ body.sha = lookup.of.head /\ parent \in Objects /\ body.parents = <<parent>>
        /\ walk.parent \in {Absent, parent}
    <3>1. body.parents \in Seq(ToSet(body.parents)) /\ Len(body.parents) = 1
      BY <1>4, EvidenceReadAssumption DEF SameCommit
    <3> QED BY <1>4, <3>1 DEF SameCommit
  <2>2. /\ Cardinality(Range(paths)) = Len(paths) /\ BytesIn(paths) <= MaxEvidenceBytes
    BY <1>4 DEF Admits
  <2>3. \A k \in 1 .. Len(answers) :
          /\ answers[k].link # Absent /\ answers[k].body.sha = lookup.of.head
          /\ answers[k].body.parents = <<parent>>
    <3>1. \A k \in 1 .. Len(answers) :
            /\ answers[k].link # Absent /\ answers[k].body.sha = lookup.of.head
            /\ answers[k].body.parents = <<walk.parent>> /\ walk.parent \in Objects
      BY <1>2 DEF LookupInv, WalkIsOneCommit, Reading
    <3> QED BY <2>1, <3>1, EvidenceReadAssumption
  <2> HIDE DEF reply, paths, parent
  <2>4. /\ answers' \in Seq(Replies) /\ Len(answers) \in Nat
        /\ Len(answers') = Len(answers) + 1 /\ answers'[Len(answers')] = reply
        /\ \A k \in 1 .. Len(answers) : answers'[k] = answers[k]
        /\ DOMAIN answers' = 1 .. Len(answers')
        /\ Len(answers') = Cardinality(visited)
    BY <1>2, OneMoreAnswer
  <2>5. \A k \in 1 .. Len(answers') :
          /\ k < Len(answers') => answers'[k].link # Absent
          /\ answers'[k].body.sha = lookup.of.head
          /\ answers'[k].body.parents = <<parent>>
    BY <1>2, <2>1, <2>3, <2>4
  <2>9. paths = Collected(answers')
    <3>1. body.files \in Seq(ToSet(body.files))
      BY <1>4, EvidenceReadAssumption DEF Admits
    <3>2. PICK T : Named(body.files) \in Seq(T) BY <3>1, NamedTyped
    <3>3. walk.paths = Collected(answers) /\ answers \in Seq(Replies)
      BY <1>2 DEF LookupInv, LookupState, WalkIsOneCommit, Reading
    <3>4. Collected(answers') = IF answers = <<>> THEN Named(body.files)
                                ELSE Collected(answers) \o Named(body.files)
      BY <1>2, <3>3, CollectedOneMore
    <3>5. <<>> \o Named(body.files) = Named(body.files) BY <3>2
    <3> QED BY <3>3, <3>4, <3>5, CollectedNone DEF paths
  <2>6. CASE link = Absent /\ Answered(result)
    <3>1. /\ result # Absent /\ result.kind = "complete" /\ result.provenance = "event-time"
          /\ result.paths = paths /\ result.parent = parent
      BY <2>1, CompleteShape
    <3> HIDE DEF result
    <3>2. LookupState' /\ RequestsCount' /\ WalkIsOneCommit' BY <1>2, <2>6, <3>1, AnsweredKept
    <3>3. outcome' = result /\ lookup' = lookup BY <2>6 DEF Answered
    <3>4. answers'[Len(answers')].link = Absent BY <1>2, <2>4, <2>6
    <3>5. CompleteIsOneCommit'
      BY <2>2, <2>4, <2>5, <3>1, <3>3, <3>4 DEF CompleteIsOneCommit, Last
    <3>6. ComparisonIsWhole' BY <1>2, <3>3 DEF ComparisonIsWhole
    <3>9. CompleteIsWhole' BY <2>9, <3>1, <3>3 DEF CompleteIsWhole, Collected
    <3>7. CancellationIsNoFailure' BY <3>1, <3>3 DEF CancellationIsNoFailure
    <3>8. CurrentPRStaysCurrent'
      BY <1>2, <3>3 DEF CurrentPRStaysCurrent, LookupInv, WalkIsOneCommit, Reading
    <3> QED BY <3>2, <3>5, <3>6, <3>7, <3>8, <3>9 DEF LookupInv, OutcomeKept
  <2>7. CASE /\ link # Absent /\ Safe(link) /\ PagesLeft
             /\ walk' = [page |-> link.page, parent |-> parent, paths |-> paths]
             /\ phase' = "ready" /\ UNCHANGED <<lookup, canceled, visited, outcome>>
    <3>1. link.page \in Nat /\ link.page > walk.page /\ Cardinality(visited) < MaxEvidencePages
      BY <2>7, EvidenceReadAssumption DEF Safe, PagesLeft
    <3>2. walk'.page = link.page /\ walk'.parent = parent /\ walk'.paths = paths BY <2>7
    <3>3. lookup # Absent /\ outcome' = Absent /\ lookup' = lookup BY <1>2, <2>7 DEF Reading
    <3>4. LookupState' BY <2>4, <2>7, <3>1, <3>2, <3>3 DEF LookupInv, LookupState
    <3>5. RequestsCount'
      <4>1. \A page \in visited : page \in Nat /\ walk.page \in Nat /\ page <= walk.page
        BY DEF LookupInv, LookupState, RequestsCount
      <4>2. Cardinality(visited) <= MaxEvidencePages BY DEF LookupInv, RequestsCount
      <4> QED BY <2>4, <2>7, <3>1, <3>2, <4>1, <4>2 DEF RequestsCount
    <3>6. WalkIsOneCommit'
      <4>1. answers'[Len(answers')].link # Absent BY <1>2, <2>4, <2>7
      <4>2. \A k \in 1 .. Len(answers') : answers'[k].link # Absent BY <2>4, <2>5, <4>1
      <4>3. lookup.entry = "Changed"
        BY <1>2 DEF LookupInv, LookupState, WalkIsOneCommit, Reading
      <4> QED BY <1>2, <2>1, <2>5, <2>9, <3>2, <3>3, <4>2, <4>3 DEF WalkIsOneCommit
    <3> QED BY <3>3, <3>4, <3>5, <3>6, NoOutcome DEF LookupInv
  <2>8. Continues(body, link) BY <1>1, <1>4
  <2> QED BY <1>4, <2>6, <2>7, <2>8 DEF Continues, paths, parent
<1> QED BY <1>1, <1>3, <1>4

\* Every step of a lookup keeps its invariant.
LEMMA LookupKept ==
    ASSUME LookupInv, AbsentIsNothing, [ReadNext]_readVars
    PROVE  LookupInv'
<1>1. CASE UNCHANGED readVars
  BY <1>1 DEF readVars, LookupInv, LookupState, RequestsCount, WalkIsOneCommit, OutcomeKept,
              CompleteIsOneCommit, CompleteIsWhole, ComparisonIsWhole, CancellationIsNoFailure,
              CurrentPRStaysCurrent,
              IsComplete
<1>2. CASE ReadNext
  BY <1>2, BeginningKept, CancelKept, DispatchKept, BreaksOffKept, ReadRefusedKept,
     ReadCommitPageKept, ReadComparisonKept, ReadPullRequestKept DEF ReadNext
<1> QED BY <1>1, <1>2

-----------------------------------------------------------------------------
(* Theorems of the delays, the polls and the lookups *)

\* The invariant of a poll, whatever the API answers.
THEOREM PollInvariance == PollSpec => []PollInv
<1>1. PollInit => PollInv BY PollInitHolds
<1>2. PollInv /\ [PollNext]_pollVars => PollInv' BY PollKept
<1> QED BY <1>1, <1>2, PTL DEF PollSpec

\* The next poll is never sent before the floor, an interval a reply of the poll
\* advertised, or an instruction of the rate limit that ended it (schedule.go pollDelay,
\* retryDelay).
THEOREM DelaySafe == PollSpec => []DelayHonoursReplies
<1>1. ASSUME PollInv PROVE DelayHonoursReplies
  <2>1. CASE polled # Absent /\ polled.kind = "done"
    <3>1. intervals \subseteq Words BY <1>1 DEF PollInv, PollState
    <3>2. polled.delay = PollDelay(intervals) BY <1>1, <2>1 DEF PollInv, ResultKept
    <3>3. polled.delay \in Words /\ KeepsFloor(polled.delay) /\ \A x \in intervals : polled.delay >= x
      BY <3>1, <3>2, PollDelayHonours
    <3>4. ASSUME NEW k \in DOMAIN replies PROVE HonoursPoll(polled.delay, replies[k].header)
      <4>1. Len(replies) = Len(activities) /\ DOMAIN replies = 1 .. Len(replies)
        BY <1>1, <2>1 DEF PollInv, PollState, ResultKept
      <4>2. PollInterval(replies[k].header) \in intervals
        BY <1>1, <3>4, <4>1 DEF PollInv, PagesKept
      <4>3. polled.delay >= PollInterval(replies[k].header) BY <3>3, <4>2
      <4> QED BY <4>3, PollIntervalFits DEF HonoursPoll
    <3> QED BY <2>1, <3>3, <3>4 DEF DelayHonoursReplies
  <2>2. CASE ~(polled # Absent /\ polled.kind = "done")
    BY <1>1, <2>2 DEF PollInv, ResultKept, DelayHonoursReplies
  <2> QED BY <2>1, <2>2
<1> QED BY <1>1, PollInvariance, PTL

\* A poll publishes what the API said, whole and classified one way, or nothing (source.go
\* Refresh, normalize.go, evidence.go).
THEOREM PollSafe == PollSpec => []PollIsTrue
<1>1. ASSUME PollInv PROVE ClassificationsAgree
  <2>1. ASSUME NEW i \in DOMAIN activities, NEW k \in DOMAIN activities[i]
        PROVE  Agree(activities[i][k].class, activities[i][k].evidence, activities[i][k].repository)
    <3>1. PICK page \in Pages : activities[i] = NormalizeEvents(page)
      BY <1>1, <2>1 DEF PollInv, PollState, Listings
    <3>2. activities[i][k] = NormalizeEvent(page[k]) BY <2>1, <3>1 DEF NormalizeEvents
    <3>3. Agree(Classify(page[k]), ChangedFileEvidence(page[k].repository, page[k]), page[k].repository)
      BY EventAgrees
    <3> QED BY <3>2, <3>3 DEF NormalizeEvent
  <2> QED BY <2>1 DEF ClassificationsAgree, Agree
<1>2. ASSUME PollInv PROVE PollIsAtomic
  <2>1. SUFFICES ASSUME polled # Absent, polled.kind = "done",
                        NEW i \in DOMAIN polling
                 PROVE  /\ Len(activities[i]) = Len(replies[i].page)
                        /\ \A k \in DOMAIN activities[i] :
                             /\ activities[i][k].id = replies[i].page[k].id
                             /\ activities[i][k].repository = polling[i]
    BY <1>2 DEF PollIsAtomic, PollInv, ResultKept
  <2>2. i \in 1 .. Len(activities)
    BY <1>2, <2>1, PollingAssumption DEF PollInv, PollState, ResultKept
  <2> DEFINE page == replies[i].page
  <2>3. /\ page \in Pages \ {Absent} /\ activities[i] = NormalizeEvents(page)
        /\ \A k \in DOMAIN page : page[k].repository = polling[i]
    BY <1>2, <2>2 DEF PollInv, PagesKept
  <2> HIDE DEF page
  <2>4. page \in Seq(ToSet(page)) BY <2>3, PollingAssumption
  <2>5. DOMAIN activities[i] = 1 .. Len(page) /\ Len(page) \in Nat /\ DOMAIN page = 1 .. Len(page)
    BY <2>3, <2>4 DEF NormalizeEvents
  <2>6. Len(activities[i]) = Len(page)
    <3>1. activities[i] \in Seq({NormalizeEvent(page[k]) : k \in 1 .. Len(page)})
      BY <2>3, <2>5 DEF NormalizeEvents
    <3> QED BY <2>5, <3>1
  <2>7. ASSUME NEW k \in DOMAIN activities[i]
        PROVE  activities[i][k].id = page[k].id /\ activities[i][k].repository = polling[i]
    <3>1. activities[i][k] = NormalizeEvent(page[k]) BY <2>3, <2>5, <2>7 DEF NormalizeEvents
    <3> QED BY <2>3, <2>5, <2>7, <3>1 DEF NormalizeEvent
  <2> QED BY <2>6, <2>7 DEF page
<1> QED BY <1>1, <1>2, PollInvariance, PTL DEF PollIsTrue

\* The invariant of a lookup, whatever the API answers.
THEOREM LookupInvariance == AbsentIsNothing => (ReadSpec => []LookupInv)
<1> SUFFICES ASSUME AbsentIsNothing PROVE ReadSpec => []LookupInv OBVIOUS
<1>1. ReadInit => LookupInv BY ReadInitHolds
<1>2. LookupInv /\ [ReadNext]_readVars => LookupInv' BY LookupKept
<1> QED BY <1>1, <1>2, PTL DEF ReadSpec

\* An outcome says no more than the answers prove: a complete commit is one commit read to
\* its end, with the paths of all its pages, a complete comparison is the one asked for and
\* whole, a walk stays within its bound, an ended refresh is no failure, and what is read through a pull request's present
\* refs is never event-time evidence (enrich.go, enrich_commit.go, enrich_compare.go).
THEOREM OutcomeSafe == AbsentIsNothing => (ReadSpec => []OutcomeIsProven)
<1> SUFFICES ASSUME AbsentIsNothing PROVE ReadSpec => []OutcomeIsProven OBVIOUS
<1>1. LookupInv => OutcomeIsProven
  BY DEF LookupInv, OutcomeKept, RequestsCount, WalkAdvances, OutcomeIsProven
<1> QED BY <1>1, LookupInvariance, PTL

-----------------------------------------------------------------------------
(* An expansion *)

\* A place counted round a circle of n.
LEMMA OnceRound ==
    ASSUME NEW n \in Nat \ {0}, NEW a \in 0 .. 2 * n - 1
    PROVE  a % n = IF a < n THEN a ELSE a - n
<1>1. CASE a < n BY <1>1, SmallRemainder
<1>2. CASE ~(a < n)
  <2>1. a = (a - n) + n /\ a - n \in 0 .. n - 1 BY <1>2
  <2>2. a \in Int /\ a % n \in 0 .. n - 1 /\ a = n * (a \div n) + (a % n)
    OBVIOUS
  <2>3. a \div n = 1
    <3>1. PICK q \in Int : q = a \div n OBVIOUS
    <3>2. PICK r \in 0 .. n - 1 : r = a % n BY <2>2
    <3>3. a = n * q + r BY <2>2, <3>1, <3>2
    <3>4. q > 0
      <4>1. SUFFICES ASSUME q <= 0 PROVE FALSE BY <3>1
      <4>2. n * q <= 0 BY <4>1
      <4> QED BY <3>2, <3>3, <4>2, <1>2
    <3>5. q < 2
      <4>1. SUFFICES ASSUME q >= 2 PROVE FALSE BY <3>1
      <4>2. n * q >= n * 2 BY <4>1
      <4> QED BY <3>2, <3>3, <4>2
    <3> QED BY <3>1, <3>4, <3>5
  <2> QED BY <1>2, <2>2, <2>3
<1> QED BY <1>1, <1>2

\* The listings of an expansion, and its requests.
Listed == UNION {RecordsOf(body) : body \in Bodies \ {Absent}}
Entries == [organization : Organizations, url : Nat \cup {Absent}, page : Nat,
            records : SUBSET Listed]
Asks == Nat \X (Nat \cup {Absent}) \X (Bodies \cup {Absent}) \X (Links \cup {Absent})

\* The list of a selector goes on.
Open(i) == listings[i].url # Absent

\* The next selector is the first open one from where the round stands, or from its start.
LEMMA NextIsFirstOpen ==
    ASSUME listings \in Seq(Entries), listings # <<>> => turn \in 1 .. Len(listings)
    PROVE  /\ NextListing = 0 => \A i \in DOMAIN listings : ~Open(i)
           /\ NextListing # 0 =>
                /\ NextListing \in DOMAIN listings /\ Open(NextListing)
                /\ \/ /\ turn <= NextListing
                      /\ \A i \in DOMAIN listings : turn <= i /\ i < NextListing => ~Open(i)
                   \/ /\ NextListing < turn
                      /\ \A i \in DOMAIN listings : turn <= i \/ i < NextListing => ~Open(i)
<1> DEFINE n == Len(listings)
           Place(k) == (((turn + k) - 1) % n) + 1
           open == {k \in 0 .. n - 1 : listings[Place(k)].url # Absent}
<1>1. n \in Nat /\ DOMAIN listings = 1 .. n /\ NextListing = IF open = {} THEN 0 ELSE Place(Min(open))
  BY DEF NextListing
<1>2. CASE n = 0
  <2>1. open = {} BY <1>2
  <2> QED BY <1>1, <1>2, <2>1
<1>3. CASE n # 0
  <2>1. turn \in 1 .. n BY <1>3
  <2>2. ASSUME NEW k \in 0 .. n - 1
        PROVE  Place(k) = (IF turn + k <= n THEN turn + k ELSE turn + k - n) /\ Place(k) \in 1 .. n
    <3>1. (turn + k) - 1 \in 0 .. 2 * n - 1 /\ n \in Nat \ {0} BY <1>1, <1>3, <2>1, <2>2
    <3>2. ((turn + k) - 1) % n = IF (turn + k) - 1 < n THEN (turn + k) - 1 ELSE (turn + k) - 1 - n
      BY <3>1, OnceRound
    <3> QED BY <1>1, <2>1, <2>2, <3>2
  <2>3. ASSUME NEW i \in 1 .. n
        PROVE  \E k \in 0 .. n - 1 : Place(k) = i /\ k = IF turn <= i THEN i - turn ELSE i - turn + n
    <3> DEFINE k == IF turn <= i THEN i - turn ELSE i - turn + n
    <3>1. k \in 0 .. n - 1 BY <1>1, <2>1, <2>3
    <3>2. Place(k) = i
      <4>1. Place(k) = IF turn + k <= n THEN turn + k ELSE turn + k - n BY <2>2, <3>1
      <4> HIDE DEF Place
      <4>2. CASE turn <= i BY <1>1, <2>1, <2>3, <4>1, <4>2
      <4>3. CASE ~(turn <= i) BY <1>1, <2>1, <2>3, <4>1, <4>3
      <4> QED BY <4>2, <4>3
    <3> QED BY <3>1, <3>2
  <2> HIDE DEF Place
  <2>4. open = {} => \A i \in 1 .. n : ~Open(i) BY <2>3 DEF Open
  <2>5. ASSUME open # {}
        PROVE  /\ Min(open) \in open /\ \A k \in open : Min(open) <= k
    <3>1. open \in SUBSET Nat BY <1>1
    <3> HIDE DEF open
    <3>2. \E m \in open : \A k \in open : m <= k BY <2>5, <3>1, LeastNumber
    <3> QED BY <3>2 DEF Min
  <2>6. ASSUME open # {}
        PROVE  LET i == Place(Min(open)) IN
               /\ i \in 1 .. n /\ Open(i)
               /\ \/ turn <= i /\ \A j \in 1 .. n : turn <= j /\ j < i => ~Open(j)
                  \/ i < turn /\ \A j \in 1 .. n : turn <= j \/ j < i => ~Open(j)
    <3>1. PICK m \in 0 .. n - 1 : m = Min(open) /\ m \in open /\ \A k \in open : m <= k BY <2>5, <2>6
    <3>2. PICK i \in 1 .. n : i = Place(m) /\ i = IF turn + m <= n THEN turn + m ELSE turn + m - n
      BY <2>2
    <3>3. Open(i) BY <3>1, <3>2 DEF Open
    <3>4. ASSUME NEW j \in 1 .. n, Open(j)
          PROVE  m <= IF turn <= j THEN j - turn ELSE j - turn + n
      <4>1. PICK k \in 0 .. n - 1 : Place(k) = j /\ k = IF turn <= j THEN j - turn ELSE j - turn + n
        BY <2>3
      <4>2. k \in open BY <3>4, <4>1 DEF Open
      <4> HIDE DEF open
      <4> QED BY <3>1, <4>1, <4>2
    <3>5. CASE turn + m <= n
      <4>1. turn <= i /\ i = turn + m BY <1>1, <2>1, <3>1, <3>2, <3>5
      <4>2. ASSUME NEW j \in 1 .. n, turn <= j, j < i PROVE ~Open(j)
        BY <1>1, <2>1, <3>1, <3>4, <4>1, <4>2
      <4> QED BY <3>1, <3>2, <3>3, <4>1, <4>2
    <3>6. CASE ~(turn + m <= n)
      <4>1. i < turn /\ i = turn + m - n BY <1>1, <2>1, <3>1, <3>2, <3>6
      <4>2. ASSUME NEW j \in 1 .. n, turn <= j \/ j < i PROVE ~Open(j)
        BY <1>1, <2>1, <3>1, <3>4, <4>1, <4>2
      <4> QED BY <3>1, <3>2, <3>3, <4>1, <4>2
    <3> QED BY <3>5, <3>6
  <2>7. open # {} => NextListing = Place(Min(open)) /\ NextListing # 0
    BY <1>1, <2>6
  <2> HIDE DEF open
  <2> QED BY <1>1, <2>4, <2>6, <2>7
<1> QED BY <1>2, <1>3

\* An expansion lists: it has begun, and neither ended nor begun to allocate.
InListing == request # Absent /\ expansion = Absent /\ selection = Absent
\* No page has failed it.
Unfailed == expansion # Absent => expansion.kind # "failed"

\* How many pages were asked of a selector.
Asked(i) == Cardinality(AskedOf(i))

\* The pages asked of a selector when the round that is under way ends.
RoundsOf(i) == Asked(i) + IF i >= turn THEN 1 ELSE 0

\* The state of an expansion.
ExpansionState ==
    /\ listings \in Seq(Entries) /\ asked \in Seq(Asks)
    /\ spent = Len(asked) /\ spent <= ExpansionRequests
    /\ request = Absent => /\ listings = <<>> /\ asked = <<>> /\ turn = 1
                           /\ selection = Absent /\ expansion = Absent
    /\ request # Absent => request \in Requests
    /\ InListing /\ listings # <<>> => turn \in 1 .. Len(listings)

\* A selector's pages are asked in order, and the next one is the page after them.
PagesInOrder ==
    /\ \A i \in DOMAIN listings : \A k \in AskedOf(i) :
         asked[k][2] = Cardinality({l \in AskedOf(i) : l <= k})
    /\ InListing => \A i \in DOMAIN listings :
         listings[i].page = Asked(i) + 1 /\ (Open(i) => listings[i].url = listings[i].page)

\* No selector has got further by the end of the round than one whose list is open.
RoundsFair ==
    /\ InListing => \A i, j \in DOMAIN listings : Open(i) => RoundsOf(j) <= RoundsOf(i)
    /\ \A i, j \in DOMAIN listings : Open(i) => Asked(j) <= Asked(i) + 1

\* A list is open exactly if its last page offered a next one.
LinksKept ==
    Unfailed => \A i \in DOMAIN listings :
      Open(i) <=> \A k \in AskedOf(i) : (\A l \in AskedOf(i) : l <= k) => asked[k][4] # Absent

\* The selection keeps the exact Scopes first, and its capacities.
ScopesSound(list, origins, exact) ==
    /\ list \in Seq(ToSet(list)) /\ origins \in Seq(ToSet(origins))
    /\ Len(origins) = Len(list)
    /\ \A k \in DOMAIN origins :
         /\ DOMAIN origins[k] = {"exact", "selector"}
         /\ origins[k].exact <=> k <= Len(exact)
    /\ IsPrefix(exact, list)
    /\ Cardinality(ToSet(list)) = Len(list) /\ Len(list) <= MaxScopes
    /\ Cardinality(Referenced(list)) <= MaxSelectedRepositories

SelectionSound ==
    selection # Absent =>
      /\ request # Absent
      /\ DOMAIN selection = {"scopes", "provenance", "retained", "omitted"}
      /\ ScopesSound(selection.scopes, selection.provenance, request.exact)

\* What Expand returned.
ExpansionKept ==
    Expanded =>
      /\ \A i \in DOMAIN listings :
           expansion.selectors[i].hasMore = Open(i) /\ (Open(i) => expansion.remains)
      /\ ScopesSound(expansion.scopes, expansion.provenance, request.exact)

\* The invariant of an expansion.
ExpansionInv ==
    /\ ExpansionState /\ PagesInOrder /\ RoundsFair /\ LinksKept
    /\ SelectionSound /\ ExpansionKept

\* A request is the next of all, and the next of the selector it asks.
LEMMA AskedOneMore ==
    ASSUME asked \in Seq(Asks), NEW more \in Asks, asked' = Append(asked, more)
    PROVE  LET n == Len(asked) + 1 IN
           /\ asked' \in Seq(Asks) /\ Len(asked') = n /\ DOMAIN asked' = 1 .. n
           /\ asked'[n] = more /\ \A k \in 1 .. Len(asked) : asked'[k] = asked[k]
           /\ \A i : /\ AskedOf(i) \subseteq 1 .. Len(asked)
                     /\ AskedOf(i)' = IF i = more[1] THEN AskedOf(i) \cup {n} ELSE AskedOf(i)
                     /\ Asked(i) \in Nat
                     /\ Asked(i)' = IF i = more[1] THEN Asked(i) + 1 ELSE Asked(i)
<1> DEFINE n == Len(asked) + 1
<1>1. /\ asked' \in Seq(Asks) /\ Len(asked') = n /\ DOMAIN asked' = 1 .. n /\ n \in Nat
      /\ asked'[n] = more /\ \A k \in 1 .. Len(asked) : asked'[k] = asked[k]
      /\ DOMAIN asked = 1 .. Len(asked)
  OBVIOUS
<1>2. ASSUME NEW i
      PROVE  /\ AskedOf(i) \subseteq 1 .. Len(asked) /\ n \notin AskedOf(i)
             /\ AskedOf(i)' = IF i = more[1] THEN AskedOf(i) \cup {n} ELSE AskedOf(i)
             /\ Asked(i) \in Nat
             /\ Asked(i)' = IF i = more[1] THEN Asked(i) + 1 ELSE Asked(i)
  <2>1. AskedOf(i) \subseteq 1 .. Len(asked) /\ n \notin AskedOf(i) BY <1>1 DEF AskedOf
  <2>2. AskedOf(i)' = IF i = more[1] THEN AskedOf(i) \cup {n} ELSE AskedOf(i)
    BY <1>1 DEF AskedOf
  <2>3. IsFiniteSet(AskedOf(i))
    <3>1. IsFiniteSet(1 .. Len(asked)) BY <1>1, FS_Interval
    <3> QED BY <2>1, <3>1, FS_Subset
  <2>4. Asked(i) \in Nat /\ Cardinality(AskedOf(i) \cup {n}) = Asked(i) + 1
    BY <2>1, <2>3, FS_CardinalityType, FS_AddElement DEF Asked
  <2> QED BY <2>1, <2>2, <2>4 DEF Asked
<1> QED BY <1>1, <1>2

\* The round, once a page of the next selector was asked: whoever is still open has got
\* as far as anybody.
LEMMA RoundGoesOn ==
    ASSUME ExpansionInv, Listing, asked \in Seq(Asks),
           NEW more \in Asks, more[1] = NextListing, asked' = Append(asked, more),
           turn' = (NextListing % Len(listings)) + 1
    PROVE  /\ turn' \in 1 .. Len(listings)
           /\ \A i, j \in DOMAIN listings :
                Open(i) => RoundsOf(j)' <= RoundsOf(i)' /\ Asked(j)' <= Asked(i)' + 1
<1>1. InListing /\ listings \in Seq(Entries) /\ (listings # <<>> => turn \in 1 .. Len(listings))
      /\ NextListing # 0
  BY DEF Listing, ExpansionInv, ExpansionState, InListing
<1>2. PICK n \in Nat : n = Len(listings) /\ DOMAIN listings = 1 .. n BY <1>1
<1>3. PICK x \in 1 .. n : x = NextListing BY <1>1, <1>2, NextIsFirstOpen
<1>4. /\ turn \in 1 .. n /\ Open(x)
      /\ \/ turn <= x /\ \A i \in 1 .. n : turn <= i /\ i < x => ~Open(i)
         \/ x < turn /\ \A i \in 1 .. n : turn <= i \/ i < x => ~Open(i)
  <2>1. /\ NextListing \in DOMAIN listings /\ Open(NextListing)
        /\ \/ /\ turn <= NextListing
              /\ \A i \in DOMAIN listings : turn <= i /\ i < NextListing => ~Open(i)
           \/ /\ NextListing < turn
              /\ \A i \in DOMAIN listings : turn <= i \/ i < NextListing => ~Open(i)
    BY <1>1, NextIsFirstOpen
  <2>2. turn \in 1 .. n BY <1>1, <1>2, <1>3
  <2> HIDE DEF NextListing
  <2> QED BY <1>2, <1>3, <2>1, <2>2
<1>5. turn' = IF x < n THEN x + 1 ELSE 1
  <2>1. x % n = IF x < n THEN x ELSE x - n BY <1>2, <1>3, OnceRound
  <2> QED BY <1>2, <1>3, <2>1
<1>6. \A i : Asked(i) \in Nat /\ Asked(i)' = IF i = x THEN Asked(i) + 1 ELSE Asked(i)
  BY <1>3, AskedOneMore
<1>7. ASSUME NEW i \in 1 .. n, NEW j \in 1 .. n, Open(i)
      PROVE  RoundsOf(j)' <= RoundsOf(i)' /\ Asked(j)' <= Asked(i)' + 1
  <2>1. RoundsOf(j) <= RoundsOf(i) /\ RoundsOf(x) <= RoundsOf(i) 
    BY <1>1, <1>2, <1>7 DEF ExpansionInv, RoundsFair
  <2>2. /\ turn <= x => (turn <= i => x <= i)
        /\ x < turn => i < turn /\ x <= i
    BY <1>4, <1>7
  <2>3. /\ RoundsOf(j) = Asked(j) + IF j >= turn THEN 1 ELSE 0
        /\ RoundsOf(i) = Asked(i) + IF i >= turn THEN 1 ELSE 0
        /\ RoundsOf(j)' = Asked(j)' + IF j >= turn' THEN 1 ELSE 0
        /\ RoundsOf(i)' = Asked(i)' + IF i >= turn' THEN 1 ELSE 0
    BY DEF RoundsOf
  <2>4. RoundsOf(j)' <= RoundsOf(i)'
    <3>1. /\ Asked(i) \in Nat /\ Asked(i)' = IF i = x THEN Asked(i) + 1 ELSE Asked(i)
          /\ Asked(j) \in Nat /\ Asked(j)' = IF j = x THEN Asked(j) + 1 ELSE Asked(j)
      BY <1>6
    <3>2. CASE x < n BY <1>4, <1>5, <2>1, <2>2, <2>3, <3>1, <3>2
    <3>3. CASE ~(x < n) BY <1>4, <1>5, <2>1, <2>2, <2>3, <3>1, <3>3
    <3> QED BY <3>2, <3>3
  <2>5. Asked(j)' \in Nat /\ Asked(i)' \in Nat BY <1>6
  <2> QED BY <1>5, <2>3, <2>4, <2>5
<1> QED BY <1>2, <1>5, <1>7

\* The next page of the next selector is asked in its order.
LEMMA PagesGoOn ==
    ASSUME ExpansionInv, Listing, NEW body \in Bodies \cup {Absent}, NEW link \in Links \cup {Absent},
           asked' = Append(asked, <<NextListing, listings[NextListing].url, body, link>>)
    PROVE  /\ asked' \in Seq(Asks)
           /\ \A i \in DOMAIN listings : \A k \in AskedOf(i)' :
                asked'[k][2] = Cardinality({l \in AskedOf(i)' : l <= k})
<1>1. /\ InListing /\ listings \in Seq(Entries) /\ (listings # <<>> => turn \in 1 .. Len(listings))
      /\ NextListing # 0 /\ asked \in Seq(Asks)
  BY DEF Listing, ExpansionInv, ExpansionState, InListing
<1>2. PICK x \in DOMAIN listings : x = NextListing /\ Open(x) BY <1>1, NextIsFirstOpen
<1> DEFINE more == <<x, listings[x].url, body, link>>
           n == Len(asked) + 1
<1>3. more \in Asks /\ more[1] = x
  <2>1. listings[x] \in Entries /\ x \in Nat BY <1>1, <1>2
  <2> QED BY <2>1 DEF Asks, Entries
<1>4. more[2] = Asked(x) + 1
  BY <1>1, <1>2 DEF ExpansionInv, PagesInOrder
<1>5. asked' = Append(asked, more) BY <1>2
<1> HIDE DEF more
<1>6. /\ asked' \in Seq(Asks) /\ asked'[n] = more
      /\ \A k \in 1 .. Len(asked) : asked'[k] = asked[k]
      /\ \A i : /\ AskedOf(i) \subseteq 1 .. Len(asked)
                /\ AskedOf(i)' = IF i = x THEN AskedOf(i) \cup {n} ELSE AskedOf(i)
                /\ Asked(i) \in Nat
                /\ Asked(i)' = IF i = x THEN Asked(i) + 1 ELSE Asked(i)
  BY <1>1, <1>3, <1>5, AskedOneMore
<1>7. ASSUME NEW i \in DOMAIN listings, NEW k \in AskedOf(i)'
      PROVE  asked'[k][2] = Cardinality({l \in AskedOf(i)' : l <= k})
  <2>1. CASE k \in AskedOf(i)
    <3>1. k \in 1 .. Len(asked) /\ asked'[k] = asked[k] BY <1>6, <2>1
    <3>2. {l \in AskedOf(i)' : l <= k} = {l \in AskedOf(i) : l <= k}
      <4>1. n \in Nat /\ ~(n <= k) BY <1>1, <3>1
      <4> QED BY <1>6, <4>1
    <3> QED BY <2>1, <3>1, <3>2 DEF ExpansionInv, PagesInOrder
  <2>2. CASE k \notin AskedOf(i)
    <3>1. i = x /\ k = n BY <1>6, <1>7, <2>2
    <3>2. {l \in AskedOf(i)' : l <= k} = AskedOf(i)'
      <4>1. ASSUME NEW l \in AskedOf(i)' PROVE l <= n
        <5>1. Len(asked) \in Nat BY <1>1
        <5>2. l = n \/ l \in 1 .. Len(asked) BY <1>6, <4>1
        <5> QED BY <5>1, <5>2
      <4> QED BY <3>1, <4>1
    <3> QED BY <1>4, <1>6, <3>1, <3>2 DEF Asked
  <2> QED BY <2>1, <2>2
<1> QED BY <1>6, <1>7

\* Nothing is asked yet.
LEMMA ExpansionBegins ==
    ASSUME ExpansionInit
    PROVE  ExpansionInv
<1> USE DEF ExpansionInit
<1>1. ExpansionState
  <2>1. <<>> \in Seq(Entries) /\ <<>> \in Seq(Asks) /\ Len(<<>>) = 0 OBVIOUS
  <2> QED BY <2>1, ExpansionAssumption DEF ExpansionState, InListing
<1>2. DOMAIN listings = {} OBVIOUS
<1>3. ~InListing /\ ~Expanded BY DEF InListing, Expanded
<1> QED BY <1>1, <1>2, <1>3 
    DEF ExpansionInv, PagesInOrder, RoundsFair, LinksKept, SelectionSound, ExpansionKept

\* Expand begins with an open listing of every selector, or rejects the selectors.
LEMMA ExpandKept ==
    ASSUME ExpansionInv, AbsentIsNothing, NEW r \in Requests, Expand(r)
    PROVE  ExpansionInv'
<1>1. /\ request = Absent /\ request' = r /\ request' # Absent /\ listings = <<>> /\ asked = <<>> /\ turn = 1
      /\ selection = Absent /\ expansion = Absent /\ spent = 0
      /\ UNCHANGED <<turn, spent, selection, asked>>
  <2>1. Len(<<>>) = 0 OBVIOUS
  <2> QED BY <2>1, ExpansionAssumption DEF Expand, ExpansionInv, ExpansionState
<1>2. \A i : AskedOf(i)' = {} /\ Asked(i)' = 0
  <2>1. \A i : AskedOf(i)' = {} BY <1>1 DEF AskedOf
  <2> QED BY <2>1, FS_EmptySet DEF Asked
<1>3. /\ asked' \in Seq(Asks) /\ spent' = Len(asked') /\ spent' <= ExpansionRequests
      /\ request' \in Requests /\ ~Expanded' /\ selection' = Absent
  <2>1. <<>> \in Seq(Asks) /\ Len(<<>>) = 0 OBVIOUS
  <2>2. expansion' # Absent => expansion'.kind = "rejected" BY <1>1 DEF Expand
  <2> QED BY <1>1, <2>1, <2>2, ExpansionAssumption DEF Expanded
<1>4. CASE Selectable(r.organizations)
  <2> DEFINE keys == r.organizations
  <2>1. keys \in Seq(Organizations)
    <3>1. keys \in Seq(ToSet(keys)) BY ExpansionAssumption
    <3>2. ToSet(keys) \subseteq Organizations BY <1>4 DEF Selectable, Range, ToSet
    <3> QED BY <3>1, <3>2
  <2>2. listings' = [i \in DOMAIN keys |-> NewListing(keys[i])] /\ expansion' = Absent
    BY <1>1, <1>4 DEF Expand
  <2> HIDE DEF keys
  <2>3. \A i \in DOMAIN keys : NewListing(keys[i]) \in Entries
    BY <2>1 DEF NewListing, Entries
  <2>4. listings' \in Seq(Entries) /\ DOMAIN listings' = DOMAIN keys BY <2>1, <2>2, <2>3
  <2>5. \A i \in DOMAIN listings' : listings'[i].page = 1 /\ listings'[i].url = 1 /\ Open(i)'
    BY <2>2, <2>4, ExpansionAssumption DEF NewListing, Open
  <2>6. turn' = 1 /\ (listings' # <<>> => turn' \in 1 .. Len(listings')) BY <1>1, <2>4
  <2> QED BY <1>1, <1>2, <1>3, <2>2, <2>4, <2>5, <2>6
      DEF ExpansionInv, ExpansionState, PagesInOrder, RoundsFair, RoundsOf, LinksKept, SelectionSound,
          ExpansionKept, InListing
<1>5. CASE ~Selectable(r.organizations)
  <2>1. listings' = <<>> /\ expansion'.kind = "rejected" /\ expansion' # Absent
    <3>1. expansion' = [kind |-> "rejected"] BY <1>5 DEF Expand
    <3> QED BY <1>1, <1>5, <3>1 DEF Expand, AbsentIsNothing
  <2>2. DOMAIN listings' = {} /\ listings' \in Seq(Entries) BY <2>1
  <2> QED BY <1>1, <1>3, <2>1, <2>2
      DEF ExpansionInv, ExpansionState, PagesInOrder, RoundsFair, LinksKept, SelectionSound,
          ExpansionKept, InListing
<1> QED BY <1>4, <1>5

\* A page that fails, fails the expansion.
LEMMA FailureKept ==
    ASSUME ExpansionInv, AbsentIsNothing, NEW cause, NEW delay, FetchFails(cause, delay)
    PROVE  ExpansionInv'
<1>1. /\ InListing /\ listings \in Seq(Entries) /\ (listings # <<>> => turn \in 1 .. Len(listings))
      /\ asked \in Seq(Asks) /\ Listing /\ spent = Len(asked)
  BY DEF FetchFails, Dispatched, Listing, ExpansionInv, ExpansionState, InListing
<1> DEFINE more == <<NextListing, listings[NextListing].url, Absent, Absent>>
<1>2. /\ asked' = Append(asked, more) /\ spent' = spent + 1 /\ spent < ExpansionRequests
      /\ turn' = (NextListing % Len(listings)) + 1 /\ UNCHANGED <<request, selection, listings>>
      /\ expansion' = Failure(listings[NextListing].organization, cause, delay)
  BY DEF FetchFails, Dispatched, Listing
<1>3. /\ asked' \in Seq(Asks)
      /\ \A i \in DOMAIN listings : \A k \in AskedOf(i)' :
           asked'[k][2] = Cardinality({l \in AskedOf(i)' : l <= k})
  BY <1>1, <1>2, PagesGoOn
<1>4. more \in Asks /\ more[1] = NextListing
  <2>1. PICK x \in DOMAIN listings : x = NextListing BY <1>1, NextIsFirstOpen DEF Listing
  <2>2. listings[x] \in Entries /\ x \in Nat BY <1>1
  <2> QED BY <2>1, <2>2 DEF Asks, Entries
<1>5. turn' \in 1 .. Len(listings)
      /\ \A i, j \in DOMAIN listings : Open(i) => RoundsOf(j)' <= RoundsOf(i)' /\ Asked(j)' <= Asked(i)' + 1
  <2> HIDE DEF more
  <2> QED BY <1>1, <1>2, <1>4, RoundGoesOn
<1>6. spent' = Len(asked') /\ spent' <= ExpansionRequests
  <2> HIDE DEF more
  <2>1. Len(asked') = Len(asked) + 1 BY <1>1, <1>2, <1>4, AskedOneMore
  <2> QED BY <1>1, <1>2, <2>1, ExpansionAssumption
<1>7. expansion' # Absent /\ expansion'.kind = "failed"
  <2>1. "kind" \in DOMAIN expansion' /\ expansion'.kind = "failed" BY <1>2 DEF Failure
  <2> QED BY <2>1 DEF AbsentIsNothing
<1>8. \A i : Open(i)' = Open(i) BY <1>2 DEF Open
<1> HIDE DEF more
<1>9. ExpansionState'
  BY <1>1, <1>2, <1>3, <1>6, <1>7 DEF ExpansionInv, ExpansionState, InListing
<1>10. PagesInOrder' /\ RoundsFair'
  BY <1>2, <1>3, <1>5, <1>7, <1>8 DEF PagesInOrder, RoundsFair, InListing
<1>11. LinksKept' /\ SelectionSound' /\ ExpansionKept'
  BY <1>1, <1>2, <1>7 DEF LinksKept, Unfailed, SelectionSound, ExpansionKept, Expanded, InListing
<1> QED BY <1>9, <1>10, <1>11 DEF ExpansionInv

\* A page that is read adds to its list, and ends it or offers the next.
LEMMA PageKept ==
    ASSUME ExpansionInv, AbsentIsNothing, NEW body \in Bodies, NEW link \in Links, Dispatched(body, link),
           DecodeListingPage(listings[NextListing].organization, body),
           Offered(link) => Followable(link, listings[NextListing]),
           listings' = [listings EXCEPT ![NextListing] = ListedPage(listings[NextListing], body, link)],
           UNCHANGED expansion
    PROVE  ExpansionInv'
<1>1. /\ InListing /\ listings \in Seq(Entries) /\ (listings # <<>> => turn \in 1 .. Len(listings))
      /\ asked \in Seq(Asks) /\ Listing /\ spent = Len(asked) /\ spent < ExpansionRequests
      /\ request \in Requests /\ request # Absent /\ NextListing # 0
  BY DEF Dispatched, Listing, ExpansionInv, ExpansionState, InListing
<1>2. PICK x \in DOMAIN listings : x = NextListing /\ Open(x) BY <1>1, NextIsFirstOpen
<1> DEFINE more == <<x, listings[x].url, body, link>>
           n == Len(asked) + 1
<1>3. /\ asked' = Append(asked, more) /\ spent' = spent + 1
      /\ turn' = (NextListing % Len(listings)) + 1 /\ UNCHANGED <<request, selection>>
  BY <1>2 DEF Dispatched
<1>4. /\ asked' \in Seq(Asks)
      /\ \A i \in DOMAIN listings : \A k \in AskedOf(i)' :
           asked'[k][2] = Cardinality({l \in AskedOf(i)' : l <= k})
  BY <1>1, <1>2, <1>3, PagesGoOn
<1>5. listings[x] \in Entries /\ x \in Nat BY <1>1, <1>2
<1>6. more \in Asks /\ more[1] = x /\ more[1] = NextListing /\ more[4] = link
  BY <1>2, <1>5 DEF Asks, Entries
<1>7. ListedPage(listings[x], body, link) \in Entries
      /\ ListedPage(listings[x], body, link).page = listings[x].page + 1
      /\ ListedPage(listings[x], body, link).url = IF link = Absent THEN Absent ELSE listings[x].page + 1
  <2>1. RecordsOf(body) \subseteq Listed BY DEF DecodeListingPage, Listed
  <2>2. link # Absent => link.page = listings[x].page + 1 BY <1>2 DEF Offered, Followable
  <2>3. listings[x].page + 1 \in Nat BY <1>5 DEF Entries
  <2> QED BY <1>5, <2>1, <2>2, <2>3 DEF ListedPage, Offered, Entries
<1>8. /\ listings' \in Seq(Entries) /\ Len(listings') = Len(listings) /\ DOMAIN listings' = DOMAIN listings
      /\ \A i \in DOMAIN listings :
           listings'[i] = IF i = x THEN ListedPage(listings[x], body, link) ELSE listings[i]
  BY <1>1, <1>2, <1>7
<1> HIDE DEF more
<1>9. turn' \in 1 .. Len(listings)
      /\ \A i, j \in DOMAIN listings : Open(i) => RoundsOf(j)' <= RoundsOf(i)' /\ Asked(j)' <= Asked(i)' + 1
  BY <1>1, <1>3, <1>6, RoundGoesOn
<1>10. /\ Len(asked') = n /\ asked'[n] = more
       /\ \A k \in 1 .. Len(asked) : asked'[k] = asked[k]
       /\ \A i : /\ AskedOf(i) \subseteq 1 .. Len(asked)
                 /\ AskedOf(i)' = IF i = x THEN AskedOf(i) \cup {n} ELSE AskedOf(i)
                 /\ Asked(i) \in Nat
                 /\ Asked(i)' = IF i = x THEN Asked(i) + 1 ELSE Asked(i)
  BY <1>1, <1>3, <1>6, AskedOneMore
<1>11. /\ \A i \in DOMAIN listings : i # x => (Open(i)' <=> Open(i))
       /\ Open(x)' <=> link # Absent
  BY <1>2, <1>5, <1>7, <1>8, ExpansionAssumption DEF Open, Entries
<1>12. ExpansionState'
  <2>1. spent' = Len(asked') /\ spent' <= ExpansionRequests BY <1>1, <1>3, <1>10, ExpansionAssumption
  <2> QED BY <1>1, <1>3, <1>4, <1>8, <1>9, <2>1 DEF ExpansionState
<1>13. PagesInOrder'
  <2>1. ASSUME NEW i \in DOMAIN listings
        PROVE  listings'[i].page = Asked(i)' + 1 /\ (Open(i)' => listings'[i].url = listings'[i].page)
    <3>1. listings[i].page = Asked(i) + 1 /\ (Open(i) => listings[i].url = listings[i].page)
      BY <1>1 DEF ExpansionInv, PagesInOrder
    <3>2. CASE i = x BY <1>7, <1>8, <1>10, <1>11, <3>1, <3>2
    <3>3. CASE i # x BY <1>8, <1>10, <1>11, <2>1, <3>1, <3>3
    <3> QED BY <3>2, <3>3
  <2> QED BY <1>4, <1>8, <2>1 DEF PagesInOrder
<1>14. RoundsFair'
  BY <1>2, <1>8, <1>9, <1>11 DEF RoundsFair
<1>15. LinksKept'
  <2>1. ASSUME NEW i \in DOMAIN listings
        PROVE  Open(i)' <=> \A k \in AskedOf(i)' : (\A l \in AskedOf(i)' : l <= k) => asked'[k][4] # Absent
    <3>1. CASE i = x
      <4>1. AskedOf(i)' = AskedOf(i) \cup {n} /\ asked'[n][4] = link BY <1>6, <1>10, <3>1
      <4>2. ASSUME NEW k \in AskedOf(i)' PROVE (\A l \in AskedOf(i)' : l <= k) <=> k = n
        <5>1. Len(asked) \in Nat /\ AskedOf(i) \subseteq 1 .. Len(asked) BY <1>1, <1>10
        <5>2. \A l \in AskedOf(i)' : l \in 1 .. n
          <6>1. ASSUME NEW l \in AskedOf(i)' PROVE l \in 1 .. n
            <7>1. l = n \/ l \in 1 .. Len(asked) BY <4>1, <5>1, <6>1
            <7> QED BY <5>1, <7>1
          <6> QED BY <6>1
        <5>3. n \in AskedOf(i)' /\ n \in Nat BY <4>1, <5>1
        <5> QED BY <4>2, <5>2, <5>3
      <4> QED BY <1>11, <3>1, <4>1, <4>2
    <3>2. CASE i # x
      <4>1. AskedOf(i)' = AskedOf(i) /\ \A k \in AskedOf(i) : asked'[k] = asked[k] BY <1>10, <3>2
      <4>2. Open(i) <=> \A k \in AskedOf(i) : (\A l \in AskedOf(i) : l <= k) => asked[k][4] # Absent
        BY <1>1, <2>1 DEF ExpansionInv, LinksKept, Unfailed, InListing
      <4> QED BY <1>11, <2>1, <3>2, <4>1, <4>2
    <3> QED BY <3>1, <3>2
  <2> QED BY <1>8, <2>1 DEF LinksKept
<1>16. SelectionSound' /\ ExpansionKept'
  BY <1>1, <1>3 DEF SelectionSound, ExpansionKept, Expanded, InListing
<1> QED BY <1>12, <1>13, <1>14, <1>15, <1>16 DEF ExpansionInv

\* The exact Scopes of a request fit its limits.
LEMMA ExactIsSound ==
    ASSUME NEW r \in Requests
    PROVE  ScopesSound(r.exact, [k \in DOMAIN r.exact |-> [exact |-> TRUE, selector |-> Absent]], r.exact)
<1> DEFINE exact == r.exact
           origins == [k \in DOMAIN exact |-> [exact |-> TRUE, selector |-> Absent]]
<1>1. /\ exact \in Seq(ToSet(exact)) /\ Cardinality(ToSet(exact)) = Len(exact) /\ Len(exact) <= MaxScopes
      /\ Cardinality({scope.repository : scope \in ToSet(exact)}) <= MaxSelectedRepositories
  BY ExpansionAssumption
<1>2. Referenced(exact) = {scope.repository : scope \in ToSet(exact)} BY DEF Referenced, ToSet
<1> HIDE DEF exact
<1>3. /\ DOMAIN exact = 1 .. Len(exact) /\ Len(exact) \in Nat
  BY <1>1
<1>4. origins \in Seq(ToSet(origins)) /\ Len(origins) = Len(exact)
  <2> DEFINE origin == [exact |-> TRUE, selector |-> Absent]
  <2>1. origins = [k \in 1 .. Len(exact) |-> origin] BY <1>3
  <2> HIDE DEF origins, origin
  <2>2. DOMAIN origins = 1 .. Len(exact) /\ \A k \in 1 .. Len(exact) : origins[k] \in ToSet(origins)
    BY <2>1 DEF ToSet
  <2>3. origins = [k \in 1 .. Len(exact) |-> origins[k]] BY <2>1
  <2> QED BY <1>3, <2>2, <2>3
<1>5. IsPrefix(exact, exact) BY <1>3 DEF IsPrefix
<1>6. \A k \in DOMAIN origins : /\ DOMAIN origins[k] = {"exact", "selector"}
                                /\ origins[k].exact <=> k <= Len(exact)
  BY <1>3
<1> HIDE DEF origins
<1>7. ScopesSound(exact, origins, exact) BY <1>1, <1>2, <1>4, <1>5, <1>6 DEF ScopesSound
<1> QED BY <1>7 DEF exact, origins

\* A new Scope with room for it keeps the limits.
LEMMA ScopeAdded ==
    ASSUME NEW list, NEW origins, NEW exact, exact \in Seq(ToSet(exact)), ScopesSound(list, origins, exact),
           NEW scope, scope \notin ToSet(list), Len(list) < MaxScopes,
           \/ scope.repository \in Referenced(list)
           \/ Cardinality(Referenced(list)) < MaxSelectedRepositories,
           NEW selector
    PROVE  ScopesSound(Append(list, scope), Append(origins, [exact |-> FALSE, selector |-> selector]), exact)
<1> DEFINE more == Append(list, scope)
           origin == [exact |-> FALSE, selector |-> selector]
           marked == Append(origins, origin)
<1>1. /\ list \in Seq(ToSet(list)) /\ origins \in Seq(ToSet(origins)) /\ Len(origins) = Len(list)
      /\ \A k \in DOMAIN origins : /\ DOMAIN origins[k] = {"exact", "selector"}
                                   /\ origins[k].exact <=> k <= Len(exact)
      /\ IsPrefix(exact, list) /\ Cardinality(ToSet(list)) = Len(list)
      /\ Cardinality(Referenced(list)) <= MaxSelectedRepositories
  BY DEF ScopesSound
<1>2. Len(list) \in Nat /\ Len(exact) \in Nat /\ Len(exact) <= Len(list) /\ MaxSelectedRepositories \in Nat
      /\ MaxScopes \in Nat
  BY <1>1, ExpansionAssumption DEF IsPrefix
<1>3. /\ DOMAIN more = 1 .. Len(list) + 1 /\ Len(more) = Len(list) + 1 /\ more[Len(list) + 1] = scope
      /\ \A k \in 1 .. Len(list) : more[k] = list[k]
      /\ DOMAIN list = 1 .. Len(list) /\ more \in Seq(ToSet(list) \cup {scope})
  BY <1>1
<1>4. /\ DOMAIN marked = 1 .. Len(list) + 1 /\ Len(marked) = Len(list) + 1 /\ marked[Len(list) + 1] = origin
      /\ \A k \in 1 .. Len(list) : marked[k] = origins[k]
      /\ DOMAIN origins = 1 .. Len(list) /\ marked \in Seq(ToSet(origins) \cup {origin})
      /\ origin.exact = FALSE /\ DOMAIN origin = {"exact", "selector"}
  BY <1>1
<1> HIDE DEF more, marked, origin
<1>5. ToSet(more) = ToSet(list) \cup {scope} /\ Referenced(more) = Referenced(list) \cup {scope.repository}
  <2>1. ToSet(more) = ToSet(list) \cup {scope} BY <1>2, <1>3 DEF ToSet
  <2>2. Referenced(more) = Referenced(list) \cup {scope.repository}
    <3>1. Len(list) + 1 \in DOMAIN more /\ DOMAIN more = DOMAIN list \cup {Len(list) + 1}
      BY <1>2, <1>3
    <3> QED BY <1>3, <3>1 DEF Referenced
  <2> QED BY <2>1, <2>2
<1>6. ToSet(marked) = ToSet(origins) \cup {origin} BY <1>2, <1>4 DEF ToSet
<1>7. IsFiniteSet(ToSet(list)) /\ IsFiniteSet(Referenced(list))
  <2>1. IsFiniteSet(1 .. Len(list)) BY <1>2, FS_Interval
  <2>2. /\ ToSet(list) = {list[k] : k \in 1 .. Len(list)}
        /\ Referenced(list) = {list[k].repository : k \in 1 .. Len(list)}
    BY <1>3 DEF ToSet, Referenced
  <2> DEFINE F == [k \in 1 .. Len(list) |-> list[k]]
             G == [k \in 1 .. Len(list) |-> list[k].repository]
  <2>3. ToSet(list) = {F[k] : k \in 1 .. Len(list)} /\ Referenced(list) = {G[k] : k \in 1 .. Len(list)}
    BY <2>2
  <2>4. F \in [1 .. Len(list) -> ToSet(list)] /\ G \in [1 .. Len(list) -> Referenced(list)] BY <2>2
  <2>5. F \in Surjection(1 .. Len(list), ToSet(list)) /\ G \in Surjection(1 .. Len(list), Referenced(list))
    BY <2>2, <2>4 DEF Surjection
  <2> QED BY <2>1, <2>5, FS_Surjection
<1>8. Cardinality(ToSet(more)) = Len(more)
  BY <1>1, <1>3, <1>5, <1>7, FS_AddElement
<1>9. Cardinality(Referenced(more)) <= MaxSelectedRepositories
  <2>1. CASE scope.repository \in Referenced(list)
    <3>1. Referenced(more) = Referenced(list) BY <1>5, <2>1
    <3> QED BY <1>1, <3>1
  <2>2. CASE scope.repository \notin Referenced(list)
    <3>1. Cardinality(Referenced(more)) = Cardinality(Referenced(list)) + 1 BY <1>5, <1>7, <2>2, FS_AddElement
    <3>2. Cardinality(Referenced(list)) \in Nat BY <1>7, FS_CardinalityType
    <3> QED BY <1>2, <2>2, <3>1, <3>2
  <2> QED BY <2>1, <2>2
<1>10. IsPrefix(exact, more)
  <2>1. SubSeq(exact, 1, Len(exact)) = SubSeq(list, 1, Len(exact)) BY <1>1 DEF IsPrefix
  <2>2. SubSeq(more, 1, Len(exact)) = SubSeq(list, 1, Len(exact)) BY <1>2, <1>3
  <2> QED BY <1>2, <1>3, <2>1, <2>2 DEF IsPrefix
<1>11. ASSUME NEW k \in DOMAIN marked
       PROVE  DOMAIN marked[k] = {"exact", "selector"} /\ (marked[k].exact <=> k <= Len(exact))
  <2>1. CASE k = Len(list) + 1 BY <1>2, <1>4, <2>1
  <2>2. CASE k # Len(list) + 1 BY <1>1, <1>2, <1>4, <1>11, <2>2
  <2> QED BY <2>1, <2>2
<1>12. ScopesSound(more, marked, exact)
  BY <1>2, <1>3, <1>4, <1>5, <1>6, <1>8, <1>9, <1>10, <1>11 DEF ScopesSound
<1> QED BY <1>12 DEF more, marked, origin

\* An existing Scope may gain the selector that reached it.
LEMMA OriginMarked ==
    ASSUME NEW list, NEW origins, NEW exact, ScopesSound(list, origins, exact),
           NEW marked, marked = [k \in DOMAIN origins |-> marked[k]],
           \A k \in DOMAIN origins :
             DOMAIN marked[k] = DOMAIN origins[k] /\ marked[k].exact = origins[k].exact
    PROVE  ScopesSound(list, marked, exact)
<1>1. /\ origins \in Seq(ToSet(origins)) /\ Len(origins) = Len(list)
      /\ \A k \in DOMAIN origins : /\ DOMAIN origins[k] = {"exact", "selector"}
                                   /\ origins[k].exact <=> k <= Len(exact)
  BY DEF ScopesSound
<1>2. DOMAIN marked = 1 .. Len(origins) /\ Len(origins) \in Nat /\ DOMAIN origins = 1 .. Len(origins)
  BY <1>1
<1>3. marked \in Seq(ToSet(marked)) /\ Len(marked) = Len(origins)
  <2>1. \A k \in 1 .. Len(origins) : marked[k] \in ToSet(marked) BY <1>2 DEF ToSet
  <2> QED BY <1>2, <2>1
<1> QED BY <1>1, <1>2, <1>3 DEF ScopesSound

\* Examining a candidate keeps the selection sound.
LEMMA AdmittedSound ==
    ASSUME ExpansionInv, selection # Absent, NEW i, NEW repository
    PROVE  /\ DOMAIN Admitted(i, repository) = {"scopes", "provenance", "retained", "omitted"}
           /\ ScopesSound(Admitted(i, repository).scopes, Admitted(i, repository).provenance, request.exact)
<1> DEFINE scope == RepositoryScope(repository)
           Reached(k) == selection.scopes[k] = scope /\ selection.provenance[k].selector = Absent
           organization == listings[i].organization
           kept == [selection EXCEPT !.retained[i] = @ + 1]
<1>1. /\ DOMAIN selection = {"scopes", "provenance", "retained", "omitted"}
      /\ ScopesSound(selection.scopes, selection.provenance, request.exact)
      /\ request.exact \in Seq(ToSet(request.exact))
  BY ExpansionAssumption DEF ExpansionInv, SelectionSound, ExpansionState
<1>2. /\ DOMAIN kept = DOMAIN selection
      /\ kept.scopes = selection.scopes /\ kept.provenance = selection.provenance
  BY <1>1
<1> HIDE DEF kept
<1>3. CASE scope \in Range(selection.scopes)
  <2> DEFINE marked == [k \in DOMAIN selection.provenance |->
                IF Reached(k) THEN [selection.provenance[k] EXCEPT !.selector = organization]
                              ELSE selection.provenance[k]]
  <2>1. Admitted(i, repository) = [kept EXCEPT !.provenance = marked]
    BY <1>2, <1>3 DEF Admitted, kept
  <2>2. ScopesSound(selection.scopes, marked, request.exact)
    <3>1. marked = [k \in DOMAIN selection.provenance |-> marked[k]] OBVIOUS
    <3>2. \A k \in DOMAIN selection.provenance : DOMAIN selection.provenance[k] = {"exact", "selector"}
      BY <1>1 DEF ScopesSound
    <3>3. ASSUME NEW k \in DOMAIN selection.provenance
          PROVE  /\ DOMAIN marked[k] = DOMAIN selection.provenance[k]
                 /\ marked[k].exact = selection.provenance[k].exact
      <4> HIDE DEF Reached, organization
      <4> QED BY <3>2, <3>3
    <3> HIDE DEF marked
    <3> QED BY <1>1, <3>1, <3>3, OriginMarked
  <2> HIDE DEF marked
  <2> QED BY <1>1, <1>2, <2>1, <2>2
<1>4. CASE scope \notin Range(selection.scopes) /\ HasRoom(repository)
  <2> DEFINE origin == [exact |-> FALSE, selector |-> organization]
             more == Append(selection.scopes, scope)
             marked == Append(selection.provenance, origin)
  <2>1. Admitted(i, repository) = [kept EXCEPT !.scopes = more, !.provenance = marked]
    BY <1>2, <1>4 DEF Admitted, kept
  <2>2. scope.repository = repository /\ scope \notin ToSet(selection.scopes)
    BY <1>4 DEF RepositoryScope, Range, ToSet
  <2>3. ScopesSound(more, marked, request.exact)
    <3> HIDE DEF scope
    <3> QED BY <1>1, <1>4, <2>2, ScopeAdded DEF HasRoom
  <2> HIDE DEF more, marked
  <2> QED BY <1>1, <1>2, <2>1, <2>3
<1>5. CASE scope \notin Range(selection.scopes) /\ ~HasRoom(repository)
  <2>1. Admitted(i, repository) = [selection EXCEPT !.omitted[i] = @ + 1]
    BY <1>5 DEF Admitted
  <2> QED BY <1>1, <2>1
<1> QED BY <1>3, <1>4, <1>5

\* What was listed and asked stays as it is once the listing ends.
LEMMA ListsStay ==
    ASSUME ExpansionInv, request # Absent, UNCHANGED <<request, listings, spent, asked>>,
           ~InListing', Unfailed' => Unfailed
    PROVE  (ExpansionState /\ PagesInOrder /\ RoundsFair /\ LinksKept)'
<1>1. /\ \A i : AskedOf(i)' = AskedOf(i) /\ Asked(i)' = Asked(i) /\ (Open(i)' <=> Open(i))
      /\ listings' = listings /\ asked' = asked /\ request' = request /\ spent' = spent
  BY DEF AskedOf, Asked, Open
<1>2. ExpansionState' BY <1>1 DEF ExpansionInv, ExpansionState
<1>3. PagesInOrder' BY <1>1 DEF ExpansionInv, PagesInOrder
<1>4. RoundsFair' BY <1>1 DEF ExpansionInv, RoundsFair
<1>5. LinksKept' BY <1>1 DEF ExpansionInv, LinksKept
<1> QED BY <1>2, <1>3, <1>4, <1>5

\* Allocation begins with the exact Scopes.
LEMMA BeginningOfAllocationKept ==
    ASSUME ExpansionInv, AbsentIsNothing, BeginAllocation
    PROVE  ExpansionInv'
<1>1. /\ request \in Requests /\ request # Absent /\ expansion = Absent /\ selection = Absent
      /\ UNCHANGED <<request, listings, spent, expansion, asked>>
  BY DEF BeginAllocation, ExpansionInv, ExpansionState
<1>2. /\ DOMAIN selection' = {"scopes", "provenance", "retained", "omitted"}
      /\ selection'.scopes = request.exact
      /\ selection'.provenance = [k \in DOMAIN request.exact |-> [exact |-> TRUE, selector |-> Absent]]
  BY DEF BeginAllocation
<1>3. selection' # Absent BY <1>2 DEF AbsentIsNothing
<1>4. SelectionSound'
  <2>1. ScopesSound(request.exact, selection'.provenance, request.exact) BY <1>1, <1>2, ExactIsSound
  <2> QED BY <1>1, <1>2, <2>1 DEF SelectionSound
<1>5. (ExpansionState /\ PagesInOrder /\ RoundsFair /\ LinksKept /\ ExpansionKept)'
  <2>1. ~InListing' /\ (Unfailed' => Unfailed) BY <1>1, <1>3 DEF InListing, Unfailed
  <2> QED BY <1>1, <2>1, ListsStay DEF ExpansionKept, Expanded
<1> QED BY <1>4, <1>5 DEF ExpansionInv

\* A candidate is retained or omitted.
LEMMA AllocationKept ==
    ASSUME ExpansionInv, AbsentIsNothing, Allocate
    PROVE  ExpansionInv'
<1>1. /\ request \in Requests /\ request # Absent /\ expansion = Absent /\ selection # Absent
      /\ UNCHANGED <<request, listings, spent, expansion, asked>>
      /\ \E i, repository : selection' = Admitted(i, repository)
  BY DEF Allocate, ExpansionInv, ExpansionState, SelectionSound
<1>2. PICK i, repository : selection' = Admitted(i, repository) BY <1>1
<1>3. /\ DOMAIN selection' = {"scopes", "provenance", "retained", "omitted"}
      /\ ScopesSound(selection'.scopes, selection'.provenance, request.exact)
  BY <1>1, <1>2, AdmittedSound
<1>4. selection' # Absent BY <1>3 DEF AbsentIsNothing
<1>5. SelectionSound' BY <1>1, <1>3 DEF SelectionSound
<1>6. (ExpansionState /\ PagesInOrder /\ RoundsFair /\ LinksKept /\ ExpansionKept)'
  <2>1. ~InListing' /\ (Unfailed' => Unfailed) BY <1>1, <1>4 DEF InListing, Unfailed
  <2> QED BY <1>1, <2>1, ListsStay DEF ExpansionKept, Expanded
<1> QED BY <1>5, <1>6 DEF ExpansionInv

\* What is published is the selection, and whether each list is open.
LEMMA PublicationKept ==
    ASSUME ExpansionInv, AbsentIsNothing, Publish
    PROVE  ExpansionInv'
<1>1. /\ request \in Requests /\ request # Absent /\ expansion = Absent /\ selection # Absent
      /\ UNCHANGED <<request, listings, turn, spent, selection, asked>>
  BY DEF Publish, ExpansionInv, ExpansionState, SelectionSound
<1>2. /\ expansion'.kind = "done" /\ "kind" \in DOMAIN expansion'
      /\ expansion'.scopes = selection.scopes /\ expansion'.provenance = selection.provenance
      /\ expansion'.selectors = [i \in DOMAIN listings |-> Report(i)]
      /\ expansion'.remains = \E i \in DOMAIN listings : Open(i)
  BY DEF Publish, Open
<1>3. expansion' # Absent BY <1>2 DEF AbsentIsNothing
<1>4. ExpansionKept'
  <2>1. ASSUME NEW i \in DOMAIN listings
        PROVE  expansion'.selectors[i].hasMore = Open(i) /\ (Open(i) => expansion'.remains)
    <3>1. Report(i).hasMore = Open(i) BY DEF Report, Open
    <3> HIDE DEF Open
    <3> QED BY <1>2, <2>1, <3>1
  <2>2. ScopesSound(expansion'.scopes, expansion'.provenance, request.exact)
    BY <1>1, <1>2 DEF ExpansionInv, SelectionSound
  <2>3. \A i : Open(i)' = Open(i) BY <1>1 DEF Open
  <2> QED BY <1>1, <2>1, <2>2, <2>3 DEF ExpansionKept
<1>5. (ExpansionState /\ PagesInOrder /\ RoundsFair /\ LinksKept /\ SelectionSound)'
  <2>1. ~InListing' /\ (Unfailed' => Unfailed) BY <1>1, <1>3 DEF InListing, Unfailed
  <2>2. SelectionSound' BY <1>1 DEF ExpansionInv, SelectionSound
  <2> QED BY <1>1, <2>1, <2>2, ListsStay
<1> QED BY <1>4, <1>5 DEF ExpansionInv

\* A listing page is read, or fails.
LEMMA FetchKept ==
    ASSUME ExpansionInv, AbsentIsNothing, ListingBreaksOff \/ ListingRefused \/ FetchListingPage
    PROVE  ExpansionInv'
<1>1. CASE ListingBreaksOff BY <1>1, FailureKept DEF ListingBreaksOff
<1>2. CASE ListingRefused BY <1>2, FailureKept DEF ListingRefused
<1>3. CASE FetchListingPage
  <2>1. PICK body \in Bodies, link \in Links :
           \/ \E cause : FetchFails(cause, Seconds(DefaultInterval))
           \/ /\ DecodeListingPage(listings[NextListing].organization, body)
              /\ Offered(link) => Followable(link, listings[NextListing])
              /\ Dispatched(body, link)
              /\ listings' = [listings EXCEPT ![NextListing] = ListedPage(listings[NextListing], body, link)]
              /\ UNCHANGED expansion
    <3> HIDE DEF NextListing
    <3> QED BY <1>3 DEF FetchListingPage
  <2>2. CASE \E cause : FetchFails(cause, Seconds(DefaultInterval)) BY <2>2, FailureKept
  <2>3. CASE ~ \E cause : FetchFails(cause, Seconds(DefaultInterval))
    BY <2>1, <2>3, PageKept
  <2> QED BY <2>2, <2>3
<1> QED BY <1>1, <1>2, <1>3

\* Every step of an expansion keeps its invariant.
LEMMA ExpansionStepKept ==
    ASSUME ExpansionInv, AbsentIsNothing, [ExpansionNext]_expansionVars
    PROVE  ExpansionInv'
<1>1. CASE \E r \in Requests : Expand(r) BY <1>1, ExpandKept
<1>2. CASE ListingBreaksOff \/ ListingRefused \/ FetchListingPage BY <1>2, FetchKept
<1>3. CASE BeginAllocation BY <1>3, BeginningOfAllocationKept
<1>4. CASE Allocate BY <1>4, AllocationKept
<1>5. CASE Publish BY <1>5, PublicationKept
<1>6. CASE UNCHANGED expansionVars
  <2>1. UNCHANGED <<request, listings, turn, spent, selection, expansion, asked>> BY <1>6 DEF expansionVars
  <2>2. \A i : AskedOf(i)' = AskedOf(i) /\ Asked(i)' = Asked(i) /\ (Open(i)' <=> Open(i))
                /\ RoundsOf(i)' = RoundsOf(i)
    BY <2>1 DEF AskedOf, Asked, Open, RoundsOf
  <2>3. ExpansionState' /\ SelectionSound' /\ (Unfailed' <=> Unfailed) /\ (InListing' <=> InListing)
    BY <2>1 DEF ExpansionInv, ExpansionState, SelectionSound, InListing, Unfailed
  <2>4. PagesInOrder' BY <2>1, <2>2, <2>3 DEF ExpansionInv, PagesInOrder
  <2>5. RoundsFair' BY <2>1, <2>2, <2>3 DEF ExpansionInv, RoundsFair
  <2>6. LinksKept' BY <2>1, <2>2, <2>3 DEF ExpansionInv, LinksKept
  <2>7. ExpansionKept' BY <2>1, <2>2 DEF ExpansionInv, ExpansionKept, Expanded
  <2> QED BY <2>3, <2>4, <2>5, <2>6, <2>7 DEF ExpansionInv
<1> QED BY <1>1, <1>2, <1>3, <1>4, <1>5, <1>6 DEF ExpansionNext

\* The invariant of an expansion, from any request and whatever the API answers.
THEOREM ExpansionInvariance == AbsentIsNothing => (ExpansionSpec => []ExpansionInv)
<1> SUFFICES ASSUME AbsentIsNothing PROVE ExpansionSpec => []ExpansionInv OBVIOUS
<1>1. ExpansionInit => ExpansionInv BY ExpansionBegins
<1>2. ExpansionInv /\ [ExpansionNext]_expansionVars => ExpansionInv' BY ExpansionStepKept
<1> QED BY <1>1, <1>2, PTL DEF ExpansionSpec

\* One budget pays for every dispatch, a failed page too; a selector's pages are asked once
\* each and in order; and while a list is open no other selector gets two pages ahead of it
\* (expand.go list).
THEOREM ListingSafe == AbsentIsNothing => (ExpansionSpec => []ListingIsFair)
<1> SUFFICES ASSUME AbsentIsNothing PROVE ExpansionSpec => []ListingIsFair OBVIOUS
<1>1. ExpansionInv => ListingIsFair
  BY DEF ExpansionInv, ExpansionState, PagesInOrder, RoundsFair, Open, Asked, ListingIsFair
<1> QED BY <1>1, ExpansionInvariance, PTL

\* Whether more exists is disclosed exactly (expand_allocate.go HasMore).
THEOREM MoreSafe == AbsentIsNothing => (ExpansionSpec => []MoreIsDisclosed)
<1> SUFFICES ASSUME AbsentIsNothing PROVE ExpansionSpec => []MoreIsDisclosed OBVIOUS
<1>1. ASSUME ExpansionInv PROVE MoreIsDisclosed
  <2>1. SUFFICES ASSUME Expanded, NEW i \in DOMAIN listings
                 PROVE  LET more == \A k \in AskedOf(i) :
                                      (\A l \in AskedOf(i) : l <= k) => asked[k][4] # Absent
                        IN expansion.selectors[i].hasMore = more /\ (more => expansion.remains)
    BY DEF MoreIsDisclosed
  <2>2. expansion.selectors[i].hasMore = Open(i) /\ (Open(i) => expansion.remains)
    BY <1>1, <2>1 DEF ExpansionInv, ExpansionKept
  <2>3. Open(i) <=> \A k \in AskedOf(i) : (\A l \in AskedOf(i) : l <= k) => asked[k][4] # Absent
    BY <1>1, <2>1 DEF ExpansionInv, LinksKept, Unfailed, Expanded
  <2> QED BY <2>2, <2>3 DEF Open
<1> QED BY <1>1, ExpansionInvariance, PTL

\* The exact Scopes keep their places and their capacity, and what expansion adds neither
\* repeats one nor passes a limit (expand_allocate.go newSelection, admit).
THEOREM PrecedenceSafe == AbsentIsNothing => (ExpansionSpec => []ExactKeepsPrecedence)
<1> SUFFICES ASSUME AbsentIsNothing PROVE ExpansionSpec => []ExactKeepsPrecedence OBVIOUS
<1>1. ASSUME ExpansionInv PROVE ExactKeepsPrecedence
  <2>1. SUFFICES ASSUME Expanded PROVE ExactKeepsPrecedence!2 BY DEF ExactKeepsPrecedence
  <2>2. ScopesSound(expansion.scopes, expansion.provenance, request.exact)
    BY <1>1, <2>1 DEF ExpansionInv, ExpansionKept
  <2>3. DOMAIN expansion.scopes = DOMAIN expansion.provenance BY <2>2 DEF ScopesSound
  <2> QED BY <2>2, <2>3 DEF ScopesSound, Range, ToSet
<1> QED BY <1>1, ExpansionInvariance, PTL
-----------------------------------------------------------------------------
(* What is allocated, and to whom *)

\* The names of what was listed, and of what a page lists.
NamesOf(records) == {record.name : record \in records}
NamesIn(body) == {body[r].name : r \in DOMAIN body}

\* The records of a selector are those of its pages, each repository once, and the
\* selectors are different organizations.
RecordsListed ==
    /\ \A i, j \in DOMAIN listings : listings[i].organization = listings[j].organization => i = j
    /\ \A i \in DOMAIN listings : IsFiniteSet(listings[i].records)
    /\ Unfailed => \A i \in DOMAIN listings :
         /\ ~Conflicts(listings[i].records)
         /\ NamesOf(listings[i].records) = UNION {NamesIn(asked[k][3]) : k \in AskedOf(i)}

\* The turns that were taken.
Examined == {Turns(Queues)[j] : j \in 1 .. turn - 1}

\* The Scope that a turn is about.
ScopeAt == [t \in TurnsOf(Queues) |-> RepositoryScope(Queues[t[2]][t[1]])]

\* Nothing more fits that needs a place of its own.
Full(list) == Len(list) >= MaxScopes \/ Cardinality(Referenced(list)) >= MaxSelectedRepositories

\* Every Scope is exact or had its turn; who had a turn and is missing found no room; and
\* what came after it needed none.
TurnsHonoured(E, scopeAt, list, exact) ==
    /\ \A scope \in ToSet(list) : scope \in ToSet(exact) \/ \E t \in E : scopeAt[t] = scope
    /\ \A t \in E : scopeAt[t] \in ToSet(list) \/ Full(list)
    /\ \A t, u \in E : /\ Earlier(t, u) /\ scopeAt[t] \notin ToSet(list)
                       /\ scopeAt[u] \in ToSet(list) \ ToSet(exact)
                       => scopeAt[u].repository \in Referenced(exact)

\* Each turn taken is counted for its selector, once.
TurnsCounted(i) ==
    /\ selection.retained[i] \in Nat /\ selection.omitted[i] \in Nat
    /\ selection.retained[i] + selection.omitted[i] = Cardinality({t \in Examined : t[2] = i})

\* Where an allocation stands, and what it published.
AllocationSound ==
    /\ selection # Absent =>
         /\ turn \in 1 .. Len(Turns(Queues)) + 1
         /\ DOMAIN selection.retained = DOMAIN listings /\ DOMAIN selection.omitted = DOMAIN listings
         /\ \A i \in DOMAIN listings : TurnsCounted(i)
         /\ TurnsHonoured(Examined, ScopeAt, selection.scopes, request.exact)
    /\ Expanded =>
         /\ selection # Absent /\ turn > Len(Turns(Queues))
         /\ expansion.scopes = selection.scopes
         /\ expansion.selectors = [i \in DOMAIN listings |-> Report(i)]

AllocationInv == ExpansionInv /\ RecordsListed /\ AllocationSound

\* A page's records, and their names.
LEMMA RecordsOfPage ==
    ASSUME NEW body \in Bodies, body # Absent
    PROVE  IsFiniteSet(RecordsOf(body)) /\ NamesOf(RecordsOf(body)) = NamesIn(body)
<1>1. body \in Seq(ToSet(body)) BY ExpansionAssumption
<1>2. PICK n \in Nat : DOMAIN body = 1 .. n BY <1>1
<1> DEFINE f == [k \in DOMAIN body |-> [name |-> body[k].name, facts |-> body[k].facts]]
<1>3. IsFiniteSet(DOMAIN body)
  <2>1. 1 \in Int /\ n \in Int OBVIOUS
  <2> QED BY <1>2, <2>1, FS_Interval
<1>4. RecordsOf(body) = {f[k] : k \in DOMAIN body} BY DEF RecordsOf
<1>5. DOMAIN f = DOMAIN body OBVIOUS
<1>6. NamesOf(RecordsOf(body)) = NamesIn(body)
  <2>1. \A k \in DOMAIN body : f[k].name = body[k].name OBVIOUS
  <2> HIDE DEF f
  <2>2. NamesOf(RecordsOf(body)) = {f[k].name : k \in DOMAIN body} BY <1>4 DEF NamesOf
  <2> QED BY <2>1, <2>2 DEF NamesIn
<1> HIDE DEF f
<1>7. IsFiniteSet(RecordsOf(body)) BY <1>3, <1>4, <1>5, ValuesAreFinite
<1> QED BY <1>6, <1>7

\* A request's selectors are different organizations.
LEMMA SelectorsDiffer ==
    ASSUME NEW r \in Requests, Selectable(r.organizations),
           NEW i \in DOMAIN r.organizations, NEW j \in DOMAIN r.organizations,
           r.organizations[i] = r.organizations[j]
    PROVE  i = j
<1> DEFINE keys == r.organizations
           T == {keys[k] : k \in DOMAIN keys}
           f == [k \in DOMAIN keys |-> keys[k]]
<1>1. keys \in Seq(ToSet(keys)) BY ExpansionAssumption
<1>2. PICK n \in Nat : DOMAIN keys = 1 .. n /\ Len(keys) = n BY <1>1
<1>3. Cardinality(T) = n
  <2>1. Range(keys) = T BY DEF Range
  <2> QED BY <1>2, <2>1 DEF Selectable
<1>4. IsFiniteSet(1 .. n) /\ Cardinality(1 .. n) = n
  <2>1. 1 \in Int /\ n \in Int OBVIOUS
  <2>2. IsFiniteSet(1 .. n) /\ Cardinality(1 .. n) = IF 1 > n THEN 0 ELSE n - 1 + 1 BY <2>1, FS_Interval
  <2> QED BY <2>2
<1>5. f \in Surjection(1 .. n, T) BY <1>2 DEF Surjection
<1>6. f[i] = f[j] OBVIOUS
<1> HIDE DEF f, T
<1>7. f \in Injection(1 .. n, T) BY <1>3, <1>4, <1>5, FS_Surjection
<1>8. i \in 1 .. n /\ j \in 1 .. n BY <1>2
<1> QED BY <1>6, <1>7, <1>8 DEF Injection, IsInjective

\* Nothing is listed yet.
LEMMA ListingBegins ==
    ASSUME ExpansionInit
    PROVE  RecordsListed
<1>1. DOMAIN listings = {} BY DEF ExpansionInit
<1> QED BY <1>1 DEF RecordsListed

LEMMA ExpandListsNothing ==
    ASSUME ExpansionInv, AbsentIsNothing, NEW r \in Requests, Expand(r)
    PROVE  RecordsListed'
<1>1. request = Absent /\ listings = <<>> /\ asked = <<>> /\ asked' = asked
  BY DEF Expand, ExpansionInv, ExpansionState
<1>2. \A i : AskedOf(i)' = {} BY <1>1 DEF AskedOf
<1>3. CASE Selectable(r.organizations)
  <2>1. listings' = [i \in DOMAIN r.organizations |-> NewListing(r.organizations[i])] BY <1>3 DEF Expand
  <2>2. DOMAIN listings' = DOMAIN r.organizations BY <2>1
  <2>3. \A i \in DOMAIN listings' : listings'[i].organization = r.organizations[i] /\ listings'[i].records = {}
    BY <2>1 DEF NewListing
  <2>4. IsFiniteSet({}) BY FS_EmptySet
  <2>5. ~Conflicts({}) /\ NamesOf({}) = {} BY DEF Conflicts, NamesOf
  <2>6. ASSUME NEW i \in DOMAIN listings', NEW j \in DOMAIN listings',
               listings'[i].organization = listings'[j].organization
        PROVE  i = j
    BY <1>3, <2>2, <2>3, <2>6, SelectorsDiffer
  <2>7. ASSUME NEW i \in DOMAIN listings'
        PROVE  /\ IsFiniteSet(listings'[i].records) /\ ~Conflicts(listings'[i].records)
               /\ NamesOf(listings'[i].records) = UNION {NamesIn(asked'[k][3]) : k \in AskedOf(i)'}
    BY <1>2, <2>3, <2>4, <2>5, <2>7
  <2> QED BY <2>6, <2>7 DEF RecordsListed
<1>4. CASE ~Selectable(r.organizations)
  <2>1. DOMAIN listings' = {} BY <1>1, <1>4 DEF Expand
  <2> QED BY <2>1 DEF RecordsListed
<1> QED BY <1>3, <1>4

\* What was listed stays once nothing more is asked.
LEMMA RecordsStay ==
    ASSUME RecordsListed, UNCHANGED <<listings, asked>>, Unfailed' => Unfailed
    PROVE  RecordsListed'
<1>1. \A i : AskedOf(i)' = AskedOf(i) BY DEF AskedOf
<1> QED BY <1>1 DEF RecordsListed

LEMMA FailureListsNothing ==
    ASSUME RecordsListed, AbsentIsNothing, NEW cause, NEW delay, FetchFails(cause, delay)
    PROVE  RecordsListed'
<1>1. expansion' = Failure(listings[NextListing].organization, cause, delay) /\ UNCHANGED listings
  BY DEF FetchFails
<1>2. "kind" \in DOMAIN expansion' /\ expansion'.kind = "failed" BY <1>1 DEF Failure
<1>3. ~Unfailed' BY <1>2 DEF AbsentIsNothing, Unfailed
<1> QED BY <1>1, <1>3 DEF RecordsListed

\* A page adds its records, and contradicts none of those before.
LEMMA PageLists ==
    ASSUME ExpansionInv, RecordsListed, AbsentIsNothing,
           NEW body \in Bodies, NEW link \in Links, Dispatched(body, link), body # Absent,
           ~Conflicts(listings[NextListing].records \cup RecordsOf(body)),
           listings' = [listings EXCEPT ![NextListing] = ListedPage(listings[NextListing], body, link)]
    PROVE  RecordsListed'
<1>1. /\ listings \in Seq(Entries) /\ (listings # <<>> => turn \in 1 .. Len(listings))
      /\ asked \in Seq(Asks) /\ NextListing # 0 /\ Unfailed
  BY DEF Dispatched, Listing, ExpansionInv, ExpansionState, InListing, Unfailed
<1>2. PICK x \in DOMAIN listings : x = NextListing BY <1>1, NextIsFirstOpen
<1> DEFINE more == <<x, listings[x].url, body, link>>
           n == Len(asked) + 1
<1>3. asked' = Append(asked, more) BY <1>2 DEF Dispatched
<1>4. listings[x] \in Entries /\ x \in Nat BY <1>1, <1>2
<1>5. more \in Asks /\ more[1] = x /\ more[3] = body
  BY <1>4 DEF Asks, Entries
<1>6. /\ ListedPage(listings[x], body, link).organization = listings[x].organization
      /\ ListedPage(listings[x], body, link).records = listings[x].records \cup RecordsOf(body)
  BY <1>4 DEF ListedPage, Entries
<1>7. /\ DOMAIN listings' = DOMAIN listings
      /\ \A i \in DOMAIN listings :
           listings'[i] = IF i = x THEN ListedPage(listings[x], body, link) ELSE listings[i]
  BY <1>1, <1>2
<1> HIDE DEF more
<1>8. /\ asked'[n] = more
      /\ \A k \in 1 .. Len(asked) : asked'[k] = asked[k]
      /\ \A i : /\ AskedOf(i) \subseteq 1 .. Len(asked)
                /\ AskedOf(i)' = IF i = x THEN AskedOf(i) \cup {n} ELSE AskedOf(i)
  BY <1>1, <1>3, <1>5, AskedOneMore
<1>9. /\ \A i, j \in DOMAIN listings : listings[i].organization = listings[j].organization => i = j
      /\ \A i \in DOMAIN listings :
           /\ IsFiniteSet(listings[i].records) /\ ~Conflicts(listings[i].records)
           /\ NamesOf(listings[i].records) = UNION {NamesIn(asked[k][3]) : k \in AskedOf(i)}
  BY <1>1 DEF RecordsListed
<1>10. IsFiniteSet(RecordsOf(body)) /\ NamesOf(RecordsOf(body)) = NamesIn(body) BY RecordsOfPage
<1>11. \A i \in DOMAIN listings : listings'[i].organization = listings[i].organization BY <1>6, <1>7
<1>12. ASSUME NEW i \in DOMAIN listings
       PROVE  /\ IsFiniteSet(listings'[i].records) /\ ~Conflicts(listings'[i].records)
              /\ NamesOf(listings'[i].records) = UNION {NamesIn(asked'[k][3]) : k \in AskedOf(i)'}
  <2>1. CASE i = x
    <3>1. listings'[i].records = listings[x].records \cup RecordsOf(body) BY <1>6, <1>7, <2>1
    <3>2. IsFiniteSet(listings'[i].records)
      <4>1. IsFiniteSet(listings[x].records) /\ IsFiniteSet(RecordsOf(body)) BY <1>9, <1>10
      <4>2. IsFiniteSet(listings[x].records \cup RecordsOf(body)) BY <4>1, FS_Union
      <4> QED BY <3>1, <4>2
    <3>3. ~Conflicts(listings'[i].records) BY <1>2, <3>1
    <3>4. NamesOf(listings'[i].records) = NamesOf(listings[x].records) \cup NamesIn(body)
      BY <1>10, <3>1 DEF NamesOf
    <3>5. UNION {NamesIn(asked'[k][3]) : k \in AskedOf(i)'}
          = (UNION {NamesIn(asked[k][3]) : k \in AskedOf(x)}) \cup NamesIn(body)
      <4>1. \A k \in AskedOf(x) : asked'[k][3] = asked[k][3] BY <1>8
      <4>2. AskedOf(i)' = AskedOf(x) \cup {n} /\ asked'[n][3] = body BY <1>5, <1>8, <2>1
      <4> QED BY <4>1, <4>2
    <3>6. NamesOf(listings[x].records) = UNION {NamesIn(asked[k][3]) : k \in AskedOf(x)} BY <1>9
    <3> QED BY <3>2, <3>3, <3>4, <3>5, <3>6
  <2>2. CASE i # x
    <3>1. AskedOf(i)' = AskedOf(i) /\ \A k \in AskedOf(i) : asked'[k][3] = asked[k][3] BY <1>8, <2>2
    <3>2. listings'[i] = listings[i] BY <1>7, <2>2
    <3> QED BY <1>9, <3>1, <3>2
  <2> QED BY <2>1, <2>2
<1>13. \A i, j \in DOMAIN listings' :
          listings'[i].organization = listings'[j].organization => i = j
  BY <1>7, <1>9, <1>11
<1>14. \A i \in DOMAIN listings' :
          /\ IsFiniteSet(listings'[i].records) /\ ~Conflicts(listings'[i].records)
          /\ NamesOf(listings'[i].records) = UNION {NamesIn(asked'[k][3]) : k \in AskedOf(i)'}
  BY <1>7, <1>12
<1> QED BY <1>13, <1>14 DEF RecordsListed

\* Records that do not contradict each other are as many as their names.
LEMMA NamesAreRecords ==
    ASSUME NEW records, IsFiniteSet(records), ~Conflicts(records)
    PROVE  IsFiniteSet(NamesOf(records)) /\ Cardinality(NamesOf(records)) = Cardinality(records)
<1> DEFINE names == NamesOf(records)
           f == [r \in records |-> r.name]
<1>1. f \in [records -> names] BY DEF NamesOf
<1>2. \A a, b \in records : f[a] = f[b] => a = b BY DEF Conflicts
<1>3. \A n \in names : \E a \in records : f[a] = n BY DEF NamesOf
<1> HIDE DEF f, names
<1>4. IsFiniteSet(names) /\ Cardinality(names) = Cardinality(records) BY <1>1, <1>2, <1>3, SameSize
<1> QED BY <1>4 DEF names

\* A selector's queue has each eligible repository once.
LEMMA QueueLists ==
    ASSUME NEW entry, IsFiniteSet(entry.records), ~Conflicts(entry.records),
           \A record \in entry.records : record.name \in Nat
    PROVE  /\ Len(Queue(entry)) = Cardinality(InBucket(entry, "eligible"))
           /\ Len(Queue(entry)) \in Nat /\ DOMAIN Queue(entry) = 1 .. Len(Queue(entry))
           /\ \A k \in DOMAIN Queue(entry) : Queue(entry)[k][1] = entry.organization
           /\ \A k, l \in DOMAIN Queue(entry) : Queue(entry)[k] = Queue(entry)[l] => k = l
<1> DEFINE eligible == InBucket(entry, "eligible")
           names == {record.name : record \in eligible}
           R == {pair \in names \X names : pair[1] < pair[2]}
           ranked == InOrder(R, names)
           q == [k \in DOMAIN ranked |-> <<entry.organization, ranked[k]>>]
<1>1. eligible \in SUBSET entry.records BY DEF InBucket
<1>2. IsFiniteSet(eligible) BY <1>1, FS_Subset
<1>3. ~Conflicts(eligible) BY <1>1 DEF Conflicts
<1>4. names = NamesOf(eligible) BY DEF NamesOf
<1>5. \A n \in names : n \in Nat BY <1>1
<1>6. \A a, b \in names : <<a, b>> \in R <=> a < b OBVIOUS
<1>7. Queue(entry) = q BY DEF Queue
<1> HIDE DEF eligible, names, R
<1>8. IsFiniteSet(names) /\ Cardinality(names) = Cardinality(eligible)
  BY <1>2, <1>3, <1>4, NamesAreRecords
<1>9. Orders(R, names) BY <1>5, <1>6 DEF Orders
<1>10. /\ Cardinality(names) \in Nat /\ DOMAIN ranked = 1 .. Cardinality(names)
       /\ \A i, j \in DOMAIN ranked : ranked[i] = ranked[j] => i = j
  BY <1>8, <1>9, InOrderLists
<1> HIDE DEF ranked
<1>11. DOMAIN q = 1 .. Cardinality(eligible) /\ Cardinality(eligible) \in Nat BY <1>8, <1>10
<1>12. Len(q) = Cardinality(eligible) BY <1>11
<1>13. \A k \in DOMAIN q : q[k] = <<entry.organization, ranked[k]>> OBVIOUS
<1>14. \A k \in DOMAIN q : q[k][1] = entry.organization BY <1>13
<1>15. ASSUME NEW k \in DOMAIN q, NEW l \in DOMAIN q, q[k] = q[l] PROVE k = l
  <2>1. ranked[k] = ranked[l] BY <1>13, <1>15
  <2>2. k \in DOMAIN ranked /\ l \in DOMAIN ranked OBVIOUS
  <2> QED BY <1>10, <2>1, <2>2
<1> HIDE DEF q
<1> QED BY <1>7, <1>11, <1>12, <1>14, <1>15 DEF eligible

\* What the queues of an expansion are.
LEMMA QueuesList ==
    ASSUME ExpansionInv, RecordsListed, Unfailed
    PROVE  /\ \E n \in Nat : DOMAIN listings = 1 .. n
           /\ DOMAIN Queues = DOMAIN listings
           /\ \A i \in DOMAIN listings :
                /\ Len(Queues[i]) = Cardinality(InBucket(listings[i], "eligible"))
                /\ Len(Queues[i]) \in Nat /\ DOMAIN Queues[i] = 1 .. Len(Queues[i])
                /\ \A k \in DOMAIN Queues[i] : Queues[i][k][1] = listings[i].organization
                /\ \A k, l \in DOMAIN Queues[i] : Queues[i][k] = Queues[i][l] => k = l
<1>1. listings \in Seq(Entries) BY DEF ExpansionInv, ExpansionState
<1>2. \E n \in Nat : DOMAIN listings = 1 .. n BY <1>1
<1>3. ASSUME NEW i \in DOMAIN listings
      PROVE  /\ IsFiniteSet(listings[i].records) /\ ~Conflicts(listings[i].records)
             /\ \A record \in listings[i].records : record.name \in Nat
  <2>1. IsFiniteSet(listings[i].records) /\ ~Conflicts(listings[i].records) BY DEF RecordsListed
  <2>2. listings[i].records \in SUBSET Listed
    <3>1. listings[i] \in Entries BY <1>1
    <3> QED BY <3>1 DEF Entries
  <2>3. ASSUME NEW record \in Listed PROVE record.name \in Nat
    <3>1. PICK body \in Bodies \ {Absent} : record \in RecordsOf(body) BY <2>3 DEF Listed
    <3>2. PICK k \in DOMAIN body : record = [name |-> body[k].name, facts |-> body[k].facts]
      BY <3>1 DEF RecordsOf
    <3>3. body[k].name \in Nat BY ExpansionAssumption
    <3> QED BY <3>2, <3>3
  <2> QED BY <2>1, <2>2, <2>3
<1>4. Queues = [i \in DOMAIN listings |-> Queue(listings[i])] BY DEF Queues
<1>5. \A i \in DOMAIN listings : Queues[i] = Queue(listings[i]) BY <1>4
<1>6. ASSUME NEW i \in DOMAIN listings
      PROVE  /\ Len(Queues[i]) = Cardinality(InBucket(listings[i], "eligible"))
             /\ Len(Queues[i]) \in Nat /\ DOMAIN Queues[i] = 1 .. Len(Queues[i])
             /\ \A k \in DOMAIN Queues[i] : Queues[i][k][1] = listings[i].organization
             /\ \A k, l \in DOMAIN Queues[i] : Queues[i][k] = Queues[i][l] => k = l
  BY <1>3, <1>5, QueueLists
<1> QED BY <1>2, <1>4, <1>6

\* Queues are finitely many sequences.
AreQueues(queues) ==
    /\ \E n \in Nat : DOMAIN queues = 1 .. n
    /\ \A i \in DOMAIN queues : Len(queues[i]) \in Nat /\ DOMAIN queues[i] = 1 .. Len(queues[i])

\* The turns that the queues need: one for each place of each queue.
LEMMA TurnsNeeded ==
    ASSUME NEW queues, AreQueues(queues)
    PROVE  /\ IsFiniteSet(TurnsOf(queues))
           /\ \A t \in TurnsOf(queues) : /\ t = <<t[1], t[2]>> /\ t[1] \in Nat /\ t[2] \in Nat
                                         /\ t[2] \in DOMAIN queues /\ t[1] \in DOMAIN queues[t[2]]
           /\ \A i \in DOMAIN queues :
                Cardinality({t \in TurnsOf(queues) : t[2] = i}) = Len(queues[i])
<1> DEFINE Of(i) == {<<round, i>> : round \in DOMAIN queues[i]}
           sets == {Of(i) : i \in DOMAIN queues}
           f == [i \in DOMAIN queues |-> Of(i)]
<1>1. TurnsOf(queues) = UNION sets BY DEF TurnsOf
<1>2. PICK n \in Nat : DOMAIN queues = 1 .. n BY DEF AreQueues
<1>3. ASSUME NEW i \in DOMAIN queues
      PROVE  IsFiniteSet(Of(i)) /\ Cardinality(Of(i)) = Len(queues[i])
  <2> DEFINE g == [round \in DOMAIN queues[i] |-> <<round, i>>]
  <2>1. PICK m \in Nat : m = Len(queues[i]) /\ DOMAIN queues[i] = 1 .. m BY DEF AreQueues
  <2>2. 1 \in Int /\ m \in Int OBVIOUS
  <2>3. IsFiniteSet(1 .. m) /\ Cardinality(1 .. m) = IF 1 > m THEN 0 ELSE m - 1 + 1 BY <2>2, FS_Interval
  <2>4. Cardinality(1 .. m) = m BY <2>3
  <2>5. g \in [1 .. m -> Of(i)] BY <2>1
  <2>6. \A a, b \in 1 .. m : g[a] = g[b] => a = b BY <2>1
  <2>7. \A t \in Of(i) : \E a \in 1 .. m : g[a] = t BY <2>1
  <2> HIDE DEF g, Of
  <2>8. IsFiniteSet(Of(i)) /\ Cardinality(Of(i)) = Cardinality(1 .. m) BY <2>3, <2>5, <2>6, <2>7, SameSize
  <2> QED BY <2>1, <2>4, <2>8
<1>4. IsFiniteSet(DOMAIN queues)
  <2>1. 1 \in Int /\ n \in Int OBVIOUS
  <2> QED BY <1>2, <2>1, FS_Interval
<1>5. ASSUME NEW i \in DOMAIN queues PROVE {t \in TurnsOf(queues) : t[2] = i} = Of(i)
  BY <1>1
<1>6. ASSUME NEW t \in TurnsOf(queues)
      PROVE  /\ t = <<t[1], t[2]>> /\ t[1] \in Nat /\ t[2] \in Nat
             /\ t[2] \in DOMAIN queues /\ t[1] \in DOMAIN queues[t[2]]
  <2>1. PICK i \in DOMAIN queues : t \in Of(i) BY <1>1, <1>6
  <2>2. PICK round \in DOMAIN queues[i] : t = <<round, i>> BY <2>1
  <2>3. i \in Nat BY <1>2
  <2>4. Len(queues[i]) \in Nat /\ DOMAIN queues[i] = 1 .. Len(queues[i]) BY DEF AreQueues
  <2> QED BY <2>2, <2>3, <2>4
<1>7. \A i \in DOMAIN queues : f[i] = Of(i) OBVIOUS
<1>8. DOMAIN f = DOMAIN queues OBVIOUS
<1> HIDE DEF Of
<1>9. sets = {f[i] : i \in DOMAIN queues} BY <1>7
<1> HIDE DEF f
<1>10. IsFiniteSet(sets) BY <1>4, <1>8, <1>9, ValuesAreFinite
<1>11. \A T \in sets : IsFiniteSet(T) BY <1>3
<1> HIDE DEF sets
<1>12. IsFiniteSet(TurnsOf(queues)) BY <1>1, <1>10, <1>11, FS_UNION
<1> QED BY <1>3, <1>5, <1>6, <1>12

\* The round robin takes each turn once, and the earlier ones first.
LEMMA TurnsListed ==
    ASSUME NEW queues, AreQueues(queues)
    PROVE  /\ Len(Turns(queues)) \in Nat /\ DOMAIN Turns(queues) = 1 .. Len(Turns(queues))
           /\ \A j \in DOMAIN Turns(queues) : Turns(queues)[j] \in TurnsOf(queues)
           /\ \A t \in TurnsOf(queues) : \E j \in DOMAIN Turns(queues) : Turns(queues)[j] = t
           /\ \A j, k \in DOMAIN Turns(queues) :
                j < k <=> Earlier(Turns(queues)[j], Turns(queues)[k])
           /\ \A j, k \in DOMAIN Turns(queues) : Turns(queues)[j] = Turns(queues)[k] => j = k
<1> DEFINE K == TurnsOf(queues)
           R == {pair \in K \X K : Earlier(pair[1], pair[2])}
           s == InOrder(R, K)
<1>1. /\ IsFiniteSet(K)
      /\ \A t \in K : t = <<t[1], t[2]>> /\ t[1] \in Nat /\ t[2] \in Nat
  BY TurnsNeeded
<1>2. \A a, b \in K : <<a, b>> \in R <=> Earlier(a, b) OBVIOUS
<1>3. Turns(queues) = s BY DEF Turns
<1> HIDE DEF K, R
<1>4. Orders(R, K)
  <2>1. \A a \in K : <<a, a>> \notin R BY <1>1, <1>2 DEF Earlier
  <2>2. ASSUME NEW a \in K, NEW b \in K, NEW c \in K, <<a, b>> \in R, <<b, c>> \in R
        PROVE  <<a, c>> \in R
    <3>1. Earlier(a, b) /\ Earlier(b, c) BY <1>2, <2>2
    <3>2. a[1] \in Nat /\ a[2] \in Nat /\ b[1] \in Nat /\ b[2] \in Nat /\ c[1] \in Nat /\ c[2] \in Nat
      BY <1>1
    <3>3. Earlier(a, c) BY <3>1, <3>2 DEF Earlier
    <3> QED BY <1>2, <3>3
  <2>3. ASSUME NEW a \in K, NEW b \in K PROVE a = b \/ <<a, b>> \in R \/ <<b, a>> \in R
    <3>1. a[1] \in Nat /\ a[2] \in Nat /\ b[1] \in Nat /\ b[2] \in Nat BY <1>1
    <3>2. (a[1] = b[1] /\ a[2] = b[2]) \/ Earlier(a, b) \/ Earlier(b, a) BY <3>1 DEF Earlier
    <3>3. a[1] = b[1] /\ a[2] = b[2] => a = b BY <1>1
    <3> QED BY <1>2, <3>2, <3>3
  <2> QED BY <2>1, <2>2, <2>3 DEF Orders
<1>5. /\ s \in Seq(K) /\ Len(s) = Cardinality(K) /\ Cardinality(K) \in Nat
      /\ DOMAIN s = 1 .. Cardinality(K)
      /\ \A i \in DOMAIN s : s[i] \in K
      /\ \A k \in K : \E i \in DOMAIN s : s[i] = k
      /\ \A i, j \in DOMAIN s : i < j <=> <<s[i], s[j]>> \in R
      /\ \A i, j \in DOMAIN s : s[i] = s[j] => i = j
  BY <1>1, <1>4, InOrderLists
<1> HIDE DEF s
<1>6. \A i, j \in DOMAIN s : i < j <=> Earlier(s[i], s[j]) BY <1>2, <1>5
<1> QED BY <1>3, <1>5, <1>6 DEF K

\* The repositories of a list are finitely many, and adding one takes none away.
LEMMA ReferencesGrow ==
    ASSUME NEW T, NEW list \in Seq(T), NEW scope
    PROVE  /\ ToSet(Append(list, scope)) = ToSet(list) \cup {scope}
           /\ Cardinality(Referenced(list)) \in Nat
           /\ Full(list) => Full(Append(list, scope))
<1> DEFINE more == Append(list, scope)
           f == [k \in DOMAIN list |-> list[k].repository]
<1>1. PICK n \in Nat : Len(list) = n /\ DOMAIN list = 1 .. n OBVIOUS
<1>2. /\ DOMAIN more = 1 .. n + 1 /\ Len(more) = n + 1 /\ more[n + 1] = scope
      /\ \A k \in 1 .. n : more[k] = list[k]
  BY <1>1
<1> HIDE DEF more
<1>3. ToSet(more) = ToSet(list) \cup {scope} BY <1>1, <1>2 DEF ToSet
<1>4. Referenced(more) = Referenced(list) \cup {scope.repository}
  <2>1. DOMAIN more = DOMAIN list \cup {n + 1} BY <1>1, <1>2
  <2>2. n + 1 \in DOMAIN more BY <2>1
  <2> QED BY <1>1, <1>2, <2>1, <2>2 DEF Referenced
<1>5. IsFiniteSet(Referenced(list))
  <2>1. Referenced(list) = {f[k] : k \in DOMAIN list} BY DEF Referenced
  <2>2. DOMAIN f = DOMAIN list OBVIOUS
  <2>3. 1 \in Int /\ n \in Int OBVIOUS
  <2>4. IsFiniteSet(DOMAIN list) BY <1>1, <2>3, FS_Interval
  <2> HIDE DEF f
  <2> QED BY <2>1, <2>2, <2>4, ValuesAreFinite
<1>6. IsFiniteSet(Referenced(more)) BY <1>4, <1>5, FS_AddElement
<1>7. Referenced(list) \in SUBSET Referenced(more) BY <1>4
<1>8. /\ Cardinality(Referenced(list)) <= Cardinality(Referenced(more))
      /\ Cardinality(Referenced(list)) \in Nat /\ Cardinality(Referenced(more)) \in Nat
  BY <1>5, <1>6, <1>7, FS_Subset, FS_CardinalityType
<1>9. MaxScopes \in Nat /\ MaxSelectedRepositories \in Nat BY ExpansionAssumption
<1>10. Full(list) => Full(more)
  <2>1. Len(list) >= MaxScopes => Len(more) >= MaxScopes BY <1>1, <1>2, <1>9
  <2>2. Cardinality(Referenced(list)) >= MaxSelectedRepositories
        => Cardinality(Referenced(more)) >= MaxSelectedRepositories
    BY <1>8, <1>9
  <2> QED BY <2>1, <2>2 DEF Full
<1> QED BY <1>3, <1>8, <1>10 DEF more

\* There is room in a list for a Scope of a repository.
Room(list, repository) ==
    /\ Len(list) < MaxScopes
    /\ \/ repository \in Referenced(list)
       \/ Cardinality(Referenced(list)) < MaxSelectedRepositories

\* What is full has room for a repository only that is in it already.
LEMMA RoomInFull ==
    ASSUME NEW T, NEW list \in Seq(T), Full(list), NEW repository, Room(list, repository)
    PROVE  \E k \in DOMAIN list : list[k].repository = repository
<1>1. Len(list) \in Nat /\ Cardinality(Referenced(list)) \in Nat
      /\ MaxScopes \in Nat /\ MaxSelectedRepositories \in Nat
  BY ReferencesGrow, ExpansionAssumption
<1>2. ~(Len(list) >= MaxScopes) BY <1>1 DEF Room
<1>3. Cardinality(Referenced(list)) >= MaxSelectedRepositories BY <1>2 DEF Full
<1>4. repository \in Referenced(list) BY <1>1, <1>3 DEF Room
<1> QED BY <1>4 DEF Referenced

\* No two turns are about the same repository.
OneTurnEach(K, scopeAt) == \A t, u \in K : scopeAt[t].repository = scopeAt[u].repository => t = u

\* A turn that is taken after others, whatever becomes of it, honours theirs.
LEMMA TurnLeavesOut ==
    ASSUME NEW K, NEW E \in SUBSET K, NEW v \in K, v \notin E, NEW scopeAt, OneTurnEach(K, scopeAt),
           \A t \in E : ~Earlier(v, t), NEW list, NEW exact,
           TurnsHonoured(E, scopeAt, list, exact), scopeAt[v] \in ToSet(list) \/ Full(list)
    PROVE  TurnsHonoured(E \cup {v}, scopeAt, list, exact)
<1> DEFINE F == E \cup {v}
<1>1. \A scope \in ToSet(list) : scope \in ToSet(exact) \/ \E t \in F : scopeAt[t] = scope
  BY DEF TurnsHonoured
<1>2. \A t \in F : scopeAt[t] \in ToSet(list) \/ Full(list) BY DEF TurnsHonoured
<1>3. ASSUME NEW t \in F, NEW u \in F, Earlier(t, u), scopeAt[t] \notin ToSet(list),
             scopeAt[u] \in ToSet(list) \ ToSet(exact)
      PROVE  scopeAt[u].repository \in Referenced(exact)
  <2>1. CASE t \in E /\ u \in E BY <1>3, <2>1 DEF TurnsHonoured
  <2>2. CASE u = v
    <3>1. PICK w \in E : scopeAt[w] = scopeAt[u] BY <1>3 DEF TurnsHonoured
    <3> QED BY <2>2, <3>1 DEF OneTurnEach
  <2>3. CASE t = v
    <3>1. u = v BY <1>3, <2>3
    <3> QED BY <1>3, <2>3, <3>1
  <2> QED BY <2>1, <2>2, <2>3
<1> QED BY <1>1, <1>2, <1>3 DEF TurnsHonoured

LEMMA TurnAdds ==
    ASSUME NEW K, NEW E \in SUBSET K, NEW v \in K, v \notin E, NEW scopeAt, OneTurnEach(K, scopeAt),
           \A t \in E : ~Earlier(v, t), NEW T, NEW list \in Seq(T), NEW exact,
           TurnsHonoured(E, scopeAt, list, exact),
           scopeAt[v] \notin ToSet(list), Room(list, scopeAt[v].repository)
    PROVE  TurnsHonoured(E \cup {v}, scopeAt, Append(list, scopeAt[v]), exact)
<1> DEFINE F == E \cup {v}
           more == Append(list, scopeAt[v])
<1>1. ToSet(more) = ToSet(list) \cup {scopeAt[v]} /\ (Full(list) => Full(more)) BY ReferencesGrow
<1> HIDE DEF more
<1>2. \A scope \in ToSet(more) : scope \in ToSet(exact) \/ \E t \in F : scopeAt[t] = scope
  BY <1>1 DEF TurnsHonoured
<1>3. \A t \in F : scopeAt[t] \in ToSet(more) \/ Full(more) BY <1>1 DEF TurnsHonoured
<1>4. ASSUME NEW t \in F, NEW u \in F, Earlier(t, u), scopeAt[t] \notin ToSet(more),
             scopeAt[u] \in ToSet(more) \ ToSet(exact)
      PROVE  scopeAt[u].repository \in Referenced(exact)
  <2>1. t \in E /\ scopeAt[t] \notin ToSet(list) BY <1>1, <1>4
  <2>2. Full(list) BY <2>1 DEF TurnsHonoured
  <2>3. CASE u \in E
    <3>1. scopeAt[u] # scopeAt[v] BY <2>3 DEF OneTurnEach
    <3>2. scopeAt[u] \in ToSet(list) \ ToSet(exact) BY <1>1, <1>4, <3>1
    <3> QED BY <1>4, <2>1, <2>3, <3>2 DEF TurnsHonoured
  <2>4. CASE u = v
    <3>1. PICK k \in DOMAIN list : list[k].repository = scopeAt[v].repository BY <2>2, RoomInFull
    <3>2. list[k] \in ToSet(list) BY DEF ToSet
    <3>3. ASSUME NEW w \in E, scopeAt[w] = list[k] PROVE FALSE BY <3>1, <3>3 DEF OneTurnEach
    <3>4. list[k] \in ToSet(exact) BY <3>2, <3>3 DEF TurnsHonoured
    <3>5. PICK l \in DOMAIN exact : exact[l] = list[k] BY <3>4 DEF ToSet
    <3> QED BY <2>4, <3>1, <3>5 DEF Referenced
  <2> QED BY <2>3, <2>4
<1>5. TurnsHonoured(F, scopeAt, more, exact) BY <1>2, <1>3, <1>4 DEF TurnsHonoured
<1> QED BY <1>5 DEF more

\* Each turn of an expansion is about a repository of its own.
LEMMA TurnsOfExpansion ==
    ASSUME ExpansionInv, RecordsListed, Unfailed
    PROVE  AreQueues(Queues) /\ OneTurnEach(TurnsOf(Queues), ScopeAt)
<1>1. AreQueues(Queues) BY QueuesList DEF AreQueues
<1>2. ASSUME NEW t \in TurnsOf(Queues), NEW u \in TurnsOf(Queues),
             ScopeAt[t].repository = ScopeAt[u].repository
      PROVE  t = u
  <2>1. /\ t = <<t[1], t[2]>> /\ t[2] \in DOMAIN Queues /\ t[1] \in DOMAIN Queues[t[2]]
        /\ u = <<u[1], u[2]>> /\ u[2] \in DOMAIN Queues /\ u[1] \in DOMAIN Queues[u[2]]
    BY <1>1, TurnsNeeded
  <2>2. Queues[t[2]][t[1]] = Queues[u[2]][u[1]]
    <3>1. /\ ScopeAt[t].repository = Queues[t[2]][t[1]]
          /\ ScopeAt[u].repository = Queues[u[2]][u[1]]
      BY DEF ScopeAt, RepositoryScope
    <3> QED BY <1>2, <3>1
  <2>3. t[2] \in DOMAIN listings /\ u[2] \in DOMAIN listings BY <2>1, QueuesList
  <2>4. /\ Queues[t[2]][t[1]][1] = listings[t[2]].organization
        /\ Queues[u[2]][u[1]][1] = listings[u[2]].organization
    BY <2>1, <2>3, QueuesList
  <2>5. t[2] = u[2] BY <2>2, <2>3, <2>4 DEF RecordsListed
  <2>6. t[1] = u[1] BY <2>1, <2>2, <2>3, <2>5, QueuesList
  <2> QED BY <2>1, <2>5, <2>6
<1> QED BY <1>1, <1>2 DEF OneTurnEach

\* The queues, and so the turns, stay once nothing more is listed.
LEMMA TurnsStay ==
    ASSUME UNCHANGED <<request, listings>>
    PROVE  Queues' = Queues /\ ScopeAt' = ScopeAt
<1>1. Queues' = Queues BY DEF Queues, Queue, InBucket, Bucket
<1> QED BY <1>1 DEF ScopeAt, TurnsOf, RepositoryScope

\* The turn that is taken next comes after all that were.
LEMMA NextTurn ==
    ASSUME ExpansionInv, RecordsListed, Unfailed, turn \in 1 .. Len(Turns(Queues)),
           UNCHANGED <<request, listings>>, turn' = turn + 1
    PROVE  LET v == Turns(Queues)[turn] IN
           /\ v \in TurnsOf(Queues) /\ Examined \in SUBSET TurnsOf(Queues) /\ v \notin Examined
           /\ \A t \in Examined : ~Earlier(v, t)
           /\ Examined' = Examined \cup {v} /\ turn' \in 1 .. Len(Turns(Queues)) + 1
<1> DEFINE s == Turns(Queues)
           v == s[turn]
<1>1. AreQueues(Queues) BY TurnsOfExpansion
<1>2. /\ Len(s) \in Nat /\ DOMAIN s = 1 .. Len(s)
      /\ \A j \in DOMAIN s : s[j] \in TurnsOf(Queues)
      /\ \A j, k \in DOMAIN s : j < k <=> Earlier(s[j], s[k])
      /\ \A j, k \in DOMAIN s : s[j] = s[k] => j = k
  BY <1>1, TurnsListed
<1>3. Queues' = Queues BY TurnsStay
<1>4. Examined = {s[j] : j \in 1 .. turn - 1} /\ Examined' = {s[j] : j \in 1 .. (turn + 1) - 1}
  BY <1>3 DEF Examined
<1> HIDE DEF s
<1>5. turn \in DOMAIN s /\ turn \in Nat /\ \A j \in 1 .. turn - 1 : j \in DOMAIN s /\ j < turn
  BY <1>2 DEF s
<1>6. v \in TurnsOf(Queues) /\ Examined \in SUBSET TurnsOf(Queues) BY <1>2, <1>4, <1>5
<1>7. v \notin Examined BY <1>2, <1>4, <1>5
<1>8. \A t \in Examined : ~Earlier(v, t)
  <2>1. ASSUME NEW j \in 1 .. turn - 1 PROVE ~Earlier(v, s[j])
    <3>1. j \in DOMAIN s /\ turn \in DOMAIN s /\ ~(turn < j) BY <1>5
    <3> QED BY <1>2, <3>1
  <2> QED BY <1>4, <2>1
<1>9. Examined' = Examined \cup {v}
  <2>1. 1 .. (turn + 1) - 1 = (1 .. turn - 1) \cup {turn} BY <1>5
  <2> QED BY <1>4, <2>1
<1>10. turn' \in 1 .. Len(s) + 1 BY <1>2, <1>5
<1> QED BY <1>6, <1>7, <1>8, <1>9, <1>10 DEF s

\* Every selector has its two counts.
CountsKept(counts) ==
    /\ DOMAIN counts.retained = DOMAIN listings /\ DOMAIN counts.omitted = DOMAIN listings
    /\ \A i \in DOMAIN listings : counts.retained[i] \in Nat /\ counts.omitted[i] \in Nat

\* What a turn makes of a selection: one more is counted for the selector, and the Scope
\* is there, or is added where there is room, or nothing of its own has room.
CandidateTaken(next, i, repository) ==
    LET scope == RepositoryScope(repository)
        list == selection.scopes
    IN /\ CountsKept(next)
       /\ \A j \in DOMAIN listings :
            next.retained[j] + next.omitted[j]
            = selection.retained[j] + selection.omitted[j] + IF j = i THEN 1 ELSE 0
       /\ \/ next.scopes = list /\ (scope \in ToSet(list) \/ Full(list))
          \/ next.scopes = Append(list, scope) /\ scope \notin ToSet(list) /\ Room(list, repository)

\* A candidate is counted where it came from, and takes the place it needs.
LEMMA CandidateCounted ==
    ASSUME ExpansionInv, selection # Absent, NEW i \in DOMAIN listings, NEW repository,
           CountsKept(selection)
    PROVE  CandidateTaken(Admitted(i, repository), i, repository)
<1> DEFINE scope == RepositoryScope(repository)
           list == selection.scopes
           next == Admitted(i, repository)
           more(counts) == [counts EXCEPT ![i] = @ + 1]
<1>0. /\ DOMAIN selection.retained = DOMAIN listings /\ DOMAIN selection.omitted = DOMAIN listings
      /\ \A j \in DOMAIN listings : selection.retained[j] \in Nat /\ selection.omitted[j] \in Nat
  BY DEF CountsKept
<1>1. /\ DOMAIN selection = {"scopes", "provenance", "retained", "omitted"}
      /\ ScopesSound(selection.scopes, selection.provenance, request.exact)
  BY DEF ExpansionInv, SelectionSound
<1>2. list \in Seq(ToSet(list)) /\ ToSet(list) = Range(list) BY <1>1 DEF ScopesSound, Range, ToSet
<1>3. \A j \in DOMAIN listings :
        /\ more(selection.retained)[j] = IF j = i THEN selection.retained[j] + 1 ELSE selection.retained[j]
        /\ more(selection.omitted)[j] = IF j = i THEN selection.omitted[j] + 1 ELSE selection.omitted[j]
  BY <1>0
<1>4. /\ DOMAIN more(selection.retained) = DOMAIN listings
      /\ DOMAIN more(selection.omitted) = DOMAIN listings
  BY <1>0
<1>5. \/ /\ next.retained = more(selection.retained) /\ next.omitted = selection.omitted
         /\ \/ next.scopes = list /\ scope \in ToSet(list)
            \/ next.scopes = Append(list, scope) /\ scope \notin ToSet(list) /\ Room(list, repository)
      \/ /\ next.retained = selection.retained /\ next.omitted = more(selection.omitted)
         /\ next.scopes = list /\ scope \notin ToSet(list) /\ ~Room(list, repository)
  <2> DEFINE kept == [selection EXCEPT !.retained[i] = @ + 1]
  <2>1. /\ DOMAIN kept = DOMAIN selection
        /\ kept.scopes = list /\ kept.provenance = selection.provenance
        /\ kept.retained = more(selection.retained) /\ kept.omitted = selection.omitted
    BY <1>1
  <2>2. HasRoom(repository) <=> Room(list, repository) BY DEF HasRoom, Room
  <2> HIDE DEF kept, more
  <2>3. CASE scope \in Range(list)
    <3>1. \E marked : next = [kept EXCEPT !.provenance = marked] BY <2>3 DEF Admitted, kept
    <3> HIDE DEF next
    <3> QED BY <1>1, <1>2, <2>1, <2>3, <3>1
  <2>4. CASE scope \notin Range(list) /\ Room(list, repository)
    <3>1. \E marked : next = [kept EXCEPT !.scopes = Append(list, scope), !.provenance = marked]
      BY <2>1, <2>2, <2>4 DEF Admitted, kept
    <3> HIDE DEF next
    <3> QED BY <1>1, <1>2, <2>1, <2>4, <3>1
  <2>5. CASE scope \notin Range(list) /\ ~Room(list, repository)
    <3>1. next = [selection EXCEPT !.omitted[i] = @ + 1] BY <2>2, <2>5 DEF Admitted
    <3> HIDE DEF next
    <3> QED BY <1>1, <1>2, <2>5, <3>1 DEF more
  <2> QED BY <2>3, <2>4, <2>5
<1> HIDE DEF next, list, scope, more
<1>6. ~Room(list, repository) => Full(list)
  <2>1. Len(list) \in Nat BY <1>2
  <2>2. Cardinality(Referenced(list)) \in Nat BY <1>2, ReferencesGrow
  <2>3. MaxScopes \in Nat /\ MaxSelectedRepositories \in Nat BY ExpansionAssumption
  <2> QED BY <2>1, <2>2, <2>3 DEF Room, Full
<1>7. DOMAIN next.retained = DOMAIN listings /\ DOMAIN next.omitted = DOMAIN listings
  BY <1>0, <1>4, <1>5
<1>8. ASSUME NEW j \in DOMAIN listings
      PROVE  /\ next.retained[j] \in Nat /\ next.omitted[j] \in Nat
             /\ next.retained[j] + next.omitted[j]
                = selection.retained[j] + selection.omitted[j] + IF j = i THEN 1 ELSE 0
  <2>1. PICK a \in Nat, b \in Nat : a = selection.retained[j] /\ b = selection.omitted[j] BY <1>0
  <2>2. /\ more(selection.retained)[j] = IF j = i THEN a + 1 ELSE a
        /\ more(selection.omitted)[j] = IF j = i THEN b + 1 ELSE b
    BY <1>3, <2>1
  <2>3. CASE next.retained = more(selection.retained) /\ next.omitted = selection.omitted
    BY <2>1, <2>2, <2>3
  <2>4. CASE next.retained = selection.retained /\ next.omitted = more(selection.omitted)
    BY <2>1, <2>2, <2>4
  <2> QED BY <1>5, <2>3, <2>4
<1>9. \/ next.scopes = list /\ (scope \in ToSet(list) \/ Full(list))
      \/ next.scopes = Append(list, scope) /\ scope \notin ToSet(list) /\ Room(list, repository)
  BY <1>5, <1>6
<1> QED BY <1>7, <1>8, <1>9 DEF next, list, scope, CandidateTaken, CountsKept

\* Nothing is allocated while pages are listed.
LEMMA NothingAllocated ==
    ASSUME selection' = Absent, ~Expanded'
    PROVE  AllocationSound'
BY DEF AllocationSound

\* Allocation begins before the first turn.
LEMMA FirstTurn ==
    ASSUME ExpansionInv, RecordsListed, AbsentIsNothing, BeginAllocation
    PROVE  AllocationSound'
<1>1. /\ expansion = Absent /\ expansion' = Absent /\ turn' = 1
      /\ UNCHANGED <<request, listings, spent, expansion, asked>>
      /\ selection'.scopes = request.exact
      /\ selection'.retained = [i \in DOMAIN listings |-> 0]
      /\ selection'.omitted = [i \in DOMAIN listings |-> 0]
  BY DEF BeginAllocation
<1>2. Unfailed /\ ~Expanded' BY <1>1 DEF Unfailed, Expanded
<1>3. Queues' = Queues /\ ScopeAt' = ScopeAt BY <1>1, TurnsStay
<1>4. Len(Turns(Queues)) \in Nat BY <1>2, TurnsOfExpansion, TurnsListed
<1>5. Examined' = {} BY <1>1 DEF Examined
<1>6. turn' \in 1 .. Len(Turns(Queues)') + 1 BY <1>1, <1>3, <1>4
<1>7. ASSUME NEW i \in DOMAIN listings PROVE TurnsCounted(i)'
  <2>1. {t \in Examined' : t[2] = i} = {} BY <1>5
  <2>2. Cardinality({}) = 0 BY FS_EmptySet
  <2>3. selection'.retained[i] = 0 /\ selection'.omitted[i] = 0 BY <1>1
  <2> QED BY <2>1, <2>2, <2>3 DEF TurnsCounted
<1>8. TurnsHonoured({}, ScopeAt, request.exact, request.exact) BY DEF TurnsHonoured
<1>9. TurnsHonoured(Examined', ScopeAt', selection'.scopes, request'.exact)
  BY <1>1, <1>3, <1>5, <1>8
<1> QED BY <1>1, <1>2, <1>6, <1>7, <1>9 DEF AllocationSound

\* A turn is taken.
LEMMA TurnTaken ==
    ASSUME ExpansionInv, RecordsListed, AllocationSound, AbsentIsNothing, Allocate
    PROVE  AllocationSound'
<1> DEFINE v == Turns(Queues)[turn]
           repository == Queues[v[2]][v[1]]
           list == selection.scopes
<1>1. /\ expansion = Absent /\ expansion' = Absent /\ selection # Absent
      /\ turn <= Len(Turns(Queues)) /\ turn' = turn + 1
      /\ selection' = Admitted(v[2], repository)
      /\ UNCHANGED <<request, listings, spent, expansion, asked>>
  BY DEF Allocate
<1>2. Unfailed /\ ~Expanded' BY <1>1 DEF Unfailed, Expanded
<1>3. Queues' = Queues /\ ScopeAt' = ScopeAt BY <1>1, TurnsStay
<1>4. AreQueues(Queues) /\ OneTurnEach(TurnsOf(Queues), ScopeAt) BY <1>2, TurnsOfExpansion
<1>5. /\ turn \in 1 .. Len(Turns(Queues)) + 1
      /\ DOMAIN selection.retained = DOMAIN listings /\ DOMAIN selection.omitted = DOMAIN listings
      /\ \A i \in DOMAIN listings : TurnsCounted(i)
      /\ TurnsHonoured(Examined, ScopeAt, list, request.exact)
  BY <1>1 DEF AllocationSound
<1>6. turn \in 1 .. Len(Turns(Queues))
  <2>1. Len(Turns(Queues)) \in Nat BY <1>4, TurnsListed
  <2> QED BY <1>1, <1>5, <2>1
<1>7. /\ v \in TurnsOf(Queues) /\ Examined \in SUBSET TurnsOf(Queues) /\ v \notin Examined
      /\ \A t \in Examined : ~Earlier(v, t)
      /\ Examined' = Examined \cup {v} /\ turn' \in 1 .. Len(Turns(Queues)) + 1
  BY <1>1, <1>2, <1>6, NextTurn
<1> HIDE DEF v
<1>8. /\ IsFiniteSet(TurnsOf(Queues))
      /\ v[2] \in DOMAIN listings
  <2>1. DOMAIN Queues = DOMAIN listings BY <1>2, QueuesList
  <2> QED BY <1>4, <1>7, <2>1, TurnsNeeded
<1>9. ScopeAt[v] = RepositoryScope(repository) /\ ScopeAt[v].repository = repository
  BY <1>7 DEF ScopeAt, RepositoryScope
<1>10. CountsKept(selection) BY <1>5 DEF TurnsCounted, CountsKept
<1> HIDE DEF repository
<1>11. /\ CountsKept(selection')
       /\ \A j \in DOMAIN listings :
            selection'.retained[j] + selection'.omitted[j]
            = selection.retained[j] + selection.omitted[j] + IF j = v[2] THEN 1 ELSE 0
       /\ \/ selection'.scopes = list /\ (ScopeAt[v] \in ToSet(list) \/ Full(list))
          \/ selection'.scopes = Append(list, ScopeAt[v]) /\ ScopeAt[v] \notin ToSet(list)
             /\ Room(list, repository)
  <2>1. CandidateTaken(selection', v[2], repository) BY <1>1, <1>8, <1>10, CandidateCounted
  <2> QED BY <1>9, <2>1 DEF CandidateTaken
<1> HIDE DEF list
<1>12. ASSUME NEW j \in DOMAIN listings PROVE TurnsCounted(j)'
  <2> DEFINE before == {t \in Examined : t[2] = j}
             after == {t \in Examined' : t[2] = j}
  <2>1. selection.retained[j] + selection.omitted[j] = Cardinality(before) BY <1>5 DEF TurnsCounted
  <2>2. before \in SUBSET TurnsOf(Queues) /\ v \notin before BY <1>7
  <2>3. after = IF j = v[2] THEN before \cup {v} ELSE before BY <1>7
  <2> HIDE DEF before, after
  <2>4. IsFiniteSet(before) BY <1>8, <2>2, FS_Subset
  <2>5. Cardinality(before) \in Nat /\ Cardinality(before \cup {v}) = Cardinality(before) + 1
    BY <2>2, <2>4, FS_CardinalityType, FS_AddElement
  <2>6. Cardinality(after) = Cardinality(before) + IF j = v[2] THEN 1 ELSE 0 BY <2>3, <2>5
  <2>7. selection'.retained[j] + selection'.omitted[j] = Cardinality(after) BY <1>11, <2>1, <2>6
  <2> QED BY <1>11, <2>7 DEF TurnsCounted, CountsKept, after
<1>13. TurnsHonoured(Examined', ScopeAt', selection'.scopes, request'.exact)
  <2>1. CASE selection'.scopes = list /\ (ScopeAt[v] \in ToSet(list) \/ Full(list))
    <3>1. TurnsHonoured(Examined \cup {v}, ScopeAt, list, request.exact)
      BY <1>4, <1>5, <1>7, <2>1, TurnLeavesOut
    <3> QED BY <1>1, <1>3, <1>7, <2>1, <3>1
  <2>2. CASE selection'.scopes = Append(list, ScopeAt[v]) /\ ScopeAt[v] \notin ToSet(list)
             /\ Room(list, repository)
    <3>1. list \in Seq(ToSet(list)) BY <1>1 DEF ExpansionInv, SelectionSound, ScopesSound, list
    <3>2. TurnsHonoured(Examined \cup {v}, ScopeAt, Append(list, ScopeAt[v]), request.exact)
      BY <1>4, <1>5, <1>7, <1>9, <2>2, <3>1, TurnAdds
    <3> QED BY <1>1, <1>3, <1>7, <2>2, <3>2
  <2> QED BY <1>11, <2>1, <2>2
<1>14. turn' \in 1 .. Len(Turns(Queues)') + 1 BY <1>3, <1>7
<1>15. DOMAIN selection'.retained = DOMAIN listings' /\ DOMAIN selection'.omitted = DOMAIN listings'
  BY <1>1, <1>11 DEF CountsKept
<1> QED BY <1>1, <1>2, <1>12, <1>13, <1>14, <1>15 DEF AllocationSound

\* The allocation is published when every turn was taken.
LEMMA TurnsPublished ==
    ASSUME ExpansionInv, RecordsListed, AllocationSound, AbsentIsNothing, Publish
    PROVE  AllocationSound'
<1>1. /\ expansion = Absent /\ selection # Absent /\ turn > Len(Turns(Queues))
      /\ UNCHANGED <<request, listings, turn, spent, selection, asked>>
      /\ expansion'.scopes = selection.scopes
      /\ expansion'.selectors = [i \in DOMAIN listings |-> Report(i)]
  BY DEF Publish
<1>2. Queues' = Queues /\ ScopeAt' = ScopeAt BY <1>1, TurnsStay
<1>3. Examined' = Examined /\ Turns(Queues)' = Turns(Queues) BY <1>1, <1>2 DEF Examined
<1>4. \A i \in DOMAIN listings : TurnsCounted(i)' <=> TurnsCounted(i) BY <1>1, <1>3 DEF TurnsCounted
<1>5. \A i : Report(i)' = Report(i) BY <1>1 DEF Report, InBucket, Bucket
<1> QED BY <1>1, <1>2, <1>3, <1>4, <1>5 DEF AllocationSound

\* A step that changes nothing.
LEMMA AllocationStays ==
    ASSUME RecordsListed, AllocationSound, UNCHANGED expansionVars
    PROVE  RecordsListed' /\ AllocationSound'
<1>1. UNCHANGED <<request, listings, turn, spent, selection, expansion, asked>> BY DEF expansionVars
<1>2. Queues' = Queues /\ ScopeAt' = ScopeAt BY <1>1, TurnsStay
<1>3. Examined' = Examined /\ Turns(Queues)' = Turns(Queues) BY <1>1, <1>2 DEF Examined
<1>4. \A i \in DOMAIN listings : TurnsCounted(i)' <=> TurnsCounted(i) BY <1>1, <1>3 DEF TurnsCounted
<1>5. \A i : Report(i)' = Report(i) BY <1>1 DEF Report, InBucket, Bucket
<1>6. Expanded' <=> Expanded BY <1>1 DEF Expanded
<1>7. AllocationSound' BY <1>1, <1>2, <1>3, <1>4, <1>5, <1>6 DEF AllocationSound
<1>8. RecordsListed' BY <1>1, RecordsStay DEF Unfailed
<1> QED BY <1>7, <1>8

\* Every step of an expansion keeps what is listed and allocated.
LEMMA AllocationStepKept ==
    ASSUME AllocationInv, AbsentIsNothing, [ExpansionNext]_expansionVars
    PROVE  AllocationInv'
<1>1. ExpansionInv /\ RecordsListed /\ AllocationSound BY DEF AllocationInv
<1>2. ExpansionInv' BY <1>1, ExpansionStepKept
<1>3. CASE \E r \in Requests : Expand(r)
  <2>1. PICK r \in Requests : Expand(r) BY <1>3
  <2>2. RecordsListed' BY <1>1, <2>1, ExpandListsNothing
  <2>3. request = Absent /\ selection = Absent /\ expansion = Absent /\ selection' = selection
        /\ (expansion' = expansion \/ expansion' = [kind |-> "rejected"])
    BY <1>1, <2>1 DEF Expand, ExpansionInv, ExpansionState
  <2>4. ~Expanded' BY <2>3 DEF Expanded
  <2> QED BY <1>2, <2>2, <2>3, <2>4, NothingAllocated DEF AllocationInv
<1>4. CASE \E cause, delay : FetchFails(cause, delay)
  <2>1. PICK cause, delay : FetchFails(cause, delay) BY <1>4
  <2>2. RecordsListed' BY <1>1, <2>1, FailureListsNothing
  <2>3. selection' = Absent /\ expansion'.kind = "failed"
    BY <2>1 DEF FetchFails, Dispatched, Listing, Failure
  <2> QED BY <1>2, <2>2, <2>3, NothingAllocated DEF AllocationInv, Expanded
<1>5. ASSUME FetchListingPage, ~ \E cause, delay : FetchFails(cause, delay) PROVE AllocationInv'
  <2>1. PICK body \in Bodies, link \in Links :
          /\ body # Absent /\ ~Conflicts(listings[NextListing].records \cup RecordsOf(body))
          /\ Dispatched(body, link) /\ UNCHANGED expansion
          /\ listings' = [listings EXCEPT ![NextListing] = ListedPage(listings[NextListing], body, link)]
    <3> HIDE DEF NextListing
    <3> QED BY <1>5 DEF FetchListingPage, DecodeListingPage
  <2>2. RecordsListed' BY <1>1, <2>1, PageLists
  <2>3. selection' = Absent /\ ~Expanded' BY <2>1 DEF Dispatched, Listing, Expanded
  <2> QED BY <1>2, <2>2, <2>3, NothingAllocated DEF AllocationInv
<1>6. CASE BeginAllocation
  <2>1. AllocationSound' BY <1>1, <1>6, FirstTurn
  <2>2. RecordsListed' BY <1>1, <1>6, RecordsStay DEF BeginAllocation, Unfailed
  <2> QED BY <1>2, <2>1, <2>2 DEF AllocationInv
<1>7. CASE Allocate
  <2>1. AllocationSound' BY <1>1, <1>7, TurnTaken
  <2>2. RecordsListed' BY <1>1, <1>7, RecordsStay DEF Allocate, Unfailed
  <2> QED BY <1>2, <2>1, <2>2 DEF AllocationInv
<1>8. CASE Publish
  <2>1. AllocationSound' BY <1>1, <1>8, TurnsPublished
  <2>2. RecordsListed' BY <1>1, <1>8, RecordsStay DEF Publish, Unfailed
  <2> QED BY <1>2, <2>1, <2>2 DEF AllocationInv
<1>9. CASE UNCHANGED expansionVars
  BY <1>1, <1>2, <1>9, AllocationStays DEF AllocationInv
<1>10. ListingBreaksOff \/ ListingRefused => \E cause, delay : FetchFails(cause, delay)
  BY DEF ListingBreaksOff, ListingRefused
<1> QED BY <1>3, <1>4, <1>5, <1>6, <1>7, <1>8, <1>9, <1>10 DEF ExpansionNext

\* Once the allocation is published, every turn was taken.
LEMMA EveryTurnTaken ==
    ASSUME AllocationInv, Expanded
    PROVE  Unfailed /\ AreQueues(Queues) /\ Examined = TurnsOf(Queues)
<1>1. ExpansionInv /\ RecordsListed /\ AllocationSound BY DEF AllocationInv
<1>2. Unfailed BY DEF Expanded, Unfailed
<1>3. AreQueues(Queues) BY <1>1, <1>2, TurnsOfExpansion
<1> DEFINE s == Turns(Queues)
<1>4. turn \in 1 .. Len(s) + 1 /\ turn > Len(s) BY <1>1 DEF AllocationSound
<1>5. /\ Len(s) \in Nat /\ DOMAIN s = 1 .. Len(s)
      /\ \A j \in DOMAIN s : s[j] \in TurnsOf(Queues)
      /\ \A t \in TurnsOf(Queues) : \E j \in DOMAIN s : s[j] = t
  BY <1>3, TurnsListed
<1>6. Examined = {s[j] : j \in 1 .. turn - 1} BY DEF Examined
<1> HIDE DEF s
<1>7. 1 .. turn - 1 = DOMAIN s BY <1>4, <1>5
<1>8. Examined = TurnsOf(Queues) BY <1>5, <1>6, <1>7
<1> QED BY <1>2, <1>3, <1>8

\* What was listed is in one bucket each.
LEMMA BucketsPart ==
    ASSUME NEW entry, IsFiniteSet(entry.records)
    PROVE  Cardinality(InBucket(entry, "disabled")) + Cardinality(InBucket(entry, "archived"))
           + Cardinality(InBucket(entry, "fork")) + Cardinality(InBucket(entry, "eligible"))
           = Cardinality(entry.records)
<1> DEFINE S == entry.records
           A == InBucket(entry, "disabled")
           B == InBucket(entry, "archived")
           C == InBucket(entry, "fork")
           D == InBucket(entry, "eligible")
<1>1. \A record \in S : Bucket(record) \in {"disabled", "archived", "fork", "eligible"} BY DEF Bucket
<1>2. /\ A = {r \in S : Bucket(r) = "disabled"} /\ B = {r \in S : Bucket(r) = "archived"}
      /\ C = {r \in S : Bucket(r) = "fork"} /\ D = {r \in S : Bucket(r) = "eligible"}
  BY DEF InBucket
<1> HIDE DEF A, B, C, D
<1>3. Parts(S, A, B, C \cup D)
  <2>1. A \in SUBSET S /\ B \in SUBSET S /\ C \cup D \in SUBSET S BY <1>2
  <2>2. A \cap B = {} /\ A \cap (C \cup D) = {} /\ B \cap (C \cup D) = {} BY <1>2
  <2>3. A \cup B \cup (C \cup D) = S BY <1>1, <1>2
  <2> QED BY <2>1, <2>2, <2>3 DEF Parts
<1>4. C \cap D = {} BY <1>2
<1> HIDE DEF S
<1>5. Cardinality(A) + Cardinality(B) + Cardinality(C) + Cardinality(D) = Cardinality(S)
  <2>1. IsFiniteSet(S) BY DEF S
  <2> QED BY <1>3, <1>4, <2>1, FourParts
<1> QED BY <1>5 DEF A, B, C, D, S

\* The disclosed numbers account for everything that was listed.
LEMMA CountsSound ==
    ASSUME AllocationInv, Expanded, NEW i \in DOMAIN listings
    PROVE  LET s == expansion.selectors[i]
               names == UNION {{asked[k][3][r].name : r \in DOMAIN asked[k][3]} : k \in AskedOf(i)}
           IN /\ s.listed = Cardinality(names)
              /\ s.disabled + s.archived + s.fork + s.eligible = s.listed
              /\ s.retained + s.omitted = s.eligible
<1> DEFINE names == UNION {{asked[k][3][r].name : r \in DOMAIN asked[k][3]} : k \in AskedOf(i)}
           entry == listings[i]
<1>1. ExpansionInv /\ RecordsListed /\ AllocationSound BY DEF AllocationInv
<1>2. Unfailed /\ AreQueues(Queues) /\ Examined = TurnsOf(Queues) BY EveryTurnTaken
<1>3. expansion.selectors[i] = Report(i) /\ TurnsCounted(i) BY <1>1 DEF AllocationSound
<1>4. PICK s : s = Report(i) /\ s = expansion.selectors[i] BY <1>3
<1>5. /\ s.listed = Cardinality(entry.records)
      /\ s.disabled = Cardinality(InBucket(entry, "disabled"))
      /\ s.archived = Cardinality(InBucket(entry, "archived"))
      /\ s.fork = Cardinality(InBucket(entry, "fork"))
      /\ s.eligible = Cardinality(InBucket(entry, "eligible"))
      /\ s.retained = selection.retained[i] /\ s.omitted = selection.omitted[i]
  BY <1>4 DEF Report
<1>6. /\ IsFiniteSet(entry.records) /\ ~Conflicts(entry.records)
      /\ NamesOf(entry.records) = UNION {NamesIn(asked[k][3]) : k \in AskedOf(i)}
  BY <1>1, <1>2 DEF RecordsListed
<1>7. names = UNION {NamesIn(asked[k][3]) : k \in AskedOf(i)} BY DEF NamesIn
<1> HIDE DEF names, entry
<1>8. s.listed = Cardinality(names) BY <1>5, <1>6, <1>7, NamesAreRecords
<1>9. s.disabled + s.archived + s.fork + s.eligible = s.listed BY <1>5, <1>6, BucketsPart
<1>10. s.retained + s.omitted = s.eligible
  <2>1. selection.retained[i] + selection.omitted[i] = Cardinality({t \in TurnsOf(Queues) : t[2] = i})
    BY <1>2, <1>3 DEF TurnsCounted
  <2>2. DOMAIN Queues = DOMAIN listings /\ Len(Queues[i]) = Cardinality(InBucket(entry, "eligible"))
    BY <1>1, <1>2, QueuesList DEF entry
  <2>3. Cardinality({t \in TurnsOf(Queues) : t[2] = i}) = Len(Queues[i])
    BY <1>2, <2>2, TurnsNeeded
  <2> QED BY <1>5, <2>1, <2>2, <2>3
<1> QED BY <1>4, <1>8, <1>9, <1>10 DEF names

\* Who is left out, is left out for want of room, and not for a later candidate.
LEMMA TurnsSound ==
    ASSUME AllocationInv, Expanded
    PROVE  EarlierTurnFirst
<1> DEFINE K == TurnsOf(Queues)
           ScopeOf(t) == RepositoryScope(Queues[t[2]][t[1]])
           list == expansion.scopes
           published == Range(list)
           full == \/ Len(list) = MaxScopes
                   \/ Cardinality(Referenced(list)) = MaxSelectedRepositories
<1>1. ExpansionInv /\ AllocationSound BY DEF AllocationInv
<1>2. Examined = K BY EveryTurnTaken
<1>3. TurnsHonoured(K, ScopeAt, list, request.exact)
  BY <1>1, <1>2 DEF AllocationSound
<1>4. ScopesSound(list, expansion.provenance, request.exact) BY <1>1 DEF ExpansionInv, ExpansionKept
<1>5. \A t \in K : ScopeAt[t] = ScopeOf(t) BY DEF ScopeAt
<1>6. published = ToSet(list) /\ Range(request.exact) = ToSet(request.exact) BY DEF Range, ToSet
<1> HIDE DEF list, published
<1>7. Full(list) => full
  <2>1. list \in Seq(ToSet(list)) /\ Len(list) <= MaxScopes
        /\ Cardinality(Referenced(list)) <= MaxSelectedRepositories
    BY <1>4 DEF ScopesSound
  <2>2. Len(list) \in Nat BY <2>1
  <2>3. Cardinality(Referenced(list)) \in Nat BY <2>1, ReferencesGrow
  <2>4. MaxScopes \in Nat /\ MaxSelectedRepositories \in Nat BY ExpansionAssumption
  <2> QED BY <2>1, <2>2, <2>3, <2>4 DEF Full
<1> HIDE DEF full
<1>8. ASSUME NEW t \in K, ScopeOf(t) \notin published
      PROVE  /\ full
             /\ \A u \in K : Earlier(t, u) /\ ScopeOf(u) \in published \ Range(request.exact)
                             => ScopeOf(u).repository \in Referenced(request.exact)
  <2>1. ScopeAt[t] \notin ToSet(list) BY <1>5, <1>6, <1>8
  <2>2. full BY <1>3, <1>7, <2>1 DEF TurnsHonoured
  <2>3. ASSUME NEW u \in K, Earlier(t, u), ScopeOf(u) \in published \ Range(request.exact)
        PROVE  ScopeOf(u).repository \in Referenced(request.exact)
    <3>1. ScopeAt[u] = ScopeOf(u) /\ ScopeAt[u] \in ToSet(list) \ ToSet(request.exact)
      BY <1>5, <1>6, <2>3
    <3>2. ScopeAt[u].repository \in Referenced(request.exact)
      BY <1>3, <2>1, <2>3, <3>1 DEF TurnsHonoured
    <3> QED BY <3>1, <3>2
  <2> QED BY <2>2, <2>3
<1> QED BY <1>8 DEF EarlierTurnFirst, K, ScopeOf, list, published, full

\* What an expansion lists and allocates, from any request and whatever the API answers.
THEOREM AllocationInvariance == AbsentIsNothing => (ExpansionSpec => []AllocationInv)
<1> SUFFICES ASSUME AbsentIsNothing PROVE ExpansionSpec => []AllocationInv OBVIOUS
<1>1. ExpansionInit => AllocationInv
  <2> SUFFICES ASSUME ExpansionInit PROVE AllocationInv OBVIOUS
  <2>1. AllocationSound BY DEF ExpansionInit, AllocationSound, Expanded
  <2> QED BY <2>1, ExpansionBegins, ListingBegins DEF AllocationInv
<1>2. AllocationInv /\ [ExpansionNext]_expansionVars => AllocationInv' BY AllocationStepKept
<1> QED BY <1>1, <1>2, PTL DEF ExpansionSpec

\* What is published is the allocation the disclosed numbers describe, the exact Scopes
\* first, and an earlier turn before a later one (expand.go, expand_allocate.go).
THEOREM AllocationSafe == AbsentIsNothing => (ExpansionSpec => []AllocationIsTrue)
<1> SUFFICES ASSUME AbsentIsNothing PROVE ExpansionSpec => []AllocationIsTrue OBVIOUS
<1>1. AllocationInv => CountsAddUp BY CountsSound DEF CountsAddUp
<1>2. AllocationInv => EarlierTurnFirst
  <2>1. ASSUME AllocationInv, Expanded PROVE EarlierTurnFirst BY <2>1, TurnsSound
  <2>2. ASSUME ~Expanded PROVE EarlierTurnFirst BY <2>2 DEF EarlierTurnFirst
  <2> QED BY <2>1, <2>2
<1>3. CountsAddUp /\ MoreIsDisclosed /\ ExactKeepsPrecedence /\ EarlierTurnFirst => AllocationIsTrue
  BY DEF AllocationIsTrue
<1> QED BY <1>1, <1>2, <1>3, AllocationInvariance, MoreSafe, PrecedenceSafe, PTL
=============================================================================
