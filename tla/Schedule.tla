------------------------------ MODULE Schedule ------------------------------
(***************************************************************************)
(* When the next request may be sent: src/internal/github/schedule.go and  *)
(* the status mapping of source.go, shared by polling, by organization     *)
(* listings and by evidence requests.                                      *)
(*                                                                         *)
(* A time.Duration is a signed machine word of nanoseconds, and a header's *)
(* number of seconds is multiplied into it without a check, so every       *)
(* product here wraps.  Instants are whole seconds.                        *)
(***************************************************************************)
EXTENDS Integers, FiniteSetsExt

CONSTANTS
  Half,             \* a machine word holds -Half .. Half - 1 (2^63 in the code)
  Second,           \* time.Second: the nanoseconds of a second
  DefaultInterval,  \* the polling floor, in seconds
  UnixEpoch,        \* the Unix epoch, in the seconds of time.Time
  Now,              \* the instant the reply is read at
  Headers,          \* the scheduling headers a reply may carry
  Statuses,         \* the statuses a reply may have
  Absent            \* a header (or another fact) that is missing or unusable

ASSUME ScheduleAssumption ==
  /\ {Half, Second, DefaultInterval, Now} \subseteq Nat \ {0}
  /\ UnixEpoch \in Nat
  /\ DefaultInterval * Second < Half
  /\ \A h \in Headers :
       /\ DOMAIN h = {"poll", "retryAfter", "reset", "remaining"}
       /\ h.retryAfter # Absent /\ h.retryAfter.form # "seconds" => h.retryAfter.value \in Int

\* Two's complement arithmetic.
Wrapped(n) == ((n + Half) % (2 * Half)) - Half

\* time.Duration(n) * time.Second
Seconds(n) == Wrapped(n * Second)

\* Time.Sub saturates; delayUntil cuts the past off.
DelayUntil(instant) == Max({0, Min({(instant - Now) * Second, Half - 1})})

\* time.Unix adds the epoch to the seconds of the header, in one word.
UnixInstant(n) == Wrapped(n + UnixEpoch)

\* A number the header spells; Atoi refuses anything that is not in a word.
Spells(value) == value # Absent /\ value \in -Half .. Half - 1

PollInterval(header) ==
  IF Spells(header.poll) /\ header.poll >= 0 THEN Seconds(header.poll) ELSE 0

PollDelay(advertised) == Max({Seconds(DefaultInterval)} \cup advertised)

\* Retry-After is a number of seconds or a date.
RetryAfterIsValid(header) ==
  /\ header.retryAfter # Absent
  /\ header.retryAfter.form = "seconds" =>
       Spells(header.retryAfter.value) /\ header.retryAfter.value >= 0

RetryAfterDelay(header) ==
  IF header.retryAfter.form = "seconds" THEN Seconds(header.retryAfter.value)
                                        ELSE DelayUntil(header.retryAfter.value)

ResetIsValid(header) == Spells(header.reset) /\ header.reset >= 0

RateLimitResetDelay(header) == DelayUntil(UnixInstant(header.reset))

IsRateLimited(status, header) ==
  \/ status = 429
  \/ status = 403 /\ (header.remaining = 0 \/ RetryAfterIsValid(header))

\* Every delay the headers instruct; the latest of them wins.
Instructed(header) ==
  (IF RetryAfterIsValid(header) THEN {RetryAfterDelay(header)} ELSE {})
    \cup (IF ResetIsValid(header) THEN {RateLimitResetDelay(header)} ELSE {})

\* A mistake: the first instruction found replaces the floor and the other one.
RetryDelayOfFirst(header, limited) ==
  IF ~limited THEN Seconds(DefaultInterval)
  ELSE IF RetryAfterIsValid(header) THEN RetryAfterDelay(header)
  ELSE Max({Seconds(DefaultInterval)} \cup Instructed(header))

RetryDelay(header, limited) ==
  Max({Seconds(DefaultInterval)} \cup IF limited THEN Instructed(header) ELSE {})

\* The failure class of a reply, "none" when it is a success.
StatusError(status, header) ==
  CASE status \in 200 .. 299            -> "none"
    [] status = 401                     -> "authentication"
    [] status = 404                     -> "not found"
    [] IsRateLimited(status, header)    -> "rate limited"
    [] status = 403 /\ ~IsRateLimited(status, header) -> "access denied"
    [] OTHER                            -> "unexpected"

-----------------------------------------------------------------------------
(* What a delay owes to the server, stated without the arithmetic of the code. *)

\* The floor is never undercut, whatever the headers say.
KeepsFloor(delay) == delay >= DefaultInterval * Second

\* A number of seconds a Duration can hold.
Fits(seconds) == seconds * Second < Half

\* A rate-limited retry comes no earlier than each instant the reply names, the
\* Retry-After and the reset both, wherever the numbers fit in a Duration.
HonoursRetry(delay, header) ==
  /\ RetryAfterIsValid(header) =>
       LET after == header.retryAfter IN
       IF after.form = "seconds" THEN Fits(after.value) => delay >= after.value * Second
       ELSE Fits(after.value - Now) => delay >= (after.value - Now) * Second
  /\ ResetIsValid(header) /\ header.reset + UnixEpoch < Half /\ Fits(header.reset + UnixEpoch - Now) =>
       delay >= (header.reset + UnixEpoch - Now) * Second

\* A poll comes no earlier than the interval the reply advertises, where it fits.
HonoursPoll(delay, header) ==
  Spells(header.poll) /\ header.poll >= 0 /\ Fits(header.poll) =>
    delay >= header.poll * Second
=============================================================================
