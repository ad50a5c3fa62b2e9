-------------------------- MODULE RefreshLifecycle --------------------------
(***************************************************************************)
(* The refresh lifecycle of the root model (src/internal/tui/refresh.go,   *)
(* selection.go, enrichment.go, and the atomic poll they drive, src/       *)
(* internal/github/source.go).                                             *)
(*                                                                         *)
(* Two actors share the model: the update loop, which applies one message  *)
(* at a time, and the command of the refresh in flight, a goroutine that   *)
(* works on the selection it captured and reports one message.  Quitting,  *)
(* or the end of the process context, may come between any two steps.      *)
(*                                                                         *)
(* Time passes in units of the 60 second floor.  An instant is held as its *)
(* distance from now and stays 0 once it has passed, a delay in flight as  *)
(* what is left of it.  A snapshot is abstracted to the repositories whose *)
(* pages it was built from.  hasSelection is selection # NoSelection.      *)
(*                                                                         *)
(* A definition whose comment starts with "Bug:" is a plausible mistake in *)
(* the definition after it; no specification uses it.                      *)
(***************************************************************************)
EXTENDS Integers, Sequences

CONSTANTS
    Repositories,
    Selections,        \* the selection snapshots an expansion may produce
    NoSelection,       \* none yet: the expander has not succeeded
    Exact,             \* what New polls: NoSelection if there is an expander
    ScopesOf,          \* the repositories of a selection, in Scope order
    PathSelections,    \* selections with a path Scope: they need evidence
    Delays,            \* what GitHub may instruct, in floors
    Floor,             \* defaultDelay and expansionRetry
    Interval           \* expansionInterval

NoTimer == -1
NoSnapshot == <<"none">>
HasExpander == Exact = NoSelection

ASSUME SelectionAssumption ==
    /\ NoSelection \notin Selections
    /\ Exact \in Selections \cup {NoSelection}
    /\ ScopesOf \in [Selections -> Seq(Repositories)]
    /\ PathSelections \subseteq Selections
    /\ "none" \notin Repositories
ASSUME DelayAssumption ==
    /\ Floor \in Nat \ {0} /\ Interval \in Nat
    /\ Floor <= Interval /\ Delays \subseteq Nat

Larger(a, b) == IF a > b THEN a ELSE b
Elapsed(n) == IF n > 0 THEN n - 1 ELSE n     \* one Floor later

-----------------------------------------------------------------------------
VARIABLES
    canceled,       \* m.ctx.Err() # nil
    pending,        \* m.pending
    selection,      \* m.selection
    nextExpansion,  \* m.nextExpansion
    shown,          \* m.state
    timer,          \* the armed tick, or NoTimer
    command,        \* the refresh in flight and its refreshedMsg
    last            \* history: the latest expansion the loop applied, and the
                    \* limits the latest attempt it applied had met

vars == <<canceled, pending, selection, nextExpansion, shown, timer, command, last>>

Freshness == {"loading", "current", "error", "stale"}
Phases == {"idle", "expanding", "polling", "enriching", "reported"}
Limits == {"expansion", "poll", "enrichment"}

\* expansionResult
Untried == [attempted |-> FALSE, ok |-> FALSE, selection |-> NoSelection,
            retry |-> 0, limited |-> FALSE, age |-> 0]
Expanded(s) == [attempted |-> TRUE, ok |-> TRUE, selection |-> s,
                retry |-> 0, limited |-> FALSE, age |-> 0]
Unexpanded(d, l) == [attempted |-> TRUE, ok |-> FALSE, selection |-> NoSelection,
                     retry |-> d, limited |-> l, age |-> 0]

Idle == [phase |-> "idle", selection |-> NoSelection, expansion |-> Untried,
         polled |-> FALSE, fetched |-> <<>>, failed |-> FALSE, limited |-> FALSE,
         delay |-> 0, enrichLimited |-> FALSE, retryIn |-> 0]

TypeOK ==
    /\ canceled \in BOOLEAN /\ pending \in BOOLEAN
    /\ selection \in Selections \cup {NoSelection}
    /\ nextExpansion \in Nat
    /\ shown \in [freshness : Freshness, selection : Selections \cup {NoSelection},
                  snapshot : Seq(Repositories) \cup {NoSnapshot},
                  succeeded : BOOLEAN, marked : BOOLEAN, limited : BOOLEAN,
                  enrichLimited : BOOLEAN, retryIn : Nat, enrichIn : Nat]
    /\ timer \in Nat \cup {NoTimer}
    /\ command \in [phase : Phases, selection : Selections \cup {NoSelection},
                    expansion : [attempted : BOOLEAN, ok : BOOLEAN, limited : BOOLEAN,
                                 selection : Selections \cup {NoSelection},
                                 retry : Nat, age : 0..Interval],
                    polled : BOOLEAN, fetched : Seq(Repositories), failed : BOOLEAN,
                    limited : BOOLEAN, delay : Nat, enrichLimited : BOOLEAN, retryIn : Nat]
    /\ last \in [result : {"none", "ok", "failed"}, age : 0..Interval,
                  limits : SUBSET Limits]

-----------------------------------------------------------------------------
(* The update loop starts a refresh                                        *)

\* m.expansionDue.  Bug: a model with a selection never expands again.
FirstExpansionOnly == HasExpander /\ selection = NoSelection
ExpansionDue == HasExpander /\ (selection = NoSelection \/ nextExpansion = 0)

\* What the command does once its selection is fixed: an empty selection is
\* polled without a request.
Polling(c, s) ==
    [c EXCEPT !.selection = s, !.polled = TRUE,
              !.phase = IF ScopesOf[s] = <<>> THEN "reported" ELSE "polling"]

\* m.refresh: the command captures the selection and whether to expand.
Refresh ==
    IF ExpansionDue THEN [Idle EXCEPT !.phase = "expanding", !.selection = selection]
    ELSE Polling(Idle, selection)

Init ==
    /\ canceled = FALSE
    /\ pending = TRUE
    /\ selection = Exact
    /\ nextExpansion = 0
    /\ shown = [freshness |-> "loading", selection |-> NoSelection,
                snapshot |-> NoSnapshot, succeeded |-> FALSE, marked |-> FALSE,
                limited |-> FALSE, enrichLimited |-> FALSE, retryIn |-> 0, enrichIn |-> 0]
    /\ timer = NoTimer
    /\ command = Refresh
    /\ last = [result |-> "none", age |-> 0, limits |-> {}]

\* startRefresh on a refreshDueMsg: it looks at pending, not at the context.
StartRefresh ==
    /\ timer = 0
    /\ timer' = NoTimer
    /\ IF pending THEN UNCHANGED <<pending, command>>
       ELSE pending' = TRUE /\ command' = Refresh
    /\ UNCHANGED <<canceled, selection, nextExpansion, shown, last>>

-----------------------------------------------------------------------------
(* The command: expansion, then one atomic poll, then evidence             *)

\* An expansion that fails, and may not be followed by a poll: there is no
\* selection to fall back to, or the rate limit forbids further dispatch.
Stops(e) == ~e.ok /\ (command.selection = NoSelection \/ e.limited)

Expand ==
    /\ command.phase = "expanding"
    /\ \E e \in {Expanded(s) : s \in Selections}
                \cup {Unexpanded(d, TRUE) : d \in Delays}
                \cup {Unexpanded(d, FALSE) : d \in {0, Floor}} :
          LET done == [command EXCEPT !.expansion = e] IN
          command' = IF Stops(e) \/ canceled THEN [done EXCEPT !.phase = "reported"]
                     ELSE Polling(done, IF e.ok THEN e.selection ELSE command.selection)
    /\ UNCHANGED <<canceled, pending, selection, nextExpansion, shown, timer, last>>

\* Source.Refresh, one repository per step, in Scope order.
FetchPage ==
    /\ command.phase = "polling"
    /\ LET scopes == ScopesOf[command.selection]
           fetched == Append(command.fetched, scopes[Len(command.fetched) + 1])
       IN \E interval \in Delays :
            command' = [command EXCEPT
                !.fetched = fetched,
                !.delay = Larger(@, Larger(interval, Floor)),
                !.phase = IF fetched = scopes THEN "enriching" ELSE @]
    /\ UNCHANGED <<canceled, pending, selection, nextExpansion, shown, timer, last>>

\* The first failure fails the whole refresh and returns no page.  A canceled
\* request is one.
FetchFails ==
    /\ command.phase = "polling"
    /\ \E limited \in BOOLEAN, instructed \in Delays :
          command' = [command EXCEPT
              !.phase = "reported", !.fetched = <<>>, !.failed = TRUE, !.limited = limited,
              !.delay = IF limited THEN Larger(instructed, Floor) ELSE Floor]
    /\ UNCHANGED <<canceled, pending, selection, nextExpansion, shown, timer, last>>

\* m.enrich.  Only a path Scope consults evidence; a failed coordination, like
\* an unlimited one, names no retry.  enrichLimited is ~RetryAt.IsZero(): the
\* instant of a limit may have passed, and it is one all the same.
Enrich ==
    /\ command.phase = "enriching"
    /\ \/ command' = [command EXCEPT !.phase = "reported"]
       \/ /\ command.selection \in PathSelections
          /\ \E retryIn \in Delays :
                command' = [command EXCEPT !.phase = "reported", !.enrichLimited = TRUE,
                                           !.retryIn = retryIn]
    /\ UNCHANGED <<canceled, pending, selection, nextExpansion, shown, timer, last>>

-----------------------------------------------------------------------------
(* The update loop applies the reported message                            *)

Failure == IF command.polled THEN command.failed ELSE command.expansion.attempted /\ ~command.expansion.ok

\* m.delay.  Bug: the retry GitHub instructed the enrichment is not waited for.
PollDelayOnly ==
    IF ~command.polled THEN Larger(command.expansion.retry, Floor)
    ELSE Larger(command.delay, Floor)
Delay ==
    IF ~command.polled THEN Larger(command.expansion.retry, Floor)
    ELSE Larger(Larger(command.delay, Floor), command.retryIn)

\* refreshedMsg.rateLimit.  Bug: it reads the expansion's limit alone.
LimitedByExpansion == command.expansion.limited
Limited == IF command.polled THEN command.failed /\ command.limited ELSE command.expansion.limited

\* applyExpansion: what it leaves of an attempt's wait, which began when the
\* attempt completed.
Remaining(wait) == LET left == wait - command.expansion.age IN IF left > 0 THEN left ELSE 0

FixedSelection == IF command.expansion.ok THEN command.expansion.selection ELSE selection

\* Bug: the retry bound schedules the attempt after a success, too.
ScheduleRetry ==
    IF ~command.expansion.attempted THEN nextExpansion
    ELSE Remaining(Larger(command.expansion.retry, Floor))
Schedule ==
    IF ~command.expansion.attempted THEN nextExpansion
    ELSE IF command.expansion.ok THEN Remaining(Interval)
    ELSE Remaining(Larger(command.expansion.retry, Floor))

Marked ==
    \/ shown.marked
    \/ command.expansion.attempted /\ ~command.expansion.ok /\ selection # NoSelection

\* The marker of an earlier failed expansion falls only with a refresh that
\* expanded successfully itself.  Bug: every success clears it.
MarkedNever == FALSE
MarkedAfterSuccess == IF command.expansion.ok THEN FALSE ELSE Marked

\* published: selection, snapshot and markers are replaced at once; s is the
\* fixed selection after applyExpansion.
Published(s) ==
    [shown EXCEPT !.freshness = "current", !.succeeded = TRUE, !.selection = s,
                  !.snapshot = command.fetched, !.enrichIn = command.retryIn,
                  !.enrichLimited = command.enrichLimited,
                  !.limited = FALSE, !.retryIn = 0,
                  !.marked = MarkedAfterSuccess]

\* degraded: the last published pair stays.
Degraded(delay) ==
    [shown EXCEPT !.freshness = IF shown.succeeded THEN "stale" ELSE "error",
                  !.limited = Limited, !.retryIn = IF Limited THEN delay ELSE 0,
                  !.marked = Marked]

\* The limits this attempt met, whatever the loop makes of them.
LimitsMet == {l \in Limits : \/ l = "expansion" /\ command.expansion.limited
                             \/ l = "poll" /\ command.limited
                             \/ l = "enrichment" /\ command.enrichLimited}

Discards == canceled

\* Bug: a failed refresh arms no timer.
TimerAfterSuccess == IF Failure THEN NoTimer ELSE Delay
NextTimer == Delay

\* Bug: published reads the selection before applyExpansion replaced it.
ShowPrevious ==
    IF Failure THEN Degraded(Delay) ELSE IF command.polled THEN Published(selection) ELSE shown
Show ==
    IF Failure THEN Degraded(Delay)
    ELSE IF command.polled THEN Published(FixedSelection) ELSE shown

ApplyRefresh ==
    /\ command.phase = "reported"
    /\ pending' = FALSE
    /\ command' = Idle
    /\ \/ /\ Discards
          /\ UNCHANGED <<selection, nextExpansion, shown, timer, last>>
       \/ /\ ~Discards
          /\ selection' = FixedSelection
          /\ nextExpansion' = Schedule
          /\ shown' = Show
          /\ timer' = NextTimer
          /\ last' = IF ~command.expansion.attempted THEN [last EXCEPT !.limits = LimitsMet]
                     ELSE [result |-> IF command.expansion.ok THEN "ok" ELSE "failed",
                           age |-> command.expansion.age, limits |-> LimitsMet]
    /\ UNCHANGED canceled

-----------------------------------------------------------------------------
\* "q", ctrl+c, an interrupt, or the program ending for any other reason.
Cancel ==
    /\ ~canceled /\ canceled' = TRUE
    /\ UNCHANGED <<pending, selection, nextExpansion, shown, timer, command, last>>

Older(age) == IF age < Interval THEN age + 1 ELSE age

\* One Floor of time passes, whatever the actors are doing.
Tick ==
    /\ timer' = Elapsed(timer)
    /\ nextExpansion' = Elapsed(nextExpansion)
    /\ shown' = [shown EXCEPT !.retryIn = Elapsed(@), !.enrichIn = Elapsed(@)]
    /\ command' = [command EXCEPT
          !.retryIn = Elapsed(@),
          !.expansion.age = IF command.expansion.attempted THEN Older(@) ELSE @]
    /\ last' = [last EXCEPT !.age = Older(@)]
    /\ UNCHANGED <<canceled, pending, selection>>

CommandStep == Expand \/ FetchPage \/ FetchFails \/ Enrich

Next == StartRefresh \/ CommandStep \/ ApplyRefresh \/ Cancel \/ Tick

Spec == Init /\ [][Next]_vars

\* Time passes, timers fire, every request ends within its timeout, and the
\* update loop takes the messages it is sent.
FairSpec ==
    Spec /\ WF_vars(Tick) /\ WF_vars(StartRefresh)
         /\ WF_vars(CommandStep) /\ WF_vars(ApplyRefresh)

-----------------------------------------------------------------------------
(* Properties                                                              *)

\* What is on screen is one completely successful refresh: its snapshot holds
\* exactly the pages of the selection shown beside it, it is there exactly when
\* the marker is CURRENT or STALE, and CURRENT shows the selection every later
\* refresh polls.
PairIsOneRefresh ==
    /\ shown.freshness \in {"current", "stale"} <=> shown.snapshot # NoSnapshot
    /\ shown.snapshot # NoSnapshot =>
          /\ shown.selection # NoSelection
          /\ shown.snapshot = ScopesOf[shown.selection]
    /\ shown.freshness = "current" => shown.selection = selection

\* A poll reads one fixed selection, the one its own refresh expanded or else
\* the last the loop applied, and none after an expansion that was limited.
PollsFixedSelection ==
    command.phase \in {"polling", "enriching"} =>
        /\ command.selection = FixedSelection /\ command.selection # NoSelection
        /\ ~command.expansion.limited
        /\ Len(command.fetched) <= Len(ScopesOf[command.selection])
        /\ \A i \in DOMAIN command.fetched :
              command.fetched[i] = ScopesOf[command.selection][i]

\* There is one timer chain: an armed timer or a refresh in flight, never both,
\* and never neither while the program runs.
OneChain ==
    /\ pending <=> command.phase # "idle"
    /\ pending => timer = NoTimer
    /\ ~canceled => (pending \/ timer # NoTimer)

\* No work starts before an instant GitHub instructed, whichever of expansion,
\* poll and enrichment it instructed, and however late the message was applied.
RetryHonored ==
    command.phase # "idle" => shown.retryIn = 0 /\ shown.enrichIn = 0

\* A refresh expands no sooner than Interval after a success completed, and no
\* sooner than the retry bound after a failure did.
ExpansionsAreSpaced ==
    command.phase = "expanding" =>
        last.age >= CASE last.result = "none" -> 0
                      [] last.result = "ok" -> Interval
                      [] last.result = "failed" -> Floor

\* The chrome's RATE LIMITED badge.
RateLimitBadge == shown.limited \/ shown.enrichLimited

\* No marker is missing and none is left over.  A snapshot polled from the
\* selection a failed re-expansion left is SELECTION STALE.  RATE LIMITED is there
\* if the latest attempt met a limit, be it in its expansion, its poll or only its
\* enrichment, where it stands beside CURRENT (badges.go:59-61); and else only
\* beside STALE, when the enrichment of the pair that is still shown met one.
MarkersAreKept ==
    /\ shown.freshness = "current" /\ last.result = "failed" => shown.marked
    /\ RateLimitBadge <=> \/ last.limits # {}
                          \/ shown.freshness = "stale" /\ shown.enrichLimited

\* SelectionFreshness marks whether the displayed selection is the one the
\* latest due expansion produced (state.go:106-108): with a CURRENT snapshot,
\* exactly when that expansion failed.
MarkerIsTrue ==
    shown.freshness = "current" => (shown.marked <=> last.result = "failed")

\* A canceled refresh publishes nothing, moves no schedule and arms no timer:
\* no step after the context ended changes what the model shows or will poll.
CancelFreezes ==
    [][canceled => /\ selection' = selection
                   /\ shown' = [shown EXCEPT !.retryIn = shown'.retryIn,
                                             !.enrichIn = shown'.enrichIn]
                   /\ nextExpansion' \in {nextExpansion, Elapsed(nextExpansion)}
                   /\ timer' \in {timer, Elapsed(timer), NoTimer}]_vars

\* Failures never stop the polling: refreshes keep starting and ending, and a
\* due expansion is attempted, until the program is told to quit.
KeepsRefreshing ==
    /\ []<>(canceled \/ pending) /\ []<>(canceled \/ ~pending)
    /\ HasExpander => (nextExpansion = 0 ~> canceled \/ command.phase = "expanding")
=============================================================================
