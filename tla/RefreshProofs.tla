--------------------------- MODULE RefreshProofs ---------------------------
(***************************************************************************)
(* The safety properties of RefreshLifecycle, for every organization,      *)
(* every instructed delay and every length of the schedule.                *)
(*                                                                         *)
(* IInv adds to the properties what each phase of the command knows about  *)
(* the selection it captured (Captured, Collected), what became of the     *)
(* expander (Fixed), which limits it has met and reported (Met), and that  *)
(* every distance a later step relies on is covered by a timer that is     *)
(* still running (Covered, Spaced).                                        *)
(***************************************************************************)
EXTENDS RefreshLifecycle, SequenceTheorems, TLAPS

USE SelectionAssumption, DelayAssumption

\* The command of a refresh works on the model's own selection or on the one it
\* expanded, and m.selection does not change while it does.
Captured ==
    /\ command.phase = "idle" => command = Idle
    /\ command.phase = "expanding" =>
          /\ command.selection = selection /\ command.expansion = Untried
          /\ ~command.polled /\ ~command.failed /\ command.fetched = <<>>
    /\ command.expansion.ok => command.expansion.attempted /\ command.expansion.selection \in Selections
    /\ command.polled => /\ command.selection = FixedSelection
                         /\ command.selection \in Selections
                         /\ ~command.expansion.limited
    /\ command.phase \in {"polling", "enriching"} => command.polled /\ ~command.failed
    /\ command.phase = "reported" /\ ~command.polled =>
          command.expansion.attempted /\ (command.expansion.ok => canceled)

\* A limit is met by the one of expansion, poll and enrichment that ended the
\* command, and what enrichment met is shown beside the pair it enriched.
Met ==
    /\ command.limited => command.polled /\ command.failed
    /\ command.enrichLimited =>
          command.phase = "reported" /\ command.polled /\ ~command.failed
    /\ shown.enrichLimited => shown.succeeded

\* A poll that ended without a failure holds every page of its selection.
Collected ==
    /\ command.phase = "polling" =>
          /\ Len(command.fetched) < Len(ScopesOf[command.selection])
          /\ \A i \in 1..Len(command.fetched) :
                command.fetched[i] = ScopesOf[command.selection][i]
    /\ command.phase \in {"enriching", "reported"} /\ command.polled /\ ~command.failed =>
          command.fetched = ScopesOf[command.selection]

\* A model that does not expand has a selection, and an expansion that
\* succeeded left one.
Fixed ==
    /\ ~HasExpander => selection # NoSelection
    /\ last.result = "ok" => selection # NoSelection
    /\ last.result = "failed" /\ selection # NoSelection => shown.marked
    /\ shown.succeeded <=> shown.snapshot # NoSnapshot

\* The armed timer outlasts every instant shown.
Covered ==
    timer # NoTimer => shown.retryIn <= timer /\ shown.enrichIn <= timer

\* What is left of a wait and what has passed of it make up the bound.
Spaced ==
    /\ last.result = "ok" => last.age + nextExpansion >= Interval
    /\ last.result = "failed" => last.age + nextExpansion >= Floor
    /\ last.result = "failed" /\ timer # NoTimer => last.age + timer >= Floor

IInv ==
    /\ TypeOK /\ OneChain /\ Captured /\ Met /\ Collected /\ Fixed /\ Covered /\ Spaced
    /\ PairIsOneRefresh /\ RetryHonored /\ ExpansionsAreSpaced /\ MarkersAreKept

-----------------------------------------------------------------------------
(* The operators                                                           *)

ExpansionResults ==
    [attempted : BOOLEAN, ok : BOOLEAN, limited : BOOLEAN,
     selection : Selections \cup {NoSelection}, retry : Nat, age : 0..Interval]
Commands ==
    [phase : Phases, selection : Selections \cup {NoSelection},
     expansion : ExpansionResults, polled : BOOLEAN, fetched : Seq(Repositories),
     failed : BOOLEAN, limited : BOOLEAN, delay : Nat, enrichLimited : BOOLEAN,
     retryIn : Nat]
States ==
    [freshness : Freshness, selection : Selections \cup {NoSelection},
     snapshot : Seq(Repositories) \cup {NoSnapshot}, succeeded : BOOLEAN,
     marked : BOOLEAN, limited : BOOLEAN, enrichLimited : BOOLEAN,
     retryIn : Nat, enrichIn : Nat]
Attempts ==
    [result : {"none", "ok", "failed"}, age : 0..Interval, limits : SUBSET Limits]

\* Larger and Elapsed are what a reader takes them for.
LEMMA Arithmetic ==
    /\ \A a, b \in Nat : Larger(a, b) \in Nat /\ Larger(a, b) >= a /\ Larger(a, b) >= b
    /\ \A n \in Nat : Elapsed(n) \in Nat /\ Elapsed(n) <= n
    /\ \A m, n \in Nat : m <= n => Elapsed(m) <= Elapsed(n)
    /\ Elapsed(NoTimer) = NoTimer
    /\ \A a \in 0..Interval : Older(a) \in 0..Interval /\ Older(a) >= a
BY DEF Larger, Elapsed, NoTimer, Older

\* A command that waits for nothing is well-typed.
LEMMA IdleType ==
    /\ Idle \in Commands /\ Untried \in ExpansionResults
    /\ ~Idle.limited /\ ~Idle.enrichLimited
BY DEF Idle, Untried, Commands, ExpansionResults, Phases

\* The results an expansion reports are well-typed.
LEMMA ResultTypes ==
    /\ \A s \in Selections :
          /\ Expanded(s) \in ExpansionResults
          /\ Expanded(s).attempted /\ Expanded(s).age = 0
          /\ Expanded(s).selection = s /\ ~Expanded(s).limited
    /\ \A d \in Nat, l \in BOOLEAN :
          /\ Unexpanded(d, l) \in ExpansionResults
          /\ Unexpanded(d, l).attempted /\ Unexpanded(d, l).age = 0
          /\ ~Unexpanded(d, l).ok
<1>1. 0 \in 0..Interval /\ 0 \in Nat
  OBVIOUS
<1>2. ASSUME NEW s \in Selections
      PROVE  /\ Expanded(s) \in ExpansionResults
             /\ Expanded(s).attempted /\ Expanded(s).age = 0
             /\ Expanded(s).selection = s /\ ~Expanded(s).limited
  BY <1>1 DEF Expanded, ExpansionResults
<1>3. ASSUME NEW d \in Nat, NEW l \in BOOLEAN
      PROVE  /\ Unexpanded(d, l) \in ExpansionResults
             /\ Unexpanded(d, l).attempted /\ Unexpanded(d, l).age = 0
             /\ ~Unexpanded(d, l).ok
  BY <1>1, ZenonT(20) DEF Unexpanded, ExpansionResults
<1> QED BY <1>2, <1>3

\* Fixing the selection of a poll keeps a command well-typed; without a
\* repository the command reports at once.
LEMMA PollingType ==
    ASSUME NEW c \in Commands, NEW s \in Selections
    PROVE  /\ Polling(c, s) \in Commands
           /\ Polling(c, s).polled /\ Polling(c, s).selection = s
           /\ Polling(c, s).phase = IF ScopesOf[s] = <<>> THEN "reported" ELSE "polling"
           /\ Polling(c, s).expansion = c.expansion /\ Polling(c, s).fetched = c.fetched
           /\ Polling(c, s).failed = c.failed /\ Polling(c, s).limited = c.limited
           /\ Polling(c, s).enrichLimited = c.enrichLimited
BY DEF Polling, Commands, Phases

\* A model that reaches a refresh with no expansion due has a selection.
LEMMA RefreshCommand ==
    ASSUME selection \in Selections \cup {NoSelection},
           ~HasExpander => selection # NoSelection
    PROVE  /\ Refresh \in Commands
           /\ \/ /\ ExpansionDue
                 /\ Refresh.phase = "expanding" /\ Refresh.selection = selection
                 /\ ~Refresh.polled
              \/ /\ ~ExpansionDue /\ selection \in Selections
                 /\ Refresh.polled /\ Refresh.selection = selection
                 /\ Refresh.phase =
                       IF ScopesOf[selection] = <<>> THEN "reported" ELSE "polling"
           /\ Refresh.expansion = Untried /\ Refresh.fetched = <<>> /\ ~Refresh.failed
           /\ ~Refresh.limited /\ ~Refresh.enrichLimited
<1>1. CASE ExpansionDue
  BY <1>1, IdleType DEF Refresh, Idle, Commands, Phases
<1>2. CASE ~ExpansionDue
  <2>1. selection \in Selections
    BY <1>2 DEF ExpansionDue
  <2>2. Refresh = Polling(Idle, selection)
    BY <1>2 DEF Refresh
  <2>3. /\ Idle.expansion = Untried /\ Idle.fetched = <<>> /\ ~Idle.failed
    BY DEF Idle
  <2> QED BY <1>2, <2>1, <2>2, <2>3, IdleType, PollingType
<1> QED BY <1>1, <1>2

-----------------------------------------------------------------------------
(* What the steps do                                                       *)

\* An expansion that ends leaves either no poll, and then it failed or the
\* context ended, or a poll of the selection it fixed.
LEMMA ExpandEffect ==
    ASSUME TypeOK, Captured, Met, Expand
    PROVE  /\ command' \in Commands
           /\ command'.expansion.attempted /\ command'.expansion.age = 0
           /\ command'.expansion.ok => command'.expansion.selection \in Selections
           /\ command'.fetched = <<>> /\ ~command'.failed
           /\ ~command'.limited /\ ~command'.enrichLimited
           /\ \/ /\ command'.phase = "reported" /\ ~command'.polled
                 /\ command'.expansion.ok => canceled
              \/ /\ command'.selection \in Selections /\ command'.polled
                 /\ command'.selection = IF command'.expansion.ok
                                         THEN command'.expansion.selection ELSE selection
                 /\ ~command'.expansion.limited
                 /\ command'.phase = IF ScopesOf[command'.selection] = <<>>
                                     THEN "reported" ELSE "polling"
<1>1. PICK e \in {Expanded(s) : s \in Selections}
                    \cup {Unexpanded(d, TRUE) : d \in Delays}
                    \cup {Unexpanded(d, FALSE) : d \in {0, Floor}} :
        LET done == [command EXCEPT !.expansion = e] IN
        command' = IF Stops(e) \/ canceled THEN [done EXCEPT !.phase = "reported"]
                   ELSE Polling(done, IF e.ok THEN e.selection ELSE command.selection)
  BY DEF Expand
<1>2. /\ e \in ExpansionResults /\ e.attempted /\ e.age = 0
      /\ e.ok => e.selection \in Selections /\ ~e.limited
  <2>1. CASE e \in {Expanded(s) : s \in Selections}
    BY <2>1, ResultTypes
  <2>2. CASE e \notin {Expanded(s) : s \in Selections}
    <3>1. \E d \in Nat, l \in BOOLEAN : e = Unexpanded(d, l)
      BY <2>2, Zenon
    <3> QED BY <3>1, ResultTypes
  <2> QED BY <2>1, <2>2
<1> DEFINE done == [command EXCEPT !.expansion = e]
<1>3. command \in Commands /\ command.selection = selection /\ ~command.polled
      /\ ~command.failed /\ command.fetched = <<>>
      /\ ~command.limited /\ ~command.enrichLimited
  BY DEF TypeOK, Commands, ExpansionResults, Captured, Met, Expand
<1>4. /\ done \in Commands /\ done.expansion = e /\ done.fetched = <<>>
      /\ ~done.failed /\ ~done.polled /\ ~done.limited /\ ~done.enrichLimited
  BY <1>2, <1>3 DEF Commands
<1>5. CASE Stops(e) \/ canceled
  <2>1. command' = [done EXCEPT !.phase = "reported"]
    BY <1>1, <1>5
  <2>2. command' \in Commands /\ command'.phase = "reported" /\ command'.expansion = e
        /\ command'.fetched = <<>> /\ ~command'.failed /\ ~command'.polled
        /\ ~command'.limited /\ ~command'.enrichLimited
    BY <2>1, <1>4 DEF Commands, Phases
  <2> HIDE DEF done
  <2> QED BY <2>2, <1>2, <1>5 DEF Stops
<1>6. CASE ~(Stops(e) \/ canceled)
  <2> DEFINE s == IF e.ok THEN e.selection ELSE command.selection
  <2>1. s \in Selections /\ ~e.limited
    BY <1>2, <1>3, <1>6 DEF Stops, TypeOK
  <2>2. command' = Polling(done, s)
    BY <1>1, <1>6
  <2> HIDE DEF done
  <2>3. /\ command' \in Commands /\ command'.polled /\ command'.selection = s
        /\ command'.phase = IF ScopesOf[s] = <<>> THEN "reported" ELSE "polling"
        /\ command'.expansion = e /\ command'.fetched = <<>> /\ ~command'.failed
        /\ ~command'.limited /\ ~command'.enrichLimited
    BY <2>1, <2>2, <1>4, PollingType
  <2> QED BY <2>1, <2>3, <1>2, <1>3
<1> QED BY <1>5, <1>6

\* A fetched page extends the pages of the poll by the next repository's.
LEMMA FetchEffect ==
    ASSUME TypeOK, Captured, Collected, FetchPage
    PROVE  LET scopes == ScopesOf[command.selection] IN
           /\ command' \in Commands
           /\ command'.selection = command.selection /\ command'.polled
           /\ command'.expansion = command.expansion /\ ~command'.failed
           /\ Len(command'.fetched) = Len(command.fetched) + 1
           /\ Len(command'.fetched) <= Len(scopes)
           /\ \A i \in 1..Len(command'.fetched) : command'.fetched[i] = scopes[i]
           /\ command'.phase = IF command'.fetched = scopes THEN "enriching" ELSE "polling"
           /\ command'.retryIn = command.retryIn /\ command'.limited = command.limited
           /\ command'.enrichLimited = command.enrichLimited
<1> DEFINE scopes == ScopesOf[command.selection]
           fetched == Append(command.fetched, scopes[Len(command.fetched) + 1])
<1>1. PICK interval \in Delays :
        command' = [command EXCEPT
                !.fetched = fetched,
                !.delay = Larger(@, Larger(interval, Floor)),
                !.phase = IF fetched = scopes THEN "enriching" ELSE @]
  BY DEF FetchPage
<1>2. /\ command \in Commands /\ command.phase = "polling" /\ command.polled
      /\ ~command.failed
      /\ scopes \in Seq(Repositories) /\ Len(command.fetched) < Len(scopes)
      /\ \A i \in 1..Len(command.fetched) : command.fetched[i] = scopes[i]
  BY DEF FetchPage, TypeOK, Commands, ExpansionResults, Captured, Collected
<1>3. scopes[Len(command.fetched) + 1] \in Repositories
  BY <1>2 DEF Commands
<1>4. /\ fetched \in Seq(Repositories) /\ Len(fetched) = Len(command.fetched) + 1
      /\ \A i \in 1..Len(fetched) : fetched[i] = scopes[i]
  BY <1>2, <1>3 DEF Commands
<1>5. Larger(command.delay, Larger(interval, Floor)) \in Nat
  BY <1>2, Arithmetic DEF Commands
<1> HIDE DEF fetched
<1>6. /\ command' \in Commands /\ command'.fetched = fetched
      /\ command'.selection = command.selection /\ command'.polled = command.polled
      /\ command'.expansion = command.expansion /\ command'.failed = command.failed
      /\ command'.phase = IF fetched = scopes THEN "enriching" ELSE "polling"
      /\ command'.retryIn = command.retryIn /\ command'.limited = command.limited
      /\ command'.enrichLimited = command.enrichLimited
  BY <1>1, <1>2, <1>4, <1>5 DEF Commands, Phases
<1>7. Len(fetched) <= Len(scopes)
  BY <1>2, <1>4 DEF Commands
<1> QED BY <1>2, <1>4, <1>6, <1>7

\* A failed page discards the pages fetched before it.
LEMMA FailEffect ==
    ASSUME TypeOK, Captured, FetchFails
    PROVE  /\ command' \in Commands
           /\ command'.phase = "reported" /\ command'.failed /\ command'.polled
           /\ command'.selection = command.selection
           /\ command'.expansion = command.expansion
           /\ command'.enrichLimited = command.enrichLimited
<1>1. PICK limited \in BOOLEAN, instructed \in Delays :
        command' = [command EXCEPT
              !.phase = "reported", !.fetched = <<>>, !.failed = TRUE, !.limited = limited,
              !.delay = IF limited THEN Larger(instructed, Floor) ELSE Floor]
  BY DEF FetchFails
<1> DEFINE delay == IF limited THEN Larger(instructed, Floor) ELSE Floor
<1>2. delay \in Nat
  BY Arithmetic
<1>3. command \in Commands /\ command.polled
  BY DEF FetchFails, TypeOK, Commands, ExpansionResults, Captured
<1>4. command' = [command EXCEPT !.phase = "reported", !.fetched = <<>>, !.failed = TRUE,
                                 !.limited = limited, !.delay = delay]
  BY <1>1
<1> HIDE DEF delay
<1>5. <<>> \in Seq(Repositories) /\ "reported" \in Phases
  BY DEF Phases
<1>6. command' \in Commands
  BY <1>2, <1>3, <1>4, <1>5 DEF Commands
<1> QED BY <1>3, <1>4, <1>6 DEF Commands

\* Enrichment changes nothing of the poll it follows.
LEMMA EnrichEffect ==
    ASSUME TypeOK, Captured, Met, Enrich
    PROVE  /\ command' \in Commands
           /\ command'.phase = "reported" /\ command'.polled /\ ~command'.failed
           /\ command'.selection = command.selection
           /\ command'.fetched = command.fetched
           /\ command'.expansion = command.expansion /\ ~command'.limited
<1>1. command \in Commands /\ command.polled /\ ~command.failed /\ ~command.limited
  BY DEF Enrich, TypeOK, Commands, ExpansionResults, Captured, Met
<1>2. CASE command' = [command EXCEPT !.phase = "reported"]
  BY <1>1, <1>2 DEF Commands, Phases
<1>3. CASE \E retryIn \in Delays :
              command' = [command EXCEPT !.phase = "reported", !.enrichLimited = TRUE,
                                         !.retryIn = retryIn]
  BY <1>1, <1>3 DEF Commands, Phases
<1> QED BY <1>2, <1>3 DEF Enrich

\* While time passes a command only sees its waits shrink.
LEMMA TickEffect ==
    ASSUME TypeOK, Tick
    PROVE  /\ command' \in Commands
           /\ command'.phase = command.phase /\ command'.selection = command.selection
           /\ command'.polled = command.polled /\ command'.failed = command.failed
           /\ command'.limited = command.limited
           /\ command'.enrichLimited = command.enrichLimited
           /\ command'.fetched = command.fetched
           /\ command'.expansion.ok = command.expansion.ok
           /\ command'.expansion.attempted = command.expansion.attempted
           /\ command'.expansion.limited = command.expansion.limited
           /\ command'.expansion.selection = command.expansion.selection
           /\ command.expansion = Untried => command'.expansion = Untried
           /\ command = Idle => command' = Idle
           /\ shown' \in States
           /\ shown' = [shown EXCEPT !.retryIn = Elapsed(@), !.enrichIn = Elapsed(@)]
<1>1. command \in Commands /\ shown \in States
  BY DEF TypeOK, Commands, ExpansionResults, States
<1>2. /\ Elapsed(command.retryIn) \in Nat
      /\ Elapsed(shown.retryIn) \in Nat /\ Elapsed(shown.enrichIn) \in Nat
      /\ Older(command.expansion.age) \in 0..Interval
  BY <1>1, Arithmetic DEF Commands, States, ExpansionResults
<1>3. /\ command' = [command EXCEPT !.retryIn = Elapsed(@),
           !.expansion.age = IF command.expansion.attempted THEN Older(@) ELSE @]
      /\ shown' = [shown EXCEPT !.retryIn = Elapsed(@), !.enrichIn = Elapsed(@)]
  BY DEF Tick
<1>4. shown' \in States
  BY <1>1, <1>2, <1>3 DEF States
<1>5. /\ command' \in Commands
      /\ command'.phase = command.phase /\ command'.selection = command.selection
      /\ command'.polled = command.polled /\ command'.failed = command.failed
      /\ command'.limited = command.limited
      /\ command'.enrichLimited = command.enrichLimited
      /\ command'.fetched = command.fetched
      /\ command'.expansion.ok = command.expansion.ok
      /\ command'.expansion.attempted = command.expansion.attempted
      /\ command'.expansion.limited = command.expansion.limited
      /\ command'.expansion.selection = command.expansion.selection
  BY <1>1, <1>2, <1>3 DEF Commands, ExpansionResults
<1>6. ASSUME command.expansion = Untried
      PROVE  command' = [command EXCEPT !.retryIn = Elapsed(@)] /\ command'.expansion = Untried
  <2>1. ~command.expansion.attempted
    BY <1>6 DEF Untried
  <2>2. command' = [command EXCEPT !.retryIn = Elapsed(@),
                                   !.expansion.age = command.expansion.age]
    BY <1>1, <1>3, <2>1 DEF Commands
  <2>3. [command.expansion EXCEPT !.age = command.expansion.age] = command.expansion
    BY <1>6 DEF Untried
  <2> QED BY <1>1, <1>6, <2>2, <2>3 DEF Commands
<1>7. command = Idle => command' = Idle
  BY <1>6 DEF Idle, Elapsed
<1> QED BY <1>3, <1>4, <1>5, <1>6, <1>7

\* Nothing but what the loop armed changes when it starts a refresh.
LEMMA StartEffect ==
    ASSUME IInv, StartRefresh
    PROVE  /\ timer = 0 /\ timer' = NoTimer /\ pending' = TRUE /\ command' = Refresh
           /\ UNCHANGED <<canceled, selection, nextExpansion, shown, last>>
<1>1. ~pending
  BY DEF StartRefresh, IInv, OneChain, NoTimer
<1> QED BY <1>1 DEF StartRefresh

-----------------------------------------------------------------------------
(* The invariant holds at first                                            *)

\* The first refresh is in flight and nothing is shown.
LEMMA InitInvariant == Init => IInv
<1> SUFFICES ASSUME Init PROVE IInv
  OBVIOUS
<1>1. /\ canceled = FALSE /\ pending = TRUE /\ selection = Exact /\ nextExpansion = 0
      /\ timer = NoTimer /\ command = Refresh
      /\ last = [result |-> "none", age |-> 0, limits |-> {}]
      /\ shown = [freshness |-> "loading", selection |-> NoSelection,
                  snapshot |-> NoSnapshot, succeeded |-> FALSE, marked |-> FALSE,
                  limited |-> FALSE, enrichLimited |-> FALSE,
                  retryIn |-> 0, enrichIn |-> 0]
  BY DEF Init
<1>2. /\ selection \in Selections \cup {NoSelection}
      /\ ~HasExpander => selection # NoSelection
  BY <1>1 DEF HasExpander
<1>3. shown \in States
  BY <1>1 DEF States, Freshness
<1>4. /\ command \in Commands
      /\ \/ /\ command.phase = "expanding" /\ command.selection = selection
            /\ ~command.polled
         \/ /\ selection \in Selections /\ command.polled /\ command.selection = selection
            /\ command.phase = IF ScopesOf[selection] = <<>> THEN "reported" ELSE "polling"
      /\ command.expansion = Untried /\ command.fetched = <<>> /\ ~command.failed
      /\ ~command.limited /\ ~command.enrichLimited
  BY <1>1, <1>2, RefreshCommand
<1>5. TypeOK
  <2>1. last \in Attempts
    BY <1>1 DEF Attempts
  <2>2. canceled \in BOOLEAN /\ pending \in BOOLEAN /\ nextExpansion \in Nat
        /\ timer \in Nat \cup {NoTimer}
    BY <1>1
  <2> QED BY <1>2, <1>3, <1>4, <2>1, <2>2 DEF TypeOK, States, Commands, ExpansionResults, Attempts
<1>6. OneChain
  BY <1>1, <1>4 DEF OneChain
<1>7. Captured /\ Met
  BY <1>1, <1>4 DEF Captured, Met, FixedSelection, Untried
<1>8. Collected
  BY <1>4 DEF Collected
<1>9. Fixed
  BY <1>1, <1>2 DEF Fixed
<1>10. Covered /\ Spaced
  BY <1>1 DEF Covered, Spaced
<1>11. PairIsOneRefresh /\ RetryHonored /\ MarkersAreKept
  BY <1>1 DEF PairIsOneRefresh, RetryHonored, MarkersAreKept, RateLimitBadge
<1>12. ExpansionsAreSpaced
  BY <1>1 DEF ExpansionsAreSpaced
<1> QED BY <1>5, <1>6, <1>7, <1>8, <1>9, <1>10, <1>11, <1>12 DEF IInv

-----------------------------------------------------------------------------
(* Every step preserves the invariant                                      *)

\* The armed timer outlasted the instants shown and, after a failure, Floor; a
\* refresh that expands found the schedule run out.
LEMMA StartKeeps == ASSUME IInv, StartRefresh PROVE IInv'
<1>1. /\ timer = 0 /\ timer' = NoTimer /\ pending' = TRUE /\ command' = Refresh
      /\ UNCHANGED <<canceled, selection, nextExpansion, shown, last>>
  BY StartEffect
<1>2. /\ command' \in Commands
      /\ \/ /\ ExpansionDue
            /\ command'.phase = "expanding" /\ command'.selection = selection
            /\ ~command'.polled
         \/ /\ selection \in Selections /\ command'.polled /\ command'.selection = selection
            /\ command'.phase = IF ScopesOf[selection] = <<>> THEN "reported" ELSE "polling"
      /\ command'.expansion = Untried /\ command'.fetched = <<>> /\ ~command'.failed
      /\ ~command'.limited /\ ~command'.enrichLimited
  BY <1>1, RefreshCommand DEF IInv, TypeOK, Fixed
<1>3. TypeOK'
  BY <1>1, <1>2 DEF IInv, TypeOK, Commands, ExpansionResults, NoTimer
<1>4. OneChain'
  BY <1>1, <1>2 DEF OneChain
<1>5. Captured' /\ Met'
  BY <1>1, <1>2 DEF IInv, Captured, Met, FixedSelection, Untried
<1>6. Collected'
  BY <1>2 DEF Collected
<1>7. Fixed' /\ PairIsOneRefresh' /\ MarkersAreKept'
  BY <1>1 DEF IInv, Fixed, PairIsOneRefresh, MarkersAreKept, RateLimitBadge
<1>8. Covered' /\ Spaced'
  BY <1>1 DEF IInv, Covered, Spaced
<1>9. RetryHonored'
  BY <1>1 DEF IInv, TypeOK, Covered, RetryHonored, NoTimer
<1>10. ExpansionsAreSpaced'
  <2> SUFFICES ASSUME ExpansionDue
               PROVE  last.age >= CASE last.result = "none" -> 0
                                    [] last.result = "ok" -> Interval
                                    [] last.result = "failed" -> Floor
    BY <1>1, <1>2 DEF ExpansionsAreSpaced
  <2>1. last.age \in Nat /\ last.result \in {"none", "ok", "failed"}
    BY DEF IInv, TypeOK
  <2>2. last.result = "ok" => last.age >= Interval
    BY <2>1 DEF IInv, Fixed, Spaced, ExpansionDue
  <2>3. last.result = "failed" => last.age >= Floor
    BY <1>1, <2>1 DEF IInv, Spaced, NoTimer
  <2> QED BY <2>1, <2>2, <2>3
<1> QED BY <1>3, <1>4, <1>5, <1>6, <1>7, <1>8, <1>9, <1>10 DEF IInv

\* The poll that follows an expansion is of the selection it fixed.
LEMMA ExpandKeeps == ASSUME IInv, Expand PROVE IInv'
<1>1. /\ command.phase = "expanding"
      /\ UNCHANGED <<canceled, pending, selection, nextExpansion, shown, timer, last>>
  BY DEF Expand
<1>2. /\ command' \in Commands
      /\ command'.expansion.attempted /\ command'.expansion.age = 0
      /\ command'.expansion.ok => command'.expansion.selection \in Selections
      /\ command'.fetched = <<>> /\ ~command'.failed
      /\ ~command'.limited /\ ~command'.enrichLimited
      /\ \/ /\ command'.phase = "reported" /\ ~command'.polled
            /\ command'.expansion.ok => canceled
         \/ /\ command'.selection \in Selections /\ command'.polled
            /\ command'.selection = IF command'.expansion.ok
                                    THEN command'.expansion.selection ELSE selection
            /\ ~command'.expansion.limited
            /\ command'.phase = IF ScopesOf[command'.selection] = <<>>
                                THEN "reported" ELSE "polling"
  BY ExpandEffect DEF IInv
<1>3. TypeOK'
  BY <1>1, <1>2 DEF IInv, TypeOK, Commands, ExpansionResults
<1>4. OneChain'
  BY <1>1, <1>2 DEF IInv, OneChain
<1>5. Captured' /\ Met'
  BY <1>1, <1>2 DEF IInv, Captured, Met, FixedSelection
<1>6. Collected'
  BY <1>2 DEF Collected
<1>7. Fixed' /\ PairIsOneRefresh' /\ MarkersAreKept' /\ Covered' /\ Spaced'
  BY <1>1 DEF IInv, Fixed, PairIsOneRefresh, MarkersAreKept, RateLimitBadge, Covered, Spaced
<1>8. RetryHonored' /\ ExpansionsAreSpaced'
  BY <1>1, <1>2 DEF IInv, RetryHonored, ExpansionsAreSpaced
<1> QED BY <1>3, <1>4, <1>5, <1>6, <1>7, <1>8 DEF IInv

\* The last page completes the pages of the selection.
LEMMA FetchKeeps == ASSUME IInv, FetchPage PROVE IInv'
<1>1. /\ command.phase = "polling"
      /\ UNCHANGED <<canceled, pending, selection, nextExpansion, shown, timer, last>>
  BY DEF FetchPage
<1> DEFINE scopes == ScopesOf[command.selection]
<1>2. /\ command' \in Commands
      /\ command'.selection = command.selection /\ command'.polled
      /\ command'.expansion = command.expansion /\ ~command'.failed
      /\ Len(command'.fetched) <= Len(scopes)
      /\ \A i \in 1..Len(command'.fetched) : command'.fetched[i] = scopes[i]
      /\ command'.phase = IF command'.fetched = scopes THEN "enriching" ELSE "polling"
      /\ command'.limited = command.limited
      /\ command'.enrichLimited = command.enrichLimited
  BY FetchEffect DEF IInv
<1>3. command \in Commands /\ command.polled /\ command.selection \in Selections
  BY <1>1 DEF IInv, TypeOK, Commands, ExpansionResults, Captured
<1>4. TypeOK'
  BY <1>1, <1>2 DEF IInv, TypeOK, Commands, ExpansionResults
<1>5. OneChain'
  BY <1>1, <1>2 DEF IInv, OneChain
<1>6. Captured' /\ Met'
  BY <1>1, <1>2, <1>3 DEF IInv, Captured, Met, FixedSelection
<1>7. Collected'
  <2>1. scopes \in Seq(Repositories) /\ command'.fetched \in Seq(Repositories)
    BY <1>2, <1>3 DEF Commands
  <2>2. Len(command'.fetched) = Len(scopes) => command'.fetched = scopes
    <3> DEFINE fetched == command'.fetched
    <3>1. \A i \in 1..Len(fetched) : fetched[i] = scopes[i]
      BY <1>2
    <3>2. scopes \in Seq(Repositories) /\ fetched \in Seq(Repositories)
      BY <2>1
    <3> HIDE DEF fetched, scopes
    <3>3. Len(fetched) = Len(scopes) => fetched = scopes
      BY <3>1, <3>2, SeqEqual
    <3> QED BY <3>3 DEF fetched, scopes
  <2>3. command'.phase = "polling" => Len(command'.fetched) < Len(scopes)
    BY <1>2, <2>1, <2>2
  <2> QED BY <1>2, <2>3 DEF Collected
<1>8. Fixed' /\ PairIsOneRefresh' /\ MarkersAreKept' /\ Covered' /\ Spaced'
  BY <1>1 DEF IInv, Fixed, PairIsOneRefresh, MarkersAreKept, RateLimitBadge, Covered, Spaced
<1>9. RetryHonored' /\ ExpansionsAreSpaced'
  BY <1>1, <1>2 DEF IInv, RetryHonored, ExpansionsAreSpaced
<1> QED BY <1>4, <1>5, <1>6, <1>7, <1>8, <1>9 DEF IInv

\* A failed poll keeps no page.
LEMMA FailKeeps == ASSUME IInv, FetchFails PROVE IInv'
<1>1. /\ command.phase = "polling"
      /\ UNCHANGED <<canceled, pending, selection, nextExpansion, shown, timer, last>>
  BY DEF FetchFails
<1>2. /\ command' \in Commands
      /\ command'.phase = "reported" /\ command'.failed /\ command'.polled
      /\ command'.selection = command.selection
      /\ command'.expansion = command.expansion
      /\ command'.enrichLimited = command.enrichLimited
  BY FailEffect DEF IInv
<1>3. TypeOK'
  BY <1>1, <1>2 DEF IInv, TypeOK, Commands, ExpansionResults
<1>4. OneChain'
  BY <1>1, <1>2 DEF IInv, OneChain
<1>5. Captured' /\ Met'
  BY <1>1, <1>2 DEF IInv, Captured, Met, FixedSelection
<1>6. Collected'
  BY <1>2 DEF Collected
<1>7. Fixed' /\ PairIsOneRefresh' /\ MarkersAreKept' /\ Covered' /\ Spaced'
  BY <1>1 DEF IInv, Fixed, PairIsOneRefresh, MarkersAreKept, RateLimitBadge, Covered, Spaced
<1>8. RetryHonored' /\ ExpansionsAreSpaced'
  BY <1>1, <1>2 DEF IInv, RetryHonored, ExpansionsAreSpaced
<1> QED BY <1>3, <1>4, <1>5, <1>6, <1>7, <1>8 DEF IInv

\* The pages of an enriched poll stay complete.
LEMMA EnrichKeeps == ASSUME IInv, Enrich PROVE IInv'
<1>1. /\ command.phase = "enriching"
      /\ UNCHANGED <<canceled, pending, selection, nextExpansion, shown, timer, last>>
  BY DEF Enrich
<1>2. /\ command' \in Commands
      /\ command'.phase = "reported" /\ command'.polled /\ ~command'.failed
      /\ command'.selection = command.selection
      /\ command'.fetched = command.fetched
      /\ command'.expansion = command.expansion /\ ~command'.limited
  BY EnrichEffect DEF IInv
<1>3. TypeOK'
  BY <1>1, <1>2 DEF IInv, TypeOK, Commands, ExpansionResults
<1>4. OneChain'
  BY <1>1, <1>2 DEF IInv, OneChain
<1>5. Captured' /\ Met'
  BY <1>1, <1>2 DEF IInv, Captured, Met, FixedSelection
<1>6. Collected'
  BY <1>1, <1>2 DEF IInv, Captured, Collected
<1>7. Fixed' /\ PairIsOneRefresh' /\ MarkersAreKept' /\ Covered' /\ Spaced'
  BY <1>1 DEF IInv, Fixed, PairIsOneRefresh, MarkersAreKept, RateLimitBadge, Covered, Spaced
<1>8. RetryHonored' /\ ExpansionsAreSpaced'
  BY <1>1, <1>2 DEF IInv, RetryHonored, ExpansionsAreSpaced
<1> QED BY <1>3, <1>4, <1>5, <1>6, <1>7, <1>8 DEF IInv

\* The end of the context changes no other state.
LEMMA CancelKeeps == ASSUME IInv, Cancel PROVE IInv'
<1>1. /\ canceled' = TRUE
      /\ UNCHANGED <<pending, selection, nextExpansion, shown, timer, command, last>>
  BY DEF Cancel
<1>2. TypeOK' /\ OneChain' /\ Captured' /\ Met' /\ Collected' /\ Fixed'
  BY <1>1 DEF IInv, TypeOK, OneChain, Captured, Met, Collected, Fixed, FixedSelection
<1>3. Covered' /\ Spaced' /\ PairIsOneRefresh'
  BY <1>1 DEF IInv, Covered, Spaced, PairIsOneRefresh
<1>4. RetryHonored' /\ ExpansionsAreSpaced' /\ MarkersAreKept'
  BY <1>1 DEF IInv, RetryHonored, ExpansionsAreSpaced, MarkersAreKept, RateLimitBadge
<1> QED BY <1>2, <1>3, <1>4 DEF IInv

\* Whatever a wait loses, the age of the last attempt gains, up to Interval.
LEMMA TickKeeps == ASSUME IInv, Tick PROVE IInv'
<1>1. /\ timer' = Elapsed(timer) /\ nextExpansion' = Elapsed(nextExpansion)
      /\ last' = [last EXCEPT !.age = Older(@)]
      /\ UNCHANGED <<canceled, pending, selection>>
  BY DEF Tick
<1>2. /\ command' \in Commands
      /\ command'.phase = command.phase /\ command'.selection = command.selection
      /\ command'.polled = command.polled /\ command'.failed = command.failed
      /\ command'.limited = command.limited
      /\ command'.enrichLimited = command.enrichLimited
      /\ command'.fetched = command.fetched
      /\ command'.expansion.ok = command.expansion.ok
      /\ command'.expansion.attempted = command.expansion.attempted
      /\ command'.expansion.limited = command.expansion.limited
      /\ command'.expansion.selection = command.expansion.selection
      /\ command.expansion = Untried => command'.expansion = Untried
      /\ command = Idle => command' = Idle
  BY TickEffect DEF IInv
<1>3. shown' \in States /\ shown' = [shown EXCEPT !.retryIn = Elapsed(@), !.enrichIn = Elapsed(@)]
  BY TickEffect DEF IInv
<1>4. /\ shown \in States /\ nextExpansion \in Nat /\ timer \in Nat \cup {NoTimer}
      /\ last \in Attempts
  BY DEF IInv, TypeOK, States, Attempts
<1>5. /\ shown'.freshness = shown.freshness /\ shown'.selection = shown.selection
      /\ shown'.snapshot = shown.snapshot /\ shown'.succeeded = shown.succeeded
      /\ shown'.marked = shown.marked /\ shown'.limited = shown.limited
      /\ shown'.enrichLimited = shown.enrichLimited
      /\ shown'.retryIn = Elapsed(shown.retryIn) /\ shown'.enrichIn = Elapsed(shown.enrichIn)
  BY <1>3, <1>4 DEF States
<1>6. /\ last' \in Attempts /\ last'.limits = last.limits
      /\ last'.result = last.result /\ last'.age = Older(last.age) /\ last'.age >= last.age
  BY <1>1, <1>4, Arithmetic DEF Attempts
<1>7. /\ timer' \in Nat \cup {NoTimer} /\ nextExpansion' \in Nat
      /\ timer' = NoTimer <=> timer = NoTimer
  <2>1. nextExpansion' \in Nat
    BY <1>1, <1>4, Arithmetic
  <2>2. CASE timer = NoTimer
    BY <1>1, <2>1, <2>2, Arithmetic
  <2>3. CASE timer \in Nat
    <3>1. timer' \in Nat
      BY <1>1, <2>3, Arithmetic
    <3> QED BY <2>1, <2>3, <3>1 DEF NoTimer
  <2> QED BY <1>4, <2>2, <2>3
<1>8. TypeOK'
  BY <1>1, <1>2, <1>3, <1>6, <1>7 DEF IInv, TypeOK, Commands, ExpansionResults, States, Attempts
<1>9. OneChain'
  BY <1>1, <1>2, <1>7 DEF IInv, OneChain
<1>10. Captured' /\ Met'
  BY <1>1, <1>2, <1>5 DEF IInv, Captured, Met, FixedSelection
<1>11. Collected'
  BY <1>2 DEF IInv, Collected
<1>12. Fixed' /\ PairIsOneRefresh' /\ MarkersAreKept'
  BY <1>1, <1>5, <1>6 DEF IInv, Fixed, PairIsOneRefresh, MarkersAreKept, RateLimitBadge
<1>13. Covered'
  BY <1>1, <1>4, <1>5, <1>7, Arithmetic DEF IInv, Covered, States, NoTimer
<1>14. Spaced'
  <2>1. /\ last.age \in Nat /\ Elapsed(nextExpansion) \in Nat
        /\ last'.age = IF last.age < Interval THEN last.age + 1 ELSE last.age
    BY <1>1, <1>4, <1>6, <1>7 DEF Older, Attempts
  <2>2. last.result = "ok" => last'.age + nextExpansion' >= Interval
    BY <1>1, <1>4, <1>6, <2>1 DEF IInv, Spaced, Elapsed
  <2>3. last.result = "failed" => last'.age + nextExpansion' >= Floor
    BY <1>1, <1>4, <1>6, <2>1 DEF IInv, Spaced, Elapsed
  <2>4. last.result = "failed" /\ timer # NoTimer => last'.age + timer' >= Floor
    BY <1>1, <1>4, <1>6, <2>1 DEF IInv, Spaced, Elapsed, NoTimer
  <2> QED BY <1>6, <1>7, <2>2, <2>3, <2>4 DEF Spaced
<1>15. RetryHonored'
  BY <1>2, <1>5 DEF IInv, RetryHonored, Elapsed
<1>16. ExpansionsAreSpaced'
  BY <1>2, <1>4, <1>6 DEF IInv, ExpansionsAreSpaced, Attempts
<1> QED BY <1>8, <1>9, <1>10, <1>11, <1>12, <1>13, <1>14, <1>15, <1>16 DEF IInv

\* An applied refresh that was not canceled fixes a typed selection, arms a
\* timer no shorter than Floor or than the retry it carries, and either failed
\* or is a poll that ended without a failure.
LEMMA ApplyEffect ==
    ASSUME IInv, command.phase = "reported", ~canceled
    PROVE  /\ FixedSelection \in Selections \cup {NoSelection}
           /\ command.expansion.ok => FixedSelection \in Selections
           /\ Delay \in Nat /\ Delay >= Floor
           /\ command.polled => Delay >= command.retryIn
           /\ Schedule \in Nat
           /\ ~Failure => /\ command.polled /\ FixedSelection \in Selections
                          /\ command.fetched = ScopesOf[FixedSelection]
           /\ Failure /\ command.polled => command.failed
           /\ Failure /\ ~command.polled =>
                 command.expansion.attempted /\ ~command.expansion.ok
<1>1. /\ command \in Commands /\ selection \in Selections \cup {NoSelection}
      /\ nextExpansion \in Nat /\ Captured /\ Collected
  BY DEF IInv, TypeOK, Commands, ExpansionResults
<1>2. /\ command.delay \in Nat /\ command.retryIn \in Nat
      /\ command.expansion.retry \in Nat /\ command.expansion.age \in Nat
  BY <1>1 DEF Commands, ExpansionResults
<1>3. /\ FixedSelection \in Selections \cup {NoSelection}
      /\ command.expansion.ok => FixedSelection \in Selections
  BY <1>1 DEF Captured, FixedSelection
<1>4. /\ Delay \in Nat /\ Delay >= Floor
      /\ command.polled => Delay >= command.retryIn
  <2>1. Larger(command.expansion.retry, Floor) \in Nat /\ Larger(command.expansion.retry, Floor) >= Floor
    BY <1>2, Arithmetic
  <2> DEFINE d == Larger(command.delay, Floor)
  <2>2. d \in Nat /\ d >= Floor
    BY <1>2, Arithmetic
  <2> HIDE DEF d
  <2>3. Larger(d, command.retryIn) \in Nat /\ Larger(d, command.retryIn) >= d
        /\ Larger(d, command.retryIn) >= command.retryIn
    BY <1>2, <2>2, Arithmetic
  <2>4. Delay = IF ~command.polled THEN Larger(command.expansion.retry, Floor)
                ELSE Larger(d, command.retryIn)
    BY DEF Delay, d
  <2> QED BY <1>2, <2>1, <2>2, <2>3, <2>4
<1>5. Schedule \in Nat
  <2>1. \A w \in Nat : Remaining(w) \in Nat
    BY <1>2 DEF Remaining
  <2>2. Larger(command.expansion.retry, Floor) \in Nat
    BY <1>2, Arithmetic
  <2> QED BY <1>1, <2>1, <2>2 DEF Schedule
<1>6. ~command.polled => command.expansion.attempted /\ ~command.expansion.ok
  BY <1>1 DEF Captured
<1>7. ASSUME ~Failure
      PROVE  /\ command.polled /\ FixedSelection \in Selections
             /\ command.fetched = ScopesOf[FixedSelection]
  <2>1. command.polled /\ ~command.failed
    BY <1>6, <1>7 DEF Failure
  <2>2. command.selection = FixedSelection /\ command.selection \in Selections
    BY <1>1, <2>1 DEF Captured
  <2>3. command.fetched = ScopesOf[command.selection]
    BY <1>1, <2>1 DEF Collected
  <2> QED BY <2>1, <2>2, <2>3
<1> QED BY <1>3, <1>4, <1>5, <1>6, <1>7 DEF Failure

\* The limit that failed an applied refresh is the one it met, and only one
\* that did not fail was limited in its enrichment.
LEMMA LimitsEffect ==
    ASSUME IInv, command.phase = "reported", ~canceled
    PROVE  /\ LimitsMet \subseteq Limits
           /\ LimitsMet # {} <=> Limited \/ command.enrichLimited
           /\ ~Failure => ~Limited
           /\ Failure => ~command.enrichLimited
<1>1. Captured /\ Met
  BY DEF IInv
<1>2. LimitsMet # {} <=>
         command.expansion.limited \/ command.limited \/ command.enrichLimited
  BY DEF LimitsMet, Limits
<1>3. CASE command.polled
  BY <1>1, <1>2, <1>3 DEF Captured, Met, Limited, Failure, LimitsMet
<1>4. CASE ~command.polled
  <2>1. Failure /\ ~command.limited /\ ~command.enrichLimited
    BY <1>1, <1>4 DEF Captured, Met, Failure
  <2> QED BY <1>2, <1>4, <2>1 DEF Limited, LimitsMet
<1> QED BY <1>3, <1>4

\* What a success shows, and what a failure leaves of it.
LEMMA ShowEffect ==
    ASSUME IInv, command.phase = "reported", ~canceled
    PROVE  /\ Show \in States
           /\ ~Failure =>
                 /\ Show.freshness = "current" /\ Show.succeeded
                 /\ Show.selection = FixedSelection /\ Show.snapshot = command.fetched
                 /\ Show.enrichIn = command.retryIn /\ Show.retryIn = 0 /\ ~Show.limited
                 /\ Show.marked = MarkedAfterSuccess
                 /\ Show.enrichLimited = command.enrichLimited
           /\ Failure =>
                 /\ Show.freshness = IF shown.succeeded THEN "stale" ELSE "error"
                 /\ Show.succeeded = shown.succeeded /\ Show.selection = shown.selection
                 /\ Show.snapshot = shown.snapshot /\ Show.enrichIn = shown.enrichIn
                 /\ Show.retryIn \in {0, Delay} /\ Show.marked = Marked
                 /\ Show.limited = Limited /\ Show.enrichLimited = shown.enrichLimited
<1>1. /\ shown \in States /\ command \in Commands
      /\ command.fetched \in Seq(Repositories) /\ command.retryIn \in Nat
      /\ command.enrichLimited \in BOOLEAN
  BY DEF IInv, TypeOK, States, Commands, ExpansionResults
<1>2. /\ Delay \in Nat /\ FixedSelection \in Selections \cup {NoSelection}
      /\ ~Failure => command.polled
  BY ApplyEffect
<1>3. Marked \in BOOLEAN /\ MarkedAfterSuccess \in BOOLEAN /\ Limited \in BOOLEAN
  BY <1>1 DEF Marked, MarkedAfterSuccess, Limited, States, Commands, ExpansionResults
<1>4. CASE ~Failure
  <2>1. Show = [shown EXCEPT !.freshness = "current", !.succeeded = TRUE,
                  !.selection = FixedSelection, !.snapshot = command.fetched,
                  !.enrichIn = command.retryIn, !.enrichLimited = command.enrichLimited,
                  !.limited = FALSE, !.retryIn = 0,
                  !.marked = MarkedAfterSuccess]
    BY <1>2, <1>4 DEF Show, Published
  <2> QED BY <1>1, <1>2, <1>3, <1>4, <2>1 DEF States, Freshness
<1>5. CASE Failure
  <2> DEFINE f == IF shown.succeeded THEN "stale" ELSE "error"
             r == IF Limited THEN Delay ELSE 0
  <2>1. Show = [shown EXCEPT !.freshness = f, !.limited = Limited, !.retryIn = r,
                             !.marked = Marked]
    BY <1>5 DEF Show, Degraded
  <2>2. f \in Freshness /\ r \in Nat /\ r \in {0, Delay}
    BY <1>2 DEF Freshness
  <2>3. Show \in States
    <3> HIDE DEF f, r
    <3> QED BY <1>1, <1>3, <2>1, <2>2 DEF States
  <2>4. /\ Show.freshness = f /\ Show.retryIn = r /\ Show.marked = Marked
        /\ Show.succeeded = shown.succeeded /\ Show.selection = shown.selection
        /\ Show.snapshot = shown.snapshot /\ Show.enrichIn = shown.enrichIn
        /\ Show.limited = Limited /\ Show.enrichLimited = shown.enrichLimited
    <3> HIDE DEF f, r
    <3> QED BY <1>1, <2>1 DEF States
  <2> QED BY <1>5, <2>2, <2>3, <2>4
<1> QED BY <1>4, <1>5

\* The message of a canceled refresh only ends it.
LEMMA DiscardKeeps ==
    ASSUME IInv, command.phase = "reported", canceled, pending' = FALSE, command' = Idle,
           UNCHANGED <<canceled, selection, nextExpansion, shown, timer, last>>
    PROVE  IInv'
<1>1. Idle \in Commands /\ Idle.phase = "idle" /\ ~Idle.polled /\ ~Idle.expansion.ok
      /\ ~Idle.limited /\ ~Idle.enrichLimited
  BY IdleType DEF Idle, Untried
<1>2. TypeOK'
  <2>1. pending' \in BOOLEAN /\ command' \in Commands
    BY <1>1
  <2> QED BY <2>1 DEF IInv, TypeOK, Commands, ExpansionResults
<1>3. OneChain' /\ Captured' /\ Met' /\ Collected'
  BY <1>1 DEF IInv, OneChain, Captured, Met, Collected
<1>4. Fixed' /\ PairIsOneRefresh' /\ MarkersAreKept' /\ Covered' /\ Spaced'
  BY DEF IInv, Fixed, PairIsOneRefresh, MarkersAreKept, RateLimitBadge, Covered, Spaced
<1>5. RetryHonored' /\ ExpansionsAreSpaced'
  BY <1>1 DEF RetryHonored, ExpansionsAreSpaced
<1> QED BY <1>2, <1>3, <1>4, <1>5 DEF IInv

\* An applied message replaces the pair by its own or keeps it whole.
LEMMA PublishKeeps ==
    ASSUME IInv, command.phase = "reported", ~canceled, pending' = FALSE, command' = Idle,
           selection' = FixedSelection, nextExpansion' = Schedule, shown' = Show,
           timer' = NextTimer, UNCHANGED canceled,
           last' = IF ~command.expansion.attempted THEN [last EXCEPT !.limits = LimitsMet]
                   ELSE [result |-> IF command.expansion.ok THEN "ok" ELSE "failed",
                         age |-> command.expansion.age, limits |-> LimitsMet]
    PROVE  IInv'
<1>1. Idle \in Commands /\ Idle.phase = "idle" /\ ~Idle.polled /\ ~Idle.expansion.ok
      /\ ~Idle.limited /\ ~Idle.enrichLimited
  BY IdleType DEF Idle, Untried
<1>2. /\ command \in Commands /\ command.expansion.age \in 0..Interval
      /\ command.expansion.attempted \in BOOLEAN /\ command.expansion.ok \in BOOLEAN
      /\ command.expansion.retry \in Nat /\ command.retryIn \in Nat
      /\ command.expansion.ok => command.expansion.attempted
      /\ last \in Attempts
      /\ shown \in States /\ shown.enrichIn = 0
  BY DEF IInv, TypeOK, Captured, Commands, ExpansionResults, States, Attempts, RetryHonored
<1>3. /\ FixedSelection \in Selections \cup {NoSelection}
      /\ command.expansion.ok => FixedSelection \in Selections
      /\ Delay \in Nat /\ Delay >= Floor
      /\ command.polled => Delay >= command.retryIn
      /\ Schedule \in Nat
      /\ ~Failure => /\ command.polled /\ FixedSelection \in Selections
                     /\ command.fetched = ScopesOf[FixedSelection]
  BY ApplyEffect
<1>4. /\ Show \in States
      /\ ~Failure =>
            /\ Show.freshness = "current" /\ Show.succeeded
            /\ Show.selection = FixedSelection /\ Show.snapshot = command.fetched
            /\ Show.enrichIn = command.retryIn /\ Show.retryIn = 0 /\ ~Show.limited
            /\ Show.marked = MarkedAfterSuccess
            /\ Show.enrichLimited = command.enrichLimited
      /\ Failure =>
            /\ Show.freshness = IF shown.succeeded THEN "stale" ELSE "error"
            /\ Show.succeeded = shown.succeeded /\ Show.selection = shown.selection
            /\ Show.snapshot = shown.snapshot /\ Show.enrichIn = shown.enrichIn
            /\ Show.retryIn \in {0, Delay} /\ Show.marked = Marked
            /\ Show.limited = Limited /\ Show.enrichLimited = shown.enrichLimited
  BY ShowEffect
<1>5. timer' = Delay
  BY DEF NextTimer
<1>6. ~command.expansion.ok => FixedSelection = selection
  BY DEF FixedSelection
<1>7. /\ last' \in Attempts /\ last'.limits = LimitsMet
      /\ ~command.expansion.attempted => last'.result = last.result /\ last'.age = last.age
      /\ command.expansion.attempted =>
            /\ last'.result = IF command.expansion.ok THEN "ok" ELSE "failed"
            /\ last'.age = command.expansion.age
  BY <1>2, LimitsEffect DEF Attempts
<1>8. TypeOK'
  <2>1. pending' \in BOOLEAN /\ command' \in Commands /\ canceled' \in BOOLEAN
    BY <1>1 DEF IInv, TypeOK
  <2>2. /\ selection' \in Selections \cup {NoSelection} /\ nextExpansion' \in Nat
        /\ timer' \in Nat \cup {NoTimer} /\ shown' \in States
    BY <1>3, <1>4, <1>5
  <2> QED BY <1>7, <2>1, <2>2 DEF TypeOK, Commands, ExpansionResults, States, Attempts
<1>9. OneChain' /\ Captured' /\ Met' /\ Collected'
  BY <1>1, <1>3, <1>4, <1>5 DEF IInv, OneChain, Captured, Met, Collected, NoTimer
<1>10. last'.result = "failed" /\ FixedSelection # NoSelection => Show.marked
  <2> SUFFICES ASSUME last'.result = "failed", FixedSelection # NoSelection
               PROVE  Show.marked
    OBVIOUS
  <2>1. ~command.expansion.ok /\ selection # NoSelection
    BY <1>2, <1>6, <1>7
  <2>2. Marked
    BY <1>7, <2>1 DEF IInv, Fixed, Marked
  <2> QED BY <1>4, <2>1, <2>2 DEF MarkedAfterSuccess
<1>11. Show.succeeded <=> Show.snapshot # NoSnapshot
  <2>1. CASE ~Failure
    <3>1. ScopesOf[FixedSelection] \in Seq(Repositories)
      BY <1>3, <2>1
    <3>2. NoSnapshot \notin Seq(Repositories)
      <4>1. NoSnapshot[1] = "none" /\ Len(NoSnapshot) = 1
        BY DEF NoSnapshot
      <4>2. ASSUME NoSnapshot \in Seq(Repositories) PROVE NoSnapshot[1] \in Repositories
        BY <4>1, <4>2, 1 \in 1..Len(NoSnapshot), ElementOfSeq
      <4> QED BY <4>1, <4>2
    <3> QED BY <1>3, <1>4, <2>1, <3>1, <3>2
  <2>2. CASE Failure
    BY <1>4, <2>2 DEF IInv, Fixed
  <2> QED BY <2>1, <2>2
<1>12. Fixed'
  <2>1. ~HasExpander => FixedSelection # NoSelection
    BY <1>3, <1>6 DEF IInv, Fixed
  <2>2. last'.result = "ok" => FixedSelection # NoSelection
    BY <1>2, <1>3, <1>6, <1>7 DEF IInv, Fixed
  <2> QED BY <1>10, <1>11, <2>1, <2>2 DEF Fixed, HasExpander
<1>13. Covered'
  BY <1>2, <1>3, <1>4, <1>5 DEF Covered, States
<1>14. Spaced'
  <2>1. \A w \in Nat : command.expansion.age + Remaining(w) >= w
    BY <1>2 DEF Remaining
  <2>2. /\ Larger(command.expansion.retry, Floor) \in Nat
        /\ Larger(command.expansion.retry, Floor) >= Floor
    BY <1>2, Arithmetic
  <2>3. CASE ~command.expansion.attempted
    <3>1. /\ last'.result = last.result /\ last'.age = last.age
          /\ nextExpansion' = nextExpansion /\ last.age \in Nat
      BY <1>2, <1>7, <2>3 DEF Schedule, Attempts
    <3>2. last'.age + timer' >= Floor
      BY <1>3, <1>5, <3>1
    <3> QED BY <3>1, <3>2 DEF IInv, Spaced
  <2>4. CASE command.expansion.attempted /\ command.expansion.ok
    <3>1. last'.result = "ok" /\ last'.age = command.expansion.age
          /\ nextExpansion' = Remaining(Interval)
      BY <1>7, <2>4 DEF Schedule
    <3> QED BY <2>1, <3>1 DEF Spaced
  <2>5. CASE command.expansion.attempted /\ ~command.expansion.ok
    <3> DEFINE w == Larger(command.expansion.retry, Floor)
    <3>1. last'.result = "failed" /\ last'.age = command.expansion.age
          /\ nextExpansion' = Remaining(w)
      BY <1>7, <2>5 DEF Schedule
    <3>2. Remaining(w) \in Nat /\ command.expansion.age \in Nat
      BY <1>2, <2>2 DEF Remaining
    <3>3. command.expansion.age + Remaining(w) >= w
      BY <2>1, <2>2
    <3> HIDE DEF w
    <3>4. w \in Nat /\ w >= Floor
      BY <2>2 DEF w
    <3>5. last'.age + nextExpansion' >= Floor
      BY <3>1, <3>2, <3>3, <3>4
    <3>6. last'.age + timer' >= Floor
      BY <1>3, <1>5, <3>1, <3>2
    <3> QED BY <3>1, <3>5, <3>6 DEF Spaced
  <2> QED BY <1>2, <2>3, <2>4, <2>5
<1>15. PairIsOneRefresh'
  <2>1. CASE ~Failure
    BY <1>3, <1>4, <1>11, <2>1 DEF PairIsOneRefresh
  <2>2. CASE Failure
    BY <1>4, <2>2 DEF IInv, Fixed, PairIsOneRefresh
  <2> QED BY <2>1, <2>2
<1>16. RetryHonored' /\ ExpansionsAreSpaced'
  BY <1>1 DEF RetryHonored, ExpansionsAreSpaced
<1>17. MarkersAreKept'
  <2>1. /\ LimitsMet # {} <=> Limited \/ command.enrichLimited
        /\ ~Failure => ~Limited
        /\ Failure => ~command.enrichLimited
    BY LimitsEffect
  <2>2. CASE ~Failure
    BY <1>3, <1>4, <1>7, <1>10, <2>1, <2>2 DEF MarkersAreKept, RateLimitBadge
  <2>3. CASE Failure
    BY <1>4, <1>7, <2>1, <2>3 DEF IInv, Met, MarkersAreKept, RateLimitBadge
  <2> QED BY <2>2, <2>3
<1> QED BY <1>8, <1>9, <1>12, <1>13, <1>14, <1>15, <1>16, <1>17 DEF IInv

\* Either way a reported refresh is applied once.
LEMMA ApplyKeeps == ASSUME IInv, ApplyRefresh PROVE IInv'
<1>1. CASE canceled
  BY <1>1, DiscardKeeps DEF ApplyRefresh, Discards
<1>2. CASE ~canceled
  BY <1>2, PublishKeeps DEF ApplyRefresh, Discards
<1> QED BY <1>1, <1>2

\* A stutter changes nothing.
LEMMA StutterKeeps == ASSUME IInv, UNCHANGED vars PROVE IInv'
<1>1. TypeOK' /\ OneChain' /\ Captured' /\ Met' /\ Collected' /\ Fixed'
  BY DEF vars, IInv, TypeOK, OneChain, Captured, Met, Collected, Fixed, FixedSelection
<1>2. Covered' /\ Spaced' /\ PairIsOneRefresh'
  BY DEF vars, IInv, Covered, Spaced, PairIsOneRefresh
<1>3. RetryHonored' /\ ExpansionsAreSpaced' /\ MarkersAreKept'
  BY DEF vars, IInv, RetryHonored, ExpansionsAreSpaced, MarkersAreKept, RateLimitBadge
<1> QED BY <1>1, <1>2, <1>3 DEF IInv

-----------------------------------------------------------------------------
(* The theorems                                                            *)

\* IInv is inductive, so every reachable state of the lifecycle satisfies it.
THEOREM LifecycleInvariant == Spec => []IInv
<1>1. Init => IInv
  BY InitInvariant
<1>2. IInv /\ [Next]_vars => IInv'
  <2> SUFFICES ASSUME IInv, [Next]_vars PROVE IInv'
    OBVIOUS
  <2>1. CASE StartRefresh
    BY <2>1, StartKeeps
  <2>2. CASE Expand
    BY <2>2, ExpandKeeps
  <2>3. CASE FetchPage
    BY <2>3, FetchKeeps
  <2>4. CASE FetchFails
    BY <2>4, FailKeeps
  <2>5. CASE Enrich
    BY <2>5, EnrichKeeps
  <2>6. CASE ApplyRefresh
    BY <2>6, ApplyKeeps
  <2>7. CASE Cancel
    BY <2>7, CancelKeeps
  <2>8. CASE Tick
    BY <2>8, TickKeeps
  <2>9. CASE UNCHANGED vars
    BY <2>9, StutterKeeps
  <2> QED BY <2>1, <2>2, <2>3, <2>4, <2>5, <2>6, <2>7, <2>8, <2>9 DEF Next, CommandStep
<1> QED BY <1>1, <1>2, PTL DEF Spec

\* The pair on screen is one successful refresh (applyRefresh, published and
\* degraded), however refreshes fail, expand, are limited or are canceled.
THEOREM PairSafe == Spec => []PairIsOneRefresh
<1>1. IInv => PairIsOneRefresh
  BY DEF IInv
<1> QED BY <1>1, LifecycleInvariant, PTL

\* There is one timer chain (startRefresh, applyRefresh): polls are never
\* doubled and never stop.
THEOREM ChainSafe == Spec => []OneChain
<1>1. IInv => OneChain
  BY DEF IInv
<1> QED BY <1>1, LifecycleInvariant, PTL

\* A retry instant shown has passed before any further work starts (delay).
THEOREM RetrySafe == Spec => []RetryHonored
<1>1. IInv => RetryHonored
  BY DEF IInv
<1> QED BY <1>1, LifecycleInvariant, PTL

\* Attempts to expand keep the distance of applyExpansion's schedule, which
\* counts from their completion and not from their message.
THEOREM SpacingSafe == Spec => []ExpansionsAreSpaced
<1>1. IInv => ExpansionsAreSpaced
  BY DEF IInv
<1> QED BY <1>1, LifecycleInvariant, PTL

\* The marker of a failed re-expansion is shown beside the snapshot polled after
\* it, and RATE LIMITED exactly while the latest applied attempt met a limit or the
\* stale pair was enriched under one (published, degraded, rateLimitBadge).
THEOREM MarkersSafe == Spec => []MarkersAreKept
<1>1. IInv => MarkersAreKept
  BY DEF IInv
<1> QED BY <1>1, LifecycleInvariant, PTL

\* A poll reads the selection its own refresh fixed, page by page (refresh).
THEOREM PollSafe == Spec => []PollsFixedSelection
<1>1. IInv => PollsFixedSelection
  <2> SUFFICES ASSUME IInv, command.phase \in {"polling", "enriching"}
               PROVE  /\ command.selection = FixedSelection /\ command.selection # NoSelection
                      /\ ~command.expansion.limited
                      /\ Len(command.fetched) <= Len(ScopesOf[command.selection])
                      /\ \A i \in DOMAIN command.fetched :
                            command.fetched[i] = ScopesOf[command.selection][i]
    BY DEF PollsFixedSelection
  <2>1. command \in Commands /\ Captured /\ Collected
    BY DEF IInv, TypeOK, Commands, ExpansionResults
  <2>2. /\ command.polled /\ ~command.failed /\ command.selection \in Selections
        /\ command.selection = FixedSelection /\ ~command.expansion.limited
    BY <2>1 DEF Captured
  <2>3. /\ command.fetched \in Seq(Repositories)
        /\ ScopesOf[command.selection] \in Seq(Repositories)
    BY <2>1, <2>2 DEF Commands
  <2>4. CASE command.phase = "polling"
    BY <2>1, <2>2, <2>3, <2>4 DEF Collected
  <2>5. CASE command.phase = "enriching"
    BY <2>1, <2>2, <2>3, <2>5 DEF Collected
  <2> QED BY <2>4, <2>5
<1> QED BY <1>1, LifecycleInvariant, PTL

\* Every variable keeps its type, whatever is instructed and however long the
\* program runs.
THEOREM TypeSafe == Spec => []TypeOK
<1>1. IInv => TypeOK
  BY DEF IInv
<1> QED BY <1>1, LifecycleInvariant, PTL

\* A step after the context ended shows nothing new and moves no schedule
\* (applyRefresh's early return).
THEOREM CancelSafe == Spec => CancelFreezes
<1> DEFINE Freezes ==
      canceled => /\ selection' = selection
                  /\ shown' = [shown EXCEPT !.retryIn = shown'.retryIn,
                                            !.enrichIn = shown'.enrichIn]
                  /\ nextExpansion' \in {nextExpansion, Elapsed(nextExpansion)}
                  /\ timer' \in {timer, Elapsed(timer), NoTimer}
<1>1. IInv /\ [Next]_vars => [Freezes]_vars
  <2> SUFFICES ASSUME IInv, Next, canceled
               PROVE  /\ selection' = selection
                      /\ shown' = [shown EXCEPT !.retryIn = shown'.retryIn,
                                                !.enrichIn = shown'.enrichIn]
                      /\ nextExpansion' \in {nextExpansion, Elapsed(nextExpansion)}
                      /\ timer' \in {timer, Elapsed(timer), NoTimer}
    OBVIOUS
  <2>1. shown \in States
    BY DEF IInv, TypeOK, States
  <2>2. CASE Tick
    <3>1. shown' = [shown EXCEPT !.retryIn = Elapsed(@), !.enrichIn = Elapsed(@)]
      BY <2>2 DEF Tick
    <3>2. shown'.retryIn = Elapsed(shown.retryIn) /\ shown'.enrichIn = Elapsed(shown.enrichIn)
      BY <2>1, <3>1 DEF States
    <3> QED BY <2>2, <3>1, <3>2 DEF Tick
  <2>3. shown = [shown EXCEPT !.retryIn = shown.retryIn, !.enrichIn = shown.enrichIn]
    BY <2>1 DEF States
  <2>4. CASE StartRefresh
    BY <2>3, <2>4 DEF StartRefresh
  <2>5. CASE CommandStep
    BY <2>3, <2>5 DEF CommandStep, Expand, FetchPage, FetchFails, Enrich
  <2>6. CASE ApplyRefresh
    BY <2>3, <2>6 DEF ApplyRefresh, Discards
  <2>7. CASE Cancel
    BY <2>7 DEF Cancel
  <2> QED BY <2>2, <2>4, <2>5, <2>6, <2>7 DEF Next
<1>2. [][Freezes]_vars => CancelFreezes
  BY PTL DEF CancelFreezes
<1> QED BY <1>1, <1>2, LifecycleInvariant, PTL DEF Spec
=============================================================================
