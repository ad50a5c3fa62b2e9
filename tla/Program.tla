------------------------------- MODULE Program -------------------------------
(***************************************************************************)
(* The program model (src/internal/tui/model.go, rain_tick.go, state.go):  *)
(* one loop that handles keys, resizes, completed refreshes and the ticks  *)
(* of Rain, and passes each to the views.  Refreshes run beside it; here   *)
(* one ends whenever it likes, with success or failure (RefreshLifecycle   *)
(* models how).  A tick carries the instant it fired, which may be earlier *)
(* than what the loop handled before it.                                   *)
(*                                                                         *)
(* A definition whose comment says "Bug:" is a plausible mistake in the    *)
(* definition after it; no specification uses it.                          *)
(***************************************************************************)
EXTENDS Rain, Interesting, Stream

CONSTANTS
    Snapshots,       \* what a refresh may publish: scopes, confirmed, listed
    Sizes,           \* the sizes of the terminal
    LegendWidth,     \* the glyph legend fits from here on
    MaxTime,         \* bounds the clock
    MaxRefreshes     \* bounds the completed refreshes

ASSUME ProgramAssumption ==
    /\ \A s \in Snapshots :
        /\ s.scopes \subseteq Scopes /\ s.listed \subseteq Events
        /\ s.confirmed \subseteq s.listed \X s.scopes
    /\ Sizes \subseteq Nat \X Nat /\ Widths = {Unbounded} \cup {size[1] : size \in Sizes}
    /\ {LegendWidth, MaxTime, MaxRefreshes} \subseteq Nat

VARIABLES
    mode, width, height,
    published,       \* State: the snapshot the views read, and its freshness
    ticks,           \* the scheduled messages of the Rain timer
    now,
    refreshes        \* completed refreshes, counted to bound them

views == <<rain, strip, stream, overview>>
vars == <<views, mode, width, height, published, ticks, now, refreshes>>

Modes == <<"overview", "stream", "rain">>
Toggled(m) == Modes[((CHOOSE i \in DOMAIN Modes : Modes[i] = m) % Len(Modes)) + 1]

Init ==
    /\ RainInit /\ StripInit /\ StreamInit /\ OverviewInit
    /\ mode = "overview"
    /\ width = Unbounded /\ height = Unbounded
    /\ published = [scopes |-> {}, confirmed |-> {}, listed |-> {}, freshness |-> "loading"]
    /\ now = 0 /\ refreshes = 0
    /\ ticks = {[chain |-> rain.chain, due |-> RainStep]}

-----------------------------------------------------------------------------
(* The body each view gets                                                 *)

ChromeLines == 2
ContentHeight(h) == IF h < 0 THEN Unbounded ELSE Larger(h - ChromeLines, 0)

\* fieldHeight: headings and context take two lines, the legend a third.
RainChrome == 2
Legend(w, h) == h > RainChrome + 1 /\ (w < 0 \/ w >= LegendWidth)
FieldHeight(r, w, h) ==
    IF h < 0 THEN r.height
    ELSE IF h = 0 THEN 0
    ELSE IF h <= RainChrome THEN 1
    ELSE IF Legend(w, h) THEN h - RainChrome - 1
    ELSE h - RainChrome
StripBudget(r, w, h) == IF h < 0 THEN Unbounded ELSE FieldHeight(r, w, h)
FieldRows(r, w, h, stripRows) ==
    IF h < 0 THEN FieldHeight(r, w, h)
    ELSE Larger(FieldHeight(r, w, h) - stripRows, 0)

ResizedRain(r, s, w, h) ==
    LET body == ContentHeight(h)
    IN  Resized(r, w, FieldRows(r, w, body, StripRows(s, StripBudget(r, w, body))))

ClampedOverview(o, p, w, h) == Fitted(o, OverviewLines(p), ContentHeight(h))
ClampedStream(s, p, w, h) ==
    LET body == ContentHeight(h)
    IN  Contained(FollowedDetail(s, p, w, body), StreamLines(p), RowHeight(p, body))

-----------------------------------------------------------------------------
(* Update                                                                  *)

Resize ==
    \E size \in Sizes :
        /\ width' = size[1] /\ height' = size[2]
        /\ rain' = ResizedRain(rain, strip, width', height')
        /\ overview' = ClampedOverview(overview, published, width', height')
        /\ stream' = ClampedStream(stream, published, width', height')
        /\ UNCHANGED <<strip, mode, published, ticks, now, refreshes>>

\* Bug: the tick after this one has the generation this one had.
RescheduledOld(tick, r) == [chain |-> tick.chain, due |-> now + RainStep]
Rescheduled(tick, r) == [chain |-> r.chain, due |-> now + RainStep]

\* applyRainTick.  Bug: the rows the strip gives back stay unused.
RainAfterTick(r, s) == r
RainAfterStrip(r, s) == ResizedRain(r, s, width, height)
RainTick ==
    \E tick \in ticks, at \in 0 .. now :
        /\ at >= tick.due
        /\ IF tick.chain # rain.chain
           THEN ticks' = ticks \ {tick} /\ UNCHANGED views
           ELSE LET ticked == Ticked(rain, tick.chain, at)
                IN  /\ strip' = StripTicked(strip, at)
                    /\ rain' = RainAfterStrip(ticked, strip')
                    /\ ticks' = (ticks \ {tick}) \cup {Rescheduled(tick, rain')}
                    /\ UNCHANGED <<stream, overview>>
        /\ UNCHANGED <<mode, width, height, published, now, refreshes>>

\* applyRefresh.  A refresh that fails leaves every view as it was.
RefreshFails ==
    /\ refreshes < MaxRefreshes /\ refreshes' = refreshes + 1
    /\ published' = [published EXCEPT !.freshness =
                        IF rain.started THEN "stale" ELSE "error"]
    /\ UNCHANGED <<views, mode, width, height, ticks, now>>

\* Bug: Stream stays where it was.
StreamAsItWas(s, p, w, h) == s
StreamAfterRefresh(s, p, w, h) == ClampedStream(s, p, w, h)
Ascending(set) == InOrder({pair \in set \X set : pair[1] < pair[2]}, set)
Refresh ==
    \E snapshot \in Snapshots :
        /\ refreshes < MaxRefreshes /\ refreshes' = refreshes + 1
        /\ published' = [scopes |-> snapshot.scopes, confirmed |-> snapshot.confirmed,
                         listed |-> snapshot.listed, freshness |-> "current"]
        /\ strip' = StripReconciled(strip, Ascending(snapshot.scopes), snapshot.confirmed, now)
        /\ rain' = ResizedRain(Reconciled(rain, snapshot.scopes, snapshot.confirmed, now),
                               strip', width, height)
        /\ overview' = ClampedOverview(overview, published', width, height)
        /\ stream' = StreamAfterRefresh(stream, published', width, height)
        /\ UNCHANGED <<mode, width, height, ticks, now>>

SwitchView ==
    /\ mode' \in {Modes[i] : i \in DOMAIN Modes} \cup {Toggled(mode)}
    /\ UNCHANGED <<views, width, height, published, ticks, now, refreshes>>

Scroll ==
    \E key \in Keys :
        /\ IF mode = "stream"
           THEN /\ stream' = StreamScrolled(stream, key, published, width,
                                            ContentHeight(height))
                /\ UNCHANGED overview
           ELSE /\ overview' = ViewportScrolled(overview, key, OverviewLines(published),
                                                ContentHeight(height))
                /\ UNCHANGED stream
        /\ UNCHANGED <<rain, strip, mode, width, height, published, ticks, now, refreshes>>

Detail ==
    /\ mode = "stream"
    /\ stream' \in {OpenedDetail(stream, published), StreamClosed(stream)}
    /\ UNCHANGED <<rain, strip, overview, mode, width, height, published, ticks, now,
                   refreshes>>

RainKey(after) ==
    /\ mode = "rain" /\ rain' = after
    /\ UNCHANGED <<strip, stream, overview, mode, width, height, published, ticks, now,
                   refreshes>>
TogglePause == RainKey(ToggledPause(rain))
StepWindow ==
    \E step \in {-1, 1} :
        RainKey(Windowed(rain, step, published.scopes, published.confirmed))
TurnPage == \E step \in {-1, 1} : RainKey(Paged(rain, step))

Pass ==
    /\ now < MaxTime /\ now' = now + 1
    /\ UNCHANGED <<views, mode, width, height, published, ticks, refreshes>>

Next ==
    \/ Resize \/ RainTick \/ Refresh \/ RefreshFails
    \/ SwitchView \/ Scroll \/ Detail \/ TogglePause \/ StepWindow \/ TurnPage
    \/ Pass
Spec == Init /\ [][Next]_vars

-----------------------------------------------------------------------------
(* Properties of Rain                                                      *)

Kept == (DOMAIN rain.items \cup DOMAIN rain.queue)
        \cap (DOMAIN rain'.items \cup DOMAIN rain'.queue)
ItemOf(r, k) == IF k \in DOMAIN r.items THEN r.items[k] ELSE r.queue[k]

RainTypeOK ==
    /\ rain.window \in 1 .. Available
    /\ rain.scopes \subseteq Scopes /\ rain.observed \subseteq Representations
    /\ \A k \in DOMAIN rain.items \cup DOMAIN rain.queue :
           k \in Representations /\ ItemOf(rain, k) \in [age : Nat, phase : Nat]
    /\ rain.cursor \in 0 .. MaxTime /\ rain.remainder \in 0 .. RainStep - 1
    /\ rain.chain \in 0 .. Generations - 1
    /\ {rain.started, rain.paused, rain.needsRebase} \subseteq BOOLEAN
    /\ {rain.width, rain.height, rain.start} \subseteq Nat
    /\ rain.anchor \in Scopes \cup {NoScope}

\* The field shows, and the queue holds, only what the published snapshot confirms
\* and the window admits; nothing is in both, both keep to their capacities, and
\* only a paused field has a queue (rain.go:312-323, 425-489).
FieldIsConfirmed ==
    /\ DOMAIN rain.items \cup DOMAIN rain.queue \subseteq published.confirmed
    /\ \A k \in DOMAIN rain.items \cup DOMAIN rain.queue :
           Admits(rain.window, ItemOf(rain, k).age)
    /\ DOMAIN rain.items \cap DOMAIN rain.queue = {}
    /\ Cardinality(DOMAIN rain.items) <= GlobalCap
    /\ \A s \in Scopes : Cardinality({k \in DOMAIN rain.items : k[2] = s}) <= ColumnCap
    /\ Cardinality(DOMAIN rain.queue) <= QueueCap
    /\ ~rain.paused => DOMAIN rain.queue = {}

\* Whatever happens, a representation that stays never gets younger, even one whose
\* event is dated later than the clock.  Only one that has expired may come back
\* younger, as the same refresh readmits it (rain.go:369-392).
AgesNeverShrink ==
    [][\A k \in Kept :
          Admits(rain'.window, ItemOf(rain, k).age + rain'.cursor - rain.cursor) =>
              ItemOf(rain', k).age >= ItemOf(rain, k).age]_vars

\* While Rain is paused, no tick, refresh, resize or window change moves the field's
\* representations, ages them, or moves the cursor (rain.go:198-206, 425-440).
FrozenWhilePaused ==
    [][rain.paused /\ rain'.paused =>
          /\ rain'.cursor = rain.cursor
          /\ \A k \in DOMAIN rain.items \cap DOMAIN rain'.items :
                 rain'.items[k] = rain.items[k]]_vars

\* The first tick or refresh after a resume takes over its instant and ages and
\* moves nothing, whichever of the two comes first (rain.go:198-216).
ResumeAgesNothing ==
    [][rain.needsRebase /\ ~rain'.needsRebase =>
          /\ rain'.cursor > rain.cursor
          /\ \A k \in DOMAIN rain.items \cap DOMAIN rain'.items :
                 rain'.items[k] = rain.items[k]]_vars

\* No interval is counted twice: a representation ages by what the cursor moved, or its
\* age is the one its event has at the cursor, and it never gets older than both say
\* (rain.go:263-273, 369-383).
NoIntervalTwice ==
    [][\A k \in Kept :
          ItemOf(rain', k).age <= Larger(ItemOf(rain, k).age + (rain'.cursor - rain.cursor),
                                         rain'.cursor - OccurredAt[k[1]])]_vars

\* How often the field is advanced makes no difference: going from here to an
\* instant at once or by way of an earlier one ends in the same field
\* (rain.go:218-240).
MissedFramesDoNotMatter ==
    rain.started /\ rain.height > 0 =>
        \A via \in rain.cursor + 1 .. rain.cursor + RainStep :
            \A at \in via + 1 .. rain.cursor + RainStep + 1 :
                Advanced(Advanced(rain, via), at) = Advanced(rain, at)

\* Exactly one tick is on its way and it has the generation the field expects: the
\* chain neither dies nor doubles (rain_tick.go:23-33).
OneRainChain == \E tick \in ticks : ticks = {tick} /\ tick.chain = rain.chain

\* What an unpaused refresh leaves out of the field: only what is older than all
\* its Scope shows there, and only while every other Scope shows at most one more
\* (rain.go:406-423, 505-543).
FairShare ==
    [][strip' # strip /\ published' # published /\ ~rain'.paused =>
          \A k \in published'.confirmed \ (DOMAIN rain'.items \cup Kept
                                              \cup DOMAIN rain.items) :
              LET column(s) == {l \in DOMAIN rain'.items : l[2] = s}
              IN  Admits(rain'.window, Larger(rain'.cursor - OccurredAt[k[1]], 0)) =>
                      /\ \A l \in column(k[2]) : Newer(l, k)
                      /\ \/ Cardinality(column(k[2])) = ColumnCap
                         \/ \A s \in Scopes : Cardinality(column(s))
                                                  <= Cardinality(column(k[2])) + 1]_vars

\* A resume merges field and queue under the same capacity: of a Scope's
\* representations, the newest stay (rain.go:258-261, 406-407).
MergeKeepsNewest ==
    [][rain.paused /\ ~rain'.paused =>
          \A k \in DOMAIN rain.queue \ DOMAIN rain'.items, l \in DOMAIN rain'.items :
              k[2] = l[2] => Newer(l, k)]_vars

\* The duration of a pause never catches up: while Rain is not paused, nothing of the
\* field ages by more than the cursor moves (rain.go:196-198).
PausedTimeStaysOut ==
    [][~rain.paused /\ ~rain'.paused =>
          \A k \in DOMAIN rain.items \cap DOMAIN rain'.items :
              rain'.items[k].age <= rain.items[k].age + (rain'.cursor - rain.cursor)]_vars

\* The page is one of the fixed pages, its first Scope is the anchor, and only the
\* page keys take an anchor that is still selected off the page
\* (rain.go:142-178, rain_columns.go:56-80).
AnchorStaysVisible ==
    [][\/ rain'.scopes = {}
       \/ /\ rain'.start % PerPage(rain'.width, Cardinality(rain'.scopes)) = 0
          /\ rain'.anchor = ScopeAt(rain'.start, rain'.scopes)
          /\ rain.anchor \in rain'.scopes /\ mode # "rain" =>
                 rain.anchor \in VisibleScopes(rain')]_vars

\* Every representation of the field is drawn, grouped or reported hidden, and
\* for one reason only (rain_field.go:99-106, 119-238).
FieldAccounts ==
    LET field == Field(rain)
    IN  field.rendered + field.collisions + field.hiddenItems
            = Cardinality(DOMAIN rain.items)

\* The rows the field was placed on are the rows the body has left for it beside
\* the strip, after every handler (rain_render.go:110-124, model.go:227-249).
FieldFits ==
    LET body == ContentHeight(height)
    IN  height >= 0 => rain.height = FieldRows(rain, width, body,
                           StripRows(strip, StripBudget(rain, width, body)))

-----------------------------------------------------------------------------
(* Properties of the strip                                                 *)

StripOf(entries) == {entries[i].event : i \in DOMAIN entries}

\* Every event that is confirmed and young enough has its place in the strip, once
\* and on the turn of a Scope it belongs to, unless the strip is full; a tick lets
\* go of what has got too old even while Rain is paused (interesting.go:270-344).
StripIsFull ==
    LET young == {e \in {k[1] : k \in strip.confirmed} :
                     strip.reference < OccurredAt[e] + StripWindow}
        entries == strip.entries
    IN  /\ StripOf(entries) \subseteq young
        /\ Len(entries) = Smaller(Cardinality(young), StripStored)
        /\ Cardinality(StripOf(entries)) = Len(entries)
        /\ strip.confirmed = published.confirmed
        /\ \A i \in DOMAIN entries :
               <<entries[i].event, entries[i].sponsor>> \in strip.confirmed

\* No Scope is passed over: while an event of a Scope is left out, no other Scope
\* has two turns more than that Scope has events in the strip
\* (interesting.go:303-311).
StripIsFair ==
    \A k \in strip.confirmed, other \in Scopes :
        Eligible(strip, k[1]) /\ k[1] \notin StripOf(strip.entries) =>
            Cardinality({i \in DOMAIN strip.entries : strip.entries[i].sponsor = other})
                <= Cardinality({e \in StripOf(strip.entries) :
                                    <<e, k[2]>> \in strip.confirmed}) + 1

\* Ageing never reorders the strip: after a tick, what is left of it comes first
\* and in the order it had (interesting.go:210-213).
Left(s, entries, i) == Cardinality({j \in 1 .. i : Eligible(s, entries[j].event)})
TicksKeepOrder ==
    [][published' = published /\ refreshes' = refreshes =>
          \A i \in {j \in DOMAIN strip.entries : Eligible(strip', strip.entries[j].event)} :
              LET place == Left(strip', strip.entries, i)
              IN  /\ place \in DOMAIN strip'.entries
                  /\ strip'.entries[place] = strip.entries[i]]_vars

\* A successful refresh, by what it publishes.
Publishes == refreshes' # refreshes /\ published'.freshness = "current"
\* Of two places in a round that begins at a third one, which has its turn earlier.
Sooner(i, j, first) == IF first <= i THEN i < j \/ j < first ELSE i < j /\ j < first
\* The place the next round of turns begins at: that of the Scope that is owed the turn,
\* or, if that Scope is deselected, the place it had, or else the last.
OwedAt(s, scopes, first) ==
    IF s.nextAnchor = NoAnchor THEN first = 1
    ELSE IF \E i \in DOMAIN scopes : scopes[i] = s.nextAnchor
         THEN scopes[first] = s.nextAnchor
    ELSE \E i \in DOMAIN s.scopes :
             s.scopes[i] = s.nextAnchor /\ first = Smaller(i, Len(scopes))
\* The first entry is a turn of the first Scope in the round that has an event for it.
BeginsAt(s, first) ==
    \A i, j \in DOMAIN s.scopes :
        s.entries # <<>> /\ s.entries[1].sponsor = s.scopes[j] /\ Sooner(i, j, first) =>
            \A e \in EligibleEvents(s) : <<e, s.scopes[i]>> \notin s.confirmed
\* A full strip owes the next turn to the Scope after its last one; one with room for
\* more owes the Scope it began with the same turn again.
OwesNext(s, first) ==
    IF Len(s.entries) = StripStored
    THEN \E i \in DOMAIN s.scopes : /\ s.scopes[i] = s.entries[Len(s.entries)].sponsor
                                    /\ s.nextAnchor = s.scopes[(i % Len(s.scopes)) + 1]
    ELSE s.nextAnchor = s.scopes[first]
\* A refresh begins with the Scope that is owed the turn, whatever has become of the
\* selection since, and nothing but a refresh changes whose turn is next
\* (interesting.go:124-187, 318-333).
TurnsContinue ==
    [][IF Publishes /\ strip'.scopes # <<>>
       THEN \E first \in DOMAIN strip'.scopes :
                /\ OwedAt(strip, strip'.scopes, first)
                /\ BeginsAt(strip, first)' /\ OwesNext(strip, first)'
       ELSE strip'.nextAnchor = IF Publishes THEN NoAnchor ELSE strip.nextAnchor]_vars

-----------------------------------------------------------------------------
(* Properties of Stream and Overview                                       *)

\* After every handler the focused row is inside the window, and neither window
\* ends in blank rows while lines are hidden above it (model.go:251-269).
FocusVisible ==
    LET body == ContentHeight(height)
        rows == RowHeight(published, body)
    IN  /\ stream.focus \in 0 .. StreamLines(published) - 1
        /\ rows > 0 =>
               /\ stream.focus \in stream.offset .. stream.offset + rows - 1
               /\ stream.offset <= Larger(StreamLines(published) - rows, 0)
        /\ body > 0 => overview <= Larger(OverviewLines(published) - body, 0)

\* An open detail is that of an event still published, Stream's focus is on that
\* event whatever moved in the list, and the detail's window holds lines of it
\* (stream.go:468-495).
DetailFollows ==
    stream.detail.open =>
        LET lines == DetailLines[stream.detail.event, width]
        IN  /\ stream.detail.event \in published.listed
            /\ stream.focus = EventIndex(published, stream.detail.event)
            /\ stream.detail.offset < lines
            /\ ContentHeight(height) > 0 =>
                   stream.detail.offset <= Larger(lines - ContentHeight(height), 0)

-----------------------------------------------------------------------------
(* What the views promise, put together                                     *)

\* Field and queue hold what is confirmed, within their capacities, and every
\* representation of the field has one place on the rows it was given
\* (rain.go, rain_field.go, rain_render.go).
FieldIsSound == RainTypeOK /\ FieldIsConfirmed /\ FieldAccounts /\ FieldFits

\* While a pause lasts, nothing moves or ages, and neither does it in the first step
\* after the pause.  No age shrinks, and none grows by an interval twice.  What a pause
\* held back is not left out for good: from the rebase on, a refresh or a window change
\* measures an age anew, the pause included (rain.go:189-240, 369-392, 425-461).
PauseStopsTime ==
    FrozenWhilePaused /\ ResumeAgesNothing /\ AgesNeverShrink /\ NoIntervalTwice

\* The strip is full, the turns of one refresh go on where those of the refresh before it
\* ended, and ticks keep the order (interesting.go).
StripTakesTurns == [](StripIsFull /\ StripIsFair) /\ TurnsContinue /\ TicksKeepOrder

\* Focus, detail and page stay with what they show, whatever is published, resized or
\* typed (model.go:251-269, stream.go:468-495, rain.go:149-176).
NavigationHolds == [](FocusVisible /\ DetailFollows) /\ AnchorStaysVisible
=============================================================================
