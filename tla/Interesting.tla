----------------------------- MODULE Interesting -----------------------------
(***************************************************************************)
(* The Interesting Now strip (src/internal/tui/interesting.go): a bounded  *)
(* selection of recent events, taken in turns by the Scopes.  A successful *)
(* refresh rotates whose turn is first; a tick only ages the entries.      *)
(*                                                                         *)
(* An entry is an event and the Scope that sponsored it.  What else an     *)
(* entry says of its event is presentation.                                *)
(***************************************************************************)
EXTENDS Published, Ranking, Sequences

CONSTANTS StripWindow, StripStored, StripVisible

ASSUME StripAssumption == {StripWindow, StripStored, StripVisible} \subseteq Nat \ {0}

VARIABLE strip

NoAnchor == -1

StripInit ==
    strip = [scopes |-> <<>>, confirmed |-> {}, reference |-> 0, started |-> FALSE,
             start |-> 0, nextStart |-> 0, nextAnchor |-> NoAnchor,
             entries |-> <<>>, eligible |-> 0]

-----------------------------------------------------------------------------
(* Selection                                                               *)

\* The age an event is judged by, and the window that ends before its bound.
StripAge(s, e) == IF s.reference > OccurredAt[e] THEN s.reference - OccurredAt[e] ELSE 0
Eligible(s, e) == StripAge(s, e) < StripWindow

EligibleEvents(s) == {e \in {k[1] : k \in s.confirmed} : Eligible(s, e)}

\* The candidates of a Scope in the order of its turns.
Queue(s, scope) ==
    LET own == {e \in EligibleEvents(s) : <<e, scope>> \in s.confirmed}
    IN  InOrder({pair \in own \X own : NewerEvent(pair[1], pair[2])}, own)

\* One turn of selectedFrom.  An examined event spends the turn even if another
\* Scope's turn took it.  Bugs: a Scope keeps its turn while it has events; the idle
\* turns are not counted in a row.
KeepsTurn(run, next) == run.turn
PassesTurn(run, next) == next
CountedIdle(run) == run.idle
ResetIdle(run) == 0
Turn(s, run) ==
    LET scopes == Len(s.scopes)
        queue == Queue(s, s.scopes[run.turn + 1])
        seen == run.cursors[run.turn + 1]
        next == (run.turn + 1) % scopes
        taken == \E i \in DOMAIN run.entries : run.entries[i].event = queue[seen + 1]
        entry == [event |-> queue[seen + 1], sponsor |-> s.scopes[run.turn + 1]]
        examined(entries, filled) ==
            [turn |-> PassesTurn(run, next), idle |-> ResetIdle(run),
             cursors |-> [run.cursors EXCEPT ![run.turn + 1] = @ + 1],
             entries |-> entries, filled |-> filled]
    IN  IF Len(run.entries) = StripStored \/ run.idle >= scopes THEN run
        ELSE IF seen >= Len(queue) THEN [run EXCEPT !.idle = @ + 1, !.turn = next]
        ELSE IF taken THEN examined(run.entries, run.filled)
        ELSE examined(Append(run.entries, entry),
                      IF Len(run.entries) + 1 = StripStored THEN run.turn ELSE NoAnchor)

FirstTurn(s) ==
    [turn |-> s.start % Len(s.scopes), idle |-> 0, cursors |-> [i \in DOMAIN s.scopes |-> 0],
     entries |-> <<>>, filled |-> NoAnchor]

\* Every turn examines a candidate or finds its Scope idle, so this many suffice.
Turns(s) == (Cardinality(s.confirmed) + 1) * (Len(s.scopes) + 1)
SelectedFrom(s) ==
    LET run[i \in 0 .. Turns(s)] == IF i = 0 THEN FirstTurn(s) ELSE Turn(s, run[i - 1])
    IN  IF s.scopes = <<>> \/ EligibleEvents(s) = {}
        THEN [entries |-> <<>>, filled |-> NoAnchor]
        ELSE run[Turns(s)]

\* The turn after the one that filled the strip.  Bug: that turn again.
SameTurn(filled) == filled
NextTurn(filled) == filled + 1

AnchoredNext(s, index) ==
    LET start == index % Len(s.scopes)
    IN  [s EXCEPT !.nextStart = start, !.nextAnchor = s.scopes[start + 1]]

Selected(s, rotating) ==
    LET chosen == SelectedFrom(s)
        stored == [s EXCEPT !.entries = chosen.entries,
                            !.eligible = Cardinality(EligibleEvents(s))]
    IN  IF rotating /\ chosen.filled # NoAnchor THEN AnchoredNext(stored, NextTurn(chosen.filled))
        ELSE stored

-----------------------------------------------------------------------------
(* Transitions                                                             *)

\* Bug: the saved index counts, whichever Scope stands there now.
RemappedByIndex(s) ==
    IF s.scopes = <<>> THEN [s EXCEPT !.nextAnchor = NoAnchor, !.nextStart = 0]
    ELSE AnchoredNext(s, s.nextStart)
Remapped(s) ==
    IF s.scopes = <<>> THEN [s EXCEPT !.nextAnchor = NoAnchor, !.nextStart = 0]
    ELSE LET at == {i \in DOMAIN s.scopes : s.scopes[i] = s.nextAnchor}
             index == IF s.nextAnchor = NoAnchor THEN 0
                      ELSE IF at # {} THEN (CHOOSE i \in at : TRUE) - 1
                      ELSE IF s.nextStart < Len(s.scopes) THEN s.nextStart
                      ELSE Len(s.scopes) - 1
         IN  AnchoredNext(s, index)

\* The reference never goes back.
StripReference(s, at) == IF ~s.started \/ at > s.reference THEN at ELSE s.reference
StripReconciled(s, scopes, confirmed, at) ==
    LET mapped == Remapped([s EXCEPT !.reference = StripReference(s, at), !.started = TRUE,
                                     !.scopes = scopes, !.confirmed = confirmed])
    IN  Selected([mapped EXCEPT !.start = mapped.nextStart], TRUE)

\* Bug: a tick begins at the Scope whose turn the next refresh will be.
AgedFromNext(s) == Selected([s EXCEPT !.start = s.nextStart], FALSE)
Aged(s) == Selected(s, FALSE)
StripTicked(s, at) ==
    IF ~s.started \/ at <= s.reference THEN s ELSE Aged([s EXCEPT !.reference = at])

\* interesting.rows: how many body rows the strip takes, title included; a
\* negative number of available rows is unbounded.
FieldFloor == 3
Collapse == FieldFloor + 1
StripShown(s, available) ==
    LET visible == Smaller(Len(s.entries), StripVisible)
    IN  IF available < 0 THEN visible ELSE Smaller(visible, available - Collapse)
StripRows(s, available) ==
    IF ~s.started \/ available \in 0 .. Collapse - 1 THEN 0
    ELSE IF s.eligible = 0 THEN 1
    ELSE 1 + StripShown(s, available)

=============================================================================
