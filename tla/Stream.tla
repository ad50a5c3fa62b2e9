-------------------------------- MODULE Stream --------------------------------
(***************************************************************************)
(* Navigation of the scrolling views: the viewport both share              *)
(* (src/internal/tui/viewport.go), Stream's focus and event detail         *)
(* (stream.go, stream_detail.go), and Overview's lines (overview.go).      *)
(*                                                                         *)
(* Line texts are presentation; what matters here is how many lines there  *)
(* are, and how many rows show them.                                       *)
(*                                                                         *)
(* A definition whose comment says "Bug:" is a plausible mistake in the    *)
(* definition after it; no specification uses it.                          *)
(***************************************************************************)
EXTENDS Published, Sequences, SequencesExt

CONSTANTS
    Widths,
    DetailLines      \* how many lines an event's detail wraps to at a width

ASSUME DetailAssumption == DetailLines \in [Events \X Widths -> Nat \ {0}]

VARIABLES overview, stream

NoEvent == -1
ClosedDetail == [open |-> FALSE, event |-> NoEvent, offset |-> 0]
OverviewInit == overview = 0
StreamInit == stream = [focus |-> 0, offset |-> 0, detail |-> ClosedDetail]

-----------------------------------------------------------------------------
(* viewport                                                                *)

Clamped(offset, count, height) ==
    IF height <= 0 THEN 0 ELSE Smaller(Larger(offset, 0), Larger(count - height, 0))
Retained(offset, count) == Smaller(Larger(offset, 0), Larger(count - 1, 0))

Fitted(offset, count, height) ==
    IF height = 0 THEN Retained(offset, count) ELSE Clamped(offset, count, height)

Keys == {"up", "down", "pgup", "pgdown"}
Moved(position, key, page) ==
    CASE key = "up" -> position - 1
      [] key = "down" -> position + 1
      [] key = "pgup" -> position - page
      [] key = "pgdown" -> position + page

\* viewport.scrolled
ViewportScrolled(offset, key, count, height) ==
    Clamped(Moved(Clamped(offset, count, height), key, height), count, height)

-----------------------------------------------------------------------------
(* Lines                                                                   *)

\* streamStateLine: an explicit line stands for the rows.
HasState(p) == p.freshness \in {"loading", "error"} \/ p.listed = {}

\* eventIndex, and back.
EventIndex(p, e) == Cardinality({d \in p.listed : NewerEvent(d, e)})
StreamEvents(p) ==
    [i \in 1 .. Cardinality(p.listed) |-> CHOOSE e \in p.listed : EventIndex(p, e) = i - 1]
StreamLines(p) == IF HasState(p) THEN 1 ELSE Cardinality(p.listed)

\* streamContentFor: the chrome gives up its lines to keep one row.
StreamChrome == 2
RowHeight(p, height) ==
    IF HasState(p) \/ height = 0 THEN height
    ELSE IF height < 0 THEN height - StreamChrome
    ELSE height - Smaller(StreamChrome, height - 1)

\* overviewLines: an explicit line leads the Scopes while nothing is observed.
Observed(p) == p.listed # {}
OverviewLines(p) ==
    IF p.freshness \in {"loading", "error"} \/ p.scopes = {} THEN 1
    ELSE Cardinality(p.scopes) + (IF Observed(p) THEN 0 ELSE 1)

-----------------------------------------------------------------------------
(* Stream                                                                  *)

\* The offset at which the focused row is in sight.
Revealing(offset, focus, height) ==
    IF focus < offset THEN focus
    ELSE IF focus >= offset + height THEN focus - height + 1
    ELSE offset
Contained(s, count, height) ==
    LET focus == Smaller(Larger(s.focus, 0), count - 1)
        offset == Clamped(s.offset, count, height)
    IN  IF count <= 0 THEN [s EXCEPT !.focus = 0, !.offset = 0]
        ELSE IF height = 0
        THEN [s EXCEPT !.focus = focus, !.offset = Retained(@, count)]
        ELSE [s EXCEPT !.focus = focus,
                       !.offset = IF height < 0 THEN offset
                                  ELSE Revealing(offset, focus, height)]

\* detailContent: the detail shows while its event is still published.
DetailShows(s, p) == s.detail.open /\ s.detail.event \in p.listed

StreamScrolled(s, key, p, width, height) ==
    LET rows == RowHeight(p, height)
        held == Contained(s, StreamLines(p), rows)
        moved == [held EXCEPT !.focus = Moved(@, key, Larger(rows, 1))]
    IN  IF DetailShows(s, p)
        THEN [s EXCEPT !.detail = [s.detail EXCEPT !.offset =
                 ViewportScrolled(@, key, DetailLines[s.detail.event, width], height)]]
        ELSE Contained(moved, StreamLines(p), rows)

OpenedDetail(s, p) ==
    IF HasState(p) \/ s.focus \notin 0 .. Cardinality(p.listed) - 1 THEN s
    ELSE [s EXCEPT !.detail = [open |-> TRUE, event |-> StreamEvents(p)[s.focus + 1],
                               offset |-> 0]]
StreamClosed(s) == [s EXCEPT !.detail = ClosedDetail]

\* followedDetail: the focus moves with the event.  Bug: the focus stays.
DetailAlone(s, p, width, height) ==
    [s EXCEPT !.detail = [s.detail EXCEPT !.offset =
                             Fitted(@, DetailLines[s.detail.event, width], height)]]
Followed(s, p, width, height) ==
    [s EXCEPT !.focus = EventIndex(p, s.detail.event),
              !.detail = [s.detail EXCEPT !.offset =
                             Fitted(@, DetailLines[s.detail.event, width], height)]]
FollowedDetail(s, p, width, height) ==
    IF ~s.detail.open THEN s
    ELSE IF ~DetailShows(s, p) THEN StreamClosed(s)
    ELSE Followed(s, p, width, height)

=============================================================================
