------------------------------ MODULE MCProgram ------------------------------
(* A small instance of Program: four Scopes, three events, the last of them  *)
(* dated after the refreshes that may publish it.                            *)
EXTENDS Program

MCEvents == 1 .. 3
MCScopes == 1 .. 4
MCOccurredAt == <<0, 1, 3>>
MCWindows == <<3>>
MCRowHash == [k \in Representations |-> k[2]]
MCSlotHash == [k \in Representations |-> k[2]]
MCSizes == {<<9, 10>>, <<1, 5>>, <<1, 2>>}
MCWidths == {-1, 1, 9}
MCDetailLines == [k \in MCEvents \X MCWidths |-> IF k[2] = 1 THEN 3 ELSE 2]

\* The selection loses its first Scope and gains two; one event leaves, one comes.
MCSnapshots == {
    [scopes |-> {1, 2}, listed |-> {1, 2, 3}, confirmed |-> {<<1, 1>>, <<2, 1>>, <<3, 2>>}],
    [scopes |-> {2, 3, 4}, listed |-> {1, 3}, confirmed |-> {<<1, 2>>, <<3, 2>>, <<3, 4>>}]}

\* One Scope, and a newer event that may arrive after the older one.
MCArrivals == {[scopes |-> {1}, listed |-> listed, confirmed |-> listed \X {1}] :
                  listed \in {{1}, {1, 2}}}

\* Stream and Overview do not read Rain, nor Rain them, the mode or the freshness: a
\* session either scrolls, or it turns to Rain in a body with rows and stays there.
Scrolled == stream # [focus |-> 0, offset |-> 0, detail |-> ClosedDetail] \/ overview # 0
RainMoved ==
    rain.window # DefaultWindow \/ rain.paused \/ rain.needsRebase \/ rain.start # 0
    \/ rain.chain # 0
MCNext ==
    \/ Refresh \/ Pass
    \/ Resize /\ (RainMoved => height' > ChromeLines)
    \/ ~RainMoved /\ (RefreshFails \/ SwitchView \/ Scroll \/ Detail)
    \/ ~Scrolled /\ mode = "rain" /\ height > ChromeLines /\ published.freshness # "stale"
       /\ (RainTick \/ TogglePause \/ StepWindow \/ TurnPage)
MCSpec == Init /\ [][MCNext]_vars

\* The clock moves only while Rain is paused: all the time there is, is paused time.
MCPausedNext == MCNext /\ (now' # now => rain.paused)
MCPausedSpec == Init /\ [][MCPausedNext]_vars
=============================================================================
