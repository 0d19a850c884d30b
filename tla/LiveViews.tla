------------------------------- MODULE LiveViews -------------------------------
(***************************************************************************)
(* The views of the console that ask for live data again and again: the    *)
(* realtime page, the values on the page of a device's points              *)
(* (composables/useRealtimeValues.js), the monitor of a push channel, the  *)
(* recent messages of an MQTT subscription, and the live drawer of the     *)
(* trigger rules.  Each shows the data of what the user has selected: a    *)
(* page of points, a channel, a subscription, a rule.  They differ in when *)
(* they ask, and in what they do with an answer that comes late.           *)
(*                                                                         *)
(* A behaviour is about one view.  Data is known by what it was asked for. *)
(***************************************************************************)
EXTENDS Integers, FiniteSets

CONSTANTS
    Choice,         \* what can be selected
    MaxAsked        \* bound: requests of a view under way

Nothing == "nothing"    \* no data; selected: a page without points
View == {"realtime", "points", "monitor", "recent", "rules"}

ASSUME LiveAssumption == MaxAsked \in Nat \ {0} /\ Nothing \notin Choice

VARIABLES
    view,
    stage,          \* unopened, open, or closed
    selected, shown,
    timer,          \* the interval is set
    paused, hidden, \* by the user; the tab is in the background
    expanded,       \* monitor: a message is unfolded
    busy,           \* inFlight
    pending,        \* points: pendingRefresh
    asked           \* requests under way; points: whether requestSeq is still theirs

liveVars == <<view, stage, selected, shown, timer, paused, hidden, expanded, busy, pending, asked>>

LiveInit ==
    /\ view \in View /\ stage = "unopened"
    /\ selected = Nothing /\ shown = Nothing
    /\ timer = FALSE /\ paused = FALSE /\ hidden = FALSE /\ expanded = FALSE
    /\ busy = FALSE /\ pending = FALSE /\ asked = {}

IsOpen == stage = "open"
OneAtATime == view \in {"realtime", "points", "recent"}
MayAsk == Cardinality(asked) < MaxAsked

\* under with a request for s.
AskedFor(s, under) ==
    under \cup {[no |-> CHOOSE n \in 1 .. MaxAsked : n \notin {r.no : r \in under},
                 for |-> s, fresh |-> TRUE]}

\* fetchSnapshot, refreshMonitor, fetchRecent, fetchLive: a view that has one request at a
\* time does not ask while it is under way.
Ask(s) ==
    IF busy THEN UNCHANGED <<busy, asked>>
    ELSE /\ MayAsk
         /\ asked' = AskedFor(s, asked)
         /\ busy' = OneAtATime

\* refresh of useRealtimeValues: if it is busy it will ask again.
RefreshPoints(s, isBusy, under) ==
    IF s = Nothing
    THEN shown' = Nothing /\ busy' = isBusy /\ asked' = under /\ UNCHANGED pending
    ELSE IF isBusy
    THEN pending' = TRUE /\ busy' = TRUE /\ asked' = under /\ UNCHANGED shown
    ELSE /\ Cardinality(under) < MaxAsked
         /\ busy' = TRUE /\ pending' = FALSE
         /\ asked' = AskedFor(s, under)
         /\ UNCHANGED shown

\* restart: what is under way becomes obsolete; it may be that nothing is to be asked.
RestartPoints(s, isPaused, isHidden) ==
    LET obsolete == {[r EXCEPT !.fresh = FALSE] : r \in asked} IN
    /\ timer' = (~isPaused /\ ~isHidden /\ s # Nothing)
    /\ IF isPaused \/ isHidden
       THEN asked' = obsolete /\ UNCHANGED <<shown, busy, pending>>
       ELSE RefreshPoints(s, busy, obsolete)

-------------------------------------------------------------------------------
(***************************************************************************)
(* The user.                                                               *)
(***************************************************************************)

\* A page is entered once; a drawer may be opened again, for another selection.  The drawers
\* of a channel and of a subscription drop what they have shown before.
Enter(s) ==
    /\ ~IsOpen /\ (view \in {"realtime", "points"} => stage = "unopened")
    /\ stage' = "open" /\ selected' = s /\ expanded' = FALSE
    /\ IF view = "points"
       THEN RestartPoints(s, FALSE, hidden)
       ELSE /\ Ask(s)
            /\ timer' = (view # "realtime" \/ ~hidden)
            /\ shown' = IF view \in {"monitor", "recent"} THEN Nothing ELSE shown
            /\ UNCHANGED pending
    /\ UNCHANGED <<view, paused, hidden>>

\* Page, search and filter; the selection of a drawer of a channel or a subscription stays.
Select(s) ==
    /\ IsOpen /\ s # selected /\ selected' = s
    /\ \/ view = "points" /\ RestartPoints(s, paused, hidden)
       \/ view \in {"realtime", "rules"} /\ Ask(s) /\ UNCHANGED <<timer, shown, pending>>
    /\ UNCHANGED <<view, stage, paused, hidden, expanded>>

TogglePause ==
    /\ IsOpen /\ paused' = ~paused
    /\ \/ view = "points" /\ RestartPoints(selected, ~paused, hidden)
       \/ /\ view = "realtime"
          /\ timer' = (paused /\ ~hidden)
          /\ IF paused THEN Ask(selected) ELSE UNCHANGED <<busy, asked>>
          /\ UNCHANGED <<shown, pending>>
    /\ UNCHANGED <<view, stage, selected, hidden, expanded>>

\* handleVisibilityChange; drawers have no such handler.
HideOrShow ==
    /\ IsOpen /\ hidden' = ~hidden
    /\ \/ view = "points" /\ hidden /\ RestartPoints(selected, paused, FALSE)
       \/ /\ view = "realtime" /\ hidden
          /\ timer' = ~paused
          /\ IF paused THEN UNCHANGED <<busy, asked>> ELSE Ask(selected)
          /\ UNCHANGED <<shown, pending>>
       \/ view \in {"points", "realtime"} /\ ~hidden /\ timer' = FALSE
          /\ UNCHANGED <<shown, busy, asked, pending>>
       \/ view \notin {"points", "realtime"} /\ UNCHANGED <<shown, timer, busy, asked, pending>>
    /\ UNCHANGED <<view, stage, selected, paused, expanded>>

\* handleExpandChange
Unfold ==
    /\ IsOpen /\ view = "monitor" /\ shown # Nothing
    /\ expanded' = ~expanded
    /\ UNCHANGED <<view, stage, selected, shown, timer, paused, hidden, busy, pending, asked>>

\* onUnmounted, or the drawer is closed: what is under way stays so.
Leave ==
    /\ IsOpen /\ stage' = "closed" /\ timer' = FALSE
    /\ UNCHANGED <<view, selected, shown, paused, hidden, expanded, busy, pending, asked>>

Act ==
    \/ \E s \in Choice \cup (IF view = "points" THEN {Nothing} ELSE {}) : Enter(s) \/ Select(s)
    \/ TogglePause \/ HideOrShow \/ Unfold \/ Leave

-------------------------------------------------------------------------------
(***************************************************************************)
(* The interval, and the answers.                                          *)
(***************************************************************************)

\* The monitor leaves messages alone while one is unfolded; the drawer of recent messages does
\* not ask in a hidden tab.
IntervalFires ==
    /\ timer
    /\ view = "monitor" => ~expanded
    /\ view = "recent" => ~hidden
    /\ IF view = "points" THEN RefreshPoints(selected, busy, asked)
                          ELSE Ask(selected) /\ UNCHANGED <<shown, pending>>
    /\ UNCHANGED <<view, stage, selected, timer, paused, hidden, expanded>>

\* Mistake: an answer that is thrown away leaves the view busy.
WrongStillBusy(r) == ~r.fresh

\* The finally block runs for every answer.
StillBusy(r) == FALSE

\* An answer for points, which counts if it is to the newest question; then a refresh that was
\* asked for meanwhile, even if the view is paused or left by now.
PointsAnswered(r, ok) ==
    LET show == IF ok /\ r.fresh THEN r.for ELSE shown
        left == asked \ {r}
    IN
    /\ view = "points" /\ r \in asked
    /\ IF StillBusy(r) THEN asked' = left /\ UNCHANGED <<shown, busy, pending>>
       ELSE IF pending /\ selected # Nothing
       THEN shown' = show /\ busy' = TRUE /\ pending' = FALSE /\ asked' = AskedFor(selected, left)
       ELSE /\ shown' = IF pending THEN Nothing ELSE show
            /\ busy' = FALSE /\ pending' = FALSE /\ asked' = left
    /\ UNCHANGED <<view, stage, selected, timer, paused, hidden, expanded>>

\* An answer elsewhere is shown, whatever is selected by now.  Of the unfolded messages those
\* stay so whose numbers are among the new ones.
OtherAnswered(r, ok) ==
    /\ view # "points" /\ r \in asked
    /\ asked' = asked \ {r}
    /\ shown' = IF ok THEN r.for ELSE shown
    /\ busy' = FALSE
    /\ expanded' \in IF ok /\ view = "monitor" THEN {FALSE, expanded} ELSE {expanded}
    /\ UNCHANGED <<view, stage, selected, timer, paused, hidden, pending>>

AnyAnswer(r, ok) == PointsAnswered(r, ok) \/ OtherAnswered(r, ok)

-------------------------------------------------------------------------------
Looked == IsOpen /\ ~paused /\ ~hidden /\ ~expanded

\* Once the user leaves a view alone, and looks at it, it comes to show what is selected and
\* goes on showing it, whatever was asked before, dropped, thrown away or answered late.
CatchesUp == <>[](Looked => shown = selected)

===============================================================================
