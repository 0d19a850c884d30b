-------------------------------- MODULE Console --------------------------------
(***************************************************************************)
(* Pages of the web console next to each other: the dialog of a push       *)
(* channel, and a view that polls for live data.  They run in one event    *)
(* loop and share nothing but the server, whose answers come in any order. *)
(***************************************************************************)
EXTENDS ChannelDialog, LiveViews

CONSTANT Plans      \* bounds on what happens in a behaviour

VARIABLE plan   \* what the user and the server will do

vars == <<dialogVars, liveVars, plan>>

\* Clicks in the dialog, acts in the live view, requests that fail, and the live view (if any).
Plan == [clicks : Nat, acts : Nat, failures : Nat, views : SUBSET View]

ASSUME ConsoleAssumption == Plans \subseteq Plan

Init == DialogInit /\ LiveInit /\ plan \in Plans /\ view \in plan.views

Use(what) == plan[what] > 0 /\ plan' = [plan EXCEPT ![what] = @ - 1]

Going ==
    \/ TimerFires(TRUE) /\ UNCHANGED liveVars
    \/ (\E r \in flight : Answered(r, TRUE)) /\ UNCHANGED liveVars
    \/ IntervalFires /\ UNCHANGED dialogVars
    \/ (\E r \in asked : AnyAnswer(r, TRUE)) /\ UNCHANGED dialogVars

Fails ==
    \/ (TimerFires(FALSE) \/ \E r \in flight : Answered(r, FALSE)) /\ UNCHANGED liveVars
    \/ (\E r \in asked : AnyAnswer(r, FALSE)) /\ UNCHANGED dialogVars

Next ==
    \/ Going /\ UNCHANGED plan
    \/ Use("clicks") /\ Click /\ UNCHANGED liveVars
    \/ Use("acts") /\ Act /\ UNCHANGED dialogVars
    \/ Use("failures") /\ Fails

\* The interval goes on, and every request is answered.
Fairness ==
    /\ WF_vars(IntervalFires /\ UNCHANGED <<dialogVars, plan>>)
    /\ \A n \in 1 .. MaxAsked :
        WF_vars(\E r \in asked : r.no = n /\ AnyAnswer(r, TRUE) /\ UNCHANGED <<dialogVars, plan>>)

Spec == Init /\ [][Next]_vars /\ Fairness

===============================================================================
