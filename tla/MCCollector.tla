------------------------------ MODULE MCCollector ------------------------------
(***************************************************************************)
(* Constants for model checking Collector.                                 *)
(***************************************************************************)
EXTENDS Collector

CONSTANTS rtu, tcp, fast, slow, w1, w2, http, api, watcher

\* A device in both groups, and one in the slow group.
Both == [g \in Group |-> IF g = fast THEN {tcp} ELSE {rtu, tcp}]

Bounds(d, m, b) == [devices |-> d, managed |-> m, writes |-> b[1], edits |-> b[2], faults |-> b[3],
                    panics |-> b[4]]

\* Both devices with a write; one device while the task is replaced and everything else
\* happens; and none, while the configuration goes back and forth.
SmallPlans ==
    {Bounds({rtu, tcp}, <<"Start", "Stop">>, <<1, 0, 0, 0>>),
     Bounds({tcp}, <<"Start", "Stop">>, <<1, 1, 0, 0>>),
     Bounds({rtu}, <<"Start", "Stop">>, <<0, 1, 1, 0>>),
     Bounds({tcp}, <<"Start", "Refresh", "Stop">>, <<0, 0, 0, 0>>),
     Bounds({tcp}, <<"Start", "StopCollection", "Start", "Stop">>, <<0, 0, 0, 0>>),
     Bounds({tcp}, <<"Start", "Refresh">>, <<0, 0, 0, 1>>),
     Bounds({rtu}, <<"Start", "Refresh", "Stop">>, <<1, 1, 0, 1>>),
     Bounds({rtu}, <<"Start", "StopCollection", "Start">>, <<0, 1, 1, 0>>),
     Bounds({}, <<"Start", "Refresh", "Stop", "Start">>, <<0, 3, 1, 0>>)}

===============================================================================
