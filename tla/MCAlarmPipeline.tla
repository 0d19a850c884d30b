----------------------------- MODULE MCAlarmPipeline -----------------------------
(***************************************************************************)
(* Constants for model checking AlarmPipeline.                             *)
(***************************************************************************)
EXTENDS AlarmPipeline

CONSTANTS dev, chan, hook1, hook2

Twice == [t \in Target |-> 2]

Bounds(t, h, n, b) == [targets |-> t, hooks |-> h, rows |-> n, faults |-> b[1], requests |-> b[2],
                    edits |-> b[3], restarts |-> b[4], stops |-> b[5]]

\* Both Trackers without a webhook; one of them with more going on; one target with a webhook
\* that is edited while the notifier stops; and two webhooks.
SmallPlans ==
    {Bounds({dev, chan}, {}, 3, b) : b \in {<<1, 1, 0, 0, 0>>, <<1, 0, 0, 1, 0>>}}
    \cup {Bounds({t}, {}, 3, <<2, 2, 0, 1, 0>>) : t \in {dev, chan}}
    \cup {Bounds({dev}, {hook1}, 1, <<0, 0, 1, 0, 1>>)}
    \cup {Bounds({dev}, {hook1}, 3, b) :
            b \in {<<0, 0, 1, 0, 0>>, <<0, 0, 0, 0, 1>>, <<1, 0, 0, 1, 0>>}}
    \cup {Bounds({dev}, {hook1, hook2}, 3, <<0, 0, 0, 0, 0>>),
          Bounds({dev}, {hook1, hook2}, 1, <<1, 0, 1, 0, 0>>)}

===============================================================================
