------------------------------- MODULE MCScanPage -------------------------------
(***************************************************************************)
(* Constants for model checking ScanPage.                                  *)
(***************************************************************************)
EXTENDS ScanPage

CONSTANTS d1, d2, page, tab, tool, t1, t2

\* The first target is a broadcast address; the second is one of the devices behind it.
Reports == [t \in Position |-> IF t = 1 THEN {d1} ELSE {d1, d2}]

\* Two clicks of the user; a failure; another client; and clients without the page.
SmallPlans ==
    {[targets |-> 3, prefilter |-> b[1], clicks |-> b[2], faults |-> b[3], others |-> b[4]] :
        b \in {<<FALSE, 2, 0, 0>>, <<TRUE, 1, 1, 0>>, <<FALSE, 1, 0, 1>>, <<FALSE, 0, 0, 5>>,
               <<TRUE, 0, 0, 3>>}}

TickSymmetry == Permutations({t1, t2})

===============================================================================
