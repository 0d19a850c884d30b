------------------------------- MODULE MCConsole -------------------------------
(***************************************************************************)
(* Constants for model checking Console.                                   *)
(***************************************************************************)
EXTENDS Console

CONSTANTS mqtt, http, north, south, p1, p2

TypeOfEach == [c \in Channel |-> IF c = north THEN mqtt ELSE http]
KindOfEach == [c \in Channel |-> IF c = north THEN "editor" ELSE "plain"]

Bounds(c, a, f, v) == [clicks |-> c, acts |-> a, failures |-> f, views |-> v]

\* The dialog, and each of the live views.
SmallPlans == {Bounds(6, 0, 1, {"rules"}), Bounds(0, 6, 2, View)}

===============================================================================
