-------------------------------- MODULE Custody --------------------------------
(***************************************************************************)
(* What a push channel promises about the batches it accepts: it holds     *)
(* each of them until it has been applied downstream or its loss has been  *)
(* excused (discarded and counted, trimmed at the cap, failed to store, or *)
(* gone with the process), and it never sends a batch it no longer holds.  *)
(* Delivery is at least once: applying a batch does not release it.        *)
(***************************************************************************)
CONSTANT Batch

VARIABLES accepted, held, delivered, excused

vars == <<accepted, held, delivered, excused>>

Init ==
    /\ accepted = {} /\ held = {} /\ delivered = {} /\ excused = {}

Accept ==
    \E b \in Batch \ accepted :
       /\ accepted' = accepted \cup {b}
       /\ held' = held \cup {b}
       /\ UNCHANGED <<delivered, excused>>

\* Apply D downstream, excuse X, and let go of R, which needs one or the other.
Settle ==
    \E D, X, R \in SUBSET held :
       /\ delivered' = delivered \cup D
       /\ excused' = excused \cup X
       /\ R \subseteq delivered' \cup excused'
       /\ held' = held \ R
       /\ UNCHANGED accepted

Next == Accept \/ Settle

Spec == Init /\ [][Next]_vars

===============================================================================
