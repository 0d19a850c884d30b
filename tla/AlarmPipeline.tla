----------------------------- MODULE AlarmPipeline -----------------------------
(***************************************************************************)
(* From a failing poll to a webhook: the Trackers of AlarmTracker hand     *)
(* what they record to the Notifier, while targets are disabled and        *)
(* enabled, webhooks edited, statements fail and the process restarts.     *)
(***************************************************************************)
EXTENDS AlarmTracker, Notifier

CONSTANT Plans      \* bounds on what happens in a behaviour

\* The targets that exist and the webhooks enabled at first; how many alarm rows, failing
\* statements, requests to disable or enable a target, edits of webhooks, restarts of the
\* process and calls of Stop there may be.
Plan == [targets : SUBSET Target, hooks : SUBSET Hook, rows : Nat, faults : Nat, requests : Nat, edits : Nat,
         restarts : Nat, stops : Nat]

ASSUME AlarmPipelineAssumption == Plans \subseteq Plan

VARIABLES
    plan,
    admitted    \* Trackers whose call of Notify has found the dispatcher running

vars == <<trackerVars, notifierVars, plan, admitted>>

Init == plan \in Plans /\ TrackerInit /\ NotifierInit(plan.hooks) /\ admitted = {}

Use(what) == plan[what] > 0 /\ plan' = [plan EXCEPT ![what] = @ - 1]

\* main starts the notifier before whatever reports.
Reporting == starts > 0 /\ loops[starts].pc # "none"

Judge ==
    /\ Reporting
    /\ \E ok \in BOOLEAN :
        \/ \E d \in Device \cap plan.targets : ReportDevicePoll(d, ok)
        \/ \E c \in Channel \cap plan.targets : ScanChannel(c, ok)
    /\ Len(table') <= plan.rows
    /\ UNCHANGED <<notifierVars, plan>>

JudgeFaulty ==
    /\ Reporting
    /\ Use("faults")
    /\ \E t \in plan.targets, ok \in BOOLEAN : Faulty(t, ok)
    /\ Len(table') <= plan.rows
    /\ UNCHANGED notifierVars

\* The last call of report, Notify, still under the Tracker's lock: a report that recorded
\* nothing ends without it.  Notify looks at running once, and then queues the event.
Admit(k) ==
    /\ handing[k] # 0 /\ k \notin admitted /\ running
    /\ admitted' = admitted \cup {k}
    /\ UNCHANGED <<trackerVars, notifierVars, plan>>

HandOver(k) ==
    /\ handing[k] # 0
    /\ IF k \in admitted THEN NotifyQueued(handing[k]) ELSE NotifyRefused
    /\ handing' = [handing EXCEPT ![k] = 0] /\ admitted' = admitted \ {k}
    /\ UNCHANGED <<st, table, enabled, polled, was, clearing, ledger, plan>>

Request ==
    /\ Use("requests")
    /\ \E t \in plan.targets : Disable(t) \/ Enable(t)
    /\ UNCHANGED notifierVars

FollowUp ==
    /\ \E t \in Target : ServiceClear(t) \/ Follow(t)
    /\ UNCHANGED <<notifierVars, plan>>

FollowUpFails ==
    /\ Use("faults")
    /\ \/ (\E t \in Target : ServiceClearFails(t)) /\ UNCHANGED notifierVars
       \/ LoadFails /\ UNCHANGED trackerVars

EditHook ==
    /\ Use("edits")
    /\ \E h \in Hook : \E version \in {0, conf[h] + 1} : Edit(h, version)
    /\ UNCHANGED trackerVars

Notifying == NotifierStep /\ (IF running /\ ~running' THEN Use("stops") ELSE UNCHANGED plan)
             /\ UNCHANGED trackerVars

\* What the notifier held is lost with the process.
Restart ==
    /\ Use("restarts")
    /\ TrackerRestart
    /\ running' = FALSE /\ starts' = 0 /\ quitted' = {} /\ loading' = "no" /\ refreshers' = 0
    /\ ingress' = <<>> /\ offered' = 0 /\ taken' = 0 /\ ingressDropped' = 0 /\ recounted' = 0
    /\ workers' = {} /\ inst' = [w \in Worker |-> NotStarted]
    /\ loops' = [e \in Epoch |-> NoLoop] /\ reload' = NoReload /\ stopping' = NoStop
    /\ admitted' = {}
    /\ UNCHANGED conf

Aside == \/ Judge \/ JudgeFaulty \/ Request \/ FollowUp \/ FollowUpFails \/ EditHook \/ Notifying

Next ==
    \/ Aside /\ UNCHANGED admitted
    \/ \E k \in Kind : Admit(k) \/ HandOver(k)
    \/ Restart

Spec == Init /\ [][Next]_vars

-------------------------------------------------------------------------------
TypeOK == TrackerTypeOK /\ NotifierTypeOK /\ plan \in Plan /\ admitted \in SUBSET Kind

===============================================================================
