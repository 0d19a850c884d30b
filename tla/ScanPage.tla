-------------------------------- MODULE ScanPage --------------------------------
(***************************************************************************)
(* The scan page of the web console (device-scan/IndexView.vue) driving    *)
(* the scan engine over HTTP: it starts a scan, polls it, continues it     *)
(* batch by batch on its own, and cancels it.                              *)
(*                                                                         *)
(* A request is sent, handled by the engine and answered in three steps,   *)
(* so answers may come in any order and after the user did something else. *)
(* The interval does not wait for the poll before it.  A poll has a slot;  *)
(* those that handleCancel and continueBatch wait for have their own.      *)
(***************************************************************************)
EXTENDS DeviceScan

CONSTANTS
    ThisPage,       \* the page, as a caller of Continue
    Ticks,          \* slots of the interval's polls: bounds those in flight
    Plans           \* what a behaviour may scan, and the bounds on what happens in it

\* A plan: targets scanned, whether they are prefiltered, and how many clicks of the user,
\* failures (lost requests, timeouts, expiry) and calls of other clients there may be.
Plan == [targets : Position, prefilter : BOOLEAN, clicks : Nat, faults : Nat, others : Nat]

ASSUME ScanPageAssumption ==
    /\ ThisPage \in Caller
    /\ IsFiniteSet(Ticks) /\ "cancel" \notin Ticks /\ "continue" \notin Ticks
    /\ Plans \subseteq Plan

Other == Caller \ {ThisPage}

Slot == Ticks \cup {"cancel", "continue"}

\* The part of an engine snapshot the page goes by; batch only serves to tell its age.
Snapshot == [id : Nat \ {0}, batch : Nat \ {0}, state : State, more : BOOLEAN,
             devices : Seq(Dev)]
NothingShown == [id |-> 0, batch |-> 0, state |-> "none", more |-> FALSE]
Idle == [step |-> "idle"]
Gone == [id |-> 0]          \* ErrJobNotFound

VARIABLES
    mounted,
    shown,        \* job.value without its devices
    rows,         \* job.value.devices
    jobExpired,
    timer,        \* job whose interval runs, 0 if none does
    polls,        \* per slot: the step of a pollOnce and the answers it has
    starting,     \* startScan: step, and the job it was answered with
    continuing,   \* continueBatch: step, job, auto, answer
    canceling,    \* handleCancel: step and job
    autoStopped,  \* autoContinueStopped
    plan,         \* the plan, with what is left of its bounds
    given,        \* history: newest job the user has turned away from
    late,         \* history: an answer out of date was taken for the state of the scan
    cancelled,    \* history: job the user cancelled, until they scan on or turn away
    byAuto,       \* history: the last batch was started by an automatic continue
    broken        \* history: what went wrong (Mishap)

\* What may go wrong: a request of the page fails, a batch takes too long, another client
\* continues a job, or the start of a scan and the cancel of another are under way together.
Mishap == {"start", "continue", "cancel", "deadline", "foreign", "overlap"}

pageVars == <<mounted, shown, rows, jobExpired, timer, polls, starting, continuing, canceling,
              autoStopped>>
pastVars == <<given, late, cancelled, byAuto, broken>>
vars == <<scanVars, pageVars, plan, pastVars>>

Init ==
    /\ ScanInit
    /\ mounted = TRUE /\ shown = NothingShown /\ rows = <<>> /\ jobExpired = FALSE
    /\ timer = 0 /\ polls = [s \in Slot |-> Idle]
    /\ starting = Idle /\ continuing = Idle /\ canceling = Idle /\ autoStopped = FALSE
    /\ plan \in Plans
    /\ given = 0 /\ late = FALSE /\ cancelled = 0 /\ byAuto = FALSE /\ broken = {}

Click == mounted /\ plan.clicks > 0 /\ plan' = [plan EXCEPT !.clicks = @ - 1]
Fault == plan.faults > 0 /\ plan' = [plan EXCEPT !.faults = @ - 1]

-------------------------------------------------------------------------------
(***************************************************************************)
(* What the engine answers.                                                *)
(***************************************************************************)

SnapshotOf(j) == [id |-> j.id, batch |-> j.batch, devices |-> j.devices, state |-> j.state,
                  more |-> \/ j.offset < j.requested
                           \/ j.state = "canceled" /\ j.scanned < j.offset - j.batchStart]

\* Progress and Status, which differ in what the page reads of the answer.
ServePoll(s) ==
    /\ polls[s].step \in {"ask", "askAll"}
    /\ Lookup(polls[s].id)
    /\ LET answer == IF Found(polls[s].id) THEN SnapshotOf(job) ELSE Gone
       IN polls' = [polls EXCEPT ![s] =
              IF @.step = "ask" THEN [step |-> "told", id |-> @.id, light |-> answer]
                                ELSE [step |-> "toldAll", id |-> @.id, light |-> @.light,
                                      full |-> answer]]
    /\ UNCHANGED <<mounted, shown, rows, jobExpired, timer, starting, continuing, canceling,
                   autoStopped, plan, pastVars>>

ServeStart ==
    /\ starting.step = "sent"
    /\ \/ /\ Submit(plan.targets, plan.prefilter) /\ byAuto' = FALSE
          /\ starting' = [step |-> "ok", snap |-> SnapshotOf(job')]
       \/ ~MaySubmit /\ starting' = [step |-> "failed"] /\ UNCHANGED <<scanVars, byAuto>>
    /\ UNCHANGED <<mounted, shown, rows, jobExpired, timer, polls, continuing, canceling,
                   autoStopped, plan, given, late, cancelled, broken>>

\* The request to continue, answered with a snapshot.
Continued(snap) == [step |-> "ok", id |-> continuing.id, auto |-> continuing.auto, snap |-> snap]

ServeContinue ==
    /\ \/ /\ continuing.step = "sent"
          /\ \/ ContinueBegin(ThisPage, continuing.id)
                /\ continuing' = [continuing EXCEPT !.step = "waiting"]
             \/ ~MayContinue(continuing.id) /\ Lookup(continuing.id)
                /\ continuing' = [continuing EXCEPT !.step = "failed"]
          /\ UNCHANGED byAuto
       \/ /\ continuing.step = "waiting"
          /\ \/ /\ ContinueBatch(ThisPage)
                /\ continuing' = Continued(SnapshotOf(job'))
                /\ byAuto' = continuing.auto
             \/ /\ ContinueNothingLeft(ThisPage)
                /\ continuing' = Continued(SnapshotOf(job))
                /\ UNCHANGED byAuto
             \/ /\ ContinueRefused(ThisPage)
                /\ continuing' = [continuing EXCEPT !.step = "failed"]
                /\ UNCHANGED byAuto
    /\ UNCHANGED <<mounted, shown, rows, jobExpired, timer, polls, starting, canceling,
                   autoStopped, plan, given, late, cancelled, broken>>

\* cancelScan, called by handleCancel and by continueBatch.
ServeCancel ==
    /\ \/ /\ canceling.step = "sent"
          /\ Cancel(canceling.id)
          /\ canceling' = [canceling EXCEPT
                 !.step = IF job.id = canceling.id THEN "ok" ELSE "failed"]
          /\ UNCHANGED continuing
       \/ /\ continuing.step = "cancel"
          /\ Cancel(continuing.id)
          /\ continuing' = [continuing EXCEPT !.step = "canceled"]
          /\ UNCHANGED canceling
    /\ UNCHANGED <<mounted, shown, rows, jobExpired, timer, polls, starting, autoStopped,
                   plan, pastVars>>

\* Another client submits, continues or cancels; the gateway stops; time passes.
OtherClient ==
    /\ \/ /\ plan.others > 0 /\ plan' = [plan EXCEPT !.others = @ - 1]
          /\ \/ Submit(plan.targets, plan.prefilter) /\ byAuto' = FALSE
             \/ /\ \/ \E c \in Other : ContinueBegin(c, job.id)
                   \/ ~Terminal /\ Cancel(job.id)
                   \/ StopBegin
                /\ UNCHANGED byAuto
          /\ UNCHANGED broken
       \/ /\ UNCHANGED plan
          /\ \E c \in Other :
                \/ ContinueBatch(c) /\ byAuto' = FALSE /\ broken' = broken \cup {"foreign"}
                \/ /\ ContinueNothingLeft(c) \/ ContinueRefused(c) \/ ContinueTimeout(c)
                   /\ UNCHANGED <<byAuto, broken>>
       \/ StopReturn /\ UNCHANGED <<plan, byAuto, broken>>
    /\ UNCHANGED <<pageVars, given, late, cancelled>>

EngineStep ==
    /\ \E r \in runs : RunStep(r)
    /\ UNCHANGED <<pageVars, plan, pastVars>>

JobExpires ==
    /\ Fault /\ Expire
    /\ UNCHANGED <<pageVars, pastVars>>

-------------------------------------------------------------------------------
(***************************************************************************)
(* Polling and the snapshots it brings.                                    *)
(***************************************************************************)

FreeTicks == {s \in Ticks : polls[s] = Idle}
Ask(j) == [step |-> "ask", id |-> j]

\* startPolling: a new interval and a first poll at once.
startPolling(j) ==
    /\ timer' = j
    /\ IF FreeTicks = {} THEN UNCHANGED polls
       ELSE \E s \in FreeTicks : polls' = [polls EXCEPT ![s] = Ask(j)]

Tick ==
    /\ timer # 0
    /\ \E s \in FreeTicks : polls' = [polls EXCEPT ![s] = Ask(timer)]
    /\ UNCHANGED <<scanVars, mounted, shown, rows, jobExpired, timer, starting, continuing,
                   canceling, autoStopped, plan, pastVars>>

\* The batch takes longer than any batch should: polling is given up.
PollDeadline ==
    /\ timer # 0 /\ timer' = 0
    /\ Fault /\ broken' = broken \cup {"deadline"}
    /\ UNCHANGED <<scanVars, mounted, shown, rows, jobExpired, polls, starting, continuing,
                   canceling, autoStopped, given, late, cancelled, byAuto>>

\* What snapshot s says was overtaken by what the page has shown, or is no longer wanted.
Outdated(s) ==
    \/ s.id <= given
    \/ s.id < shown.id
    \/ s.id = shown.id /\ \/ s.batch < shown.batch
                          \/ /\ s.batch = shown.batch
                             /\ shown.state # "running" /\ s.state = "running"

\* applySnapshot: a list of the length of the one shown is not taken over.
applySnapshot(s, withDevices) ==
    /\ shown' = [id |-> s.id, batch |-> s.batch, state |-> s.state, more |-> s.more]
    /\ rows' = IF withDevices /\ Len(s.devices) # Len(rows) THEN s.devices ELSE rows
    /\ late' = (late \/ Outdated(s))

\* Mistake: it looks at the job as it was shown before snapshot s.
WrongAutoContinue(s) ==
    /\ shown.state = "done" /\ shown.more
    /\ ~autoStopped
    /\ starting = Idle /\ continuing = Idle /\ canceling = Idle

\* canAutoContinue, once snapshot s is shown.
canAutoContinue(s) ==
    /\ s.state = "done" /\ s.more
    /\ ~autoStopped
    /\ starting = Idle /\ continuing = Idle /\ canceling = Idle

\* The poll of slot s is over; whoever waited for it goes on.
PollOver(s) ==
    /\ polls' = [polls EXCEPT ![s] = Idle]
    /\ canceling' = IF s = "cancel" THEN Idle ELSE canceling

Awaited(s) == IF s = "continue" THEN Idle ELSE continuing

\* The end of pollOnce: polling stops with the batch, and the next one is started.
PollApplies(s, snap, withDevices) ==
    /\ applySnapshot(snap, withDevices)
    /\ PollOver(s)
    /\ IF snap.state = "running" THEN continuing' = Awaited(s) /\ UNCHANGED timer
       ELSE /\ timer' = 0
            /\ continuing' = IF canAutoContinue(snap)
                             THEN [step |-> "sent", id |-> snap.id, auto |-> TRUE]
                             ELSE Awaited(s)
    /\ UNCHANGED jobExpired

PollGone(s) ==
    /\ polls[s].step = "told" /\ polls[s].light = Gone
    /\ timer' = 0 /\ jobExpired' = TRUE
    /\ late' = (late \/ polls[s].id # shown.id)
    /\ PollOver(s) /\ continuing' = Awaited(s)
    /\ UNCHANGED <<shown, rows>>

\* Mistake: the list is never fetched for a poll of the interval.
WrongPollLight(s) ==
    /\ polls[s].step = "told" /\ polls[s].light # Gone
    /\ PollApplies(s, polls[s].light, FALSE)

\* The counts tell whether the page has all devices; if not, it asks for the list too.
PollLight(s) ==
    /\ polls[s].step = "told" /\ polls[s].light # Gone
    /\ LET light == polls[s].light
       IN IF Len(light.devices) = Len(rows) THEN PollApplies(s, light, FALSE)
          ELSE /\ polls' = [polls EXCEPT ![s].step = "askAll"]
               /\ UNCHANGED <<shown, rows, jobExpired, timer, continuing, canceling, late>>

PollFull(s) ==
    /\ polls[s].step = "toldAll"
    /\ IF polls[s].full = Gone THEN PollApplies(s, polls[s].light, FALSE)
                               ELSE PollApplies(s, polls[s].full, TRUE)

\* Mistake: polling stops at the first error.
WrongPollLost(s) ==
    /\ polls[s] # Idle
    /\ PollOver(s) /\ continuing' = Awaited(s)
    /\ timer' = 0
    /\ UNCHANGED <<shown, rows, jobExpired, late>>

\* The network eats a request or an answer: this beat is skipped.
PollLost(s) ==
    /\ polls[s] # Idle
    /\ PollOver(s) /\ continuing' = Awaited(s)
    /\ UNCHANGED <<shown, rows, jobExpired, timer, late>>

PollAnswer(s) ==
    /\ \/ (PollGone(s) \/ PollLight(s) \/ PollFull(s)) /\ UNCHANGED plan
       \/ PollLost(s) /\ Fault
    /\ UNCHANGED <<scanVars, mounted, starting, autoStopped, given, cancelled,
                   byAuto, broken>>

-------------------------------------------------------------------------------
(***************************************************************************)
(* The buttons, and the answers to their requests.                         *)
(***************************************************************************)

handleStart ==
    /\ Click
    /\ starting = Idle /\ continuing = Idle
    /\ starting' = [step |-> "sent"]
    /\ jobExpired' = FALSE /\ autoStopped' = FALSE
    /\ cancelled' = 0
    /\ broken' = IF canceling = Idle THEN broken ELSE broken \cup {"overlap"}
    /\ UNCHANGED <<scanVars, mounted, shown, rows, timer, polls, continuing, canceling, given,
                   late, byAuto>>

StartAnswer ==
    /\ \/ /\ starting.step = "ok"
          /\ LET snap == starting.snap
             IN /\ shown' = [id |-> snap.id, batch |-> snap.batch, state |-> snap.state,
                             more |-> snap.more]
                /\ rows' = snap.devices
                /\ startPolling(snap.id)
                /\ given' = snap.id - 1
          /\ UNCHANGED <<plan, broken>>
       \/ /\ \/ starting.step = "failed" /\ UNCHANGED plan
             \/ starting.step \in {"sent", "ok"} /\ Fault
          /\ broken' = broken \cup {"start"}
          /\ UNCHANGED <<shown, rows, timer, polls, given>>
    /\ starting' = Idle
    /\ UNCHANGED <<scanVars, mounted, jobExpired, continuing, canceling, autoStopped, late, cancelled, byAuto>>

\* The button is there for a batch that has ended with targets left.
handleContinue ==
    /\ Click
    /\ shown.state \in {"done", "canceled"} /\ shown.more
    /\ starting = Idle /\ continuing = Idle /\ canceling = Idle
    /\ autoStopped' = FALSE
    /\ continuing' = [step |-> "sent", id |-> shown.id, auto |-> FALSE]
    /\ cancelled' = 0
    /\ UNCHANGED <<scanVars, mounted, shown, rows, jobExpired, timer, polls, starting,
                   canceling, given, late, byAuto, broken>>

\* Mistake: a cancel that came while the request was under way is forgotten.
WrongContinueAnswered ==
    /\ applySnapshot(continuing.snap, TRUE)
    /\ startPolling(continuing.snap.id)
    /\ continuing' = Idle

\* continueBatch has its snapshot; a batch the user has cancelled meanwhile is cancelled.
ContinueAnswered ==
    /\ applySnapshot(continuing.snap, TRUE)
    /\ startPolling(continuing.snap.id)
    /\ continuing' = IF continuing.auto /\ autoStopped
                     THEN [step |-> "cancel", id |-> continuing.snap.id] ELSE Idle

\* The request failed, was refused or its answer lost.
ContinueFailed ==
    /\ \/ continuing.step = "failed" /\ UNCHANGED <<plan, waiting>>
       \/ continuing.step \in {"sent", "ok"} /\ Fault /\ UNCHANGED waiting
       \/ continuing.step = "waiting" /\ Fault
          /\ ~DoneClosed(waiting[ThisPage].batch)
          /\ waiting' = [waiting EXCEPT ![ThisPage] = None]
    /\ broken' = broken \cup {"continue"}
    /\ autoStopped' = (autoStopped \/ continuing.auto)
    /\ continuing' = Idle

\* cancelScan in continueBatch has returned or failed; the poll follows in any case.
ContinueCanceled ==
    /\ \/ continuing.step = "canceled" /\ UNCHANGED <<plan, broken>>
       \/ continuing.step = "cancel" /\ Fault /\ broken' = broken \cup {"cancel"}
    /\ continuing' = [step |-> "polling"]
    /\ polls' = [polls EXCEPT !["continue"] = Ask(continuing.id)]

ContinueAnswer ==
    /\ \/ /\ continuing.step = "ok" /\ ContinueAnswered
          /\ UNCHANGED <<plan, broken, waiting, autoStopped>>
       \/ /\ ContinueFailed
          /\ UNCHANGED <<shown, rows, late, timer, polls>>
       \/ /\ ContinueCanceled
          /\ UNCHANGED <<shown, rows, late, timer, waiting, autoStopped>>
    /\ UNCHANGED <<job, runs, jobs, batches, stop, evaluated, overtaken, mounted, jobExpired,
                   starting, canceling, given, cancelled, byAuto>>

handleCancel ==
    /\ Click
    /\ shown.state = "running" /\ canceling = Idle
    /\ autoStopped' = TRUE
    /\ canceling' = [step |-> "sent", id |-> shown.id]
    /\ cancelled' = shown.id
    /\ broken' = IF starting = Idle THEN broken ELSE broken \cup {"overlap"}
    /\ UNCHANGED <<scanVars, mounted, shown, rows, jobExpired, timer, polls, starting,
                   continuing, given, late, byAuto>>

CancelAnswer ==
    /\ \/ /\ canceling.step = "ok" /\ shown.id # 0
          /\ canceling' = [step |-> "polling"]
          /\ polls' = [polls EXCEPT !["cancel"] = Ask(shown.id)]
          /\ UNCHANGED <<plan, broken>>
       \/ /\ \/ canceling.step = "failed" /\ UNCHANGED <<plan, broken>>
             \/ canceling.step = "ok" /\ shown.id = 0 /\ UNCHANGED <<plan, broken>>
             \/ canceling.step \in {"sent", "ok"} /\ Fault /\ broken' = broken \cup {"cancel"}
          /\ canceling' = Idle /\ UNCHANGED polls
    /\ UNCHANGED <<scanVars, mounted, shown, rows, jobExpired, timer, starting, continuing,
                   autoStopped, given, late, cancelled, byAuto>>

\* The select is disabled while a scan is shown as running.
handleProtocolChange ==
    /\ Click
    /\ shown.id # 0 /\ shown.state # "running"
    /\ timer' = 0
    /\ shown' = NothingShown /\ rows' = <<>> /\ jobExpired' = FALSE /\ autoStopped' = FALSE
    /\ given' = IF shown.id > given THEN shown.id ELSE given
    /\ cancelled' = 0
    /\ UNCHANGED <<scanVars, mounted, polls, starting, continuing, canceling, late, byAuto,
                   broken>>

\* Leaving the page clears the interval; what is under way still comes to an end.
Leave ==
    /\ Click
    /\ mounted' = FALSE /\ timer' = 0
    /\ UNCHANGED <<scanVars, shown, rows, jobExpired, polls, starting, continuing, canceling,
                   autoStopped, pastVars>>

-------------------------------------------------------------------------------
Serve == (\E s \in Slot : ServePoll(s)) \/ ServeStart \/ ServeContinue \/ ServeCancel
Answer == (\E s \in Slot : PollAnswer(s)) \/ StartAnswer \/ ContinueAnswer \/ CancelAnswer
User == handleStart \/ handleContinue \/ handleCancel \/ handleProtocolChange \/ Leave

Next == EngineStep \/ JobExpires \/ OtherClient \/ Serve \/ Answer \/ Tick \/ PollDeadline \/ User

Spec == Init /\ [][Next]_vars

-------------------------------------------------------------------------------
TypeOK ==
    /\ ScanTypeOK
    /\ {mounted, jobExpired, autoStopped, late, byAuto} \subseteq BOOLEAN
    /\ shown \in [id : Nat, batch : Nat, state : State \cup {"none"}, more : BOOLEAN]
    /\ rows \in Seq(Dev)
    /\ {timer, given, cancelled} \subseteq Nat
    /\ \A s \in Slot : polls[s].step \in {"idle", "ask", "told", "askAll", "toldAll"}
    /\ starting.step \in {"idle", "sent", "ok", "failed"}
    /\ continuing.step \in {"idle", "sent", "waiting", "ok", "failed", "cancel", "canceled",
                            "polling"}
    /\ canceling.step \in {"idle", "sent", "ok", "failed", "polling"}
    /\ plan \in Plan
    /\ broken \subseteq Mishap

\* As long as the page shows a scan as running it keeps polling it, or waits for the answer to
\* a request of its own that will start polling, whatever poll gets lost ("polling must not
\* stop because of one glitch").  Only an answer that arrives out of order or for another
\* job, or a batch that another client started, can stop it early.
PollsWhileRunning ==
    mounted /\ shown.state = "running" /\ ~jobExpired /\ ~late
        /\ broken \cap {"start", "continue", "deadline", "foreign"} = {}
    => timer = shown.id \/ starting # Idle \/ continuing # Idle

\* Nothing is under way between page and engine.
Quiet ==
    /\ timer = 0 /\ \A s \in Slot : polls[s] = Idle
    /\ starting = Idle /\ continuing = Idle /\ canceling = Idle

\* After the user cancelled a scan, no batch that the page started by itself keeps running,
\* even if its continue was already under way.
CancelSticks ==
    Quiet /\ job.id # 0 /\ job.id = cancelled /\ byAuto /\ broken \cap {"continue", "cancel"} = {}
    => Terminal

\* When all has come to rest the page shows how the batch ended and every device found.
ShowsAll ==
    Quiet /\ mounted /\ shown.id = job.id /\ shown.batch = job.batch /\ ~late /\ ~jobExpired
        /\ broken \cap {"start", "continue", "deadline", "foreign"} = {}
    => shown.state = job.state /\ rows = job.devices

\* The page rests before the last target only if the automatic continuation was stopped
\* ("a batch that ends as it should with targets left is followed by the next one by itself,
\* until none is left"), or if the scan was started while a cancel was still under way.
GoesOnByItself ==
    Quiet /\ ~late /\ broken \cap {"start", "continue", "overlap"} = {}
    => (shown.state = "done" /\ shown.more => autoStopped)

===============================================================================
