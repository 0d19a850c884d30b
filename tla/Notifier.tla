-------------------------------- MODULE Notifier --------------------------------
(***************************************************************************)
(* The notifier of alarms (notify/dispatcher.go, worker.go): events go     *)
(* through one ingress queue and one fanout goroutine into the queue of    *)
(* each webhook, whose worker delivers them with retries.  A reload of the *)
(* configuration replaces workers; Stop winds everything up.               *)
(*                                                                         *)
(* An event is the number of its alarm row.  A worker keeps its number for *)
(* ever, so that a replaced one can be told from its successor.            *)
(***************************************************************************)
EXTENDS Integers, Sequences, FiniteSets

CONSTANTS
    Hook,           \* configured webhooks
    IngressSize,
    QueueSize,
    MaxAttempts,
    MaxWorkers,     \* bound: workers ever started
    MaxStarts       \* bound: calls of Start in one process

Worker == 1 .. MaxWorkers
Epoch == 1 .. MaxStarts

ASSUME NotifierAssumption ==
    /\ {IngressSize, QueueSize, MaxAttempts, MaxWorkers, MaxStarts} \subseteq Nat \ {0}
    /\ Hook # {}

WorkerState == [hook : Hook, version : Nat, pc : {"new", "run", "deliver", "backoff", "drain", "done"},
                q : Seq(Nat), hand : SUBSET Nat, attempt : Nat, quit : BOOLEAN,
                got : Nat, sent : Nat, failed : Nat, dropped : Nat, abandoned : Nat]
Loop == [pc : {"none", "select", "snapshot", "try", "evict", "retry", "gone"}, ev : Nat, left : SUBSET Worker, at : Nat]
Reload == [pc : {"idle", "publish", "stop"}, next : SUBSET Worker, stop : SUBSET Worker]
Stopping == [pc : {"no", "close", "workers"}, left : SUBSET Worker]

VARIABLES
    conf,       \* alarm_webhook: version of each webhook, 0 if it is disabled or deleted
    running,
    starts,     \* calls of Start, each with its own quit channel
    quitted,    \* quit channels that are closed
    loading,    \* Start's reload: to come, under way or over
    refreshers, \* calls of reload that are past the check of running, or the watcher's
    ingress,
    offered, taken, ingressDropped,     \* events given to Notify, taken by a loop, counted out
    recounted,  \* history: events that Stop counted out and left in ingress
    workers,    \* Dispatcher.workers
    inst,       \* all workers
    loops,      \* per Start: its fanoutLoop
    reload,     \* the reload that holds reloadMu
    stopping    \* Stop

notifierVars == <<conf, running, starts, quitted, loading, refreshers, ingress, offered, taken,
                  ingressDropped, recounted, workers, inst, loops, reload, stopping>>

NotStarted == [hook |-> CHOOSE h \in Hook : TRUE, version |-> 0, pc |-> "new", q |-> <<>>, hand |-> {},
               attempt |-> 0, quit |-> FALSE, got |-> 0, sent |-> 0, failed |-> 0, dropped |-> 0,
               abandoned |-> 0]
NoLoop == [pc |-> "none", ev |-> 0, left |-> {}, at |-> 0]
NoReload == [pc |-> "idle", next |-> {}, stop |-> {}]
NoStop == [pc |-> "no", left |-> {}]

NotifierInit(hooks) ==
    /\ conf = [h \in Hook |-> IF h \in hooks THEN 1 ELSE 0]
    /\ running = FALSE /\ starts = 0 /\ quitted = {} /\ loading = "no" /\ refreshers = 0
    /\ ingress = <<>> /\ offered = 0 /\ taken = 0 /\ ingressDropped = 0 /\ recounted = 0
    /\ workers = {} /\ inst = [w \in Worker |-> NotStarted]
    /\ loops = [e \in Epoch |-> NoLoop] /\ reload = NoReload /\ stopping = NoStop

queues == <<ingress, offered, taken, ingressDropped, recounted>>
control == <<running, starts, quitted, loading>>

-------------------------------------------------------------------------------
\* Mistake: off by one.
WrongMayQueue == Len(ingress) <= IngressSize

MayQueue == Len(ingress) < IngressSize

\* Notify when it finds the dispatcher stopped.
NotifyRefused ==
    /\ ~running
    /\ offered' = offered + 1 /\ ingressDropped' = ingressDropped + 1
    /\ UNCHANGED <<conf, control, refreshers, ingress, taken, recounted, workers, inst, loops, reload,
                   stopping>>

\* Notify past its look at running, never blocking.  Stop may have come in between, and have
\* counted what was waiting.
NotifyQueued(ev) ==
    /\ offered' = offered + 1
    /\ IF MayQueue
       THEN ingress' = Append(ingress, ev) /\ UNCHANGED ingressDropped
       ELSE ingressDropped' = ingressDropped + 1 /\ UNCHANGED ingress
    /\ UNCHANGED <<conf, control, refreshers, taken, recounted, workers, inst, loops, reload, stopping>>

-------------------------------------------------------------------------------
(***************************************************************************)
(* The fanout goroutine of Start number e.  enqueue is up to three selects *)
(* between which the worker may take an event.                             *)
(***************************************************************************)

loopFrame == <<conf, control, refreshers, workers, reload, stopping>>

\* The select may take either when an event waits and quit is closed.
LoopTake(e) ==
    /\ loops[e].pc = "select" /\ ingress # <<>>
    /\ ingress' = Tail(ingress) /\ taken' = taken + 1
    /\ loops' = [loops EXCEPT ![e].pc = "snapshot", ![e].ev = Head(ingress)]
    /\ UNCHANGED <<loopFrame, offered, ingressDropped, recounted, inst>>

LoopQuit(e) ==
    /\ loops[e].pc = "select" /\ e \in quitted
    /\ loops' = [loops EXCEPT ![e].pc = "gone"]
    /\ UNCHANGED <<loopFrame, queues, inst>>

\* Loop e is to serve the workers in left, or waits for the next event.
GoOn(e, left) ==
    loops' = [loops EXCEPT ![e] = [pc |-> IF left = {} THEN "select" ELSE "try",
                                   ev |-> IF left = {} THEN 0 ELSE @.ev, left |-> left, at |-> 0]]

LoopSnapshot(e) ==
    /\ loops[e].pc = "snapshot"
    /\ GoOn(e, workers)
    /\ UNCHANGED <<loopFrame, queues, inst>>

Put(w, ev) == inst' = [inst EXCEPT ![w].q = Append(@, ev), ![w].got = @ + 1]

\* The workers come in any order; a full queue is seen to before the next.
EnqueueTry(e, w) ==
    /\ loops[e].pc = "try" /\ w \in loops[e].left
    /\ IF Len(inst[w].q) < QueueSize
       THEN Put(w, loops[e].ev) /\ GoOn(e, loops[e].left \ {w})
       ELSE UNCHANGED inst /\ loops' = [loops EXCEPT ![e].pc = "evict", ![e].at = w]
    /\ UNCHANGED <<loopFrame, queues>>

\* Mistake: the event that makes room is not counted.
WrongEnqueueEvict(e, w) ==
    /\ loops[e].pc = "evict" /\ w = loops[e].at
    /\ inst' = IF inst[w].q = <<>> THEN inst ELSE [inst EXCEPT ![w].q = Tail(@)]
    /\ loops' = [loops EXCEPT ![e].pc = "retry"]
    /\ UNCHANGED <<loopFrame, queues>>

EnqueueEvict(e, w) ==
    /\ loops[e].pc = "evict" /\ w = loops[e].at
    /\ inst' = IF inst[w].q = <<>> THEN inst
               ELSE [inst EXCEPT ![w].q = Tail(@), ![w].dropped = @ + 1]
    /\ loops' = [loops EXCEPT ![e].pc = "retry"]
    /\ UNCHANGED <<loopFrame, queues>>

\* The loop of another Start may have filled the queue again.
EnqueueRetry(e, w) ==
    /\ loops[e].pc = "retry" /\ w = loops[e].at
    /\ IF Len(inst[w].q) < QueueSize
       THEN Put(w, loops[e].ev)
       ELSE inst' = [inst EXCEPT ![w].got = @ + 1, ![w].dropped = @ + 1]
    /\ GoOn(e, loops[e].left \ {w})
    /\ UNCHANGED <<loopFrame, queues>>

FanoutStep(e) ==
    \/ LoopTake(e) \/ LoopQuit(e) \/ LoopSnapshot(e)
    \/ \E w \in Worker : EnqueueTry(e, w) \/ EnqueueEvict(e, w) \/ EnqueueRetry(e, w)

-------------------------------------------------------------------------------
(***************************************************************************)
(* The worker of a webhook.                                                *)
(***************************************************************************)

workerFrame == <<conf, control, refreshers, queues, workers, loops, reload, stopping>>
Become(w, s) == inst' = [inst EXCEPT ![w] = s]

\* The next event, in its main loop or while it drains its queue.
WorkerTake(w) ==
    LET s == inst[w] IN
    /\ s.pc = "run" \/ (s.pc = "drain" /\ s.hand = {})
    /\ s.q # <<>> /\ s.abandoned = 0
    /\ Become(w, [s EXCEPT !.q = Tail(s.q), !.hand = {Head(s.q)}, !.attempt = 1,
                           !.pc = IF @ = "run" THEN "deliver" ELSE @])
    /\ UNCHANGED workerFrame

WorkerQuit(w) ==
    /\ inst[w].pc = "run" /\ inst[w].quit
    /\ Become(w, [inst[w] EXCEPT !.pc = "drain"])
    /\ UNCHANGED workerFrame

\* Back to the select, or to the queue that is being drained.
AfterDelivery(s) == [s EXCEPT !.hand = {}, !.attempt = 0, !.pc = IF @ = "drain" THEN @ ELSE "run"]

Delivering(s) == s.pc = "deliver" \/ (s.pc = "drain" /\ s.hand # {})

Delivered(w) ==
    /\ Delivering(inst[w])
    /\ Become(w, [AfterDelivery(inst[w]) EXCEPT !.sent = @ + 1])
    /\ UNCHANGED workerFrame

\* A failure that is final: by its kind, by the number of attempts, or while draining.
DeliverFails(w) ==
    /\ Delivering(inst[w])
    /\ Become(w, [AfterDelivery(inst[w]) EXCEPT !.failed = @ + 1])
    /\ UNCHANGED workerFrame

DeliverRetries(w) ==
    /\ inst[w].pc = "deliver" /\ inst[w].attempt < MaxAttempts
    /\ Become(w, [inst[w] EXCEPT !.pc = "backoff"])
    /\ UNCHANGED workerFrame

\* The timer, or quit: the event is given up.
BackoffEnds(w) ==
    LET s == inst[w] IN
    /\ s.pc = "backoff"
    /\ \/ Become(w, [s EXCEPT !.pc = "deliver", !.attempt = @ + 1])
       \/ s.quit /\ Become(w, [AfterDelivery(s) EXCEPT !.failed = @ + 1])
    /\ UNCHANGED workerFrame

\* drainBy has passed: what is left is thrown away.
Abandon(w) ==
    LET s == inst[w] IN
    /\ s.pc = "drain" /\ s.hand = {} /\ s.q # <<>>
    /\ Become(w, [s EXCEPT !.q = Tail(@), !.abandoned = @ + 1])
    /\ UNCHANGED workerFrame

Drained(w) ==
    LET s == inst[w] IN
    /\ s.pc = "drain" /\ s.hand = {} /\ s.q = <<>>
    /\ Become(w, [s EXCEPT !.pc = "done", !.dropped = @ + s.abandoned, !.abandoned = 0])
    /\ UNCHANGED workerFrame

WorkerStep(w) ==
    \/ WorkerTake(w) \/ WorkerQuit(w) \/ Delivered(w) \/ DeliverFails(w) \/ DeliverRetries(w)
    \/ BackoffEnds(w) \/ Abandon(w) \/ Drained(w)

-------------------------------------------------------------------------------
(***************************************************************************)
(* reload, by Start, Refresh or the watcher, one at a time.                *)
(***************************************************************************)

Unused == {w \in Worker : inst[w].pc = "new"}

\* The workers of the enabled webhooks: those that fit are kept, the others are new.
Kept == {w \in workers : conf[inst[w].hook] = inst[w].version}
Missing == {h \in Hook : conf[h] # 0 /\ \A w \in Kept : inst[w].hook # h}

\* A row for each number not used yet: the webhooks to be started, lowest numbers first.
Fill == {f \in [Missing -> Unused] :
            /\ \A g, h \in Missing : f[g] = f[h] => g = h
            /\ \A v \in Unused : (\E h \in Missing : v < f[h]) => \E h \in Missing : f[h] = v}

\* What was read before, loaded rows and d.workers, is as good as read now: only Stop and
\* edits can come between, and both lead where they would have led coming first.
Load ==
    /\ reload.pc = "idle"
    /\ \E f \in Fill :
        LET started == {f[h] : h \in Missing} IN
        /\ inst' = [w \in Worker |->
              IF w \in started
              THEN LET h == CHOOSE h \in Missing : f[h] = w
                   IN [NotStarted EXCEPT !.hook = h, !.version = conf[h], !.pc = "run"]
              ELSE inst[w]]
        /\ reload' = [pc |-> "publish", next |-> Kept \cup started, stop |-> workers \ Kept]
    /\ UNCHANGED <<conf, queues, workers, loops, stopping>>

LoadForStart ==
    /\ loading = "asked" /\ Load /\ loading' = "busy"
    /\ UNCHANGED <<running, starts, quitted, refreshers>>
LoadForRefresh ==
    /\ refreshers > 0 /\ Load /\ refreshers' = refreshers - 1
    /\ UNCHANGED control

\* The configuration cannot be read: everything stays as it is.
LoadFails ==
    /\ reload.pc = "idle"
    /\ \/ loading = "asked" /\ loading' = "no" /\ UNCHANGED refreshers
       \/ refreshers > 0 /\ refreshers' = refreshers - 1 /\ UNCHANGED loading
    /\ UNCHANGED <<conf, running, starts, quitted, queues, workers, inst, loops, reload, stopping>>

Publish ==
    /\ reload.pc = "publish"
    /\ workers' = reload.next
    /\ reload' = [reload EXCEPT !.pc = "stop", !.next = {}]
    /\ UNCHANGED <<conf, control, refreshers, queues, inst, loops, stopping>>

\* webhook.stop for the next of the workers in left: quit is closed, then it is waited for.
QuitWorker(left) ==
    \E w \in left :
        /\ ~inst[w].quit /\ \A v \in left : ~inst[v].quit \/ inst[v].pc = "done"
        /\ inst' = [inst EXCEPT ![w].quit = TRUE]

ReloadQuits ==
    /\ reload.pc = "stop" /\ QuitWorker(reload.stop)
    /\ UNCHANGED <<conf, control, refreshers, queues, workers, loops, reload, stopping>>

ReloadEnds ==
    /\ reload.pc = "stop" /\ \A w \in reload.stop : inst[w].pc = "done"
    /\ reload' = NoReload
    /\ loading' = IF loading = "busy" THEN "no" ELSE loading
    /\ UNCHANGED <<conf, running, starts, quitted, refreshers, queues, workers, inst, loops, stopping>>

\* Somebody edits a webhook; the service calls Refresh, and the watcher would too.
Edit(h, version) ==
    /\ version # conf[h]
    /\ conf' = [conf EXCEPT ![h] = version]
    /\ refreshers' = IF running THEN refreshers + 1 ELSE refreshers
    /\ UNCHANGED <<control, queues, workers, inst, loops, reload, stopping>>

-------------------------------------------------------------------------------
(***************************************************************************)
(* Start and Stop, called in turn by their one owner.                      *)
(***************************************************************************)

Start ==
    /\ ~running /\ stopping.pc = "no" /\ starts < MaxStarts
    /\ running' = TRUE /\ starts' = starts + 1 /\ loading' = "asked"
    /\ UNCHANGED <<conf, quitted, refreshers, queues, workers, inst, loops, reload, stopping>>

\* Its reload is over.
StartLoop ==
    /\ running /\ loading = "no" /\ loops[starts].pc = "none"
    /\ loops' = [loops EXCEPT ![starts].pc = "select"]
    /\ UNCHANGED <<conf, control, refreshers, queues, workers, inst, reload, stopping>>

\* Mistake: the table is emptied before the workers to stop are read from it.
WrongStopBegin ==
    /\ running /\ loops[starts].pc # "none"
    /\ running' = FALSE /\ workers' = {}
    /\ stopping' = [pc |-> "close", left |-> {}]
    /\ UNCHANGED <<conf, starts, quitted, loading, refreshers, queues, inst, loops, reload>>

\* Under mu: the workers are taken out of the table.
StopBegin ==
    /\ running /\ loops[starts].pc # "none"
    /\ running' = FALSE /\ workers' = {}
    /\ stopping' = [pc |-> "close", left |-> workers]
    /\ UNCHANGED <<conf, starts, quitted, loading, refreshers, queues, inst, loops, reload>>

\* What waits in ingress is counted as dropped, but stays there.
StopClose ==
    /\ stopping.pc = "close"
    /\ ingressDropped' = ingressDropped + Len(ingress)
    /\ recounted' = recounted + Len(ingress)
    /\ quitted' = quitted \cup {starts}
    /\ stopping' = [stopping EXCEPT !.pc = "workers"]
    /\ UNCHANGED <<conf, running, starts, loading, refreshers, ingress, offered, taken, workers, inst,
                   loops, reload>>

StopQuits ==
    /\ stopping.pc = "workers" /\ QuitWorker(stopping.left)
    /\ UNCHANGED <<conf, control, refreshers, queues, workers, loops, reload, stopping>>

StopEnds ==
    /\ stopping.pc = "workers" /\ \A w \in stopping.left : inst[w].pc = "done"
    /\ stopping' = NoStop
    /\ UNCHANGED <<conf, control, refreshers, queues, workers, inst, loops, reload>>

NotifierStep ==
    \/ \E e \in Epoch : FanoutStep(e)
    \/ \E w \in Worker : WorkerStep(w)
    \/ LoadForStart \/ LoadForRefresh \/ Publish \/ ReloadQuits \/ ReloadEnds
    \/ Start \/ StartLoop \/ StopBegin \/ StopClose \/ StopQuits \/ StopEnds

-------------------------------------------------------------------------------
NotifierTypeOK ==
    /\ conf \in [Hook -> Nat]
    /\ running \in BOOLEAN /\ loading \in {"no", "asked", "busy"}
    /\ starts \in 0 .. MaxStarts /\ quitted \in SUBSET Epoch
    /\ {refreshers, offered, taken, ingressDropped, recounted} \subseteq Nat
    /\ ingress \in Seq(Nat) /\ Len(ingress) <= IngressSize
    /\ workers \in SUBSET Worker
    /\ inst \in [Worker -> WorkerState] /\ \A w \in Worker : Len(inst[w].q) <= QueueSize
    /\ loops \in [Epoch -> Loop]
    /\ reload \in Reload /\ stopping \in Stopping

\* The counters of the status page account for every event: what Notify was given was taken
\* by a loop, counted out or still waits (what Stop counts out without taking it counts
\* twice), and what a worker was given was sent, failed, dropped or is still with it.
Accounted ==
    /\ offered + recounted = taken + ingressDropped + Len(ingress)
    /\ \A w \in Worker :
        inst[w].got = inst[w].sent + inst[w].failed + inst[w].dropped + inst[w].abandoned
                      + Len(inst[w].q) + (IF inst[w].hand = {} THEN 0 ELSE 1)

\* When Stop has returned no worker is left delivering, but for those that a reload had
\* started or kept before Stop and put into the table after it.
QuietAfterStop ==
    ~running /\ stopping = NoStop /\ reload = NoReload
    => \A w \in Worker : inst[w].pc \in {"new", "done"} \/ w \in workers

===============================================================================
