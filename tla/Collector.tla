------------------------------- MODULE Collector -------------------------------
(***************************************************************************)
(* The collection engine (collector/engine.go, task.go, control.go,        *)
(* deviceGate.go, workerPool.go): the groups of the current task submit    *)
(* polls of devices to a worker pool; HTTP writes to a device through the  *)
(* same driver; Start, Stop, StopCollection and Refresh replace the task,  *)
(* the last also from a watcher of the configuration.                      *)
(*                                                                         *)
(* Engine.mu is Go's RWMutex: a waiting writer keeps new readers out.  A   *)
(* task owns its drivers and gates, but the tasks of one engine talk to    *)
(* the same devices.  What a poll reports goes to sinks that do not wait.  *)
(***************************************************************************)
EXTENDS Integers, Sequences, FiniteSets

CONSTANTS
    Device,
    Serial,         \* devices whose driver keeps the gate for a whole poll
    Group,          \* frequency groups
    Points,         \* group -> devices with points in it
    Worker,         \* goroutines of the pool
    QueueSize,
    Batches,        \* reads of one poll
    Caller,         \* HTTP requests that write to a device or read from it
    Manager,        \* callers of Start, Stop, StopCollection and Refresh; one is the watcher
    Watcher,
    MaxConf,        \* bound: contents the configuration ever has, numbered from 0
    MaxTasks,       \* bound: tasks ever built
    Plans           \* bounds on what happens in a behaviour

Task == 1 .. MaxTasks

\* What the configuration may be; an edit may bring back what it was.  0 has no collector
\* groups: its points have frequencies of their own.
Content == 0 .. MaxConf
Bare == 0
What == {"Start", "Stop", "StopCollection", "Refresh"}

\* A plan: the devices that exist, calls of the managers in the order in which they are made,
\* calls of Write, edits, database failures and panics of a driver.
Plan == [devices : SUBSET Device, managed : Seq(What), writes : Nat, edits : Nat, faults : Nat,
         panics : Nat]

ASSUME CollectorAssumption ==
    /\ Serial \subseteq Device
    /\ Points \in [Group -> SUBSET Device]
    /\ {QueueSize, Batches, MaxTasks} \subseteq Nat \ {0} /\ MaxConf \in Nat
    /\ Watcher \in Manager
    /\ "nobody" \notin Manager
    /\ Plans \subseteq Plan

Job == [task : Task, group : Group, dev : Device]
Poll == {"gate", "connect", "gate2", "read", "report"}

VARIABLES
    conf,       \* the configuration in the database
    writer,     \* who holds Engine.mu for writing
    running, task, built,
    tasks,      \* per task: the configuration it was built from, its groups, and how far it is
    loops,      \* per task: groups whose runLoop has not returned
    inflight,   \* per task: marks of groups
    wg,         \* per task: polls submitted and not done
    linked,     \* per task: devices whose driver is connected
    gates,      \* per task: devices whose gate is taken
    pool,       \* off, on, or quitting
    queue,      \* taskChan
    work,       \* per worker: off, idle, or a poll
    calls,      \* per caller: idle, or the device it writes to
    ops,        \* per manager: what it was called for
    seen,       \* the watcher: off, starting, or lastChecksum
    plan,       \* the plan, with what is left of it
    unnoticed,  \* history: the task is not of the last edit, which came before the watcher's
                \* first look, or brought back what the watcher remembers or is about to
    jammed      \* history: gates that a panic left taken

vars == <<conf, writer, running, task, built, tasks, loops, inflight, wg, linked, gates, pool,
          queue, work, calls, ops, seen, plan, unnoticed, jammed>>
engineVars == <<running, task, built, tasks, loops>>
pollVars == <<inflight, wg, linked, gates, queue, work, jammed>>

Idle == [pc |-> "idle"]
Off == -1       \* of seen: no watcher; of a call: not the watcher's, or it was ended
Starting == -2  \* of seen: the watcher has yet to compute its first checksum

\* A checksum of which a query failed is that of what was read before: of nothing, of the
\* devices, or of a configuration without its groups.
Cut == {-4, -3, Bare}
Sum == Content \cup Cut

Init ==
    /\ conf = 0 /\ writer = "nobody" /\ running = FALSE /\ task = 0 /\ built = 0
    /\ tasks = [t \in Task |-> [conf |-> 0, groups |-> {}, state |-> "none"]]
    /\ loops = [t \in Task |-> {}] /\ inflight = [t \in Task |-> {}] /\ wg = [t \in Task |-> 0]
    /\ linked = [t \in Task |-> {}] /\ gates = [t \in Task |-> {}]
    /\ pool = "off" /\ queue = <<>> /\ work = [w \in Worker |-> [pc |-> "off"]]
    /\ calls = [c \in Caller |-> Idle] /\ ops = [m \in Manager |-> Idle]
    /\ seen = Off /\ unnoticed = FALSE /\ jammed = {} /\ plan \in Plans

-------------------------------------------------------------------------------
(***************************************************************************)
(* Polls: a group submits them, a worker carries them out.                 *)
(***************************************************************************)

\* Mistake: a poll that finds the queue full stays counted.
WrongSubmit(t, g, d) ==
    IF pool # "off" /\ Len(queue) < QueueSize
    THEN /\ inflight' = [inflight EXCEPT ![t] = @ \cup {<<g, d>>}]
         /\ wg' = [wg EXCEPT ![t] = @ + 1]
         /\ queue' = Append(queue, [task |-> t, group |-> g, dev |-> d])
    ELSE wg' = [wg EXCEPT ![t] = @ + 1] /\ UNCHANGED <<inflight, queue>>

\* Mark, count and submit; both are taken back if the queue is full.
Submit(t, g, d) ==
    IF pool = "on" /\ Len(queue) < QueueSize
    THEN /\ inflight' = [inflight EXCEPT ![t] = @ \cup {<<g, d>>}]
         /\ wg' = [wg EXCEPT ![t] = @ + 1]
         /\ queue' = Append(queue, [task |-> t, group |-> g, dev |-> d])
    ELSE UNCHANGED <<inflight, wg, queue>>

\* tryScheduleDevice, by the ticker of the group: no device twice at once.
Schedule(t, g, d) ==
    /\ g \in loops[t] /\ d \in Points[g]
    /\ <<g, d>> \notin inflight[t]
    /\ Submit(t, g, d)
    /\ UNCHANGED <<conf, writer, engineVars, linked, gates, pool, work, calls, ops, seen, unnoticed, jammed>>

\* quit is closed; until its select takes notice a group may submit some more.
LoopQuits(t, g) ==
    /\ g \in loops[t] /\ tasks[t].state = "stopping"
    /\ loops' = [loops EXCEPT ![t] = @ \ {g}]
    /\ UNCHANGED <<conf, writer, running, task, built, tasks, pollVars, pool, calls, ops, seen, unnoticed>>

\* A worker takes a poll even if the pool is quitting: its select has both.
TakePoll(w) ==
    /\ work[w].pc = "idle" /\ queue # <<>>
    /\ work' = [work EXCEPT ![w] = [pc |-> "gate", job |-> Head(queue), left |-> Batches]]
    /\ queue' = Tail(queue)
    /\ UNCHANGED <<conf, writer, engineVars, inflight, wg, linked, gates, pool, calls, ops, seen, unnoticed, jammed>>

WorkerQuits(w) ==
    /\ work[w].pc = "idle" /\ pool = "quitting"
    /\ work' = [work EXCEPT ![w] = [pc |-> "off"]]
    /\ UNCHANGED <<conf, writer, engineVars, inflight, wg, linked, gates, queue, pool, calls, ops, seen, unnoticed, jammed>>

pollFrame == <<conf, writer, engineVars, queue, pool, calls, ops, seen, unnoticed>>

Goto(w, pc) == work' = [work EXCEPT ![w].pc = pc]

\* Mistake: a poll is counted as done by the deferred call and once more.
WrongDonePoll(w, j) ==
    /\ work' = [work EXCEPT ![w] = Idle]
    /\ inflight' = [inflight EXCEPT ![j.task] = @ \ {<<j.group, j.dev>>}]
    /\ wg' = [wg EXCEPT ![j.task] = @ - 2]

\* Worker w is done with its poll of j: what the deferred calls do.
DonePoll(w, j) ==
    /\ work' = [work EXCEPT ![w] = Idle]
    /\ inflight' = [inflight EXCEPT ![j.task] = @ \ {<<j.group, j.dev>>}]
    /\ wg' = [wg EXCEPT ![j.task] = @ - 1]

Release(j) == gates' = [gates EXCEPT ![j.task] = @ \ {j.dev}]

\* The gate, for the connection and again for the read; a serial poll has it already.
TakeGate(w) ==
    /\ work[w].pc \in {"gate", "gate2"}
    /\ LET j == work[w].job IN
       /\ j.dev \notin gates[j.task]
       /\ gates' = [gates EXCEPT ![j.task] = @ \cup {j.dev}]
    /\ Goto(w, IF work[w].pc = "gate" THEN "connect" ELSE "read")
    /\ UNCHANGED <<pollFrame, inflight, wg, linked, jammed>>

\* ensureConnected: it is connected, or connects now.
Connected(w) ==
    /\ work[w].pc = "connect"
    /\ LET j == work[w].job IN
       /\ linked' = [linked EXCEPT ![j.task] = @ \cup {j.dev}]
       /\ IF j.dev \in Serial THEN Goto(w, "read") /\ UNCHANGED gates
                              ELSE Goto(w, "gate2") /\ Release(j)
    /\ UNCHANGED <<pollFrame, inflight, wg, jammed>>

\* It cannot be connected, or it is too early to try again.
ConnectFails(w) ==
    /\ work[w].pc = "connect"
    /\ LET j == work[w].job IN
       /\ j.dev \notin linked[j.task]
       /\ DonePoll(w, j) /\ Release(j)
    /\ UNCHANGED <<pollFrame, linked, jammed>>

\* A batch has been read.
ReadOk(w) ==
    /\ work[w].pc = "read"
    /\ Goto(w, "report")
    /\ IF work[w].job.dev \in Serial THEN UNCHANGED gates ELSE Release(work[w].job)
    /\ UNCHANGED <<pollFrame, inflight, wg, linked, jammed>>

\* An error, which may have cost the connection.
ReadFails(w) ==
    /\ work[w].pc = "read"
    /\ LET j == work[w].job IN
       /\ DonePoll(w, j) /\ Release(j)
       /\ \E lost \in {{}, {j.dev}} : linked' = [linked EXCEPT ![j.task] = @ \ lost]
    /\ UNCHANGED <<pollFrame, jammed>>

\* The driver panics; the worker recovers.  Only a serial poll gives its gate back as it goes.
ReadPanics(w) ==
    /\ work[w].pc = "read"
    /\ LET j == work[w].job IN
       /\ DonePoll(w, j)
       /\ IF j.dev \in Serial
          THEN Release(j) /\ UNCHANGED jammed
          ELSE jammed' = jammed \cup {<<j.task, j.dev>>} /\ UNCHANGED gates
    /\ UNCHANGED <<pollFrame, linked>>

\* Mistake: a sink reads points through the engine, which takes Engine.mu.
WrongMayReport == writer = "nobody" /\ \A m \in Manager : ops[m].pc # "lock"

\* The sinks do not wait for anything.
MayReport == TRUE

\* A batch is reported and pushed, under the gate if it is serial; then comes the next one,
\* or the device is reported and the poll is over.
ReportBatch(w) ==
    /\ work[w].pc = "report" /\ MayReport
    /\ LET j == work[w].job IN
       IF work[w].left > 1
       THEN /\ work' = [work EXCEPT ![w].pc = IF j.dev \in Serial THEN "read" ELSE "gate2",
                                    ![w].left = @ - 1]
            /\ UNCHANGED <<inflight, wg, gates>>
       ELSE /\ DonePoll(w, j)
            /\ IF j.dev \in Serial THEN Release(j) ELSE UNCHANGED gates
    /\ UNCHANGED <<pollFrame, linked, jammed>>

-------------------------------------------------------------------------------
(***************************************************************************)
(* Write, ReadPoints and ReadRecords: under Engine.mu for reading.         *)
(***************************************************************************)

Readers == {c \in Caller : calls[c] # Idle}
MayRead == writer = "nobody" /\ \A m \in Manager : ops[m].pc # "lock"

callFrame == <<conf, writer, engineVars, inflight, wg, linked, pool, queue, work, ops, seen, unnoticed, jammed>>

\* Refused unless collection runs and the driver is connected.
CallBegin(c, d) ==
    /\ calls[c] = Idle
    /\ MayRead /\ running /\ d \in linked[task]
    /\ calls' = [calls EXCEPT ![c] = [pc |-> "wait", dev |-> d]]
    /\ UNCHANGED <<callFrame, gates>>

CallTakesGate(c) ==
    /\ calls[c].pc = "wait"
    /\ LET d == calls[c].dev IN
       /\ d \notin gates[task]
       /\ IF d \in linked[task]
          THEN /\ gates' = [gates EXCEPT ![task] = @ \cup {d}]
               /\ calls' = [calls EXCEPT ![c].pc = "io"]
          ELSE calls' = [calls EXCEPT ![c] = Idle] /\ UNCHANGED gates
    /\ UNCHANGED callFrame

\* The caller's deadline: ErrDeviceBusy.
CallTimesOut(c) ==
    /\ calls[c].pc = "wait"
    /\ calls' = [calls EXCEPT ![c] = Idle]
    /\ UNCHANGED <<callFrame, gates>>

CallEnds(c) ==
    /\ calls[c].pc = "io"
    /\ calls' = [calls EXCEPT ![c] = Idle]
    /\ gates' = [gates EXCEPT ![task] = @ \ {calls[c].dev}]
    /\ UNCHANGED callFrame

-------------------------------------------------------------------------------
(***************************************************************************)
(* Start, Stop, StopCollection and Refresh, under Engine.mu for writing    *)
(* from beginning to end.                                                  *)
(***************************************************************************)

opFrame == <<inflight, wg, gates, queue, calls, jammed>>

Begin(m, what) ==
    /\ ops[m] = Idle
    /\ ops' = [ops EXCEPT ![m] = [pc |-> "lock", what |-> what, sum |-> Off]]
    /\ UNCHANGED <<conf, writer, engineVars, pollVars, pool, calls, seen, unnoticed>>

\* Mistake: the watcher remembers the checksum of a refresh that failed.
WrongSeenAfter(m, ok) == IF ops[m].sum # Off THEN ops[m].sum ELSE seen

\* What the watcher remembers once its refresh has returned, unless it was ended meanwhile.
SeenAfter(m, ok) == IF ok /\ ops[m].sum # Off THEN ops[m].sum ELSE seen

\* The lock is taken; there is nothing to do if collection runs already, or does not run.
LockForNothing(m) ==
    /\ ops[m].pc = "lock" /\ writer = "nobody" /\ Readers = {}
    /\ running = (ops[m].what = "Start")
    /\ ops' = [ops EXCEPT ![m] = Idle] /\ seen' = SeenAfter(m, FALSE)
    /\ UNCHANGED <<conf, writer, engineVars, pollVars, pool, calls, unnoticed>>

Lock(m) ==
    /\ ops[m].pc = "lock" /\ writer = "nobody" /\ Readers = {}
    /\ running = (ops[m].what # "Start")
    /\ writer' = m
    /\ ops' = [ops EXCEPT ![m].pc = IF ops[m].what \in {"Start", "Refresh"} THEN "build" ELSE "stop"]
    /\ UNCHANGED <<conf, engineVars, pollVars, pool, calls, seen, unnoticed>>

\* A task of the configuration as it is.  If the query of the groups or of the thing models
\* fails, the task is built nevertheless, but points, and so groups of them, are missing.
NewTask(gs, state) == [conf |-> conf, groups |-> gs, state |-> state]

StartPool == pool' = "on" /\ work' = IF pool = "on" THEN work ELSE [w \in Worker |-> Idle]

\* Start builds a task, starts it and the watcher.  The pool may be running still.
BuildAndStart(m, gs) ==
    /\ ops[m].pc = "build" /\ ops[m].what = "Start" /\ built < MaxTasks
    /\ StartPool
    /\ built' = built + 1 /\ task' = built + 1 /\ running' = TRUE
    /\ tasks' = [tasks EXCEPT ![built + 1] = NewTask(gs, "running")]
    /\ loops' = [loops EXCEPT ![built + 1] = gs]
    /\ seen' = IF seen = Off THEN Starting ELSE seen
    /\ writer' = "nobody" /\ ops' = [ops EXCEPT ![m] = Idle]
    /\ unnoticed' = FALSE
    /\ UNCHANGED <<conf, linked, opFrame>>

\* Refresh builds first, and replaces the task only then.
Build(m, gs) ==
    /\ ops[m].pc = "build" /\ ops[m].what = "Refresh" /\ built < MaxTasks
    /\ built' = built + 1
    /\ tasks' = [tasks EXCEPT ![built + 1] = NewTask(gs, "built")]
    /\ ops' = [ops EXCEPT ![m].pc = "stop"]
    /\ unnoticed' = FALSE
    /\ UNCHANGED <<conf, writer, running, task, loops, linked, pool, work, seen, opFrame>>

\* The database cannot be read.  Start has started the pool before.
BuildFails(m) ==
    /\ ops[m].pc = "build"
    /\ IF ops[m].what = "Start" THEN StartPool ELSE UNCHANGED <<pool, work>>
    /\ writer' = "nobody" /\ ops' = [ops EXCEPT ![m] = Idle]
    /\ seen' = SeenAfter(m, FALSE)
    /\ UNCHANGED <<conf, engineVars, linked, unnoticed, opFrame>>

\* task.Stop: quit is closed; Stop and StopCollection have ended the watcher before, whose
\* refresh may wait for the lock.
CloseQuit(m) ==
    /\ ops[m].pc = "stop"
    /\ tasks' = [tasks EXCEPT ![task].state = "stopping"]
    /\ LET ends == ops[m].what # "Refresh" IN
       /\ seen' = IF ends THEN Off ELSE seen
       /\ ops' = [n \in Manager |-> IF n = m THEN [ops[n] EXCEPT !.pc = "drain"]
                                    ELSE IF ends /\ ops[n] # Idle THEN [ops[n] EXCEPT !.sum = Off]
                                    ELSE ops[n]]
    /\ UNCHANGED <<conf, writer, running, task, built, loops, linked, pool, work, unnoticed, opFrame>>

\* Mistake: the loops are waited for, but not the polls they submitted.
WrongDrained == loops[task] = {}

\* g.done of every group, then wg.
Drained == loops[task] = {} /\ wg[task] = 0

\* The drivers are closed.  Refresh then starts the new task.
CloseDrivers(m) ==
    /\ ops[m].pc = "drain" /\ Drained
    /\ LET refresh == ops[m].what = "Refresh" IN
       /\ tasks' = [t \in Task |-> IF t = task THEN [tasks[t] EXCEPT !.state = "stopped"]
                                   ELSE IF refresh /\ t = built
                                   THEN [tasks[t] EXCEPT !.state = "running"] ELSE tasks[t]]
       /\ linked' = [linked EXCEPT ![task] = {}]
       /\ task' = IF refresh THEN built ELSE 0
       /\ loops' = IF refresh THEN [loops EXCEPT ![built] = tasks[built].groups] ELSE loops
       /\ running' = (refresh \/ ops[m].what = "Stop")
       /\ pool' = IF ops[m].what = "Stop" THEN "quitting" ELSE pool
       /\ IF ops[m].what = "Stop"
          THEN ops' = [ops EXCEPT ![m].pc = "pool"] /\ UNCHANGED writer
          ELSE ops' = [ops EXCEPT ![m] = Idle] /\ writer' = "nobody"
    /\ seen' = SeenAfter(m, TRUE)
    /\ UNCHANGED <<conf, built, work, unnoticed, opFrame>>

\* pool.Stop: polls left in the queue would stay there.
PoolStopped(m) ==
    /\ ops[m].pc = "pool" /\ \A w \in Worker : work[w].pc = "off"
    /\ pool' = "off" /\ running' = FALSE
    /\ writer' = "nobody" /\ ops' = [ops EXCEPT ![m] = Idle]
    /\ UNCHANGED <<conf, task, built, tasks, loops, linked, work, seen, unnoticed, opFrame>>

-------------------------------------------------------------------------------
(***************************************************************************)
(* The watcher, and the edits it watches for.                              *)
(***************************************************************************)

watchFrame == <<writer, engineVars, pollVars, pool, calls>>

InHand == {seen} \cup (IF ops[Watcher] = Idle THEN {} ELSE {ops[Watcher].sum})

\* The task, and the one that is to replace it, is of c.
Collected(c) == \A t \in {task, built} \ {0} : tasks[t].conf = c

Edit(c) ==
    /\ c # conf
    /\ conf' = c
    /\ unnoticed' = ((seen = Starting \/ c \in InHand) /\ ~Collected(c))
    /\ UNCHANGED <<watchFrame, ops, seen>>

\* sum: the checksum of the configuration, or of what could be read of it.
FirstLook(sum) ==
    /\ seen = Starting
    /\ seen' = sum
    /\ UNCHANGED <<conf, watchFrame, ops, unnoticed>>

\* The configuration has changed, or seems to have: Refresh.
WatchTick(sum) ==
    /\ seen \in Sum /\ seen # sum /\ ops[Watcher] = Idle
    /\ ops' = [ops EXCEPT ![Watcher] = [pc |-> "lock", what |-> "Refresh", sum |-> sum]]
    /\ UNCHANGED <<conf, watchFrame, seen, unnoticed>>

-------------------------------------------------------------------------------
Use(what) == plan[what] > 0 /\ plan' = [plan EXCEPT ![what] = @ - 1]

PollStep(w) ==
    \/ TakePoll(w) \/ WorkerQuits(w)
    \/ TakeGate(w) \/ Connected(w) \/ ConnectFails(w) \/ ReadOk(w) \/ ReadFails(w)
    \/ ReportBatch(w)

OpStep(m) ==
    \/ LockForNothing(m) \/ Lock(m) \/ BuildAndStart(m, Group) \/ Build(m, Group)
    \/ CloseQuit(m) \/ CloseDrivers(m) \/ PoolStopped(m)

CallStep(c) == CallTakesGate(c) \/ CallEnds(c)

Ask ==
    /\ plan.managed # <<>>
    /\ \E m \in Manager \ {Watcher} : Begin(m, Head(plan.managed))
    /\ plan' = [plan EXCEPT !.managed = Tail(@)]

Going ==
    \/ \E t \in Task, g \in Group : LoopQuits(t, g) \/ \E d \in plan.devices : Schedule(t, g, d)
    \/ \E w \in Worker : PollStep(w)
    \/ \E c \in Caller : CallStep(c) \/ CallTimesOut(c)
    \/ \E m \in Manager : OpStep(m)
    \/ FirstLook(conf) \/ WatchTick(conf)

\* A query fails: the build does, or goes on without its answer, or the checksum is cut short.
Fault ==
    \/ \E m \in Manager : \/ BuildFails(m)
                         \/ \E gs \in SUBSET Group : BuildAndStart(m, gs) \/ Build(m, gs)
    \/ \E sum \in Cut : FirstLook(sum) \/ WatchTick(sum)

Next ==
    \/ Going /\ UNCHANGED plan
    \/ Ask
    \/ Use("edits") /\ \E c \in Content : Edit(c)
    \/ Use("faults") /\ Fault
    \/ Use("panics") /\ \E w \in Worker : ReadPanics(w)
    \/ Use("writes") /\ \E c \in Caller, d \in Device : CallBegin(c, d)

\* Goroutines that can go on do, drivers return, and callers have a deadline.
Fairness ==
    /\ \A w \in Worker : WF_vars(PollStep(w) /\ UNCHANGED plan)
    /\ \A t \in Task, g \in Group : WF_vars(LoopQuits(t, g) /\ UNCHANGED plan)
    /\ \A c \in Caller : WF_vars((CallStep(c) \/ CallTimesOut(c)) /\ UNCHANGED plan)
    /\ \A m \in Manager : WF_vars(OpStep(m) /\ UNCHANGED plan)

Spec == Init /\ [][Next]_vars /\ Fairness

-------------------------------------------------------------------------------
TypeOK ==
    /\ conf \in Content /\ writer \in Manager \cup {"nobody"}
    /\ running \in BOOLEAN /\ task \in 0 .. MaxTasks /\ built \in 0 .. MaxTasks
    /\ tasks \in [Task -> [conf : Content, groups : SUBSET Group,
                           state : {"none", "built", "running", "stopping", "stopped"}]]
    /\ loops \in [Task -> SUBSET Group] /\ inflight \in [Task -> SUBSET (Group \X Device)]
    /\ wg \in [Task -> Nat]
    /\ linked \in [Task -> SUBSET Device] /\ gates \in [Task -> SUBSET Device]
    /\ pool \in {"off", "on", "quitting"}
    /\ queue \in Seq(Job) /\ Len(queue) <= QueueSize
    /\ \A w \in Worker : work[w] \in [pc : {"off", "idle"}] \cup [pc : Poll, job : Job, left : 1 .. Batches]
    /\ \A c \in Caller : calls[c] \in {Idle} \cup [pc : {"wait", "io"}, dev : Device]
    /\ \A m \in Manager : ops[m] \in {Idle} \cup [pc : {"lock", "build", "stop", "drain", "pool"},
                                                  what : What, sum : Sum \cup {Off}]
    /\ seen \in Sum \cup {Off, Starting} /\ plan \in Plan /\ unnoticed \in BOOLEAN /\ jammed \subseteq Task \X Device

\* Who talks to device d, or has it to itself between two frames.
Talkers(d) ==
    {w \in Worker : /\ work[w].pc \in {"connect", "read"} \cup (IF d \in Serial THEN {"report"} ELSE {})
                    /\ work[w].job.dev = d}
    \cup {c \in Caller : calls[c].pc = "io" /\ calls[c].dev = d}

\* Nobody interferes with an exchange: a device has one connection user at a time, also when
\* a refresh replaces its task, and a serial one belongs to one poll from connecting to its
\* last batch.  Nobody uses a driver that task.Stop has closed, or one that was not started.
DriverSafe ==
    /\ \A d \in Device : \A a, b \in Talkers(d) : a = b
    /\ \A w \in Worker : work[w].pc \in Poll => tasks[work[w].job.task].state \in {"running", "stopping"}
    /\ \A c \in Caller : calls[c] # Idle => task # 0 /\ tasks[task].state = "running"

Submitted(t, g, d) ==
    Cardinality({i \in DOMAIN queue : queue[i] = [task |-> t, group |-> g, dev |-> d]})
    + Cardinality({w \in Worker : work[w].pc \in Poll /\ work[w].job = [task |-> t, group |-> g, dev |-> d]})

\* No poll is lost and none piles up: a device is marked as being polled by a group exactly
\* if one poll of it waits or runs, whatever became of earlier ones, and the pool is not
\* stopped over polls that wait in its queue.
MarksMatch ==
    /\ \A t \in Task, g \in Group, d \in Device :
        Submitted(t, g, d) = IF <<g, d>> \in inflight[t] THEN 1 ELSE 0
    /\ \A t \in Task : wg[t] = Cardinality(inflight[t])
    /\ pool # "on" => queue = <<>>

\* What is collected follows the configuration: once the watcher has nothing to do, the task
\* is built from the configuration as it is, whatever refreshes and looks failed before, whoever
\* refreshed, and however often the watcher was ended and started over.  Two kinds of edits go
\* unnoticed for good: before the watcher's first look, and back to what the watcher remembers,
\* or believes to because a query failed, while the task is of what there was in between.
\* A task built although the query of the groups or of the thing models failed is one of the
\* configuration, but not all of it is collected (its groups), and the watcher, content with
\* its checksum, does not build it again.
TaskFollowsConf ==
    running /\ seen = conf /\ (\A m \in Manager : ops[m] = Idle) /\ ~unnoticed
    => tasks[task].conf = conf

\* Stop, StopCollection and Refresh, which drain polls and writes under the engine's lock,
\* come to an end, and so does whoever waits for the lock meanwhile; unless a panic has left
\* the gate of a device taken.
OpsReturn == \A m \in Manager : ops[m] # Idle ~> (ops[m] = Idle \/ jammed # {})

===============================================================================
