----------------------------- MODULE Collector_proofs -----------------------------
(***************************************************************************)
(* Proofs about Collector, for any devices, groups, workers, callers,      *)
(* managers and sizes.  Fairness plays no part in them.                    *)
(***************************************************************************)
EXTENDS Collector, FiniteSetTheorems, TLAPS

\* What a worker, a caller and a manager may be about.
WorkState == [pc : {"off", "idle"}] \cup [pc : Poll, job : Job, left : 1 .. Batches]
CallState == {Idle} \cup [pc : {"wait", "io"}, dev : Device]
Busy == {"build", "stop", "drain", "pool"}
OpState == {Idle} \cup [pc : {"lock"} \cup Busy, what : What, sum : Sum \cup {Off}]
TaskState == [conf : Content, groups : SUBSET Group,
              state : {"none", "built", "running", "stopping", "stopped"}]

(***************************************************************************)
(* The types, with the domains of the functions.                           *)
(***************************************************************************)
EngineTypes ==
    /\ conf \in Content /\ writer \in Manager \cup {"nobody"}
    /\ running \in BOOLEAN /\ task \in 0 .. MaxTasks /\ built \in 0 .. MaxTasks
    /\ tasks \in [Task -> TaskState] /\ loops \in [Task -> SUBSET Group]
    /\ pool \in {"off", "on", "quitting"} /\ seen \in Sum \cup {Off, Starting}
    /\ unnoticed \in BOOLEAN
PollTypes ==
    /\ inflight \in [Task -> SUBSET (Group \X Device)] /\ wg \in [Task -> Nat]
    /\ linked \in [Task -> SUBSET Device] /\ gates \in [Task -> SUBSET Device]
    /\ queue \in Seq(Job) /\ Len(queue) <= QueueSize /\ work \in [Worker -> WorkState]
    /\ jammed \subseteq Task \X Device
ActorTypes == calls \in [Caller -> CallState] /\ ops \in [Manager -> OpState]

TypeInv == EngineTypes /\ PollTypes /\ ActorTypes

(***************************************************************************)
(* Engine.mu and the task: whoever changes the task holds the lock, nobody *)
(* reads meanwhile, and only the task of the engine has anything going on. *)
(***************************************************************************)
LockInv ==
    /\ \A m \in Manager : ops[m].pc \in Busy => writer = m
    /\ writer # "nobody" => ops[writer].pc \in Busy /\ \A c \in Caller : calls[c] = Idle
    /\ \A c \in Caller : calls[c] # Idle => task # 0 /\ tasks[task].state = "running"

\* What an operation o with the lock finds.
Stage(o) ==
    /\ o.pc = "build" => IF o.what = "Start" THEN ~running
                         ELSE o.what = "Refresh" /\ task # 0 /\ tasks[task].state = "running"
    /\ o.pc \in {"stop", "drain"} =>
         /\ task # 0 /\ o.what # "Start"
         /\ tasks[task].state = IF o.pc = "stop" THEN "running" ELSE "stopping"
         /\ o.what = "Refresh" => built \in Task /\ built # task
    /\ o.pc = "pool" => task = 0

PhaseInv ==
    /\ task # 0 => /\ running /\ pool = "on" /\ task <= built
                   /\ tasks[task].state \in {"running", "stopping"}
    /\ running /\ writer = "nobody" => task # 0 /\ tasks[task].state = "running"
    /\ writer # "nobody" => Stage(ops[writer])
    /\ \A t \in Task : t # task => loops[t] = {} /\ inflight[t] = {}

(***************************************************************************)
(* A poll is marked while it waits or runs, and there are no two alike.    *)
(***************************************************************************)
Polling(w) == work[w].pc \in Poll
Marked(j) == <<j.group, j.dev>> \in inflight[j.task]
Waits(j) == \E i \in DOMAIN queue : queue[i] = j
Runs(j) == \E w \in Worker : Polling(w) /\ work[w].job = j

MarkInv ==
    /\ \A i, k \in DOMAIN queue : queue[i] = queue[k] => i = k
    /\ \A w, v \in Worker : Polling(w) /\ Polling(v) /\ work[w].job = work[v].job => w = v
    /\ \A i \in DOMAIN queue, w \in Worker : Polling(w) => work[w].job # queue[i]
    /\ \A j \in Job : Marked(j) <=> Waits(j) \/ Runs(j)
    /\ \A t \in Task : IsFiniteSet(inflight[t]) /\ wg[t] = Cardinality(inflight[t])

(***************************************************************************)
(* Whoever talks to a device has its gate, alone.                          *)
(***************************************************************************)
PollHolds(w, d) ==
    /\ work[w].pc \in {"connect", "read"} \cup (IF d \in Serial THEN {"report"} ELSE {})
    /\ work[w].job.dev = d
CallHolds(c, d) == calls[c].pc = "io" /\ calls[c].dev = d

GateInv == \A d \in Device :
    /\ \A w \in Worker : PollHolds(w, d) => d \in gates[task]
    /\ \A c \in Caller : CallHolds(c, d) => d \in gates[task]
    /\ \A w, v \in Worker : PollHolds(w, d) /\ PollHolds(v, d) => w = v
    /\ \A b, c \in Caller : CallHolds(b, d) /\ CallHolds(c, d) => b = c
    /\ \A w \in Worker, c \in Caller : ~(PollHolds(w, d) /\ CallHolds(c, d))

(***************************************************************************)
(* A task is of the configuration if the watcher takes it for that, or     *)
(* will: by its first look, or after its refresh.                          *)
(***************************************************************************)
Matches(t, sum) == ~unnoticed /\ (sum = Starting \/ sum = conf) => tasks[t].conf = conf

Replacing == writer # "nobody" /\ ops[writer].pc \in {"stop", "drain"} /\ ops[writer].what = "Refresh"

ConfInv ==
    /\ \A m \in Manager \ {Watcher} : ops[m] # Idle => ops[m].sum = Off
    /\ task # 0 /\ ~Replacing => Matches(task, seen)
    /\ Replacing => Matches(built, seen) /\ Matches(built, ops[writer].sum)

Inv == TypeInv /\ LockInv /\ PhaseInv /\ MarkInv /\ GateInv /\ ConfInv

-------------------------------------------------------------------------------
(***************************************************************************)
(* Facts that follow from the invariant.                                   *)
(***************************************************************************)

\* A worker that polls has a job.
LEMMA PollTyped ==
    ASSUME TypeInv, NEW w \in Worker, Polling(w)
    PROVE  /\ work[w] \in [pc : Poll, job : Job, left : 1 .. Batches]
           /\ work[w].job \in Job /\ work[w].job.task \in Task /\ work[w].job.dev \in Device
           /\ work[w].job.group \in Group
<1>1. work[w] \in WorkState /\ work[w].pc \in Poll
  BY DEF TypeInv, PollTypes, Polling
<1>2. work[w] \in [pc : Poll, job : Job, left : 1 .. Batches]
  BY <1>1 DEF WorkState, Poll
<1> QED
  BY <1>2 DEF Job

\* A caller that is not idle has a device.
LEMMA CallTyped ==
    ASSUME TypeInv, NEW c \in Caller, calls[c].pc \in {"wait", "io"}
    PROVE  calls[c] \in [pc : {"wait", "io"}, dev : Device] /\ calls[c].dev \in Device /\ calls[c] # Idle
BY DEF TypeInv, ActorTypes, CallState, Idle

\* A manager that is not idle was called for something.
LEMMA OpTyped ==
    ASSUME TypeInv, NEW m \in Manager, ops[m].pc \in {"lock"} \cup Busy
    PROVE  /\ ops[m] \in [pc : {"lock"} \cup Busy, what : What, sum : Sum \cup {Off}]
           /\ ops[m] # Idle
BY DEF TypeInv, ActorTypes, OpState, Idle, Busy

\* What is marked belongs to the task of the engine.
LEMMA MarkedNow ==
    ASSUME TypeInv, PhaseInv, NEW j \in Job, Marked(j)
    PROVE  j.task = task /\ task \in Task
<1>1. j.task \in Task
  BY DEF Job
<1>2. inflight[j.task] # {}
  BY DEF Marked
<1> QED
  BY <1>1, <1>2 DEF PhaseInv

\* So does what a worker runs.
LEMMA PollNow ==
    ASSUME TypeInv, PhaseInv, MarkInv, NEW w \in Worker, Polling(w)
    PROVE  Marked(work[w].job) /\ work[w].job.task = task /\ task \in Task
<1>1. work[w].job \in Job
  BY PollTyped
<1>2. Runs(work[w].job)
  BY DEF Runs
<1>3. Marked(work[w].job)
  BY <1>1, <1>2 DEF MarkInv
<1> QED
  BY <1>1, <1>3, MarkedNow

\* What waits in the queue belongs to the task of the engine.
LEMMA WaitsNow ==
    ASSUME TypeInv, PhaseInv, MarkInv, NEW i \in DOMAIN queue
    PROVE  queue[i] \in Job /\ Marked(queue[i]) /\ queue[i].task = task /\ task \in Task
<1>1. queue[i] \in Job
  BY DEF TypeInv, PollTypes
<1>2. Waits(queue[i])
  BY DEF Waits
<1>3. Marked(queue[i])
  BY <1>1, <1>2 DEF MarkInv
<1> QED
  BY <1>1, <1>3, MarkedNow

-------------------------------------------------------------------------------
(***************************************************************************)
(* What keeps a part of the invariant.                                     *)
(***************************************************************************)

\* The lock and the task are as before, and so are the callers.
LEMMA LockSame ==
    ASSUME LockInv, UNCHANGED <<writer, ops, task, tasks, calls>>
    PROVE  LockInv'
BY DEF LockInv

\* Polls come and go, but only of the task of the engine.
LEMMA PhaseSame ==
    ASSUME TypeInv, PhaseInv, UNCHANGED <<writer, ops, running, pool, task, built, tasks>>,
           \A t \in Task : t # task => loops'[t] = loops[t] /\ inflight'[t] = inflight[t]
    PROVE  PhaseInv'
<1>1. \A o : Stage(o)' = Stage(o)
  BY DEF Stage
<1> QED
  BY <1>1 DEF PhaseInv

\* Nobody submits, takes or ends a poll.
LEMMA MarkSame ==
    ASSUME MarkInv, UNCHANGED <<queue, work, inflight, wg>>
    PROVE  MarkInv'
BY DEF MarkInv, Polling, Marked, Waits, Runs

\* Neither the gates nor those who talk change.
LEMMA GateSame ==
    ASSUME GateInv, UNCHANGED <<work, calls, gates, task>>
    PROVE  GateInv'
BY DEF GateInv, PollHolds, CallHolds

\* Nor does the configuration, or what is known of it.
LEMMA ConfSame ==
    ASSUME ConfInv, UNCHANGED <<conf, seen, unnoticed, ops, writer, task, built, tasks>>
    PROVE  ConfInv'
BY DEF ConfInv, Matches, Replacing

\* Nobody begins to talk, and those who go on keep their gate.
LEMMA GateFewer ==
    ASSUME GateInv, task' = task,
           \A d \in Device, w \in Worker : PollHolds(w, d)' => PollHolds(w, d) /\ d \in gates'[task],
           \A d \in Device, c \in Caller : CallHolds(c, d)' => CallHolds(c, d) /\ d \in gates'[task]
    PROVE  GateInv'
BY DEF GateInv

\* Worker w takes the gate of d, which was free.
LEMMA GateByPoll ==
    ASSUME GateInv, task' = task, NEW d \in Device, NEW w \in Worker, d \notin gates[task],
           gates'[task] = gates[task] \cup {d},
           \A e \in Device, v \in Worker : PollHolds(v, e)' => PollHolds(v, e) \/ (v = w /\ e = d),
           \A e \in Device, c \in Caller : CallHolds(c, e)' => CallHolds(c, e)
    PROVE  GateInv'
BY DEF GateInv

\* Caller b takes the gate of d, which was free.
LEMMA GateByCall ==
    ASSUME GateInv, task' = task, NEW d \in Device, NEW b \in Caller, d \notin gates[task],
           gates'[task] = gates[task] \cup {d},
           \A e \in Device, v \in Worker : PollHolds(v, e)' => PollHolds(v, e),
           \A e \in Device, c \in Caller : CallHolds(c, e)' => CallHolds(c, e) \/ (c = b /\ e = d)
    PROVE  GateInv'
BY DEF GateInv

-------------------------------------------------------------------------------
(***************************************************************************)
(* The steps of a poll.                                                    *)
(***************************************************************************)

\* Jobs are told apart by task, group and device.
LEMMA SameJob ==
    ASSUME NEW j \in Job, NEW k \in Job, j.task = k.task, j.group = k.group, j.dev = k.dev
    PROVE  j = k
BY DEF Job

\* A poll goes on.
LEMMA MovesKeep ==
    ASSUME Inv, NEW w \in Worker, Polling(w), NEW s \in [pc : Poll, job : Job, left : 1 .. Batches],
           s.job = work[w].job, work' = [work EXCEPT ![w] = s],
           UNCHANGED <<pollFrame, inflight, wg>>, linked' \in [Task -> SUBSET Device],
           gates' \in [Task -> SUBSET Device], jammed' \subseteq Task \X Device, GateInv'
    PROVE  Inv'
<1> USE DEF Inv
<1>0. UNCHANGED <<conf, writer, running, task, built, tasks, loops, queue, pool, calls, ops, seen, unnoticed,
                  inflight, wg>>
  BY DEF pollFrame, engineVars
<1>1. work \in [Worker -> WorkState] /\ s \in WorkState
  BY DEF TypeInv, PollTypes, WorkState
<1>2. work' \in [Worker -> WorkState] /\ work'[w] = s /\ \A v \in Worker \ {w} : work'[v] = work[v]
  BY <1>1
<1>3. TypeInv'
  BY <1>0, <1>2 DEF TypeInv, EngineTypes, PollTypes, ActorTypes
<1>4. \A v \in Worker : (Polling(v)' <=> Polling(v)) /\ (Polling(v) => work'[v].job = work[v].job)
  BY <1>2 DEF Polling
<1>5. \A j : (Runs(j)' <=> Runs(j)) /\ (Waits(j)' <=> Waits(j)) /\ (Marked(j)' <=> Marked(j))
  BY <1>0, <1>4 DEF Runs, Waits, Marked
<1>6. MarkInv'
  BY <1>0, <1>4, <1>5 DEF MarkInv
<1> QED
  BY <1>0, <1>3, <1>6, LockSame, PhaseSame, ConfSame

\* A poll ends, one way or another.
LEMMA EndsKeep ==
    ASSUME Inv, NEW w \in Worker, Polling(w), DonePoll(w, work[w].job),
           UNCHANGED pollFrame, linked' \in [Task -> SUBSET Device],
           gates' \in [Task -> SUBSET Device], jammed' \subseteq Task \X Device, GateInv'
    PROVE  Inv'
<1> USE DEF Inv
<1> DEFINE j == work[w].job
           m == <<j.group, j.dev>>
<1>0. UNCHANGED <<conf, writer, running, task, built, tasks, loops, queue, pool, calls, ops, seen, unnoticed>>
  BY DEF pollFrame, engineVars
<1>1. /\ j \in Job /\ j.task = task /\ task \in Task /\ Marked(j)
      /\ work \in [Worker -> WorkState] /\ Idle \in WorkState
      /\ inflight \in [Task -> SUBSET (Group \X Device)] /\ wg \in [Task -> Nat]
  BY PollTyped, PollNow DEF TypeInv, PollTypes, WorkState, Idle
<1>2. /\ work' = [work EXCEPT ![w] = Idle]
      /\ inflight' = [inflight EXCEPT ![task] = inflight[task] \ {m}]
      /\ wg' = [wg EXCEPT ![task] = wg[task] - 1]
  BY <1>1 DEF DonePoll
<1>3. /\ work' \in [Worker -> WorkState] /\ ~Polling(w)'
      /\ \A v \in Worker \ {w} : work'[v] = work[v]
  BY <1>1, <1>2 DEF Polling, Idle, Poll
<1>4. /\ inflight' \in [Task -> SUBSET (Group \X Device)]
      /\ inflight'[task] = inflight[task] \ {m} /\ \A t \in Task \ {task} : inflight'[t] = inflight[t]
  BY <1>1, <1>2
<1>5. /\ m \in inflight[task] /\ IsFiniteSet(inflight[task]) /\ wg[task] = Cardinality(inflight[task])
  BY <1>1 DEF Marked, MarkInv
<1>6. /\ IsFiniteSet(inflight'[task]) /\ Cardinality(inflight'[task]) = wg[task] - 1
      /\ wg[task] - 1 \in Nat
  <2> DEFINE S == inflight[task]
  <2>1. IsFiniteSet(S \ {m}) /\ Cardinality(S \ {m}) = Cardinality(S) - 1
    <3> HIDE DEF S, m
    <3> QED
      BY <1>5, FS_RemoveElement DEF S
  <2>2. Cardinality(S \ {m}) \in Nat
    BY <2>1, FS_CardinalityType
  <2> QED
    BY <1>4, <1>5, <2>1, <2>2
<1>7. /\ wg' \in [Task -> Nat]
      /\ \A t \in Task : IsFiniteSet(inflight'[t]) /\ wg'[t] = Cardinality(inflight'[t])
  BY <1>1, <1>2, <1>4, <1>6 DEF MarkInv
<1>8. TypeInv'
  BY <1>0, <1>3, <1>4, <1>7 DEF TypeInv, EngineTypes, PollTypes, ActorTypes
<1>9. \A v \in Worker : Polling(v)' => v # w /\ Polling(v) /\ work'[v] = work[v]
  BY <1>3 DEF Polling
<1>10. ASSUME NEW k \in Job PROVE Marked(k)' <=> Waits(k)' \/ Runs(k)'
  <2>1. Waits(k)' <=> Waits(k)
    BY <1>0 DEF Waits
  <2>2. CASE k = j
    <3>1. ~Marked(k)'
      BY <1>1, <1>4, <2>2 DEF Marked
    <3>2. ~Waits(k)
      BY <2>2 DEF MarkInv, Waits
    <3>3. ~Runs(k)'
      BY <1>9, <2>2 DEF MarkInv, Runs
    <3> QED
      BY <2>1, <3>1, <3>2, <3>3
  <2>3. CASE k # j
    <3>1. k.task \in Task /\ (k.task = task => <<k.group, k.dev>> # m)
      BY <1>1, <2>3, SameJob DEF Job
    <3>2. Marked(k)' <=> Marked(k)
      BY <1>4, <3>1 DEF Marked
    <3>3. Runs(k)' <=> Runs(k)
      BY <1>3, <1>9, <2>3 DEF Runs, Polling
    <3> QED
      BY <2>1, <3>2, <3>3 DEF MarkInv
  <2> QED
    BY <2>2, <2>3
<1>11. MarkInv'
  BY <1>0, <1>7, <1>9, <1>10 DEF MarkInv
<1> QED
  BY <1>0, <1>1, <1>4, <1>8, <1>11, LockSame, PhaseSame, ConfSame

\* The gate of the device of w is given back.
LEMMA GivesBack ==
    ASSUME Inv, NEW w \in Worker, Polling(w), PollHolds(w, work[w].job.dev), Release(work[w].job),
           UNCHANGED <<task, calls>>,
           \A d \in Device : ~PollHolds(w, d)',
           \A v \in Worker \ {w} : work'[v] = work[v]
    PROVE  GateInv' /\ gates' \in [Task -> SUBSET Device]
<1> USE DEF Inv
<1> DEFINE d == work[w].job.dev
<1>1. d \in Device /\ work[w].job.task = task /\ task \in Task /\ gates \in [Task -> SUBSET Device]
  BY PollTyped, PollNow DEF TypeInv, PollTypes
<1>2. gates' \in [Task -> SUBSET Device] /\ gates'[task] = gates[task] \ {d}
  BY <1>1 DEF Release
<1>3. \A e \in Device, v \in Worker : PollHolds(v, e)' => PollHolds(v, e) /\ v # w
  BY DEF PollHolds
<1>4. \A e \in Device, c \in Caller : CallHolds(c, e)' => CallHolds(c, e)
  BY DEF CallHolds
<1>5. \A e \in Device, v \in Worker : PollHolds(v, e)' => e # d /\ e \in gates'[task]
  BY <1>1, <1>2, <1>3 DEF GateInv
<1>6. \A e \in Device, c \in Caller : CallHolds(c, e)' => e # d /\ e \in gates'[task]
  BY <1>1, <1>2, <1>4 DEF GateInv
<1> QED
  BY <1>2, <1>3, <1>4, <1>5, <1>6, GateFewer

-------------------------------------------------------------------------------
\* A group submits a poll, or finds the queue full.
LEMMA ScheduleKeeps ==
    ASSUME Inv, NEW t \in Task, NEW g \in Group, NEW d \in Device, Schedule(t, g, d)
    PROVE  Inv'
<1> USE DEF Inv
<1>0. UNCHANGED <<conf, writer, running, task, built, tasks, loops, linked, gates, pool, work, calls, ops,
                  seen, unnoticed, jammed>>
  BY DEF Schedule, engineVars
<1>1. CASE UNCHANGED <<inflight, wg, queue>>
  <2>1. TypeInv'
    BY <1>0, <1>1 DEF TypeInv, EngineTypes, PollTypes, ActorTypes
  <2> QED
    BY <1>0, <1>1, <2>1, LockSame, PhaseSame, MarkSame, GateSame, ConfSame
<1>2. CASE ~UNCHANGED <<inflight, wg, queue>>
  <2> DEFINE j == [task |-> t, group |-> g, dev |-> d]
             m == <<g, d>>
  <2>1. /\ inflight' = [inflight EXCEPT ![t] = inflight[t] \cup {m}]
        /\ wg' = [wg EXCEPT ![t] = wg[t] + 1]
        /\ queue' = Append(queue, j) /\ Len(queue) < QueueSize /\ m \notin inflight[t] /\ loops[t] # {}
    BY <1>2 DEF Schedule, Submit
  <2>2. /\ j \in Job /\ j.task = t /\ j.group = g /\ j.dev = d
        /\ inflight \in [Task -> SUBSET (Group \X Device)] /\ wg \in [Task -> Nat]
        /\ queue \in Seq(Job) /\ QueueSize \in Nat /\ t = task
    BY <2>1, CollectorAssumption DEF TypeInv, PollTypes, PhaseInv, Job
  <2> HIDE DEF j
  <2>3. /\ inflight' \in [Task -> SUBSET (Group \X Device)]
        /\ inflight'[t] = inflight[t] \cup {m}
        /\ \A u \in Task \ {t} : inflight'[u] = inflight[u]
    BY <2>1, <2>2
  <2>4. /\ queue' \in Seq(Job) /\ Len(queue') = Len(queue) + 1 /\ Len(queue') <= QueueSize
        /\ DOMAIN queue' = DOMAIN queue \cup {Len(queue) + 1} /\ Len(queue) + 1 \notin DOMAIN queue
        /\ queue'[Len(queue) + 1] = j /\ \A i \in DOMAIN queue : queue'[i] = queue[i]
    <3>1. Len(queue) \in Nat /\ DOMAIN queue = 1 .. Len(queue)
      BY <2>2
    <3>2. queue' \in Seq(Job) /\ Len(queue') = Len(queue) + 1 /\ DOMAIN queue' = 1 .. Len(queue) + 1
      BY <2>1, <2>2
    <3>3. queue'[Len(queue) + 1] = j /\ \A i \in 1 .. Len(queue) : queue'[i] = queue[i]
      BY <2>1, <2>2
    <3> QED
      BY <2>1, <2>2, <3>1, <3>2, <3>3
  <2>5. \A u \in Task : IsFiniteSet(inflight'[u]) /\ wg'[u] = Cardinality(inflight'[u])
    <3> DEFINE S == inflight[t]
    <3>1. IsFiniteSet(S) /\ m \notin S /\ wg[t] = Cardinality(S)
      BY <2>1 DEF MarkInv
    <3>2. IsFiniteSet(S \cup {m}) /\ Cardinality(S \cup {m}) = Cardinality(S) + 1
      <4> HIDE DEF S, m
      <4> QED
        BY <3>1, FS_AddElement
    <3>3. wg'[t] = wg[t] + 1 /\ \A u \in Task \ {t} : wg'[u] = wg[u]
      BY <2>1, <2>2
    <3> QED
      BY <2>3, <3>1, <3>2, <3>3 DEF MarkInv
  <2>6. TypeInv'
    <3>1. wg' \in [Task -> Nat]
      BY <2>1, <2>2
    <3> QED
      BY <1>0, <2>3, <2>4, <3>1 DEF TypeInv, EngineTypes, PollTypes, ActorTypes
  <2>7. ~Marked(j) /\ ~Waits(j) /\ ~Runs(j)
    BY <2>1, <2>2 DEF MarkInv, Marked
  <2>8. ASSUME NEW k \in Job PROVE Marked(k)' <=> Waits(k)' \/ Runs(k)'
    <3>1. Runs(k)' <=> Runs(k)
      BY <1>0 DEF Runs, Polling
    <3>2. Waits(k)' <=> Waits(k) \/ k = j
      BY <2>4 DEF Waits
    <3>3. CASE k = j
      BY <2>2, <2>3, <3>2, <3>3 DEF Marked
    <3>4. CASE k # j
      <4>1. k.task \in Task /\ (k.task = t => <<k.group, k.dev>> # m)
        BY <2>2, <3>4, SameJob DEF Job
      <4>2. Marked(k)' <=> Marked(k)
        BY <2>3, <4>1 DEF Marked
      <4> QED
        BY <3>1, <3>2, <3>4, <4>2 DEF MarkInv
    <3> QED
      BY <3>3, <3>4
  <2>9. MarkInv'
    <3>1. \A i \in DOMAIN queue' : \/ i \in DOMAIN queue /\ queue'[i] = queue[i] /\ queue'[i] # j
                                   \/ i = Len(queue) + 1 /\ queue'[i] = j
      BY <2>4, <2>7 DEF Waits
    <3>2. \A i, k \in DOMAIN queue' : queue'[i] = queue'[k] => i = k
      BY <3>1 DEF MarkInv
    <3>3. \A i \in DOMAIN queue', w \in Worker : Polling(w)' => work'[w].job # queue'[i]
      BY <1>0, <2>7, <3>1 DEF MarkInv, Runs, Polling
    <3>4. \A w, v \in Worker : Polling(w)' /\ Polling(v)' /\ work'[w].job = work'[v].job => w = v
      BY <1>0 DEF MarkInv, Polling
    <3> QED
      BY <2>5, <2>8, <3>2, <3>3, <3>4 DEF MarkInv
  <2> QED
    BY <1>0, <2>2, <2>3, <2>6, <2>9, LockSame, PhaseSame, GateSame, ConfSame
<1> QED
  BY <1>1, <1>2

\* A worker takes the first poll of the queue.
LEMMA TakeKeeps ==
    ASSUME Inv, NEW w \in Worker, TakePoll(w)
    PROVE  Inv'
<1> USE DEF Inv
<1>1. queue \in Seq(Job) /\ Len(queue) <= QueueSize /\ QueueSize \in Nat /\ Batches \in Nat \ {0}
      /\ work \in [Worker -> WorkState] /\ queue # <<>> /\ queue' = Tail(queue)
  BY CollectorAssumption DEF TypeInv, PollTypes, TakePoll
<1>2. Len(queue) > 0 /\ DOMAIN queue = 1 .. Len(queue) /\ Len(queue) \in Nat /\ Head(queue) = queue[1]
  BY <1>1
<1>head. PICK j \in Job : j = queue[1]
  BY <1>1, <1>2
<1>3. /\ queue' \in Seq(Job) /\ Len(queue') = Len(queue) - 1 /\ DOMAIN queue' = 1 .. Len(queue) - 1
      /\ \A i \in 1 .. Len(queue) - 1 : queue'[i] = queue[i + 1]
  BY <1>1, <1>2
<1> DEFINE s == [pc |-> "gate", job |-> j, left |-> Batches]
<1>0. /\ UNCHANGED <<conf, writer, running, task, built, tasks, loops, inflight, wg, linked, gates, pool, calls,
                     ops, seen, unnoticed, jammed>>
      /\ ~Polling(w) /\ work' = [work EXCEPT ![w] = s]
  BY <1>2, <1>head DEF TakePoll, engineVars, Polling, Poll
<1>4. Len(queue') <= QueueSize
  BY <1>1, <1>2, <1>3
<1>5. s \in WorkState /\ s.pc = "gate" /\ s.job = j
  BY <1>1 DEF WorkState, Poll
<1> HIDE DEF s
<1>6. /\ work' \in [Worker -> WorkState] /\ work'[w] = s /\ Polling(w)'
      /\ \A v \in Worker \ {w} : work'[v] = work[v]
  BY <1>0, <1>1, <1>5 DEF Polling, Poll
<1>7. TypeInv'
  BY <1>0, <1>3, <1>4, <1>6 DEF TypeInv, EngineTypes, PollTypes, ActorTypes
<1>8. \A i \in DOMAIN queue' : /\ i + 1 \in DOMAIN queue /\ i + 1 # 1
                               /\ queue'[i] = queue[i + 1] /\ queue'[i] # j
  <2>1. \A i \in DOMAIN queue' : i + 1 \in DOMAIN queue /\ i + 1 # 1 /\ queue'[i] = queue[i + 1]
    BY <1>2, <1>3
  <2> QED
    BY <1>2, <1>head, <2>1 DEF MarkInv
<1>9. 1 \in DOMAIN queue /\ \A i \in DOMAIN queue : i = 1 \/ (i - 1 \in DOMAIN queue' /\ queue'[i - 1] = queue[i])
  <2>1. \A i \in 1 .. Len(queue) : i = 1 \/ (i - 1 \in 1 .. Len(queue) - 1 /\ (i - 1) + 1 = i)
    BY <1>2
  <2> QED
    BY <1>2, <1>3, <2>1
<1>10. ASSUME NEW k PROVE (Waits(k)' \/ Runs(k)') <=> (Waits(k) \/ Runs(k))
  <2>1. Waits(k)' => Waits(k)
    BY <1>8 DEF Waits
  <2>2. Waits(k) => Waits(k)' \/ k = j
    BY <1>head, <1>9 DEF Waits
  <2>3. Waits(j)
    BY <1>head, <1>9 DEF Waits
  <2>4. Runs(j)'
    BY <1>5, <1>6 DEF Runs
  <2>5. Runs(k) => Runs(k)'
    BY <1>0, <1>6 DEF Runs, Polling
  <2>6. Runs(k)' => Runs(k) \/ k = j
    BY <1>5, <1>6 DEF Runs, Polling
  <2> QED
    BY <2>1, <2>2, <2>3, <2>4, <2>5, <2>6
<1>11. MarkInv'
  <2>1. \A i, k \in DOMAIN queue' : queue'[i] = queue'[k] => i = k
    <3>1. \A i, k \in DOMAIN queue' : queue'[i] = queue'[k] => i + 1 = k + 1
      BY <1>8 DEF MarkInv
    <3> QED
      BY <1>3, <3>1
  <2>2. \A v \in Worker \ {w} : Polling(v)' => Polling(v) /\ work'[v] = work[v] /\ work[v].job # j
    BY <1>head, <1>6, <1>9 DEF MarkInv, Polling
  <2>3. \A u, v \in Worker : Polling(u)' /\ Polling(v)' /\ work'[u].job = work'[v].job => u = v
    BY <1>5, <1>6, <2>2 DEF MarkInv
  <2>4. \A i \in DOMAIN queue', v \in Worker : Polling(v)' => work'[v].job # queue'[i]
    BY <1>5, <1>6, <1>8, <2>2 DEF MarkInv
  <2>5. \A k \in Job : Marked(k)' <=> Marked(k)
    BY <1>0 DEF Marked
  <2> QED
    BY <1>0, <1>10, <2>1, <2>3, <2>4, <2>5 DEF MarkInv
<1>12. GateInv'
  <2>1. \A d : ~PollHolds(w, d)'
    BY <1>5, <1>6 DEF PollHolds
  <2>2. \A d : \A v \in Worker : PollHolds(v, d)' => PollHolds(v, d)
    BY <1>6, <2>1 DEF PollHolds
  <2>3. \A d, c : CallHolds(c, d)' <=> CallHolds(c, d)
    BY <1>0 DEF CallHolds
  <2> QED
    BY <1>0, <2>2, <2>3 DEF GateInv
<1> QED
  BY <1>0, <1>7, <1>11, <1>12, LockSame, PhaseSame, ConfSame

\* A group, or a worker that has nothing to do, ends.
LEMMA QuitsKeep ==
    ASSUME Inv, (\E t \in Task, g \in Group : LoopQuits(t, g)) \/ \E w \in Worker : WorkerQuits(w)
    PROVE  Inv'
<1> USE DEF Inv
<1>1. ASSUME NEW t \in Task, NEW g \in Group, LoopQuits(t, g) PROVE Inv'
  <2>1. /\ UNCHANGED <<conf, writer, running, task, built, tasks, inflight, wg, linked, gates, queue, work,
                       jammed, pool, calls, ops, seen, unnoticed>>
        /\ loops' = [loops EXCEPT ![t] = loops[t] \ {g}] /\ g \in loops[t]
    BY <1>1 DEF LoopQuits, pollVars
  <2>2. /\ loops \in [Task -> SUBSET Group] /\ t = task
    BY <2>1 DEF TypeInv, EngineTypes, PhaseInv
  <2>3. loops' \in [Task -> SUBSET Group] /\ \A u \in Task : u # task => loops'[u] = loops[u]
    BY <2>1, <2>2
  <2>4. TypeInv'
    BY <2>1, <2>3 DEF TypeInv, EngineTypes, PollTypes, ActorTypes
  <2> QED
    BY <2>1, <2>3, <2>4, LockSame, PhaseSame, MarkSame, GateSame, ConfSame
<1>2. ASSUME NEW w \in Worker, WorkerQuits(w) PROVE Inv'
  <2>1. /\ UNCHANGED <<conf, writer, running, task, built, tasks, loops, inflight, wg, linked, gates, queue,
                       jammed, pool, calls, ops, seen, unnoticed>>
        /\ work' = [work EXCEPT ![w] = [pc |-> "off"]] /\ work[w].pc = "idle"
    BY <1>2 DEF WorkerQuits, engineVars
  <2>2. [pc |-> "off"] \in WorkState /\ work \in [Worker -> WorkState]
    BY DEF TypeInv, PollTypes, WorkState
  <2>3. /\ work' \in [Worker -> WorkState] /\ work'[w].pc = "off"
        /\ \A v \in Worker \ {w} : work'[v] = work[v]
    BY <2>1, <2>2
  <2>4. TypeInv'
    BY <2>1, <2>3 DEF TypeInv, EngineTypes, PollTypes, ActorTypes
  <2>5. \A v \in Worker : (Polling(v)' <=> Polling(v)) /\ (Polling(v) => work'[v] = work[v])
    BY <2>1, <2>3 DEF Polling, Poll
  <2>6. \A k : (Runs(k)' <=> Runs(k)) /\ (Waits(k)' <=> Waits(k)) /\ (Marked(k)' <=> Marked(k))
    BY <2>1, <2>5 DEF Runs, Waits, Marked
  <2>7. MarkInv'
    BY <2>1, <2>5, <2>6 DEF MarkInv
  <2>8. \A d : \A v \in Worker : PollHolds(v, d)' => PollHolds(v, d)
    BY <2>3 DEF PollHolds
  <2>9. \A d, c : CallHolds(c, d)' <=> CallHolds(c, d)
    BY <2>1 DEF CallHolds
  <2>10. GateInv'
    BY <2>1, <2>8, <2>9 DEF GateInv
  <2> QED
    BY <2>1, <2>4, <2>7, <2>10, LockSame, PhaseSame, ConfSame
<1> QED
  BY <1>1, <1>2

-------------------------------------------------------------------------------
\* A poll with the gate goes on at pc, or without it.
LEMMA GotoTyped ==
    ASSUME TypeInv, NEW w \in Worker, Polling(w), NEW pc \in Poll, Goto(w, pc)
    PROVE  \E s \in [pc : Poll, job : Job, left : 1 .. Batches] :
             s.pc = pc /\ s.job = work[w].job /\ work' = [work EXCEPT ![w] = s]
<1> DEFINE s == [work[w] EXCEPT !.pc = pc]
<1>1. s \in [pc : Poll, job : Job, left : 1 .. Batches] /\ s.pc = pc /\ s.job = work[w].job
  BY PollTyped
<1>2. work' = [work EXCEPT ![w] = s]
  BY DEF Goto
<1> QED
  BY <1>1, <1>2

\* A poll that has taken the gate.
LEMMA TakeGateKeeps ==
    ASSUME Inv, NEW w \in Worker, TakeGate(w)
    PROVE  Inv'
<1> USE DEF Inv
<1>1. Polling(w) /\ work[w].pc \in {"gate", "gate2"}
  BY DEF TakeGate, Polling, Poll
<1>2. PICK j \in Job : j = work[w].job
  BY <1>1, PollTyped
<1>3. /\ j.dev \in Device /\ j.task = task /\ task \in Task /\ gates \in [Task -> SUBSET Device]
  BY <1>1, <1>2, PollTyped, PollNow DEF TypeInv, PollTypes
<1>4. /\ j.dev \notin gates[task] /\ gates' = [gates EXCEPT ![task] = gates[task] \cup {j.dev}]
      /\ UNCHANGED <<pollFrame, inflight, wg, linked, jammed>>
  BY <1>2, <1>3 DEF TakeGate
<1>5. PICK s \in [pc : Poll, job : Job, left : 1 .. Batches] :
        s.pc \in {"connect", "read"} /\ s.job = work[w].job /\ work' = [work EXCEPT ![w] = s]
  <2>1. {"connect", "read"} \subseteq Poll
    BY DEF Poll
  <2>2. Goto(w, "connect") \/ Goto(w, "read")
    BY DEF TakeGate
  <2> QED
    BY <1>1, <2>1, <2>2, GotoTyped
<1>6. work'[w] = s /\ \A v \in Worker \ {w} : work'[v] = work[v]
  BY <1>5 DEF TypeInv, PollTypes
<1>7. /\ gates' \in [Task -> SUBSET Device] /\ gates'[task] = gates[task] \cup {j.dev}
      /\ UNCHANGED <<task, calls>>
  BY <1>3, <1>4 DEF pollFrame, engineVars
<1>8. GateInv'
  <2>1. \A e \in Device, v \in Worker : PollHolds(v, e)' => PollHolds(v, e) \/ (v = w /\ e = j.dev)
    BY <1>2, <1>5, <1>6 DEF PollHolds
  <2>2. \A e \in Device, c \in Caller : CallHolds(c, e)' => CallHolds(c, e)
    BY <1>7 DEF CallHolds
  <2> QED
    BY <1>3, <1>4, <1>7, <2>1, <2>2, GateByPoll
<1> QED
  BY <1>1, <1>4, <1>5, <1>7, <1>8, MovesKeep DEF TypeInv, PollTypes

\* A poll that goes on and keeps the gate it has, or has none.
LEMMA GoesOnKeeps ==
    ASSUME Inv, NEW w \in Worker, Polling(w), NEW s \in [pc : Poll, job : Job, left : 1 .. Batches],
           s.job = work[w].job, work' = [work EXCEPT ![w] = s],
           UNCHANGED <<pollFrame, inflight, wg, jammed>>, linked' \in [Task -> SUBSET Device],
           \/ /\ UNCHANGED gates
              /\ \A d \in Device : PollHolds(w, d)' => PollHolds(w, d)
           \/ /\ Release(work[w].job) /\ PollHolds(w, work[w].job.dev)
              /\ \A d \in Device : ~PollHolds(w, d)'
    PROVE  Inv'
<1> USE DEF Inv
<1>1. /\ UNCHANGED <<task, calls>> /\ \A v \in Worker \ {w} : work'[v] = work[v]
      /\ gates \in [Task -> SUBSET Device]
  BY DEF pollFrame, engineVars, TypeInv, PollTypes
<1>2. GateInv' /\ gates' \in [Task -> SUBSET Device]
  <2>1. CASE UNCHANGED gates /\ \A d \in Device : PollHolds(w, d)' => PollHolds(w, d)
    <3>1. \A d \in Device, v \in Worker : PollHolds(v, d)' => PollHolds(v, d)
      BY <1>1, <2>1 DEF PollHolds
    <3>2. \A d \in Device, c \in Caller : CallHolds(c, d)' => CallHolds(c, d)
      BY <1>1 DEF CallHolds
    <3> QED
      BY <1>1, <2>1, <3>1, <3>2 DEF GateInv
  <2> QED
    BY <1>1, <2>1, GivesBack
<1> QED
  BY <1>2, MovesKeep DEF TypeInv, PollTypes

\* A driver is connected; only a serial poll keeps the gate for its read.
LEMMA ConnectedKeeps ==
    ASSUME Inv, NEW w \in Worker, Connected(w)
    PROVE  Inv'
<1> USE DEF Inv
<1>1. Polling(w) /\ work[w].pc = "connect" /\ UNCHANGED <<pollFrame, inflight, wg, jammed>>
  BY DEF Connected, Polling, Poll
<1>2. linked' \in [Task -> SUBSET Device]
  BY <1>1, PollTyped DEF Connected, TypeInv, PollTypes
<1>3. PollHolds(w, work[w].job.dev)
  BY <1>1 DEF PollHolds
<1>4. work \in [Worker -> WorkState]
  BY DEF TypeInv, PollTypes
<1>5. CASE work[w].job.dev \in Serial
  <2>1. Goto(w, "read") /\ UNCHANGED gates /\ "read" \in Poll
    BY <1>5 DEF Connected, Poll
  <2>2. PICK s \in [pc : Poll, job : Job, left : 1 .. Batches] :
          s.pc = "read" /\ s.job = work[w].job /\ work' = [work EXCEPT ![w] = s]
    BY <1>1, <2>1, GotoTyped
  <2>3. \A d \in Device : PollHolds(w, d)' => PollHolds(w, d)
    BY <1>1, <1>4, <2>2 DEF PollHolds
  <2> QED
    BY <1>1, <1>2, <2>1, <2>2, <2>3, GoesOnKeeps
<1>6. CASE work[w].job.dev \notin Serial
  <2>1. Goto(w, "gate2") /\ Release(work[w].job) /\ "gate2" \in Poll
    BY <1>6 DEF Connected, Poll
  <2>2. PICK s \in [pc : Poll, job : Job, left : 1 .. Batches] :
          s.pc = "gate2" /\ s.job = work[w].job /\ work' = [work EXCEPT ![w] = s]
    BY <1>1, <2>1, GotoTyped
  <2>3. \A d \in Device : ~PollHolds(w, d)'
    BY <1>4, <2>2 DEF PollHolds
  <2> QED
    BY <1>1, <1>2, <1>3, <2>1, <2>2, <2>3, GoesOnKeeps
<1> QED
  BY <1>5, <1>6

\* A batch has been read; only a serial poll keeps the gate while it reports.
LEMMA ReadOkKeeps ==
    ASSUME Inv, NEW w \in Worker, ReadOk(w)
    PROVE  Inv'
<1> USE DEF Inv
<1>1. /\ Polling(w) /\ work[w].pc = "read" /\ UNCHANGED <<pollFrame, inflight, wg, linked, jammed>>
      /\ Goto(w, "report") /\ "report" \in Poll
  BY DEF ReadOk, Polling, Poll
<1>2. PollHolds(w, work[w].job.dev) /\ linked \in [Task -> SUBSET Device] /\ work \in [Worker -> WorkState]
  BY <1>1 DEF PollHolds, TypeInv, PollTypes
<1>3. PICK s \in [pc : Poll, job : Job, left : 1 .. Batches] :
        s.pc = "report" /\ s.job = work[w].job /\ work' = [work EXCEPT ![w] = s]
  BY <1>1, GotoTyped
<1>4. \A d \in Device : PollHolds(w, d)' => PollHolds(w, d) /\ d = work[w].job.dev /\ d \in Serial
  BY <1>1, <1>2, <1>3 DEF PollHolds
<1>5. CASE work[w].job.dev \in Serial
  BY <1>1, <1>2, <1>3, <1>4, <1>5, GoesOnKeeps DEF ReadOk
<1>6. CASE work[w].job.dev \notin Serial
  BY <1>1, <1>2, <1>3, <1>4, <1>6, GoesOnKeeps DEF ReadOk
<1> QED
  BY <1>5, <1>6

\* A poll that ends: it gives back the gate that it has, had none, or leaves it taken.
LEMMA OverKeeps ==
    ASSUME Inv, NEW w \in Worker, Polling(w), DonePoll(w, work[w].job),
           UNCHANGED pollFrame, linked' \in [Task -> SUBSET Device], jammed' \subseteq Task \X Device,
           \/ UNCHANGED gates
           \/ Release(work[w].job) /\ PollHolds(w, work[w].job.dev)
    PROVE  Inv'
<1> USE DEF Inv
<1>1. /\ UNCHANGED <<task, calls>> /\ \A v \in Worker \ {w} : work'[v] = work[v]
      /\ work'[w] = Idle /\ gates \in [Task -> SUBSET Device]
  BY DEF pollFrame, engineVars, TypeInv, PollTypes, DonePoll
<1>2. \A d \in Device : ~PollHolds(w, d)'
  BY <1>1 DEF PollHolds, Idle
<1>3. GateInv' /\ gates' \in [Task -> SUBSET Device]
  <2>1. CASE UNCHANGED gates
    <3>1. \A d \in Device, v \in Worker : PollHolds(v, d)' => PollHolds(v, d)
      BY <1>1, <1>2 DEF PollHolds
    <3>2. \A d \in Device, c \in Caller : CallHolds(c, d)' => CallHolds(c, d)
      BY <1>1 DEF CallHolds
    <3> QED
      BY <1>1, <2>1, <3>1, <3>2 DEF GateInv
  <2> QED
    BY <1>1, <1>2, <2>1, GivesBack
<1> QED
  BY <1>3, EndsKeep

\* A poll ends in a failed connection, a failed read or a panic.
LEMMA FailsKeep ==
    ASSUME Inv, NEW w \in Worker, ConnectFails(w) \/ ReadFails(w) \/ ReadPanics(w)
    PROVE  Inv'
<1> USE DEF Inv
<1>1. /\ Polling(w) /\ work[w].pc \in {"connect", "read"} /\ UNCHANGED pollFrame
      /\ DonePoll(w, work[w].job)
  BY DEF ConnectFails, ReadFails, ReadPanics, Polling, Poll
<1>2. PollHolds(w, work[w].job.dev)
  BY <1>1 DEF PollHolds
<1>3. /\ linked \in [Task -> SUBSET Device] /\ jammed \subseteq Task \X Device
      /\ work[w].job.task \in Task /\ work[w].job.dev \in Device
  BY <1>1, PollTyped DEF TypeInv, PollTypes
<1>4. linked' \in [Task -> SUBSET Device]
  BY <1>3 DEF ConnectFails, ReadFails, ReadPanics
<1>5. jammed' \subseteq Task \X Device
  BY <1>3 DEF ConnectFails, ReadFails, ReadPanics
<1>6. UNCHANGED gates \/ Release(work[w].job)
  BY DEF ConnectFails, ReadFails, ReadPanics
<1> QED
  BY <1>1, <1>2, <1>4, <1>5, <1>6, OverKeeps

\* A batch is reported: the next one follows, or the poll is over.
LEMMA ReportKeeps ==
    ASSUME Inv, NEW w \in Worker, ReportBatch(w)
    PROVE  Inv'
<1> USE DEF Inv
<1>1. /\ Polling(w) /\ work[w].pc = "report" /\ UNCHANGED <<pollFrame, linked, jammed>>
  BY DEF ReportBatch, Polling, Poll
<1>2. /\ linked \in [Task -> SUBSET Device] /\ jammed \subseteq Task \X Device
      /\ work \in [Worker -> WorkState]
      /\ work[w] \in [pc : Poll, job : Job, left : 1 .. Batches] /\ Batches \in Nat
  BY <1>1, PollTyped, CollectorAssumption DEF TypeInv, PollTypes
<1>3. CASE work[w].left > 1
  <2>1. PICK pc \in {"read", "gate2"} : /\ pc = "read" => work[w].job.dev \in Serial
                                        /\ work' = [work EXCEPT ![w] = [work[w] EXCEPT !.pc = pc, !.left = @ - 1]]
    BY <1>3 DEF ReportBatch
  <2>2. work[w].left - 1 \in 1 .. Batches /\ pc \in Poll
    BY <1>2, <1>3 DEF Poll
  <2> DEFINE s == [work[w] EXCEPT !.pc = pc, !.left = @ - 1]
  <2>3. s \in [pc : Poll, job : Job, left : 1 .. Batches] /\ s.job = work[w].job /\ s.pc = pc
    BY <1>2, <2>2
  <2>4. work' = [work EXCEPT ![w] = s] /\ UNCHANGED <<inflight, wg, gates>>
    BY <1>3, <2>1 DEF ReportBatch
  <2> HIDE DEF s
  <2>5. work'[w] = s
    BY <1>2, <2>4
  <2>6. \A d \in Device : PollHolds(w, d)' => PollHolds(w, d)
    BY <1>1, <2>1, <2>3, <2>5 DEF PollHolds
  <2> QED
    BY <1>1, <1>2, <2>3, <2>4, <2>6, GoesOnKeeps
<1>4. CASE ~(work[w].left > 1)
  <2>1. DonePoll(w, work[w].job)
    BY <1>4 DEF ReportBatch
  <2>2. UNCHANGED gates \/ (Release(work[w].job) /\ PollHolds(w, work[w].job.dev))
    BY <1>1, <1>4 DEF ReportBatch, PollHolds
  <2> QED
    BY <1>1, <1>2, <2>1, <2>2, OverKeeps
<1> QED
  BY <1>3, <1>4

-------------------------------------------------------------------------------
(***************************************************************************)
(* The steps of a caller.                                                  *)
(***************************************************************************)

\* Callers change, and the gates; nobody reads while somebody has the lock.
LEMMA CallsKeep ==
    ASSUME Inv, UNCHANGED callFrame, calls' \in [Caller -> CallState], gates' \in [Task -> SUBSET Device],
           \A c \in Caller : calls'[c] # Idle =>
               calls[c] # Idle \/ (writer = "nobody" /\ task # 0 /\ tasks[task].state = "running"),
           GateInv'
    PROVE  Inv'
<1> USE DEF Inv
<1>0. UNCHANGED <<conf, writer, running, task, built, tasks, loops, inflight, wg, linked, pool, queue, work,
                  ops, seen, unnoticed, jammed>>
  BY DEF callFrame, engineVars
<1>1. TypeInv'
  BY <1>0 DEF TypeInv, EngineTypes, PollTypes, ActorTypes
<1>2. LockInv'
  BY <1>0 DEF LockInv
<1> QED
  BY <1>0, <1>1, <1>2, PhaseSame, MarkSame, ConfSame

\* A write begins, takes the gate, gives up or ends.
LEMMA CallersKeep ==
    ASSUME Inv, NEW c \in Caller,
           (\E d \in Device : CallBegin(c, d)) \/ CallTakesGate(c) \/ CallTimesOut(c) \/ CallEnds(c)
    PROVE  Inv'
<1> USE DEF Inv
<1>0. /\ UNCHANGED callFrame /\ UNCHANGED <<task, work>>
      /\ calls \in [Caller -> CallState] /\ gates \in [Task -> SUBSET Device] /\ Idle \in CallState
  BY DEF CallBegin, CallTakesGate, CallTimesOut, CallEnds, callFrame, engineVars, TypeInv, PollTypes,
         ActorTypes, CallState
<1>1. \A e \in Device, v \in Worker : PollHolds(v, e)' <=> PollHolds(v, e)
  BY <1>0 DEF PollHolds
<1>2. ASSUME UNCHANGED gates, NEW s \in CallState, calls' = [calls EXCEPT ![c] = s], s.pc # "io"
      PROVE  GateInv' /\ calls' \in [Caller -> CallState]
  <2>1. /\ calls' \in [Caller -> CallState] /\ calls'[c] = s
        /\ \A b \in Caller \ {c} : calls'[b] = calls[b]
    BY <1>0, <1>2
  <2>2. \A e \in Device, b \in Caller : CallHolds(b, e)' => CallHolds(b, e)
    BY <1>2, <2>1 DEF CallHolds
  <2> QED
    BY <1>0, <1>1, <1>2, <2>1, <2>2 DEF GateInv
<1>3. Idle.pc = "idle"
  BY DEF Idle
<1>4. ASSUME NEW d \in Device, CallBegin(c, d) PROVE Inv'
  <2> DEFINE s == [pc |-> "wait", dev |-> d]
  <2>1. s \in CallState /\ s.pc # "io" /\ calls' = [calls EXCEPT ![c] = s] /\ UNCHANGED gates
    BY <1>4 DEF CallState, CallBegin
  <2>2. writer = "nobody" /\ task # 0 /\ tasks[task].state = "running"
    BY <1>4 DEF CallBegin, MayRead, PhaseInv
  <2> HIDE DEF s
  <2> QED
    BY <1>0, <1>2, <2>1, <2>2, CallsKeep
<1>5. CASE calls' = [calls EXCEPT ![c] = Idle] /\ UNCHANGED gates
  <2>1. \A b \in Caller : calls'[b] # Idle => calls[b] # Idle
    BY <1>0, <1>5
  <2> QED
    BY <1>0, <1>2, <1>3, <1>5, <2>1, CallsKeep
<1>6. CASE CallTakesGate(c)
  <2>1. calls[c].pc = "wait"
    BY <1>6 DEF CallTakesGate
  <2>2. PICK d \in Device : d = calls[c].dev
    BY <2>1, CallTyped
  <2>3. /\ calls[c] # Idle /\ task \in Task
        /\ [calls[c] EXCEPT !.pc = "io"] \in [pc : {"wait", "io"}, dev : Device]
        /\ [calls[c] EXCEPT !.pc = "io"].dev = d
    BY <2>1, <2>2, CallTyped DEF LockInv, TypeInv, EngineTypes, Task
  <2>4. CASE d \in linked[task]
    <3>1. /\ d \notin gates[task] /\ gates' = [gates EXCEPT ![task] = gates[task] \cup {d}]
          /\ calls' = [calls EXCEPT ![c] = [calls[c] EXCEPT !.pc = "io"]]
      BY <1>6, <2>2, <2>4 DEF CallTakesGate
    <3>2. /\ gates' \in [Task -> SUBSET Device] /\ gates'[task] = gates[task] \cup {d}
      BY <1>0, <2>3, <3>1
    <3>3. /\ calls' \in [Caller -> CallState] /\ calls'[c].dev = d
          /\ \A b \in Caller \ {c} : calls'[b] = calls[b]
      BY <1>0, <2>3, <3>1 DEF CallState
    <3>4. \A e \in Device, b \in Caller : CallHolds(b, e)' => CallHolds(b, e) \/ (b = c /\ e = d)
      BY <3>3 DEF CallHolds
    <3>5. GateInv'
      BY <1>0, <1>1, <3>1, <3>2, <3>4, GateByCall
    <3>6. \A b \in Caller : calls'[b] # Idle => calls[b] # Idle
      BY <2>3, <3>3
    <3> QED
      BY <1>0, <3>2, <3>3, <3>5, <3>6, CallsKeep
  <2> QED
    BY <1>5, <1>6, <2>2, <2>4 DEF CallTakesGate
<1>7. CASE CallTimesOut(c)
  BY <1>5, <1>7 DEF CallTimesOut
<1>8. CASE CallEnds(c)
  <2>1. calls[c].pc = "io"
    BY <1>8 DEF CallEnds
  <2>2. PICK d \in Device : d = calls[c].dev
    BY <2>1, CallTyped
  <2>3. calls[c] # Idle /\ task \in Task /\ CallHolds(c, d)
    BY <2>1, <2>2, CallTyped DEF LockInv, TypeInv, EngineTypes, Task, CallHolds
  <2>4. /\ calls' = [calls EXCEPT ![c] = Idle] /\ gates' = [gates EXCEPT ![task] = gates[task] \ {d}]
    BY <1>8, <2>2 DEF CallEnds
  <2>5. /\ gates' \in [Task -> SUBSET Device] /\ gates'[task] = gates[task] \ {d}
    BY <1>0, <2>3, <2>4
  <2>6. /\ calls' \in [Caller -> CallState] /\ calls'[c] = Idle
        /\ \A b \in Caller \ {c} : calls'[b] = calls[b]
    BY <1>0, <2>4
  <2>7. \A e \in Device, b \in Caller : CallHolds(b, e)' => CallHolds(b, e) /\ b # c
    BY <1>3, <2>6 DEF CallHolds
  <2>8. \A e \in Device, b \in Caller : CallHolds(b, e)' => e # d /\ e \in gates'[task]
    BY <2>3, <2>5, <2>7 DEF GateInv
  <2>9. \A e \in Device, v \in Worker : PollHolds(v, e)' => e # d /\ e \in gates'[task]
    BY <1>1, <2>3, <2>5 DEF GateInv
  <2>10. GateInv'
    BY <1>0, <1>1, <2>7, <2>8, <2>9, GateFewer
  <2>11. \A b \in Caller : calls'[b] # Idle => calls[b] # Idle
    BY <2>6
  <2> QED
    BY <1>0, <2>5, <2>6, <2>10, <2>11, CallsKeep
<1> QED
  BY <1>4, <1>6, <1>7, <1>8

-------------------------------------------------------------------------------
(***************************************************************************)
(* The steps of a manager.                                                 *)
(***************************************************************************)

\* One operation changes.
LEMMA OpChanges ==
    ASSUME TypeInv, NEW m \in Manager, NEW o \in OpState, ops' = [ops EXCEPT ![m] = o]
    PROVE  /\ ops' \in [Manager -> OpState] /\ ops'[m] = o
           /\ \A n \in Manager \ {m} : ops'[n] = ops[n]
BY DEF TypeInv, ActorTypes

\* Whoever is past the lock has it, alone.
LEMMA Holder ==
    ASSUME Inv, NEW m \in Manager, ops[m].pc \in Busy
    PROVE  /\ writer = m /\ m # "nobody" /\ Stage(ops[m])
           /\ \A n \in Manager \ {m} : ops[n].pc \notin Busy
           /\ \A c \in Caller : calls[c] = Idle
           /\ ops[m] \in [pc : {"lock"} \cup Busy, what : What, sum : Sum \cup {Off}] /\ ops[m] # Idle
BY CollectorAssumption, OpTyped DEF Inv, LockInv, PhaseInv

\* Without polls and callers nobody talks to a device.
LEMMA NobodyTalks ==
    ASSUME \A w \in Worker : ~Polling(w), \A c \in Caller : calls[c] = Idle
    PROVE  GateInv
<1>1. \A w \in Worker, d \in Device : ~PollHolds(w, d)
  BY DEF Polling, Poll, PollHolds
<1>2. \A c \in Caller, d \in Device : ~CallHolds(c, d)
  BY DEF CallHolds, Idle
<1> QED
  BY <1>1, <1>2 DEF GateInv

\* Without a task nothing waits, runs or is marked.
LEMMA NoTask ==
    ASSUME Inv, task = 0
    PROVE  (\A w \in Worker : ~Polling(w)) /\ DOMAIN queue = {} /\ \A j \in Job : ~Marked(j)
<1>1. 0 \notin Task
  BY DEF Task
<1> QED
  BY <1>1, PollNow, WaitsNow, MarkedNow DEF Inv

\* A manager begins, or finds that there is nothing to do.
LEMMA BeginsKeep ==
    ASSUME Inv, NEW m \in Manager,
           LockForNothing(m) \/ (\E sum \in Sum : WatchTick(sum)) \/ (m # Watcher /\ \E what \in What : Begin(m, what))
    PROVE  Inv'
<1> USE DEF Inv
<1>0. UNCHANGED <<conf, writer, running, task, built, tasks, loops, inflight, wg, linked, gates, queue, work,
                  jammed, pool, calls, seen, unnoticed>>
  BY DEF LockForNothing, WatchTick, Begin, engineVars, pollVars, watchFrame, SeenAfter
<1>1. PICK n \in Manager, o \in OpState :
        /\ ops' = [ops EXCEPT ![n] = o] /\ ops[n].pc \notin Busy /\ o.pc \notin Busy
        /\ n # Watcher /\ o # Idle => o.sum = Off
  <2>1. Idle \in OpState /\ Idle.pc \notin Busy
    BY DEF OpState, Idle, Busy
  <2>2. CASE LockForNothing(m)
    BY <2>1, <2>2 DEF LockForNothing, Busy
  <2>3. ASSUME NEW sum \in Sum, WatchTick(sum)
        PROVE  \E o \in OpState : /\ ops' = [ops EXCEPT ![Watcher] = o] /\ ops[Watcher].pc \notin Busy
                                  /\ o.pc \notin Busy
    <3> DEFINE o == [pc |-> "lock", what |-> "Refresh", sum |-> sum]
    <3>1. o \in OpState /\ o.pc \notin Busy
      BY DEF OpState, Busy, What
    <3>2. Watcher \in Manager /\ ops' = [ops EXCEPT ![Watcher] = o] /\ ops[Watcher].pc \notin Busy
      BY <2>1, <2>3, CollectorAssumption DEF WatchTick
    <3> HIDE DEF o
    <3> QED
      BY <3>1, <3>2
  <2>4. ASSUME m # Watcher, NEW what \in What, Begin(m, what)
        PROVE  \E o \in OpState : /\ ops' = [ops EXCEPT ![m] = o] /\ ops[m].pc \notin Busy
                                  /\ o.pc \notin Busy /\ o.sum = Off
    <3> DEFINE o == [pc |-> "lock", what |-> what, sum |-> Off]
    <3>1. o \in OpState /\ o.pc \notin Busy /\ o.sum = Off
      BY DEF OpState, Busy
    <3>2. ops' = [ops EXCEPT ![m] = o] /\ ops[m].pc \notin Busy
      BY <2>1, <2>4 DEF Begin
    <3> HIDE DEF o
    <3> QED
      BY <3>1, <3>2
  <2> QED
    BY <2>2, <2>3, <2>4, CollectorAssumption
<1>2. /\ ops' \in [Manager -> OpState] /\ ops'[n] = o
      /\ \A k \in Manager \ {n} : ops'[k] = ops[k]
  BY <1>1, OpChanges
<1>3. TypeInv'
  BY <1>0, <1>2 DEF TypeInv, EngineTypes, PollTypes, ActorTypes
<1>4. writer # "nobody" => writer \in Manager /\ writer # n /\ ops'[writer] = ops[writer]
  BY <1>1, <1>2 DEF LockInv, TypeInv, EngineTypes
<1>5. LockInv'
  BY <1>0, <1>1, <1>2, <1>4 DEF LockInv
<1>6. PhaseInv'
  <2>1. \A p : Stage(p)' = Stage(p)
    BY <1>0 DEF Stage
  <2>2. writer' # "nobody" => Stage(ops[writer])'
    BY <1>0, <1>4, <2>1 DEF PhaseInv
  <2> QED
    BY <1>0, <2>2 DEF PhaseInv
<1>7. ConfInv'
  <2>1. \A t, sum : Matches(t, sum)' <=> Matches(t, sum)
    BY <1>0 DEF Matches
  <2>2. (Replacing' <=> Replacing) /\ (Replacing => ops'[writer].sum = ops[writer].sum)
    BY <1>0, <1>4 DEF Replacing
  <2>3. \A k \in Manager \ {Watcher} : ops'[k] # Idle => ops'[k].sum = Off
    BY <1>1, <1>2 DEF ConfInv
  <2> QED
    BY <1>0, <2>1, <2>2, <2>3 DEF ConfInv
<1> QED
  BY <1>0, <1>3, <1>5, <1>6, <1>7, MarkSame, GateSame

\* A manager takes the lock.
LEMMA LockKeeps ==
    ASSUME Inv, NEW m \in Manager, Lock(m)
    PROVE  Inv'
<1> USE DEF Inv
<1>0. /\ UNCHANGED <<conf, running, task, built, tasks, loops, inflight, wg, linked, gates, queue, work,
                     jammed, pool, calls, seen, unnoticed>>
      /\ ops[m].pc = "lock" /\ writer = "nobody" /\ writer' = m /\ \A c \in Caller : calls[c] = Idle
      /\ running = (ops[m].what # "Start")
  BY DEF Lock, engineVars, pollVars, Readers
<1>1. ops[m] \in [pc : {"lock"} \cup Busy, what : What, sum : Sum \cup {Off}] /\ ops[m] # Idle
  BY <1>0, OpTyped
<1>2. PICK o \in OpState :
        /\ ops' = [ops EXCEPT ![m] = o] /\ o.pc \in Busy /\ o.what = ops[m].what /\ o.sum = ops[m].sum
        /\ o.pc = IF o.what \in {"Start", "Refresh"} THEN "build" ELSE "stop"
  <2> DEFINE o == [ops[m] EXCEPT !.pc = IF ops[m].what \in {"Start", "Refresh"} THEN "build" ELSE "stop"]
  <2>1. /\ o \in OpState /\ o.pc \in Busy /\ o.what = ops[m].what /\ o.sum = ops[m].sum
        /\ o.pc = IF o.what \in {"Start", "Refresh"} THEN "build" ELSE "stop"
    BY <1>1 DEF OpState, Busy
  <2>2. ops' = [ops EXCEPT ![m] = o]
    BY DEF Lock
  <2> HIDE DEF o
  <2> QED
    BY <2>1, <2>2
<1>4. /\ ops' \in [Manager -> OpState] /\ ops'[m] = o
      /\ \A n \in Manager \ {m} : ops'[n] = ops[n]
  BY <1>2, OpChanges
<1>5. TypeInv'
  BY <1>0, <1>4 DEF TypeInv, EngineTypes, PollTypes, ActorTypes
<1>6. m # "nobody" /\ \A n \in Manager : ops[n].pc \notin Busy
  BY <1>0, CollectorAssumption DEF LockInv
<1>7. LockInv'
  BY <1>0, <1>2, <1>4, <1>6 DEF LockInv
<1>8. Stage(o)'
  <2>1. CASE o.what = "Start"
    BY <1>0, <1>2, <2>1 DEF Stage
  <2>2. CASE o.what # "Start"
    BY <1>0, <1>2, <2>2 DEF Stage, PhaseInv
  <2> QED
    BY <2>1, <2>2
<1>9. PhaseInv'
  BY <1>0, <1>4, <1>6, <1>8 DEF PhaseInv
<1>10. ConfInv'
  <2>1. Matches(task, seen)' <=> Matches(task, seen)
    BY <1>0 DEF Matches
  <2>2. ~Replacing' /\ ~Replacing
    BY <1>0, <1>2, <1>4 DEF Replacing
  <2>3. \A k \in Manager \ {Watcher} : ops'[k] # Idle => ops'[k].sum = Off
    BY <1>1, <1>2, <1>4 DEF ConfInv
  <2> QED
    BY <1>0, <2>1, <2>2, <2>3 DEF ConfInv
<1> QED
  BY <1>0, <1>5, <1>7, <1>9, <1>10, MarkSame, GateSame

\* The lock is given back.
LEMMA Unlocked ==
    ASSUME Inv, NEW m \in Manager, ops[m].pc \in Busy, ops' = [ops EXCEPT ![m] = Idle],
           writer' = "nobody", UNCHANGED calls
    PROVE  LockInv' /\ ops' \in [Manager -> OpState] /\ ops'[m] = Idle
           /\ \A n \in Manager \ {m} : ops'[n] = ops[n]
<1>1. Idle \in OpState /\ Idle.pc \notin Busy
  BY DEF OpState, Idle, Busy
<1>2. /\ ops' \in [Manager -> OpState] /\ ops'[m] = Idle
      /\ \A n \in Manager \ {m} : ops'[n] = ops[n]
  BY <1>1, OpChanges DEF Inv
<1>3. \A n \in Manager : ops'[n].pc \notin Busy
  BY <1>1, <1>2, Holder
<1>4. \A c \in Caller : calls'[c] = Idle
  BY Holder
<1> QED
  BY <1>2, <1>3, <1>4 DEF LockInv

\* The holder of the lock goes on to pc.
LEMMA OpGoes ==
    ASSUME Inv, NEW m \in Manager, ops[m].pc \in Busy, NEW pc \in Busy,
           ops' = [ops EXCEPT ![m].pc = pc], UNCHANGED <<writer, calls>>
    PROVE  /\ LockInv' /\ ops' \in [Manager -> OpState]
           /\ ops'[m].pc = pc /\ ops'[m].what = ops[m].what /\ ops'[m].sum = ops[m].sum
           /\ ops'[m] # Idle /\ \A n \in Manager \ {m} : ops'[n] = ops[n]
<1>1. ops[m] \in [pc : {"lock"} \cup Busy, what : What, sum : Sum \cup {Off}] /\ writer = m
  BY Holder
<1> DEFINE o == [ops[m] EXCEPT !.pc = pc]
<1>2. o \in OpState /\ o.pc = pc /\ o.what = ops[m].what /\ o.sum = ops[m].sum /\ o # Idle
  BY <1>1 DEF OpState, Busy, Idle
<1>3. ops' = [ops EXCEPT ![m] = o]
  OBVIOUS
<1> HIDE DEF o
<1>4. ops' \in [Manager -> OpState] /\ ops'[m] = o /\ \A n \in Manager \ {m} : ops'[n] = ops[n]
  BY <1>2, <1>3, OpChanges DEF Inv
<1>5. /\ \A n \in Manager : ops'[n].pc \in Busy => n = m
      /\ \A c \in Caller : calls'[c] = Idle
  BY <1>4, Holder
<1>6. LockInv'
  BY <1>1, <1>2, <1>4, <1>5 DEF LockInv
<1> QED
  BY <1>2, <1>4, <1>6

\* A pool that is started has idle workers, or those it had.
LEMMA PoolStarts ==
    ASSUME Inv, task = 0, StartPool, UNCHANGED <<queue, inflight, wg>>
    PROVE  /\ pool' = "on" /\ work' \in [Worker -> WorkState] /\ MarkInv'
           /\ \A w \in Worker : ~Polling(w)'
<1>1. /\ \A w \in Worker : ~Polling(w)
      /\ DOMAIN queue = {} /\ \A j \in Job : ~Marked(j)
  BY NoTask
<1>2. pool' = "on" /\ work' \in [Worker -> WorkState] /\ \A w \in Worker : ~Polling(w)'
  <2>1. CASE pool = "on"
    BY <1>1, <2>1 DEF StartPool, Inv, TypeInv, PollTypes, Polling
  <2>2. CASE pool # "on"
    BY <2>2 DEF StartPool, WorkState, Polling, Poll, Idle
  <2> QED
    BY <2>1, <2>2
<1>3. \A j \in Job : ~Marked(j)' /\ ~Waits(j)' /\ ~Runs(j)'
  BY <1>1, <1>2 DEF Marked, Waits, Runs
<1>4. MarkInv'
  BY <1>1, <1>2, <1>3 DEF Inv, MarkInv
<1> QED
  BY <1>2, <1>4

\* Start builds a task and starts it.
LEMMA StartKeeps ==
    ASSUME Inv, NEW m \in Manager, NEW gs \in SUBSET Group, BuildAndStart(m, gs)
    PROVE  Inv'
<1> USE DEF Inv
<1>0. /\ UNCHANGED <<conf, linked, inflight, wg, gates, queue, calls, jammed>>
      /\ ops[m].pc = "build" /\ ops[m].what = "Start" /\ built < MaxTasks
      /\ built' = built + 1 /\ task' = built + 1 /\ running' = TRUE
      /\ tasks' = [tasks EXCEPT ![built + 1] = NewTask(gs, "running")]
      /\ loops' = [loops EXCEPT ![built + 1] = gs]
      /\ seen' = (IF seen = Off THEN Starting ELSE seen)
      /\ writer' = "nobody" /\ ops' = [ops EXCEPT ![m] = Idle]
      /\ unnoticed' = FALSE /\ StartPool
  BY DEF BuildAndStart, opFrame
<1>1. /\ ops[m].pc \in Busy /\ ~running /\ task = 0
  <2>1. ops[m].pc \in Busy
    BY <1>0 DEF Busy
  <2>2. ~running
    BY <1>0, <2>1, Holder DEF Stage
  <2> QED
    BY <2>1, <2>2 DEF PhaseInv
<1>2. /\ pool' = "on" /\ work' \in [Worker -> WorkState] /\ MarkInv'
      /\ \A w \in Worker : ~Polling(w)'
  BY <1>0, <1>1, PoolStarts
<1>3. /\ LockInv' /\ ops' \in [Manager -> OpState] /\ ops'[m] = Idle
      /\ \A n \in Manager \ {m} : ops'[n] = ops[n]
  BY <1>0, <1>1, Unlocked
<1>4. /\ built + 1 \in Task /\ MaxTasks \in Nat /\ built \in Nat /\ conf \in Content
      /\ tasks \in [Task -> TaskState] /\ loops \in [Task -> SUBSET Group]
  BY <1>0, CollectorAssumption DEF TypeInv, EngineTypes, Task
<1> DEFINE new == NewTask(gs, "running")
<1>5. /\ new \in TaskState /\ new.conf = conf /\ new.state = "running"
  BY <1>4 DEF NewTask, TaskState
<1> HIDE DEF new
<1>6. /\ tasks' \in [Task -> TaskState] /\ tasks'[task'] = new
      /\ loops' \in [Task -> SUBSET Group] /\ \A t \in Task \ {task'} : loops'[t] = loops[t]
  BY <1>0, <1>4, <1>5 DEF new
<1>7. seen' \in Sum \cup {Off, Starting}
  BY <1>0 DEF TypeInv, EngineTypes
<1>8. TypeInv'
  <2>1. task' \in 0 .. MaxTasks /\ built' \in 0 .. MaxTasks
    BY <1>0, <1>4
  <2> QED
    BY <1>0, <1>2, <1>3, <1>6, <1>7, <2>1 DEF TypeInv, EngineTypes, PollTypes, ActorTypes
<1>9. PhaseInv'
  <2>1. \A t \in Task : t # task' => loops'[t] = {} /\ inflight'[t] = {}
    BY <1>0, <1>1, <1>6 DEF PhaseInv, Task
  <2> QED
    BY <1>0, <1>2, <1>4, <1>5, <1>6, <2>1 DEF PhaseInv
<1>10. GateInv'
  <2>1. \A c \in Caller : calls'[c] = Idle
    BY <1>0, <1>1, Holder
  <2>2. ((\A w \in Worker : ~Polling(w)) /\ (\A c \in Caller : calls[c] = Idle) => GateInv)'
    BY NobodyTalks, PTL
  <2> QED
    BY <1>2, <2>1, <2>2
<1>11. ConfInv'
  <2>1. Matches(task, seen)'
    BY <1>0, <1>5, <1>6 DEF Matches
  <2>2. \A n \in Manager \ {Watcher} : ops'[n] # Idle => ops'[n].sum = Off
    BY <1>3 DEF ConfInv
  <2> QED
    BY <1>0, <2>1, <2>2 DEF ConfInv, Replacing
<1> QED
  BY <1>2, <1>3, <1>8, <1>9, <1>10, <1>11

\* Refresh has built the task that is to replace the one there is.
LEMMA BuildKeeps ==
    ASSUME Inv, NEW m \in Manager, NEW gs \in SUBSET Group, Build(m, gs)
    PROVE  Inv'
<1> USE DEF Inv
<1>0. /\ UNCHANGED <<conf, writer, running, task, loops, linked, pool, work, seen, inflight, wg, gates,
                     queue, calls, jammed>>
      /\ unnoticed' = FALSE
      /\ ops[m].pc = "build" /\ ops[m].what = "Refresh" /\ built < MaxTasks
      /\ built' = built + 1
      /\ tasks' = [tasks EXCEPT ![built + 1] = NewTask(gs, "built")]
      /\ ops' = [ops EXCEPT ![m].pc = "stop"]
  BY DEF Build, opFrame
<1>1. ops[m].pc \in Busy /\ writer = m /\ m # "nobody" /\ task # 0 /\ tasks[task].state = "running"
  <2>1. ops[m].pc \in Busy
    BY <1>0 DEF Busy
  <2> QED
    BY <1>0, <2>1, Holder DEF Stage
<1>2. /\ LockInv' /\ ops' \in [Manager -> OpState]
      /\ ops'[m].pc = "stop" /\ ops'[m].what = "Refresh" /\ ops'[m].sum = ops[m].sum
      /\ ops'[m] # Idle /\ \A n \in Manager \ {m} : ops'[n] = ops[n]
  <2>1. "stop" \in Busy
    BY DEF Busy
  <2> QED
    BY <1>0, <1>1, <2>1, OpGoes
<1>3. /\ built + 1 \in Task /\ MaxTasks \in Nat /\ built \in Nat /\ conf \in Content /\ task \in Task
      /\ task <= built /\ tasks \in [Task -> TaskState]
  BY <1>0, <1>1, CollectorAssumption DEF TypeInv, EngineTypes, Task, PhaseInv
<1>4. NewTask(gs, "built") \in TaskState /\ NewTask(gs, "built").conf = conf
  BY <1>3 DEF NewTask, TaskState
<1>5. task # built + 1
  BY <1>3 DEF Task
<1>6. /\ tasks' \in [Task -> TaskState] /\ tasks'[built'].conf = conf /\ tasks'[task] = tasks[task]
  BY <1>0, <1>3, <1>4, <1>5
<1>7. TypeInv'
  <2>1. built' \in 0 .. MaxTasks
    BY <1>0, <1>3
  <2> QED
    BY <1>0, <1>2, <1>6, <2>1 DEF TypeInv, EngineTypes, PollTypes, ActorTypes
<1>8. PhaseInv'
  <2>1. task <= built'
    BY <1>0, <1>3 DEF Task
  <2>2. Stage(ops[m])'
    BY <1>0, <1>1, <1>2, <1>3, <1>5, <1>6 DEF Stage
  <2> QED
    BY <1>0, <1>1, <1>6, <2>1, <2>2 DEF PhaseInv
<1>9. ConfInv'
  <2>1. Replacing'
    BY <1>0, <1>1, <1>2 DEF Replacing
  <2>2. Matches(built, seen)' /\ Matches(built, ops[writer].sum)'
    BY <1>0, <1>6 DEF Matches
  <2>3. \A n \in Manager \ {Watcher} : ops'[n] # Idle => ops'[n].sum = Off
    BY <1>1, <1>2, Holder DEF ConfInv
  <2> QED
    BY <2>1, <2>2, <2>3 DEF ConfInv
<1> QED
  BY <1>0, <1>2, <1>7, <1>8, <1>9, MarkSame, GateSame

\* The database cannot be read: the lock is given back and nothing else is done.
LEMMA BuildFailsKeeps ==
    ASSUME Inv, NEW m \in Manager, BuildFails(m)
    PROVE  Inv'
<1> USE DEF Inv
<1>0. /\ UNCHANGED <<conf, running, task, built, tasks, loops, linked, unnoticed, inflight, wg, gates, queue, calls,
                     jammed, seen>>
      /\ ops[m].pc = "build" /\ writer' = "nobody" /\ ops' = [ops EXCEPT ![m] = Idle]
      /\ ops[m].pc \in Busy
  BY DEF BuildFails, opFrame, engineVars, SeenAfter, Busy
<1>1. /\ LockInv' /\ ops' \in [Manager -> OpState] /\ ops'[m] = Idle
      /\ \A n \in Manager \ {m} : ops'[n] = ops[n]
  BY <1>0, Unlocked
<1>2. /\ work' \in [Worker -> WorkState] /\ pool' \in {"off", "on", "quitting"} /\ MarkInv' /\ GateInv'
      /\ (task # 0 => pool' = "on")
      /\ (running => task # 0 /\ tasks[task].state = "running")
  <2>1. CASE ops[m].what = "Start"
    <3>1. ~running /\ task = 0 /\ StartPool
      BY <1>0, <2>1, Holder DEF Stage, PhaseInv, BuildFails
    <3>2. /\ pool' = "on" /\ work' \in [Worker -> WorkState] /\ MarkInv'
          /\ \A w \in Worker : ~Polling(w)'
      BY <1>0, <3>1, PoolStarts
    <3>3. \A c \in Caller : calls'[c] = Idle
      BY <1>0, Holder
    <3>4. ((\A w \in Worker : ~Polling(w)) /\ (\A c \in Caller : calls[c] = Idle) => GateInv)'
      BY NobodyTalks, PTL
    <3> QED
      BY <3>1, <3>2, <3>3, <3>4
  <2>2. CASE ops[m].what # "Start"
    <3>1. UNCHANGED <<pool, work>> /\ task # 0 /\ tasks[task].state = "running"
      BY <1>0, <2>2, Holder DEF Stage, BuildFails
    <3> QED
      BY <1>0, <3>1, MarkSame, GateSame DEF TypeInv, EngineTypes, PollTypes, PhaseInv
  <2> QED
    BY <2>1, <2>2
<1>3. TypeInv'
  BY <1>0, <1>1, <1>2 DEF TypeInv, EngineTypes, PollTypes, ActorTypes
<1>4. PhaseInv'
  BY <1>0, <1>2 DEF PhaseInv
<1>5. ConfInv'
  <2>1. Matches(task, seen)' <=> Matches(task, seen)
    BY <1>0 DEF Matches
  <2>2. ~Replacing' /\ ~Replacing
    BY <1>0, Holder DEF Replacing
  <2>3. \A n \in Manager \ {Watcher} : ops'[n] # Idle => ops'[n].sum = Off
    BY <1>1 DEF ConfInv
  <2> QED
    BY <1>0, <2>1, <2>2, <2>3 DEF ConfInv
<1> QED
  BY <1>1, <1>2, <1>3, <1>4, <1>5

\* quit of the task is closed.
LEMMA QuitKeeps ==
    ASSUME Inv, NEW m \in Manager, CloseQuit(m)
    PROVE  Inv'
<1> USE DEF Inv
<1>0. /\ UNCHANGED <<conf, writer, running, task, built, loops, linked, pool, work, unnoticed, inflight, wg, gates,
                     queue, calls, jammed>>
      /\ ops[m].pc = "stop"
      /\ tasks' = [tasks EXCEPT ![task].state = "stopping"]
      /\ seen' = (IF ops[m].what = "Refresh" THEN seen ELSE Off)
  BY DEF CloseQuit, opFrame
<1>1. /\ ops[m].pc \in Busy /\ writer = m /\ m # "nobody" /\ task \in Task
      /\ tasks[task].state = "running" /\ ops[m].what # "Start"
      /\ ops[m].what = "Refresh" => built \in Task /\ built # task
  <2>1. ops[m].pc \in Busy
    BY <1>0 DEF Busy
  <2> QED
    BY <1>0, <2>1, Holder DEF Stage, TypeInv, EngineTypes, Task
<1>2. /\ LockInv' /\ ops' \in [Manager -> OpState]
      /\ ops'[m].pc = "drain" /\ ops'[m].what = ops[m].what /\ ops'[m].sum = ops[m].sum
      /\ \A n \in Manager \ {m} : ops'[n] = ops[n] \/ (ops'[n] # Idle => ops'[n].sum = Off)
  <2>1. ASSUME NEW n \in Manager
        PROVE  /\ ops'[n] \in OpState
               /\ n = m => /\ ops'[n].pc = "drain" /\ ops'[n].what = ops[n].what
                           /\ ops'[n].sum = ops[n].sum
               /\ n # m => /\ ops'[n].pc = ops[n].pc
                           /\ ops'[n] = ops[n] \/ ops'[n].sum = Off
    <3>1. ops'[n] = IF n = m THEN [ops[n] EXCEPT !.pc = "drain"]
                    ELSE IF ops[m].what # "Refresh" /\ ops[n] # Idle THEN [ops[n] EXCEPT !.sum = Off]
                    ELSE ops[n]
      BY DEF CloseQuit
    <3>2. ops[n] \in OpState
      BY DEF TypeInv, ActorTypes
    <3>3. CASE n = m
      <4>1. ops[n] \in [pc : {"lock"} \cup Busy, what : What, sum : Sum \cup {Off}]
        BY <1>1, <3>3, Holder
      <4> QED
        BY <3>1, <3>3, <4>1 DEF OpState, Busy
    <3>4. CASE n # m /\ ops[n] # Idle
      <4>1. ops[n] \in [pc : {"lock"} \cup Busy, what : What, sum : Sum \cup {Off}]
        BY <3>2, <3>4 DEF OpState
      <4> QED
        BY <3>1, <3>2, <3>4, <4>1 DEF OpState
    <3>5. CASE n # m /\ ops[n] = Idle
      BY <3>1, <3>2, <3>5
    <3> QED
      BY <3>3, <3>4, <3>5
  <2>2. ops' \in [Manager -> OpState]
    <3>1. ops' = [n \in Manager |-> ops'[n]]
      BY DEF CloseQuit
    <3> QED
      BY <2>1, <3>1
  <2>3. \A n \in Manager : ops'[n].pc \in Busy <=> ops[n].pc \in Busy
    BY <1>1, <2>1 DEF Busy
  <2>4. LockInv'
    <3>1. \A c \in Caller : calls'[c] = Idle
      BY <1>0, <1>1, Holder
    <3> QED
      BY <1>0, <1>1, <2>3, <3>1 DEF LockInv
  <2> QED
    BY <2>1, <2>2, <2>4
<1>3. /\ tasks' \in [Task -> TaskState] /\ tasks'[task].state = "stopping"
      /\ \A t \in Task : tasks'[t].conf = tasks[t].conf
  <2>1. tasks \in [Task -> TaskState]
    BY DEF TypeInv, EngineTypes
  <2>2. [tasks[task] EXCEPT !.state = "stopping"] \in TaskState
    BY <1>1, <2>1 DEF TaskState
  <2> QED
    BY <1>0, <1>1, <2>1, <2>2 DEF TaskState
<1>4. seen' \in Sum \cup {Off, Starting}
  BY <1>0 DEF TypeInv, EngineTypes
<1>5. TypeInv'
  BY <1>0, <1>2, <1>3, <1>4 DEF TypeInv, EngineTypes, PollTypes, ActorTypes
<1>6. PhaseInv'
  <2>1. Stage(ops[m])'
    BY <1>0, <1>1, <1>2, <1>3 DEF Stage, Task
  <2> QED
    BY <1>0, <1>1, <1>3, <2>1 DEF PhaseInv
<1>7. ConfInv'
  <2>1. \A n \in Manager \ {Watcher} : ops'[n] # Idle => ops'[n].sum = Off
    <3>1. ops[m] # Idle
      BY <1>1, Holder
    <3> QED
      BY <1>2, <3>1 DEF ConfInv
  <2>2. \A t \in Task : \A sum : Matches(t, sum)' <=> Matches(t, sum)
    BY <1>0, <1>3 DEF Matches
  <2>3. CASE ops[m].what = "Refresh"
    <3>1. Replacing /\ Replacing' /\ built \in Task /\ seen' = seen
      BY <1>0, <1>1, <1>2, <2>3 DEF Replacing
    <3>2. Matches(built, seen)' /\ Matches(built, ops[writer].sum)'
      BY <1>0, <1>1, <1>2, <2>2, <3>1 DEF ConfInv
    <3> QED
      BY <2>1, <3>1, <3>2 DEF ConfInv
  <2>4. CASE ops[m].what # "Refresh"
    <3>1. ~Replacing' /\ seen' = Off
      BY <1>0, <1>1, <1>2, <2>4 DEF Replacing
    <3>2. Matches(task, seen)'
      BY <1>0, <3>1 DEF Matches, TypeInv, EngineTypes, Content, Off, Starting
    <3> QED
      BY <2>1, <3>1, <3>2 DEF ConfInv
  <2> QED
    BY <2>3, <2>4
<1> QED
  BY <1>0, <1>2, <1>5, <1>6, <1>7, MarkSame, GateSame

\* With every loop gone and nobody counted, the task has no polls.
LEMMA DrainedIsQuiet ==
    ASSUME Inv, task \in Task, Drained
    PROVE  /\ \A t \in Task : loops[t] = {} /\ inflight[t] = {}
           /\ \A w \in Worker : ~Polling(w)
<1> USE DEF Inv
<1>1. IsFiniteSet(inflight[task]) /\ Cardinality(inflight[task]) = 0
  BY DEF Drained, MarkInv
<1>2. inflight[task] = {}
  BY <1>1, FS_EmptySet
<1>3. \A t \in Task : loops[t] = {} /\ inflight[t] = {}
  BY <1>2 DEF Drained, PhaseInv
<1>4. \A j \in Job : ~Marked(j)
  BY <1>3 DEF Marked, Job
<1> QED
  BY <1>3, <1>4, PollTyped, PollNow

\* The drivers of the task are closed, and what replaces it is started.
LEMMA CloseKeeps ==
    ASSUME Inv, NEW m \in Manager, CloseDrivers(m)
    PROVE  Inv'
<1> USE DEF Inv
<1> DEFINE refresh == ops[m].what = "Refresh"
           stop == ops[m].what = "Stop"
<1>0. /\ UNCHANGED <<conf, built, work, unnoticed, inflight, wg, gates, queue, calls, jammed>>
      /\ ops[m].pc = "drain" /\ Drained
      /\ tasks' = [t \in Task |-> IF t = task THEN [tasks[t] EXCEPT !.state = "stopped"]
                                  ELSE IF refresh /\ t = built
                                  THEN [tasks[t] EXCEPT !.state = "running"] ELSE tasks[t]]
      /\ linked' = [linked EXCEPT ![task] = {}]
      /\ task' = (IF refresh THEN built ELSE 0)
      /\ loops' = (IF refresh THEN [loops EXCEPT ![built] = tasks[built].groups] ELSE loops)
      /\ running' = (refresh \/ stop)
      /\ pool' = (IF stop THEN "quitting" ELSE pool)
      /\ seen' = SeenAfter(m, TRUE)
  BY DEF CloseDrivers, opFrame
<1>1. /\ ops[m].pc \in Busy /\ writer = m /\ m # "nobody" /\ task \in Task
      /\ tasks[task].state = "stopping"
      /\ refresh => built \in Task /\ built # task
      /\ pool = "on" /\ \A c \in Caller : calls[c] = Idle
      /\ ops[m].sum \in Sum \cup {Off}
  <2>1. ops[m].pc \in Busy
    BY <1>0 DEF Busy
  <2>2. task \in Task
    BY <1>0, <2>1, Holder DEF Stage, TypeInv, EngineTypes, Task
  <2> QED
    BY <1>0, <2>1, <2>2, Holder DEF Stage, PhaseInv, Task
<1>2. /\ \A t \in Task : loops[t] = {} /\ inflight[t] = {}
      /\ \A w \in Worker : ~Polling(w)
  BY <1>0, <1>1, DrainedIsQuiet
<1>3. /\ LockInv' /\ ops' \in [Manager -> OpState] /\ writer' \in {m, "nobody"}
      /\ \A n \in Manager \ {m} : ops'[n] = ops[n]
      /\ stop => writer' = m /\ ops'[m].pc = "pool" /\ ops'[m].sum = ops[m].sum
      /\ ~stop => writer' = "nobody" /\ ops'[m] = Idle
  <2>1. CASE stop
    <3>1. ops' = [ops EXCEPT ![m].pc = "pool"] /\ UNCHANGED writer /\ "pool" \in Busy
      BY <2>1 DEF CloseDrivers, Busy
    <3> QED
      BY <1>0, <1>1, <2>1, <3>1, OpGoes
  <2>2. CASE ~stop
    <3>1. ops' = [ops EXCEPT ![m] = Idle] /\ writer' = "nobody"
      BY <2>2 DEF CloseDrivers
    <3> QED
      BY <1>0, <1>1, <2>2, <3>1, Unlocked
  <2> QED
    BY <2>1, <2>2
<1>4. /\ tasks' \in [Task -> TaskState] /\ \A t \in Task : tasks'[t].conf = tasks[t].conf
      /\ refresh => tasks'[built].state = "running"
  <2>1. tasks \in [Task -> TaskState]
    BY DEF TypeInv, EngineTypes
  <2>2. ASSUME NEW t \in Task
        PROVE  /\ tasks'[t] \in TaskState /\ tasks'[t].conf = tasks[t].conf
               /\ refresh /\ t = built => tasks'[t].state = "running"
    <3>1. /\ tasks[t] \in TaskState
          /\ [tasks[t] EXCEPT !.state = "stopped"] \in TaskState
          /\ [tasks[t] EXCEPT !.state = "running"] \in TaskState
      BY <2>1 DEF TaskState
    <3>2. tasks'[t] = IF t = task THEN [tasks[t] EXCEPT !.state = "stopped"]
                      ELSE IF refresh /\ t = built
                      THEN [tasks[t] EXCEPT !.state = "running"] ELSE tasks[t]
      BY <1>0
    <3> QED
      BY <1>1, <3>1, <3>2 DEF TaskState
  <2>3. tasks' = [t \in Task |-> tasks'[t]]
    BY <1>0
  <2>4. tasks' \in [Task -> TaskState]
    BY <2>2, <2>3
  <2> QED
    BY <1>1, <2>2, <2>4
<1>5. /\ loops' \in [Task -> SUBSET Group] /\ \A t \in Task : t # task' => loops'[t] = {}
      /\ linked' \in [Task -> SUBSET Device]
  <2>1. loops \in [Task -> SUBSET Group] /\ linked \in [Task -> SUBSET Device]
    BY DEF TypeInv, EngineTypes, PollTypes
  <2>2. linked' \in [Task -> SUBSET Device]
    BY <1>0, <1>1, <2>1
  <2>3. CASE refresh
    <3>1. tasks[built].groups \in SUBSET Group
      BY <1>1, <2>3 DEF TypeInv, EngineTypes, TaskState
    <3> QED
      BY <1>0, <1>1, <1>2, <2>1, <2>2, <2>3, <3>1
  <2>4. CASE ~refresh
    BY <1>0, <1>2, <2>1, <2>2, <2>4
  <2> QED
    BY <2>3, <2>4
<1>6. /\ seen' \in Sum \cup {Off, Starting} /\ (seen' = seen \/ seen' = ops[m].sum)
  BY <1>0, <1>1 DEF TypeInv, EngineTypes, SeenAfter
<1>7. TypeInv'
  <2>1. task' \in 0 .. MaxTasks /\ running' \in BOOLEAN /\ pool' \in {"off", "on", "quitting"}
    <3>1. built \in 0 .. MaxTasks /\ 0 \in 0 .. MaxTasks /\ pool \in {"off", "on", "quitting"}
      BY CollectorAssumption DEF TypeInv, EngineTypes
    <3> QED
      BY <1>0, <3>1
  <2>2. writer' \in Manager \cup {"nobody"}
    BY <1>3
  <2> QED
    BY <1>0, <1>3, <1>4, <1>5, <1>6, <2>1, <2>2 DEF TypeInv, EngineTypes, PollTypes, ActorTypes
<1>8. PhaseInv'
  <2>0. /\ refresh => ~stop /\ built # 0 /\ task' = built /\ pool' = "on" /\ running'
        /\ ~refresh => task' = 0 /\ (running' => stop)
    <3>1. refresh => ~stop
      OBVIOUS
    <3>2. running' <=> refresh \/ stop
      BY <1>0
    <3>3. refresh => built # 0
      BY <1>1 DEF Task
    <3>4. refresh => task' = built
      BY <1>0
    <3>5. ~stop => pool' = "on"
      BY <1>0, <1>1
    <3>6. ~refresh => task' = 0
      BY <1>0
    <3> QED
      BY <3>1, <3>2, <3>3, <3>4, <3>5, <3>6
  <2>1. task' # 0 => /\ running' /\ pool' = "on" /\ task' <= built'
                     /\ tasks'[task'].state = "running"
    <3>1. task' # 0 => refresh
      BY <2>0
    <3>2. built' = built /\ built \in Int
      BY <1>0 DEF TypeInv, EngineTypes
    <3> HIDE DEF refresh, stop
    <3> QED
      BY <1>4, <2>0, <3>1, <3>2
  <2>2. running' /\ writer' = "nobody" => task' # 0
    <3> HIDE DEF refresh, stop
    <3> QED
      BY <1>1, <1>3, <2>0
  <2>3. writer' # "nobody" => Stage(ops[writer])'
    BY <1>0, <1>1, <1>3 DEF Stage
  <2> QED
    BY <1>0, <1>2, <1>5, <2>1, <2>2, <2>3 DEF PhaseInv
<1>9. MarkInv'
  <2>1. \A w \in Worker : ~Polling(w)'
    BY <1>0, <1>2 DEF Polling
  <2> QED
    BY <1>0, MarkSame
<1>10. GateInv'
  <2>1. (\A w \in Worker : ~Polling(w)') /\ (\A c \in Caller : calls'[c] = Idle)
    BY <1>0, <1>1, <1>2 DEF Polling
  <2>2. ((\A w \in Worker : ~Polling(w)) /\ (\A c \in Caller : calls[c] = Idle) => GateInv)'
    BY NobodyTalks, PTL
  <2> QED
    BY <2>1, <2>2
<1>11. ConfInv'
  <2>1. ops[m] # Idle /\ \A n \in Manager \ {Watcher} : ops'[n] # Idle => ops'[n].sum = Off
    BY <1>1, <1>3, Holder DEF ConfInv
  <2>2. ~Replacing'
    BY <1>3 DEF Replacing
  <2>3. task' # 0 => Matches(task, seen)'
    <3>1. SUFFICES ASSUME task' # 0 PROVE Matches(task, seen)'
      OBVIOUS
    <3>2. Replacing /\ task' = built /\ tasks'[built].conf = tasks[built].conf
      BY <1>0, <1>1, <1>4, <3>1 DEF Replacing
    <3>3. Matches(built, seen) /\ Matches(built, ops[m].sum)
      BY <1>1, <3>2 DEF ConfInv
    <3> QED
      BY <1>0, <1>6, <3>2, <3>3 DEF Matches
  <2> QED
    BY <2>1, <2>2, <2>3 DEF ConfInv
<1> QED
  BY <1>3, <1>7, <1>8, <1>9, <1>10, <1>11

\* The pool has stopped.
LEMMA PoolKeeps ==
    ASSUME Inv, NEW m \in Manager, PoolStopped(m)
    PROVE  Inv'
<1> USE DEF Inv
<1>0. /\ UNCHANGED <<conf, task, built, tasks, loops, linked, work, seen, unnoticed, inflight, wg, gates, queue,
                     calls, jammed>>
      /\ pool' = "off" /\ running' = FALSE /\ writer' = "nobody" /\ ops' = [ops EXCEPT ![m] = Idle]
      /\ ops[m].pc = "pool"
  BY DEF PoolStopped, opFrame
<1>1. ops[m].pc \in Busy /\ task = 0
  <2>1. ops[m].pc \in Busy
    BY <1>0 DEF Busy
  <2> QED
    BY <1>0, <2>1, Holder DEF Stage
<1>2. /\ LockInv' /\ ops' \in [Manager -> OpState] /\ ops'[m] = Idle
      /\ \A n \in Manager \ {m} : ops'[n] = ops[n]
  BY <1>0, <1>1, Unlocked
<1>3. TypeInv'
  BY <1>0, <1>2 DEF TypeInv, EngineTypes, PollTypes, ActorTypes
<1>4. PhaseInv'
  BY <1>0, <1>1 DEF PhaseInv
<1>5. ConfInv'
  BY <1>0, <1>1, <1>2, CollectorAssumption DEF ConfInv, Replacing
<1> QED
  BY <1>0, <1>2, <1>3, <1>4, <1>5, MarkSame, GateSame

\* An edit: it is noticed, or it is recorded that it is not.
LEMMA EditKeeps ==
    ASSUME Inv, NEW c \in Content, Edit(c)
    PROVE  Inv'
<1> USE DEF Inv
<1>0. /\ UNCHANGED <<writer, running, task, built, tasks, loops, inflight, wg, linked, gates, queue, work,
                     jammed, pool, calls, ops, seen>>
      /\ conf' = c /\ unnoticed' = ((seen = Starting \/ c \in InHand) /\ ~Collected(c))
  BY DEF Edit, watchFrame, engineVars, pollVars
<1>1. TypeInv'
  BY <1>0 DEF TypeInv, EngineTypes, PollTypes, ActorTypes
<1>2. ~unnoticed' /\ ~Collected(c)
        => seen # Starting /\ seen # c /\ (ops[Watcher] # Idle => ops[Watcher].sum # c)
  BY <1>0 DEF InHand
<1>3. \A t \in {task, built} \ {0} : Matches(t, seen)'
  BY <1>0, <1>2 DEF Matches, Collected
<1>4. ConfInv'
  <2>1. Replacing' => Matches(built, ops[writer].sum)' /\ built # 0
    <3>1. SUFFICES ASSUME Replacing' PROVE Matches(built, ops[writer].sum)' /\ built # 0
      OBVIOUS
    <3>2. /\ writer \in Manager /\ ops[writer].pc \in Busy
          /\ ops[writer] \in [pc : {"lock"} \cup Busy, what : What, sum : Sum \cup {Off}]
          /\ ops[writer] # Idle
      BY <1>0, <3>1, OpTyped DEF Replacing, TypeInv, EngineTypes, Busy
    <3>3. c # Off /\ ops[writer].sum # Starting
      BY <3>2, CollectorAssumption DEF Content, Sum, Cut, Bare, Off, Starting
    <3>4. ~unnoticed' /\ ~Collected(c) => ops[writer].sum # c
      BY <1>2, <3>2, <3>3 DEF ConfInv
    <3>5. built \in Task /\ writer # "nobody"
      BY <1>0, <3>1 DEF Replacing, PhaseInv, Stage
    <3>6. built # 0
      BY <3>5, CollectorAssumption DEF Task
    <3> QED
      BY <1>0, <3>3, <3>4, <3>6 DEF Matches, Collected
  <2> QED
    BY <1>0, <1>3, <2>1 DEF ConfInv
<1> QED
  BY <1>0, <1>1, <1>4, LockSame, PhaseSame, MarkSame, GateSame

\* The watcher's first look.
LEMMA FirstLookKeeps ==
    ASSUME Inv, NEW sum \in Sum, FirstLook(sum)
    PROVE  Inv'
<1> USE DEF Inv
<1>0. /\ UNCHANGED <<conf, writer, running, task, built, tasks, loops, inflight, wg, linked, gates, queue, work,
                     jammed, pool, calls, ops, unnoticed>>
      /\ seen = Starting /\ seen' = sum
  BY DEF FirstLook, watchFrame, engineVars, pollVars
<1>1. TypeInv'
  BY <1>0 DEF TypeInv, EngineTypes, PollTypes, ActorTypes
<1>2. \A t : Matches(t, seen) => Matches(t, seen)'
  BY <1>0 DEF Matches
<1>3. \A t, s : Matches(t, s)' <=> Matches(t, s)
  BY <1>0 DEF Matches
<1>4. ConfInv'
  BY <1>0, <1>2, <1>3 DEF ConfInv, Replacing
<1> QED
  BY <1>0, <1>1, <1>4, LockSame, PhaseSame, MarkSame, GateSame

-------------------------------------------------------------------------------
\* At first nothing runs.
LEMMA InvInit == Init => Inv /\ plan \in Plan
<1> SUFFICES ASSUME Init PROVE Inv /\ plan \in Plan
  OBVIOUS
<1> USE DEF Init
<1>1. Idle.pc = "idle" /\ "nobody" \notin Manager /\ Watcher \in Manager /\ MaxTasks \in Nat /\ QueueSize \in Nat
  BY CollectorAssumption DEF Idle
<1>2. TypeInv
  <2>1. EngineTypes
    <3>1. 0 \in Content /\ [conf |-> 0, groups |-> {}, state |-> "none"] \in TaskState
      BY CollectorAssumption DEF TaskState, Content
    <3>2. 0 \in 0 .. MaxTasks
      BY <1>1
    <3> QED
      BY <3>1, <3>2 DEF EngineTypes
  <2>2. PollTypes
    <3>1. [pc |-> "off"] \in WorkState
      BY DEF WorkState
    <3>2. queue \in Seq(Job) /\ Len(queue) = 0
      OBVIOUS
    <3> QED
      BY <1>1, <3>1, <3>2 DEF PollTypes
  <2>3. ActorTypes
    BY DEF ActorTypes, CallState, OpState
  <2> QED
    BY <2>1, <2>2, <2>3 DEF TypeInv
<1>3. LockInv
  BY <1>1 DEF LockInv, Busy
<1>4. PhaseInv
  BY DEF PhaseInv
<1>5. \A w \in Worker : ~Polling(w)
  BY DEF Polling, Poll
<1>6. MarkInv
  <2>1. DOMAIN queue = {}
    OBVIOUS
  <2>2. \A j \in Job : ~Marked(j) /\ ~Waits(j) /\ ~Runs(j)
    BY <1>5, <2>1 DEF Marked, Waits, Runs, Job
  <2>3. \A t \in Task : IsFiniteSet(inflight[t]) /\ wg[t] = Cardinality(inflight[t])
    BY FS_EmptySet
  <2> QED
    BY <1>5, <2>1, <2>2, <2>3 DEF MarkInv
<1>7. GateInv
  BY <1>5, NobodyTalks
<1>8. ConfInv
  BY <1>1 DEF ConfInv, Replacing
<1>9. plan \in Plan
  BY CollectorAssumption
<1> QED
  BY <1>2, <1>3, <1>4, <1>6, <1>7, <1>8, <1>9 DEF Inv

\* A bound that is used up by one is a bound.
LEMMA UseKeeps ==
    ASSUME plan \in Plan, NEW what \in {"writes", "edits", "faults", "panics"}, Use(what)
    PROVE  plan' \in Plan
<1>1. plan[what] \in Nat /\ plan[what] > 0 /\ plan' = [plan EXCEPT ![what] = plan[what] - 1]
  BY DEF Use, Plan
<1>2. plan[what] - 1 \in Nat
  BY <1>1
<1> QED
  BY <1>1, <1>2 DEF Plan

\* Nothing changes but the plan.
LEMMA InvSame ==
    ASSUME Inv, UNCHANGED <<conf, writer, running, task, built, tasks, loops, inflight, wg, linked, gates, pool,
                            queue, work, calls, ops, seen, unnoticed, jammed>>
    PROVE  Inv'
<1>1. TypeInv'
  BY DEF Inv, TypeInv, EngineTypes, PollTypes, ActorTypes
<1> QED
  BY <1>1, LockSame, PhaseSame, MarkSame, GateSame, ConfSame DEF Inv

\* Each action of the collector keeps the invariant.
LEMMA InvNext == Inv /\ plan \in Plan /\ [Next]_vars => (Inv /\ plan \in Plan)'
<1> SUFFICES ASSUME Inv, plan \in Plan, [Next]_vars PROVE Inv' /\ plan' \in Plan
  OBVIOUS
<1>1. CASE Going /\ UNCHANGED plan
  <2>1. ASSUME NEW t \in Task, NEW g \in Group, LoopQuits(t, g) \/ \E d \in plan.devices : Schedule(t, g, d)
        PROVE  Inv'
    <3>1. plan.devices \subseteq Device
      BY DEF Plan
    <3> QED
      BY <2>1, <3>1, ScheduleKeeps, QuitsKeep
  <2>2. ASSUME NEW w \in Worker, PollStep(w) PROVE Inv'
    BY <2>2, TakeKeeps, QuitsKeep, TakeGateKeeps, ConnectedKeeps, FailsKeep, ReadOkKeeps, ReportKeeps
       DEF PollStep
  <2>3. ASSUME NEW c \in Caller, CallStep(c) \/ CallTimesOut(c) PROVE Inv'
    BY <2>3, CallersKeep DEF CallStep
  <2>4. ASSUME NEW m \in Manager, OpStep(m) PROVE Inv'
    BY <2>4, BeginsKeep, LockKeeps, StartKeeps, BuildKeeps, QuitKeeps, CloseKeeps, PoolKeeps DEF OpStep
  <2>5. ASSUME FirstLook(conf) \/ WatchTick(conf) PROVE Inv'
    <3>1. conf \in Sum
      BY DEF Inv, TypeInv, EngineTypes, Sum
    <3> QED
      BY <2>5, <3>1, FirstLookKeeps, BeginsKeep, CollectorAssumption
  <2> QED
    BY <1>1, <2>1, <2>2, <2>3, <2>4, <2>5 DEF Going
<1>2. CASE Ask
  <2>1. plan.managed \in Seq(What) /\ plan.managed # <<>> /\ plan' = [plan EXCEPT !.managed = Tail(plan.managed)]
    BY <1>2 DEF Ask, Plan
  <2>2. Head(plan.managed) \in What /\ Tail(plan.managed) \in Seq(What)
    BY <2>1
  <2>3. plan' \in Plan
    BY <2>1, <2>2 DEF Plan
  <2>4. Inv'
    BY <1>2, <2>2, BeginsKeep DEF Ask
  <2> QED
    BY <2>3, <2>4
<1>3. CASE Use("edits") /\ \E c \in Content : Edit(c)
  BY <1>3, UseKeeps, EditKeeps
<1>4. CASE Use("faults") /\ Fault
  <2>1. ASSUME NEW m \in Manager, BuildFails(m) PROVE Inv'
    BY <2>1, BuildFailsKeeps
  <2>2. ASSUME NEW m \in Manager, NEW gs \in SUBSET Group, BuildAndStart(m, gs) \/ Build(m, gs)
        PROVE  Inv'
    BY <2>2, StartKeeps, BuildKeeps
  <2>3. ASSUME NEW sum \in Cut, FirstLook(sum) \/ WatchTick(sum) PROVE Inv'
    <3>1. sum \in Sum
      BY DEF Sum
    <3> QED
      BY <2>3, <3>1, FirstLookKeeps, BeginsKeep, CollectorAssumption
  <2>4. Inv'
    BY <1>4, <2>1, <2>2, <2>3 DEF Fault
  <2> QED
    BY <1>4, <2>4, UseKeeps
<1>5. CASE Use("panics") /\ \E w \in Worker : ReadPanics(w)
  BY <1>5, UseKeeps, FailsKeep
<1>6. CASE Use("writes") /\ \E c \in Caller, d \in Device : CallBegin(c, d)
  BY <1>6, UseKeeps, CallersKeep
<1>7. CASE UNCHANGED vars
  BY <1>7, InvSame DEF vars
<1> QED
  BY <1>1, <1>2, <1>3, <1>4, <1>5, <1>6, <1>7 DEF Next

\* The invariant of the collector.
LEMMA InvHolds == Spec => [](Inv /\ plan \in Plan)
BY InvInit, InvNext, PTL DEF Spec

-------------------------------------------------------------------------------
(***************************************************************************)
(* Type correctness: what the engine, its tasks, groups, gates and workers *)
(* (collector, workerPool) keep stays of its type.                         *)
(***************************************************************************)
THEOREM TypeCorrect == Spec => []TypeOK
<1>1. Inv /\ plan \in Plan => TypeOK
  BY DEF Inv, TypeInv, EngineTypes, PollTypes, ActorTypes, TaskState, WorkState, CallState, OpState, Busy, TypeOK
<1> QED
  BY <1>1, InvHolds, PTL

(***************************************************************************)
(* A device is talked to by one party at a time, a poll or an HTTP write,  *)
(* through refreshes, stops, failures and panics; and never through the    *)
(* driver of a task that has been stopped (collector/task.go, control.go,  *)
(* deviceGate.go).                                                         *)
(***************************************************************************)
THEOREM DriversAreSafe == Spec => []DriverSafe
<1>1. Inv => DriverSafe
  <2> SUFFICES ASSUME Inv PROVE DriverSafe
    OBVIOUS
  <2> USE DEF Inv
  <2>1. \A d \in Device : \A a, b \in Talkers(d) : a = b
    <3>1. \A d \in Device : Talkers(d) = {w \in Worker : PollHolds(w, d)} \cup {c \in Caller : CallHolds(c, d)}
      BY DEF Talkers, PollHolds, CallHolds
    <3> QED
      BY <3>1 DEF GateInv
  <2>2. \A w \in Worker : work[w].pc \in Poll => tasks[work[w].job.task].state \in {"running", "stopping"}
    BY PollNow DEF Polling, PhaseInv, Task
  <2>3. \A c \in Caller : calls[c] # Idle => task # 0 /\ tasks[task].state = "running"
    BY DEF LockInv
  <2> QED
    BY <2>1, <2>2, <2>3 DEF DriverSafe
<1> QED
  BY <1>1, InvHolds, PTL

\* Of the places in the queue and the workers, exactly one has the job of a mark.
LEMMA OneEach ==
    ASSUME Inv, NEW t \in Task, NEW g \in Group, NEW d \in Device
    PROVE  Submitted(t, g, d) = IF <<g, d>> \in inflight[t] THEN 1 ELSE 0
<1> USE DEF Inv
<1> DEFINE job == [task |-> t, group |-> g, dev |-> d]
<1>1. PICK j \in Job : j = job
  BY DEF Job
<1> DEFINE A == {i \in DOMAIN queue : queue[i] = j}
           B == {w \in Worker : work[w].pc \in Poll /\ work[w].job = j}
<1>2. /\ Submitted(t, g, d) = Cardinality(A) + Cardinality(B)
      /\ Marked(j) <=> <<g, d>> \in inflight[t]
  BY <1>1 DEF Submitted, Marked
<1>3. CASE ~Marked(j)
  <2>1. A = {} /\ B = {}
    BY <1>3 DEF MarkInv, Waits, Runs, Polling
  <2>2. Cardinality(A) + Cardinality(B) = 0
    <3> HIDE DEF A, B
    <3> QED
      BY <2>1, FS_EmptySet
  <2> QED
    BY <1>2, <1>3, <2>2
<1>4. CASE Marked(j)
  <2>1. ((\E i : A = {i}) /\ B = {}) \/ (A = {} /\ \E w : B = {w})
    <3>1. CASE Waits(j)
      <4>1. PICK i \in DOMAIN queue : queue[i] = j
        BY <3>1 DEF Waits
      <4>2. A = {i} /\ B = {}
        BY <4>1 DEF MarkInv, Polling
      <4> QED
        BY <4>2
    <3>2. CASE Runs(j)
      <4>1. PICK w \in Worker : Polling(w) /\ work[w].job = j
        BY <3>2 DEF Runs
      <4>2. A = {} /\ B = {w}
        BY <4>1 DEF MarkInv, Polling
      <4> QED
        BY <4>2
    <3> QED
      BY <1>4, <3>1, <3>2 DEF MarkInv
  <2>2. Cardinality(A) + Cardinality(B) = 1
    <3> HIDE DEF A, B
    <3>1. CASE (\E i : A = {i}) /\ B = {}
      <4>1. Cardinality(A) = 1 /\ Cardinality(B) = 0
        BY <3>1, FS_EmptySet, FS_Singleton
      <4> QED
        BY <4>1
    <3>2. CASE A = {} /\ \E w : B = {w}
      <4>1. Cardinality(A) = 0 /\ Cardinality(B) = 1
        BY <3>2, FS_EmptySet, FS_Singleton
      <4> QED
        BY <4>1
    <3> QED
      BY <2>1, <3>1, <3>2
  <2> QED
    BY <1>2, <1>4, <2>2
<1> QED
  BY <1>3, <1>4

(***************************************************************************)
(* A device is marked by a group exactly while one poll of it waits or     *)
(* runs, a task counts its polls right, and the pool never stops over      *)
(* polls that wait: submit and the deferred calls of a poll                *)
(* (collector/task.go), WorkerPool (workerPool/workerPool.go).             *)
(***************************************************************************)
THEOREM MarksAreExact == Spec => []MarksMatch
<1>1. Inv => MarksMatch
  <2> SUFFICES ASSUME Inv PROVE MarksMatch
    OBVIOUS
  <2> USE DEF Inv
  <2>1. \A t \in Task : wg[t] = Cardinality(inflight[t])
    BY DEF MarkInv
  <2>2. pool # "on" => queue = <<>>
    <3>1. SUFFICES ASSUME pool # "on" PROVE queue = <<>>
      OBVIOUS
    <3>2. DOMAIN queue = {}
      BY <3>1, NoTask DEF PhaseInv
    <3>3. queue \in Seq(Job) /\ DOMAIN queue = 1 .. Len(queue) /\ Len(queue) \in Nat
      BY DEF TypeInv, PollTypes
    <3>4. Len(queue) = 0
      BY <3>2, <3>3
    <3> QED
      BY <3>3, <3>4
  <2> QED
    BY <2>1, <2>2, OneEach DEF MarksMatch
<1> QED
  BY <1>1, InvHolds, PTL

(***************************************************************************)
(* Once the watcher has nothing to do, the task is built from the          *)
(* configuration as it is: through failed builds and failed looks, whoever *)
(* refreshes, unless an edit came before the watcher's first look or       *)
(* brought back what it remembers: watchLoop, loadConfigChecksum and       *)
(* Refresh (collector/engine.go).                                          *)
(***************************************************************************)
THEOREM NewestIsCollected == Spec => []TaskFollowsConf
<1>1. Inv => TaskFollowsConf
  <2> SUFFICES ASSUME Inv, running, seen = conf, \A m \in Manager : ops[m] = Idle, ~unnoticed
               PROVE  tasks[task].conf = conf
    BY DEF TaskFollowsConf
  <2> USE DEF Inv
  <2>1. writer = "nobody"
    BY DEF LockInv, TypeInv, EngineTypes, Idle, Busy
  <2>2. task \in Task
    BY <2>1 DEF PhaseInv, TypeInv, EngineTypes, Task
  <2> QED
    BY <2>1, <2>2 DEF ConfInv, Matches, Replacing, Task
<1> QED
  BY <1>1, InvHolds, PTL

===============================================================================
