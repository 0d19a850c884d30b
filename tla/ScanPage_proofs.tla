----------------------------- MODULE ScanPage_proofs -----------------------------
(***************************************************************************)
(* Proofs about DeviceScan as ScanPage drives it, for any devices, callers,*)
(* batch sizes, plans and numbers of polls in flight.                      *)
(***************************************************************************)
EXTENDS ScanPage, SequenceTheorems, FiniteSetTheorems, TLAPS

(***************************************************************************)
(* What the engine does in a step of the composition, whoever asked for it.*)
(***************************************************************************)

\* A caller of Continue does not wait any more.
Released(c) ==
    /\ waiting' = [waiting EXCEPT ![c] = None]
    /\ UNCHANGED <<job, runs, jobs, batches, stop, evaluated, overtaken>>

ContinueStep(c) ==
    \/ \E id : ContinueBegin(c, id)
    \/ ContinueBatch(c) \/ ContinueNothingLeft(c) \/ ContinueRefused(c) \/ Released(c)

EngineNext ==
    \/ \E n \in Position, prefilter \in BOOLEAN : Submit(n, prefilter)
    \/ \E id : Lookup(id) \/ Cancel(id)
    \/ \E c \in Caller : ContinueStep(c)
    \/ Expire \/ StopBegin \/ StopReturn
    \/ \E r \in runs : RunStep(r)

\* The plan is used up and never leaves its type.
LEMMA PlanStep ==
    ASSUME plan \in Plan, [Next]_vars
    PROVE  plan' \in Plan
<1> USE DEF Plan, pastVars, pageVars
<1>1. CASE EngineStep BY <1>1 DEF EngineStep
<1>2. CASE JobExpires BY <1>2 DEF JobExpires, Fault
<1>3. CASE OtherClient BY <1>3 DEF OtherClient
<1>4. CASE Serve BY <1>4 DEF Serve, ServePoll, ServeStart, ServeContinue, ServeCancel
<1>5. CASE Answer
  <2>1. CASE \E s \in Slot : PollAnswer(s) BY <2>1 DEF PollAnswer, Fault
  <2>2. CASE StartAnswer BY <2>2 DEF StartAnswer, Fault
  <2>3. CASE ContinueAnswer
    BY <2>3 DEF ContinueAnswer, ContinueFailed, ContinueCanceled, Fault
  <2>4. CASE CancelAnswer BY <2>4 DEF CancelAnswer, Fault
  <2>5. QED BY <1>5, <2>1, <2>2, <2>3, <2>4 DEF Answer
<1>6. CASE Tick BY <1>6 DEF Tick
<1>7. CASE PollDeadline BY <1>7 DEF PollDeadline, Fault
<1>8. CASE User
  BY <1>8 DEF User, handleStart, handleContinue, handleCancel, handleProtocolChange, Leave, Click
<1>9. CASE UNCHANGED vars BY <1>9 DEF vars
<1>10. QED BY <1>1, <1>2, <1>3, <1>4, <1>5, <1>6, <1>7, <1>8, <1>9 DEF Next

\* Every step of the composition is a step of the engine, or leaves the engine alone.
LEMMA PageDrivesEngine ==
    ASSUME plan \in Plan, [Next]_vars
    PROVE  EngineNext \/ UNCHANGED scanVars
<1>p. plan.targets \in Position /\ plan.prefilter \in BOOLEAN BY DEF Plan
<1>c. ThisPage \in Caller BY ScanPageAssumption
<1>1. CASE EngineStep BY <1>1 DEF EngineStep, EngineNext
<1>2. CASE JobExpires BY <1>2 DEF JobExpires, EngineNext
<1>3. CASE OtherClient
  <2>1. CASE Submit(plan.targets, plan.prefilter) BY <2>1, <1>p DEF EngineNext
  <2>2. CASE \E c \in Other : ContinueBegin(c, job.id)
    BY <2>2 DEF EngineNext, Other, ContinueStep
  <2>3. CASE Cancel(job.id) BY <2>3 DEF EngineNext
  <2>4. CASE StopBegin \/ StopReturn BY <2>4 DEF EngineNext
  <2>5. ASSUME NEW c \in Other, ContinueTimeout(c) PROVE Released(c)
    BY <2>5 DEF ContinueTimeout, Released
  <2>6. CASE \E c \in Other : \/ ContinueBatch(c) \/ ContinueNothingLeft(c)
                              \/ ContinueRefused(c) \/ ContinueTimeout(c)
    BY <2>6, <2>5 DEF EngineNext, Other, ContinueStep
  <2>7. QED BY <1>3, <2>1, <2>2, <2>3, <2>4, <2>6 DEF OtherClient
<1>4. CASE Serve
  <2>1. ASSUME NEW s \in Slot, ServePoll(s) PROVE EngineNext
    <3>1. Lookup(polls[s].id) BY <2>1 DEF ServePoll
    <3>2. QED BY <3>1 DEF EngineNext
  <2>2. CASE ServeStart BY <2>2, <1>p DEF ServeStart, EngineNext
  <2>3. CASE ServeContinue
    <3>1. CASE ContinueBegin(ThisPage, continuing.id)
      BY <3>1, <1>c DEF EngineNext, ContinueStep
    <3>2. CASE Lookup(continuing.id) BY <3>2 DEF EngineNext
    <3>3. CASE \/ ContinueBatch(ThisPage) \/ ContinueNothingLeft(ThisPage)
               \/ ContinueRefused(ThisPage)
      BY <3>3, <1>c DEF EngineNext, ContinueStep
    <3>4. QED BY <2>3, <3>1, <3>2, <3>3 DEF ServeContinue
  <2>4. CASE ServeCancel
    <3>1. \E id : Cancel(id) BY <2>4 DEF ServeCancel
    <3>2. QED BY <3>1 DEF EngineNext
  <2>5. QED BY <1>4, <2>1, <2>2, <2>3, <2>4 DEF Serve
<1>5. CASE Answer
  <2>1. CASE \E s \in Slot : PollAnswer(s) BY <2>1 DEF PollAnswer
  <2>2. CASE StartAnswer BY <2>2 DEF StartAnswer
  <2>3. CASE ContinueAnswer
    <3>1. \/ UNCHANGED waiting
          \/ waiting' = [waiting EXCEPT ![ThisPage] = None]
      BY <2>3 DEF ContinueAnswer, ContinueFailed
    <3>2. UNCHANGED <<job, runs, jobs, batches, stop, evaluated, overtaken>>
      BY <2>3 DEF ContinueAnswer
    <3>3. QED BY <3>1, <3>2, <1>c DEF EngineNext, ContinueStep, Released, scanVars
  <2>4. CASE CancelAnswer BY <2>4 DEF CancelAnswer
  <2>5. QED BY <1>5, <2>1, <2>2, <2>3, <2>4 DEF Answer
<1>6. CASE Tick BY <1>6 DEF Tick
<1>7. CASE PollDeadline BY <1>7 DEF PollDeadline
<1>8. CASE User
  BY <1>8 DEF User, handleStart, handleContinue, handleCancel, handleProtocolChange, Leave
<1>9. CASE UNCHANGED vars BY <1>9 DEF vars
<1>10. QED BY <1>1, <1>2, <1>3, <1>4, <1>5, <1>6, <1>7, <1>8, <1>9 DEF Next

(***************************************************************************)
(* Types of the engine.                                                    *)
(***************************************************************************)

\* A batch is an interval of the targets, cut off at the last of them.
LEMMA PageEndBounds ==
    ASSUME NEW s \in Nat, NEW n \in 0 .. MaxTargets, s <= n
    PROVE  /\ PageEnd(s, n) \in s .. n
           /\ s + 1 .. PageEnd(s, n) \subseteq Position
BY DeviceScanAssumption DEF PageEnd, Position

\* The devices a probe adds to the list: each once, and none that the list has.
LEMMA AcceptedDevices ==
    ASSUME job.devices \in Seq(Dev), NEW found \in SUBSET Dev, NEW devices \in Accepted(found)
    PROVE  /\ devices \in Seq(Dev)
           /\ IsInjective(devices)
           /\ ToSet(devices) \cap ToSet(job.devices) = {}
<1> DEFINE new == found \ ToSet(job.devices)
           n == Cardinality(new)
<1>1. n \in Nat
  BY DeviceScanAssumption, FS_Subset, FS_CardinalityType
<1>2. /\ devices \in [1 .. n -> new]
      /\ \A i, j \in 1 .. n : i # j => devices[i] # devices[j]
  BY DEF Accepted, SetToSeqs
<1>3. /\ devices = [i \in 1 .. n |-> devices[i]] /\ DOMAIN devices = 1 .. n
      /\ \A i \in 1 .. n : devices[i] \in Dev /\ devices[i] \in new
  BY <1>2
<1> HIDE DEF n, new
<1>4. devices \in Seq(Dev)
  <2>1. [i \in 1 .. n |-> devices[i]] \in Seq(Dev) BY <1>1, <1>3, IsASeq
  <2>2. QED BY <2>1, <1>3
<1>5. IsInjective(devices) BY <1>2, <1>3 DEF IsInjective
<1>6. ToSet(devices) \subseteq new BY <1>3 DEF ToSet
<1>7. QED BY <1>4, <1>5, <1>6 DEF new

\* A set of targets that is not empty has a first one.
LEMMA SmallestPosition ==
    ASSUME NEW T, T \subseteq Nat, T # {}
    PROVE  \E x \in T : \A y \in T : x <= y
<1>1. PICK x \in T : \A y \in T : ~(<<y, x>> \in OpToRel(<, Nat))
  BY WFMin, NatLessThanWellFounded
<1>2. ASSUME NEW y \in T PROVE x <= y
  <2>1. x \in Nat /\ y \in Nat /\ ~(y < x) BY <1>1 DEF OpToRel
  <2>2. QED BY <2>1
<1>3. QED BY <1>2

\* The bookkeeping of an engine before the run of a batch: a step of the run.
LEMMA RunStepTypes ==
    ASSUME ScanTypeOK, NEW r \in runs, RunStep(r)
    PROVE  ScanTypeOK'
<1>r. r \in Run BY DEF ScanTypeOK
<1>d. job.devices \in Seq(Dev) BY DEF ScanTypeOK, Job
<1>c. ASSUME NEW t \in Position, NEW devices \in Seq(Dev), Count(r, t, devices)
      PROVE  job' \in Job /\ evaluated' \in SUBSET Position
  <2>1. CASE UNCHANGED <<job, evaluated>> BY <2>1 DEF ScanTypeOK
  <2>2. CASE /\ job' = [job EXCEPT !.scanned = @ + 1, !.devices = @ \o devices]
             /\ evaluated' = evaluated \cup {t}
    <3>1. job.devices \o devices \in Seq(Dev) BY <1>d, <1>c, ConcatProperties
    <3>2. job \in Job /\ job.scanned + 1 \in Nat BY DEF ScanTypeOK, Job
    <3>3. job' = [job EXCEPT !.scanned = job.scanned + 1,
                             !.devices = job.devices \o devices]
      BY <2>2, <3>2 DEF Job
    <3>4. job' \in Job BY <3>1, <3>2, <3>3 DEF Job
    <3>5. QED BY <3>4, <2>2, <1>c DEF ScanTypeOK
  <2>3. QED BY <1>c, <2>1, <2>2 DEF Count
<1>k. ASSUME NEW s \in Run, Change(r, s) PROVE runs' \in SUBSET Run
  BY <1>k DEF Change, ScanTypeOK
<1>1. CASE \E t \in r.unchecked : PrefilterKeep(r, t)
  <2> PICK t \in r.unchecked : PrefilterKeep(r, t) BY <1>1
  <2>1. [r EXCEPT !.unchecked = @ \ {t}, !.rest = @ \cup {t}] \in Run BY <1>r DEF Run
  <2>2. QED BY <2>1, <1>k DEF PrefilterKeep, ScanTypeOK, batchFrame
<1>2. CASE \E t \in r.unchecked : PrefilterDead(r, t)
  <2> PICK t \in r.unchecked : PrefilterDead(r, t) BY <1>2
  <2>1. [r EXCEPT !.unchecked = @ \ {t}] \in Run BY <1>r DEF Run
  <2>2. t \in Position BY <1>r DEF Run
  <2>3. <<>> \in Seq(Dev) BY EmptySeq
  <2>4. job' \in Job /\ evaluated' \in SUBSET Position
    BY <1>c, <2>2, <2>3 DEF PrefilterDead
  <2>5. QED BY <2>1, <2>4, <1>k DEF PrefilterDead, ScanTypeOK, batchFrame
<1>3. CASE PrefilterDone(r)
  <2>1. [r EXCEPT !.pc = "probe"] \in Run BY <1>r DEF Run
  <2>2. QED BY <2>1, <1>3, <1>k DEF PrefilterDone, ScanTypeOK, batchFrame
<1>4. CASE Dispatch(r)
  <2> DEFINE t == CHOOSE x \in r.rest : \A y \in r.rest : x <= y
             s == [r EXCEPT !.rest = @ \ {t}, !.flying = @ \cup {t}]
  <2>1. Change(r, s) /\ UNCHANGED <<job, evaluated, batchFrame>> BY <1>4 DEF Dispatch
  <2>2. \E x \in r.rest : \A y \in r.rest : x <= y
    <3>1. r.rest \subseteq Nat /\ r.rest # {}
      BY <1>4, <1>r DEF Dispatch, Run, Position
    <3>2. QED BY <3>1, SmallestPosition
  <2>3. t \in r.rest BY <2>2
  <2>4. t \in Position BY <2>3, <1>r DEF Run
  <2>5. s \in Run BY <2>4, <1>r DEF Run
  <2>6. QED BY <2>1, <2>5, <1>k DEF ScanTypeOK, batchFrame
<1>5. CASE BreakDispatch(r)
  <2>1. [r EXCEPT !.rest = {}] \in Run BY <1>r DEF Run
  <2>2. QED BY <2>1, <1>5, <1>k DEF BreakDispatch, ScanTypeOK, batchFrame
<1>6. CASE \E t \in r.flying : ProbeOne(r, t)
  <2> PICK t \in r.flying : ProbeOne(r, t) BY <1>6
  <2>1. [r EXCEPT !.flying = @ \ {t}] \in Run BY <1>r DEF Run
  <2>2. t \in Position BY <1>r DEF Run
  <2>3. PICK found \in {Answers[t], {}} : \E devices \in Accepted(found) : Count(r, t, devices)
    BY DEF ProbeOne
  <2>4. found \in SUBSET Dev BY <2>2, DeviceScanAssumption
  <2>5. PICK devices \in Accepted(found) : Count(r, t, devices) BY <2>3
  <2>6. devices \in Seq(Dev) BY <2>4, <1>d, AcceptedDevices
  <2>7. job' \in Job /\ evaluated' \in SUBSET Position BY <1>c, <2>2, <2>5, <2>6
  <2>8. QED BY <2>1, <2>7, <1>k DEF ProbeOne, ScanTypeOK, batchFrame
<1>7. CASE Finish(r)
  <2>1. [r EXCEPT !.pc = "close"] \in Run BY <1>r DEF Run
  <2>2. job' \in Job BY <1>7 DEF Finish, ScanTypeOK, Job, State
  <2>3. QED BY <2>1, <2>2, <1>7, <1>k DEF Finish, ScanTypeOK, batchFrame
<1>8. CASE CloseDone(r) BY <1>8 DEF CloseDone, ScanTypeOK, batchFrame
<1>9. QED BY <1>1, <1>2, <1>3, <1>4, <1>5, <1>6, <1>7, <1>8 DEF RunStep

\* The run of a batch counts targets, appends devices and ends the batch; the rest of
\* the job is not its business.
LEMMA RunKeepsBatch ==
    ASSUME ScanTypeOK, NEW r \in runs, RunStep(r)
    PROVE  /\ job'.batchStart = job.batchStart /\ job'.offset = job.offset
           /\ job'.requested = job.requested /\ job'.id = job.id /\ job'.batch = job.batch
           /\ job'.prefilter = job.prefilter /\ job'.expired = job.expired
           /\ job = NoJob => job' = job
           /\ UNCHANGED <<jobs, batches, waiting, stop, overtaken>>
<1>j. job \in Job /\ r.job # 0 BY DEF ScanTypeOK, Run
<1>1. ASSUME NEW t, NEW devices, Count(r, t, devices)
      PROVE  /\ job'.batchStart = job.batchStart /\ job'.offset = job.offset
             /\ job'.requested = job.requested /\ job'.id = job.id /\ job'.batch = job.batch
             /\ job'.prefilter = job.prefilter /\ job'.expired = job.expired
             /\ job = NoJob => job' = job
  <2>1. CASE Canceled(r) BY <1>1, <2>1 DEF Count
  <2>2. CASE ~Canceled(r)
    <3>1. job.id # 0 BY <2>2, <1>j DEF Canceled
    <3>2. job # NoJob BY <3>1 DEF NoJob
    <3>3. QED BY <1>1, <1>j, <2>2, <3>2 DEF Count, Job
  <2>3. QED BY <2>1, <2>2
<1>2. CASE \E t \in r.unchecked : PrefilterDead(r, t)
  BY <1>2, <1>1 DEF PrefilterDead, batchFrame
<1>3. CASE \E t \in r.flying : ProbeOne(r, t)
  BY <1>3, <1>1 DEF ProbeOne, batchFrame
<1>4. CASE Finish(r) BY <1>4, <1>j DEF Finish, batchFrame, Job, NoJob, Terminal
<1>5. CASE ~(\E t \in r.unchecked : PrefilterDead(r, t)) /\ ~(\E t \in r.flying : ProbeOne(r, t))
           /\ ~Finish(r)
  BY <1>5 DEF RunStep, PrefilterKeep, PrefilterDone, Dispatch, BreakDispatch, CloseDone, batchFrame
<1>6. QED BY <1>2, <1>3, <1>4, <1>5

\* A batch lies within the targets asked for.
JobBounds == job.batchStart <= job.offset /\ job.offset <= job.requested

\* Where the next batch of a job starts and ends.
LEMMA NextBatchBounds ==
    ASSUME ScanTypeOK, JobBounds
    PROVE  /\ NextStart \in 0 .. job.requested
           /\ PageEnd(NextStart, job.requested) \in NextStart .. job.requested
           /\ NextStart + 1 .. PageEnd(NextStart, job.requested) \subseteq Position
<1>1. /\ job.requested \in 0 .. MaxTargets /\ job.batchStart \in Nat /\ job.offset \in Nat
      /\ MaxTargets \in Nat
  BY DeviceScanAssumption DEF ScanTypeOK, Job
<1>2. NextStart \in 0 .. job.requested BY <1>1 DEF NextStart, JobBounds
<1>3. NextStart \in Nat /\ NextStart <= job.requested BY <1>2, <1>1
<1>4. QED BY <1>1, <1>2, <1>3, PageEndBounds

\* The engine keeps its types, and its batches within bounds.
LEMMA EngineStepTypes ==
    ASSUME ScanTypeOK, JobBounds, EngineNext
    PROVE  ScanTypeOK' /\ JobBounds'
<1>j. job \in Job BY DEF ScanTypeOK
<1>n. NoJob \in Job BY EmptySeq, DeviceScanAssumption DEF NoJob, Job
<1>1. ASSUME NEW n \in Position, NEW prefilter \in BOOLEAN, Submit(n, prefilter)
      PROVE  ScanTypeOK' /\ JobBounds'
  <2>1. n \in 0 .. MaxTargets /\ 0 \in Nat /\ 0 <= n BY DeviceScanAssumption DEF Position
  <2>2. /\ PageEnd(0, n) \in 0 .. n
        /\ 0 + 1 .. PageEnd(0, n) \subseteq Position
    BY <2>1, PageEndBounds
  <2>3. job' \in Job BY <1>1, <2>1, <2>2, EmptySeq DEF Submit, Job, State, ScanTypeOK
  <2>4. NewRun(jobs + 1, prefilter, 1 .. PageEnd(0, n)) \in Run
    BY <2>2 DEF NewRun, Run, ScanTypeOK
  <2>5. JobBounds' BY <2>1, <2>2, <1>1 DEF Submit, JobBounds
  <2>6. QED BY <1>1, <2>3, <2>4, <2>5 DEF Submit, ScanTypeOK
<1>2. ASSUME NEW id, Lookup(id) \/ Cancel(id) PROVE ScanTypeOK' /\ JobBounds'
  <2>1. job' \in Job BY <1>2, <1>j, <1>n DEF Lookup, Cancel, Job, State
  <2>2. JobBounds' BY <1>2, <1>j DEF Lookup, Cancel, JobBounds, Job, NoJob
  <2>3. QED BY <2>1, <2>2, <1>2 DEF Lookup, Cancel, ScanTypeOK
<1>3. ASSUME NEW c \in Caller, ContinueStep(c) PROVE ScanTypeOK' /\ JobBounds'
  <2>1. CASE \E id : ContinueBegin(c, id)
    <3> PICK id : ContinueBegin(c, id) BY <2>1
    <3>1. [job |-> id, batch |-> job.batch] \in [job : Nat, batch : Nat]
      BY <1>j DEF ContinueBegin, MayContinue, Found, Job
    <3>2. waiting' \in [Caller -> [job : Nat, batch : Nat]]
      BY <3>1 DEF ContinueBegin, ScanTypeOK
    <3>3. QED BY <3>2 DEF ContinueBegin, ScanTypeOK, JobBounds
  <2>w. ASSUME waiting' = [waiting EXCEPT ![c] = None]
        PROVE  waiting' \in [Caller -> [job : Nat, batch : Nat]]
    BY <2>w DEF None, ScanTypeOK
  <2>2. CASE ContinueBatch(c)
    <3>1. /\ NextStart \in 0 .. job.requested
          /\ PageEnd(NextStart, job.requested) \in NextStart .. job.requested
          /\ NextStart + 1 .. PageEnd(NextStart, job.requested) \subseteq Position
          /\ job.requested \in Nat
      BY NextBatchBounds, <1>j, DeviceScanAssumption DEF Job
    <3>2. job.id \in Nat \ {0} BY <2>2, <1>j DEF ContinueBatch, MayContinue, Found, Job
    <3>3. NewRun(job.id, job.prefilter, NextStart + 1 .. PageEnd(NextStart, job.requested)) \in Run
      BY <3>1, <3>2, <1>j DEF NewRun, Run, ScanTypeOK, Job
    <3>4. job' \in Job
      <4> DEFINE s == NextStart
                 e == PageEnd(NextStart, job.requested)
      <4>1. s \in Nat /\ e \in Nat /\ batches + 1 \in Nat BY <3>1 DEF ScanTypeOK
      <4>2. job' = [job EXCEPT !.state = "running", !.batchStart = s, !.offset = e,
                               !.scanned = 0, !.batch = batches + 1]
        BY <2>2 DEF ContinueBatch
      <4> HIDE DEF s, e
      <4>3. QED BY <1>j, <4>1, <4>2 DEF Job, State
    <3>5. JobBounds' BY <2>2, <3>1, <1>j DEF ContinueBatch, JobBounds, Job
    <3>6. QED BY <2>2, <2>w, <3>3, <3>4, <3>5 DEF ContinueBatch, ContinueGoesOn, ScanTypeOK
  <2>3. CASE ContinueNothingLeft(c)
    BY <2>3, <2>w DEF ContinueNothingLeft, ContinueGoesOn, ScanTypeOK, JobBounds
  <2>4. CASE ContinueRefused(c)
    <3>1. job' \in Job BY <2>4, <1>j, <1>n DEF ContinueRefused
    <3>2. JobBounds' BY <2>4, <1>j DEF ContinueRefused, JobBounds, Job, NoJob
    <3>3. QED BY <3>1, <3>2, <2>4, <2>w DEF ContinueRefused, ContinueGoesOn, ScanTypeOK
  <2>5. CASE Released(c) BY <2>5, <2>w DEF Released, ScanTypeOK, JobBounds
  <2>6. QED BY <1>3, <2>1, <2>2, <2>3, <2>4, <2>5 DEF ContinueStep
<1>4. CASE Expire
  <2>1. job' \in Job /\ JobBounds' BY <1>4, <1>j DEF Expire, Job, JobBounds
  <2>2. QED BY <2>1, <1>4 DEF Expire, ScanTypeOK
<1>5. CASE StopBegin \/ StopReturn
  <2>1. job' \in Job /\ JobBounds'
    BY <1>5, <1>j DEF StopBegin, StopReturn, Job, State, JobBounds
  <2>2. QED BY <2>1, <1>5 DEF StopBegin, StopReturn, ScanTypeOK
<1>6. ASSUME NEW r \in runs, RunStep(r) PROVE ScanTypeOK' /\ JobBounds'
  <2>1. /\ job'.batchStart = job.batchStart /\ job'.offset = job.offset
        /\ job'.requested = job.requested
    BY <1>6, RunKeepsBatch
  <2>2. QED BY <2>1, <1>6, RunStepTypes DEF JobBounds
<1>7. QED BY <1>1, <1>2, <1>3, <1>4, <1>5, <1>6 DEF EngineNext

(***************************************************************************)
(* What a run holds, and what a step of it does.                           *)
(***************************************************************************)

\* Targets of a batch that are not done with.
Left(r) == r.unchecked \cup r.rest \cup r.flying

\* A run holds each of its targets in one place, and goes through its phases in turn.
Tidy(r) ==
    /\ r.unchecked \cap r.rest = {} /\ r.unchecked \cap r.flying = {}
    /\ r.rest \cap r.flying = {}
    /\ r.pc = "prefilter" => r.flying = {}
    /\ r.pc # "prefilter" => r.unchecked = {}
    /\ r.pc = "close" => Left(r) = {}

\* Run s is what becomes of run r.
Succeeds(r, s) == s \in Run /\ s.job = r.job /\ s.batch = r.batch /\ Tidy(s)

\* Run r goes on, and no target is done with; a cancelled one may drop targets.
Moves(r, s) ==
    /\ Change(r, s) /\ r.pc # "close" /\ s.pc # "close"
    /\ Left(s) = Left(r) \/ (Canceled(r) /\ Left(s) \subseteq Left(r))
    /\ UNCHANGED <<job, evaluated>>

\* Target t of run r is evaluated and counted.
Evaluates(r, s, t, devices) ==
    /\ ~Canceled(r) /\ r.pc # "close" /\ Change(r, s) /\ s.pc # "close"
    /\ t \in Left(r) /\ Left(s) = Left(r) \ {t}
    /\ job' = [job EXCEPT !.scanned = @ + 1, !.devices = @ \o devices]
    /\ evaluated' = evaluated \cup {t}
    /\ devices \in Seq(Dev) /\ IsInjective(devices)
    /\ ToSet(devices) \cap ToSet(job.devices) = {}

Ends(r, s) ==
    /\ Change(r, s) /\ Left(r) = {} /\ r.pc # "close" /\ s.pc = "close"
    /\ job' = IF job.id = r.job /\ ~Terminal THEN [job EXCEPT !.state = "done"] ELSE job
    /\ UNCHANGED evaluated

\* Every step of a run is one of these, or its end.
LEMMA RunStepEffect ==
    ASSUME ScanTypeOK, NEW r \in runs, Tidy(r), RunStep(r)
    PROVE  \/ \E s : /\ Succeeds(r, s)
                     /\ \/ Moves(r, s)
                        \/ \E t, devices : Evaluates(r, s, t, devices)
                        \/ Ends(r, s)
           \/ r.pc = "close" /\ runs' = runs \ {r} /\ UNCHANGED <<job, evaluated>>
<1>r. r \in Run BY DEF ScanTypeOK
<1>d. job.devices \in Seq(Dev) BY DEF ScanTypeOK, Job
<1>c. ASSUME NEW s, NEW t \in Left(r), NEW devices, Count(r, t, devices),
             Change(r, s), Left(s) = Left(r) \ {t}, r.pc # "close", s.pc # "close",
             devices \in Seq(Dev), IsInjective(devices),
             ToSet(devices) \cap ToSet(job.devices) = {}
      PROVE  Moves(r, s) \/ Evaluates(r, s, t, devices)
  BY <1>c DEF Count, Moves, Evaluates
<1>1. CASE \E t \in r.unchecked : PrefilterKeep(r, t)
  <2> PICK t \in r.unchecked : PrefilterKeep(r, t) BY <1>1
  <2> DEFINE s == [r EXCEPT !.unchecked = @ \ {t}, !.rest = @ \cup {t}]
  <2>1. Succeeds(r, s) BY <1>r DEF Succeeds, Tidy, Left, Run, PrefilterKeep
  <2>2. Moves(r, s) BY <1>r DEF Moves, Left, Run, PrefilterKeep
  <2>3. QED BY <2>1, <2>2
<1>2. CASE \E t \in r.unchecked : PrefilterDead(r, t)
  <2> PICK t \in r.unchecked : PrefilterDead(r, t) BY <1>2
  <2> DEFINE s == [r EXCEPT !.unchecked = @ \ {t}]
  <2>1. Succeeds(r, s) BY <1>r DEF Succeeds, Tidy, Left, Run, PrefilterDead
  <2>2. /\ t \in Left(r) /\ Left(s) = Left(r) \ {t} /\ Change(r, s)
        /\ r.pc # "close" /\ s.pc # "close" /\ Count(r, t, <<>>)
    BY <1>r DEF Tidy, Left, Run, PrefilterDead
  <2>3. /\ <<>> \in Seq(Dev) /\ IsInjective(<<>>)
        /\ ToSet(<<>>) \cap ToSet(job.devices) = {}
    BY EmptySeq DEF IsInjective, ToSet
  <2>4. QED BY <2>1, <2>2, <2>3, <1>c
<1>3. CASE PrefilterDone(r)
  <2> DEFINE s == [r EXCEPT !.pc = "probe"]
  <2>1. Succeeds(r, s) BY <1>3, <1>r DEF Succeeds, Tidy, Left, Run, PrefilterDone
  <2>2. Moves(r, s) BY <1>3, <1>r DEF Moves, Left, Run, PrefilterDone
  <2>3. QED BY <2>1, <2>2
<1>4. CASE Dispatch(r)
  <2> DEFINE t == CHOOSE x \in r.rest : \A y \in r.rest : x <= y
             s == [r EXCEPT !.rest = @ \ {t}, !.flying = @ \cup {t}]
  <2>1. Change(r, s) /\ r.pc = "probe" /\ UNCHANGED <<job, evaluated>> BY <1>4 DEF Dispatch, batchFrame
  <2>2. \E x \in r.rest : \A y \in r.rest : x <= y
    <3>1. r.rest \subseteq Nat /\ r.rest # {}
      BY <1>4, <1>r DEF Dispatch, Run, Position
    <3>2. QED BY <3>1, SmallestPosition
  <2>3. t \in r.rest BY <2>2
  <2> HIDE DEF t
  <2>4. Succeeds(r, s) BY <2>1, <2>3, <1>r DEF Succeeds, Tidy, Left, Run
  <2>5. Moves(r, s) BY <2>1, <2>3, <1>r DEF Moves, Left, Run
  <2>6. QED BY <2>4, <2>5
<1>5. CASE BreakDispatch(r)
  <2> DEFINE s == [r EXCEPT !.rest = {}]
  <2>1. Succeeds(r, s) BY <1>5, <1>r DEF Succeeds, Tidy, Left, Run, BreakDispatch
  <2>2. Moves(r, s) BY <1>5, <1>r DEF Moves, Left, Run, BreakDispatch
  <2>3. QED BY <2>1, <2>2
<1>6. CASE \E t \in r.flying : ProbeOne(r, t)
  <2> PICK t \in r.flying : ProbeOne(r, t) BY <1>6
  <2> DEFINE s == [r EXCEPT !.flying = @ \ {t}]
  <2>1. Succeeds(r, s) BY <1>r DEF Succeeds, Tidy, Left, Run, ProbeOne
  <2>2. t \in Position BY <1>r DEF Run
  <2>3. PICK found \in {Answers[t], {}} : \E devices \in Accepted(found) : Count(r, t, devices)
    BY DEF ProbeOne
  <2>4. found \in SUBSET Dev BY <2>2, DeviceScanAssumption
  <2>5. PICK devices \in Accepted(found) : Count(r, t, devices) BY <2>3
  <2>6. /\ t \in Left(r) /\ Left(s) = Left(r) \ {t} /\ Change(r, s)
        /\ r.pc # "close" /\ s.pc # "close"
    BY <1>r DEF Tidy, Left, Run, ProbeOne
  <2>7. /\ devices \in Seq(Dev) /\ IsInjective(devices)
        /\ ToSet(devices) \cap ToSet(job.devices) = {}
    BY <2>4, <1>d, AcceptedDevices
  <2>8. QED BY <2>1, <2>5, <2>6, <2>7, <1>c
<1>7. CASE Finish(r)
  <2> DEFINE s == [r EXCEPT !.pc = "close"]
  <2>1. Succeeds(r, s) BY <1>7, <1>r DEF Succeeds, Tidy, Left, Run, Finish
  <2>2. Ends(r, s) BY <1>7, <1>r DEF Ends, Left, Run, Finish, Tidy, batchFrame
  <2>3. QED BY <2>1, <2>2
<1>8. CASE CloseDone(r) BY <1>8 DEF CloseDone, batchFrame
<1>9. QED BY <1>1, <1>2, <1>3, <1>4, <1>5, <1>6, <1>7, <1>8 DEF RunStep

(***************************************************************************)
(* Which job and batch a run belongs to.                                   *)
(***************************************************************************)

\* The engine knows its newest job only, with the batch started last, or none.
JobInv ==
    /\ job.id \in {0, jobs} /\ (job.id = 0 => job = NoJob)
    /\ job.id # 0 => job.batch = batches /\ batches > 0 /\ job.state \in State

\* A batch has one run.
RunsInv ==
    /\ \A r \in runs : r.job <= jobs /\ r.batch <= batches /\ Tidy(r)
    /\ \A r, q \in runs : r.batch = q.batch => r = q

\* The runs of the newest job are those of its last batch, unless one was overtaken.
OneRun == ~overtaken => \A r \in runs : r.job = jobs => r.batch = batches

EngineInv == ScanTypeOK /\ JobBounds /\ JobInv /\ RunsInv

LEMMA JobStep ==
    ASSUME ScanTypeOK, JobInv, RunsInv, EngineNext
    PROVE  JobInv'
<1>j. job \in Job /\ jobs \in Nat /\ batches \in Nat BY DEF ScanTypeOK
<1>1. ASSUME NEW n \in Position, NEW prefilter \in BOOLEAN, Submit(n, prefilter) PROVE JobInv'
  BY <1>1, <1>j DEF Submit, JobInv, State
<1>2. ASSUME NEW id, Lookup(id) \/ Cancel(id) PROVE JobInv'
  BY <1>2, <1>j DEF Lookup, Cancel, JobInv, State, Job, NoJob, Terminal
<1>3. ASSUME NEW c \in Caller, ContinueStep(c) PROVE JobInv'
  <2>1. CASE ContinueBatch(c)
    BY <2>1, <1>j DEF ContinueBatch, MayContinue, Found, JobInv, State, Job
  <2>2. CASE ~ContinueBatch(c)
    <3>1. job' = job \/ job' = NoJob
      BY <1>3, <2>2 DEF ContinueStep, ContinueBegin, ContinueNothingLeft, ContinueRefused, Released
    <3>2. jobs' = jobs /\ batches' = batches
      BY <1>3, <2>2 DEF ContinueStep, ContinueBegin, ContinueNothingLeft, ContinueRefused, Released
    <3>3. QED BY <3>1, <3>2 DEF JobInv, NoJob
  <2>3. QED BY <2>1, <2>2
<1>4. CASE Expire BY <1>4, <1>j DEF Expire, JobInv, Job
<1>5. CASE StopBegin \/ StopReturn
  BY <1>5, <1>j DEF StopBegin, StopReturn, JobInv, State, Job, NoJob, Terminal
<1>6. ASSUME NEW r \in runs, RunStep(r) PROVE JobInv'
  <2>1. /\ job'.id = job.id /\ job'.batch = job.batch /\ (job = NoJob => job' = job)
        /\ jobs' = jobs /\ batches' = batches
    BY <1>6, RunKeepsBatch
  <2>2. job'.state \in {job.state, "done"}
    <3>0. Tidy(r) BY DEF RunsInv
    <3>1. CASE r.pc = "close" /\ runs' = runs \ {r} /\ UNCHANGED <<job, evaluated>> BY <3>1
    <3>2. ASSUME NEW s, Moves(r, s) PROVE job'.state \in {job.state, "done"}
      BY <3>2 DEF Moves
    <3>3. ASSUME NEW s, NEW t, NEW devices, Evaluates(r, s, t, devices)
          PROVE job'.state \in {job.state, "done"}
      BY <3>3, <1>j DEF Evaluates, Job
    <3>4. ASSUME NEW s, Ends(r, s) PROVE job'.state \in {job.state, "done"}
      BY <3>4, <1>j DEF Ends, Job
    <3>5. QED BY <1>6, <3>0, <3>1, <3>2, <3>3, <3>4, RunStepEffect
  <2>3. QED BY <2>1, <2>2 DEF JobInv, State
<1>7. QED BY <1>1, <1>2, <1>3, <1>4, <1>5, <1>6 DEF EngineNext

\* Only a submitted or continued job gets a new run, and it is the run of a new batch.
LEMMA RunsStep ==
    ASSUME ScanTypeOK, JobInv, RunsInv, EngineNext
    PROVE  RunsInv'
<1>j. job \in Job /\ jobs \in Nat /\ batches \in Nat BY DEF ScanTypeOK
<1>t. \A r \in runs : r \in Run /\ r.job \in Nat /\ r.batch \in Nat BY DEF ScanTypeOK, Run
<1>n. ASSUME NEW id \in Nat, NEW prefilter, NEW scope, id <= jobs',
             jobs <= jobs', jobs' \in Nat, batches' = batches + 1,
             runs' = runs \cup {NewRun(id, prefilter, scope)}
      PROVE  RunsInv'
  <2> DEFINE new == NewRun(id, prefilter, scope)
  <2>1. Tidy(new) /\ new.job = id /\ new.batch = batches + 1
    BY DEF NewRun, Tidy, Left
  <2>2. \A r \in runs : r.batch # new.batch BY <2>1, <1>t, <1>j DEF RunsInv
  <2> HIDE DEF new
  <2>3. \A r \in runs' : r.job <= jobs' /\ r.batch <= batches' /\ Tidy(r)
    <3> TAKE r \in runs'
    <3>1. CASE r \in runs BY <3>1, <1>n, <1>t, <1>j DEF RunsInv
    <3>2. CASE r = new BY <3>2, <2>1, <1>n, <1>j
    <3>3. QED BY <3>1, <3>2, <1>n DEF new
  <2>4. \A r, q \in runs' : r.batch = q.batch => r = q
    BY <1>n, <2>2 DEF RunsInv, new
  <2>5. QED BY <2>3, <2>4 DEF RunsInv
<1>1. ASSUME NEW n \in Position, NEW prefilter \in BOOLEAN, Submit(n, prefilter) PROVE RunsInv'
  BY <1>1, <1>n, <1>j DEF Submit
<1>2. ASSUME NEW c \in Caller, ContinueBatch(c) PROVE RunsInv'
  <2>1. job.id \in Nat /\ job.id <= jobs BY <1>j DEF Job, JobInv
  <2>2. QED BY <1>2, <1>n, <1>j, <2>1 DEF ContinueBatch
<1>3. ASSUME NEW r \in runs, RunStep(r) PROVE RunsInv'
  <2>0. Tidy(r) /\ jobs' = jobs /\ batches' = batches BY <1>3, RunKeepsBatch DEF RunsInv
  <2>1. CASE runs' = runs \ {r} BY <2>0, <2>1 DEF RunsInv
  <2>2. ASSUME NEW s, Succeeds(r, s), Change(r, s) PROVE RunsInv'
    <3>1. s.job = r.job /\ s.batch = r.batch /\ Tidy(s) BY <2>2 DEF Succeeds
    <3>2. runs' = (runs \ {r}) \cup {s} BY <2>2 DEF Change
    <3>3. \A x \in runs' : x.job <= jobs' /\ x.batch <= batches' /\ Tidy(x)
      BY <2>0, <3>1, <3>2 DEF RunsInv
    <3>4. \A x, q \in runs' : x.batch = q.batch => x = q
      BY <3>1, <3>2 DEF RunsInv
    <3>5. QED BY <3>3, <3>4 DEF RunsInv
  <2>3. ASSUME NEW s, \/ Moves(r, s) \/ Ends(r, s)
                      \/ \E t, devices : Evaluates(r, s, t, devices)
        PROVE  Change(r, s)
    BY <2>3 DEF Moves, Ends, Evaluates
  <2>4. QED BY <1>3, <2>0, <2>1, <2>2, <2>3, RunStepEffect
<1>4. CASE UNCHANGED <<runs, jobs, batches>> BY <1>4 DEF RunsInv
<1>5. ASSUME NEW id, Lookup(id) \/ Cancel(id) PROVE UNCHANGED <<runs, jobs, batches>>
  BY <1>5 DEF Lookup, Cancel
<1>6. ASSUME NEW c \in Caller, ContinueStep(c), ~ContinueBatch(c)
      PROVE  UNCHANGED <<runs, jobs, batches>>
  BY <1>6 DEF ContinueStep, ContinueBegin, ContinueNothingLeft, ContinueRefused, Released
<1>7. CASE Expire \/ StopBegin \/ StopReturn BY <1>7, <1>4 DEF Expire, StopBegin, StopReturn
<1>8. QED BY <1>1, <1>2, <1>3, <1>4, <1>5, <1>6, <1>7 DEF EngineNext

\* Continue starts a batch when the one it waited for has wound up: if that was the last
\* one, no run of the job is left.
LEMMA ContinueAlone ==
    ASSUME ScanTypeOK, JobInv, RunsInv, OneRun,
           NEW c \in Caller, ContinueBatch(c), ~overtaken'
    PROVE  ~overtaken /\ \A r \in runs : r.job # job.id
<1>1. ~overtaken /\ waiting[c].batch = job.batch BY DEF ContinueBatch
<1>2. job.id # 0 BY DEF ContinueBatch, MayContinue, Found
<1>3. job.batch = batches /\ job.id = jobs BY <1>2 DEF JobInv
<1>4. \A r \in runs : r.batch # batches
  BY <1>1, <1>3 DEF ContinueBatch, ContinueGoesOn, DoneClosed
<1>5. QED BY <1>1, <1>3, <1>4 DEF OneRun

LEMMA OneRunStep ==
    ASSUME ScanTypeOK, JobInv, RunsInv, OneRun, EngineNext
    PROVE  OneRun'
<1>j. job \in Job /\ jobs \in Nat /\ batches \in Nat BY DEF ScanTypeOK
<1>t. \A r \in runs : r \in Run /\ r.job \in Nat /\ r.batch \in Nat BY DEF ScanTypeOK, Run
<1>1. ASSUME NEW n \in Position, NEW prefilter \in BOOLEAN, Submit(n, prefilter) PROVE OneRun'
  <2>1. \A r \in runs : r.job # jobs' BY <1>1, <1>j, <1>t DEF Submit, RunsInv
  <2>2. PICK scope : runs' = runs \cup {NewRun(jobs + 1, prefilter, scope)}
    BY <1>1 DEF Submit
  <2>3. NewRun(jobs + 1, prefilter, scope).batch = batches + 1 BY DEF NewRun
  <2>4. batches' = batches + 1 BY <1>1 DEF Submit
  <2>5. QED BY <2>1, <2>2, <2>3, <2>4 DEF OneRun
<1>2. ASSUME NEW c \in Caller, ContinueBatch(c) PROVE OneRun'
  <2> SUFFICES ASSUME ~overtaken' PROVE \A r \in runs' : r.job = jobs' => r.batch = batches'
    BY DEF OneRun
  <2>1. \A r \in runs : r.job # job.id BY <1>2, ContinueAlone
  <2>2. PICK scope : runs' = runs \cup {NewRun(job.id, job.prefilter, scope)}
    BY <1>2 DEF ContinueBatch
  <2>3. NewRun(job.id, job.prefilter, scope).batch = batches + 1 BY DEF NewRun
  <2>4. batches' = batches + 1 /\ jobs' = jobs BY <1>2 DEF ContinueBatch
  <2>5. job.id = jobs BY <1>2 DEF ContinueBatch, MayContinue, Found, JobInv
  <2>6. QED BY <2>1, <2>2, <2>3, <2>4, <2>5
<1>3. ASSUME NEW r \in runs, RunStep(r) PROVE OneRun'
  <2>0. Tidy(r) /\ UNCHANGED <<jobs, batches, overtaken>> BY <1>3, RunKeepsBatch DEF RunsInv
  <2>1. CASE runs' = runs \ {r} BY <2>0, <2>1 DEF OneRun
  <2>2. ASSUME NEW s, Succeeds(r, s), Change(r, s) PROVE OneRun'
    <3>1. s.job = r.job /\ s.batch = r.batch BY <2>2 DEF Succeeds
    <3>2. QED BY <3>1, <2>0, <2>2 DEF Change, OneRun
  <2>3. ASSUME NEW s, \/ Moves(r, s) \/ Ends(r, s)
                      \/ \E t, devices : Evaluates(r, s, t, devices)
        PROVE  Change(r, s)
    BY <2>3 DEF Moves, Ends, Evaluates
  <2>4. QED BY <1>3, <2>0, <2>1, <2>2, <2>3, RunStepEffect
<1>4. CASE UNCHANGED <<runs, jobs, batches, overtaken>> BY <1>4 DEF OneRun
<1>5. ASSUME NEW id, Lookup(id) \/ Cancel(id) PROVE UNCHANGED <<runs, jobs, batches, overtaken>>
  BY <1>5 DEF Lookup, Cancel
<1>6. ASSUME NEW c \in Caller, ContinueStep(c), ~ContinueBatch(c)
      PROVE  UNCHANGED <<runs, jobs, batches, overtaken>>
  BY <1>6 DEF ContinueStep, ContinueBegin, ContinueNothingLeft, ContinueRefused, Released
<1>7. CASE Expire \/ StopBegin \/ StopReturn BY <1>7, <1>4 DEF Expire, StopBegin, StopReturn
<1>8. QED BY <1>1, <1>2, <1>3, <1>4, <1>5, <1>6, <1>7 DEF EngineNext

(***************************************************************************)
(* Which targets of the job are done with, and that the count tells them.  *)
(***************************************************************************)

\* The targets of the current batch.
BatchTargets == job.batchStart + 1 .. job.offset

\* What the run of the current batch has done is counted, while the job runs; a job that is
\* done has no run at work.
Accounted(r) ==
    /\ job.state = "done" => r.pc = "close"
    /\ job.state = "running" => /\ Left(r) \subseteq BatchTargets
                                /\ BatchTargets \ Left(r) \subseteq evaluated
                                /\ job.scanned = Cardinality(BatchTargets \ Left(r))

\* Unless a batch was overtaken: the batches before the current one were evaluated, and of
\* the current one as many targets as the count says at least, all once the job is done.
BatchInv ==
    ~overtaken /\ job.id # 0 =>
       /\ 1 .. job.batchStart \subseteq evaluated
       /\ job.scanned <= Planned
       /\ job.scanned <= Cardinality(evaluated \cap BatchTargets)
       /\ job.state = "done" => job.scanned = Planned
       /\ \A r \in runs : r.job = job.id => Accounted(r)

\* There are as many targets in a batch as planned.
LEMMA PlannedTargets ==
    ASSUME ScanTypeOK, JobBounds
    PROVE  IsFiniteSet(BatchTargets) /\ Cardinality(BatchTargets) = Planned /\ Planned \in Nat
<1> DEFINE s == job.batchStart
           e == job.offset
<1>1. s \in Nat /\ e \in Nat /\ s <= e BY DEF ScanTypeOK, Job, JobBounds
<1> HIDE DEF s, e
<1>2. IsFiniteSet(s + 1 .. e) /\ Cardinality(s + 1 .. e) = IF s + 1 > e THEN 0 ELSE e - (s + 1) + 1
  BY <1>1, FS_Interval
<1>3. Cardinality(s + 1 .. e) = e - s BY <1>1, <1>2
<1>4. QED BY <1>1, <1>2, <1>3 DEF s, e, BatchTargets, Planned

\* A batch whose count is full was evaluated.
LEMMA FullBatch ==
    ASSUME ScanTypeOK, JobBounds, BatchInv, ~overtaken, job.id # 0, job.scanned = Planned
    PROVE  1 .. job.offset \subseteq evaluated
<1> DEFINE D == evaluated \cap BatchTargets
<1>1. IsFiniteSet(BatchTargets) /\ Cardinality(BatchTargets) = Planned /\ Planned \in Nat
  BY PlannedTargets
<1>2. Planned <= Cardinality(D) BY DEF BatchInv
<1>3. D \in SUBSET BatchTargets OBVIOUS
<1> HIDE DEF D
<1>4. /\ IsFiniteSet(D) /\ Cardinality(D) <= Cardinality(BatchTargets)
      /\ Cardinality(BatchTargets) = Cardinality(D) => BatchTargets = D
  BY <1>1, <1>3, FS_Subset
<1>5. Cardinality(D) \in Nat BY <1>4, FS_CardinalityType
<1>6. BatchTargets = D BY <1>1, <1>2, <1>4, <1>5
<1>7. BatchTargets \subseteq evaluated BY <1>6 DEF D
<1>8. 1 .. job.batchStart \subseteq evaluated BY DEF BatchInv
<1>9. job.batchStart \in Nat /\ job.offset \in Nat BY DEF ScanTypeOK, Job
<1>10. QED BY <1>7, <1>8, <1>9 DEF BatchTargets

\* A batch that has just been started.
LEMMA FreshBatch ==
    ASSUME NEW s \in Nat, NEW e \in Nat, s <= e, NEW id, NEW new,
           job'.id = id, job'.batchStart = s, job'.offset = e, job'.scanned = 0,
           job'.state = "running", 1 .. s \subseteq evaluated',
           Left(new) = s + 1 .. e, runs' = runs \cup {new}, \A r \in runs : r.job # id
    PROVE  BatchInv'
<1>2. BatchTargets' = s + 1 .. e /\ Planned' = e - s BY DEF BatchTargets, Planned
<1>3. BatchTargets' \ Left(new) = {} BY <1>2
<1>4. Cardinality({}) = 0 BY FS_EmptySet
<1>5. \A r \in runs' : r.job = id => r = new OBVIOUS
<1>6. Cardinality(BatchTargets' \ Left(new)) = 0 BY <1>3, <1>4
<1>7. Accounted(new)'
  <2>1. Left(new) \subseteq BatchTargets' /\ BatchTargets' \ Left(new) \subseteq evaluated'
    BY <1>2, <1>3
  <2>2. Left(new)' = Left(new) BY DEF Left
  <2>3. QED BY <2>1, <2>2, <1>6 DEF Accounted
<1>8. 0 <= Cardinality((evaluated \cap BatchTargets)')
  <2> DEFINE D == (evaluated \cap BatchTargets)'
  <2>1. IsFiniteSet(s + 1 .. e) BY FS_Interval
  <2>2. D \in SUBSET (s + 1 .. e) BY <1>2
  <2> HIDE DEF D
  <2>3. Cardinality(D) \in Nat BY <2>1, <2>2, FS_Subset, FS_CardinalityType
  <2>4. QED BY <2>3 DEF D
<1>9. /\ job'.scanned <= Planned' /\ job'.state # "done"
      /\ job'.scanned <= Cardinality((evaluated \cap BatchTargets)')
      /\ 1 .. job'.batchStart \subseteq evaluated'
  BY <1>2, <1>8
<1>10. QED BY <1>9, <1>5, <1>7 DEF BatchInv

\* Cancelling a job, and its expiry, change no number.
LEMMA BatchFrame ==
    ASSUME BatchInv, UNCHANGED <<runs, evaluated, overtaken>>,
           \/ job'.id = 0
           \/ /\ job'.id = job.id /\ job'.batchStart = job.batchStart
              /\ job'.offset = job.offset /\ job'.scanned = job.scanned
              /\ job'.state \in {job.state, "canceled"}
    PROVE  BatchInv'
<1>1. CASE job'.id = 0 BY <1>1 DEF BatchInv
<1>2. CASE job'.id # 0
  <2>1. BatchTargets' = BatchTargets /\ Planned' = Planned BY <1>2 DEF BatchTargets, Planned
  <2>2. \A r : Accounted(r) => Accounted(r)' BY <1>2, <2>1 DEF Accounted
  <2>3. QED BY <1>2, <2>1, <2>2 DEF BatchInv
<1>3. QED BY <1>1, <1>2

\* A step of a run keeps the account of its batch, and does not touch that of another job.
LEMMA RunAccounts ==
    ASSUME EngineInv, OneRun, BatchInv, NEW r \in runs, RunStep(r)
    PROVE  BatchInv'
<1> SUFFICES ASSUME ~overtaken, job.id # 0 PROVE BatchInv'
  BY RunKeepsBatch DEF BatchInv, EngineInv
<1>j. /\ job \in Job /\ jobs \in Nat /\ batches \in Nat /\ Tidy(r) /\ r \in Run
      /\ job.scanned \in Nat /\ job.state \in State /\ job.id = jobs
  BY DEF EngineInv, ScanTypeOK, RunsInv, JobInv, Job
<1>k. /\ job'.batchStart = job.batchStart /\ job'.offset = job.offset /\ job'.id = job.id
      /\ overtaken' = overtaken /\ BatchTargets' = BatchTargets /\ Planned' = Planned
  BY <1>j, RunKeepsBatch DEF EngineInv, BatchTargets, Planned
<1>f. IsFiniteSet(BatchTargets) /\ Cardinality(BatchTargets) = Planned /\ Planned \in Nat
  BY PlannedTargets DEF EngineInv
<1>i. /\ 1 .. job.batchStart \subseteq evaluated
      /\ job.scanned <= Planned /\ job.scanned <= Cardinality(evaluated \cap BatchTargets)
      /\ job.state = "done" => job.scanned = Planned
      /\ \A q \in runs : q.job = job.id => Accounted(q)
  BY DEF BatchInv
<1>u. \A q \in runs : q.job = job.id /\ r.job = job.id => q = r
  BY <1>j DEF EngineInv, OneRun, RunsInv
<1>a. ASSUME NEW q, UNCHANGED <<job, evaluated>>, Accounted(q) PROVE Accounted(q)'
  BY <1>a, <1>k DEF Accounted, Left
<1>1. CASE r.pc = "close" /\ runs' = runs \ {r} /\ UNCHANGED <<job, evaluated>>
  <2>1. \A q \in runs' : q.job = job.id => Accounted(q)' BY <1>1, <1>i, <1>a
  <2>2. QED BY <1>1, <1>i, <1>k, <2>1 DEF BatchInv
<1>2. ASSUME NEW s, Succeeds(r, s), Moves(r, s) PROVE BatchInv'
  <2>1. UNCHANGED <<job, evaluated>> /\ s.job = r.job /\ runs' = (runs \ {r}) \cup {s}
    BY <1>2 DEF Moves, Succeeds, Change
  <2>2. ASSUME s.job = job.id PROVE Accounted(s)
    <3>1. Accounted(r) BY <2>1, <2>2, <1>i
    <3>2. CASE Left(s) = Left(r) BY <3>1, <3>2, <1>2 DEF Accounted, Moves
    <3>3. CASE Canceled(r) BY <3>3, <2>1, <2>2 DEF Canceled, Accounted
    <3>4. QED BY <3>2, <3>3, <1>2 DEF Moves
  <2>3. \A q \in runs' : q.job = job.id => Accounted(q)' BY <2>1, <2>2, <1>i, <1>a
  <2>4. QED BY <2>1, <1>i, <1>k, <2>3 DEF BatchInv
<1>3. ASSUME NEW s, NEW t, NEW devices, Succeeds(r, s), Evaluates(r, s, t, devices)
      PROVE  BatchInv'
  <2>1. job.id = r.job /\ s.job = r.job /\ runs' = (runs \ {r}) \cup {s}
    BY <1>3 DEF Evaluates, Canceled, Succeeds, Change
  <2>2. /\ job'.scanned = job.scanned + 1 /\ job'.state = job.state
        /\ evaluated' = evaluated \cup {t} /\ t \in Left(r) /\ Left(s) = Left(r) \ {t}
    BY <1>3, <1>j DEF Evaluates, Job
  <2>3. job.state = "running"
    <3>1. job.state # "canceled" /\ r.pc # "close" BY <1>3, <2>1 DEF Evaluates, Canceled
    <3>2. job.state # "done" BY <3>1, <2>1, <1>i DEF Accounted
    <3>3. QED BY <3>1, <3>2, <1>j DEF State
  <2>4. /\ Left(r) \subseteq BatchTargets /\ BatchTargets \ Left(r) \subseteq evaluated
        /\ job.scanned = Cardinality(BatchTargets \ Left(r))
    BY <2>1, <2>3, <1>i DEF Accounted
  <2> DEFINE Before == BatchTargets \ Left(r)
             After == BatchTargets \ Left(s)
             Seen == (evaluated \cap BatchTargets)'
  <2>5. /\ After = Before \cup {t} /\ t \notin Before /\ Before \in SUBSET BatchTargets
        /\ After \in SUBSET BatchTargets /\ Seen \in SUBSET BatchTargets
        /\ After \in SUBSET Seen
    BY <2>2, <2>4, <1>k
  <2>s. job.scanned = Cardinality(Before) BY <2>4
  <2> HIDE DEF Before, After, Seen
  <2>6. IsFiniteSet(Before) /\ IsFiniteSet(After) /\ IsFiniteSet(Seen)
    BY <2>5, <1>f, FS_Subset
  <2>7. Cardinality(After) = Cardinality(Before) + 1 BY <2>5, <2>6, FS_AddElement
  <2>8. Cardinality(After) <= Planned
    <3>1. Cardinality(After) <= Cardinality(BatchTargets) BY <2>5, <1>f, FS_Subset
    <3>2. QED BY <3>1, <1>f
  <2>9. Cardinality(After) <= Cardinality(Seen) BY <2>5, <2>6, FS_Subset
  <2>10. job'.scanned = Cardinality(After) BY <2>2, <2>s, <2>7
  <2>11. Accounted(s)'
    <3>1. /\ Left(s) \subseteq BatchTargets /\ After \subseteq evaluated'
      BY <2>2, <2>4, <2>5 DEF Seen
    <3>2. Left(s)' = Left(s) BY DEF Left
    <3>3. QED BY <3>1, <3>2, <2>2, <2>3, <2>10, <1>k DEF Accounted, After
  <2>12. \A q \in runs' : q.job = job.id => q = s BY <2>1, <1>u
  <2>13. /\ job'.scanned <= Planned' /\ job'.scanned <= Cardinality((evaluated \cap BatchTargets)')
    BY <2>8, <2>9, <2>10, <1>k DEF Seen
  <2>14. 1 .. job'.batchStart \subseteq evaluated' BY <1>i, <1>k, <2>2
  <2>15. QED BY <2>11, <2>12, <2>13, <2>14, <2>2, <2>3, <1>k DEF BatchInv
<1>4. ASSUME NEW s, Succeeds(r, s), Ends(r, s) PROVE BatchInv'
  <2>1. /\ s.job = r.job /\ runs' = (runs \ {r}) \cup {s} /\ evaluated' = evaluated
        /\ Left(r) = {} /\ s.pc = "close" /\ r.pc # "close"
    BY <1>4 DEF Ends, Succeeds, Change
  <2>2. CASE job.id = r.job /\ ~Terminal
    <3>1. job'.state = "done" /\ job'.scanned = job.scanned
      BY <1>4, <2>2, <1>j DEF Ends, Job
    <3>2. job.state = "running" BY <2>2 DEF Terminal
    <3>3. job.scanned = Cardinality(BatchTargets \ {}) BY <2>1, <2>2, <3>2, <1>i DEF Accounted
    <3>4. BatchTargets \ {} = BatchTargets OBVIOUS
    <3>5. job.scanned = Planned BY <3>3, <3>4, <1>f
    <3>6. Accounted(s)' BY <3>1, <2>1 DEF Accounted
    <3>7. \A q \in runs' : q.job = job.id => q = s BY <2>1, <2>2, <1>u
    <3>8. QED BY <3>1, <3>5, <3>6, <3>7, <2>1, <1>i, <1>k DEF BatchInv
  <2>3. CASE ~(job.id = r.job /\ ~Terminal)
    <3>1. job' = job BY <1>4, <2>3 DEF Ends
    <3>2. ASSUME s.job = job.id PROVE Accounted(s)
      <4>1. job.state # "running" BY <2>1, <2>3, <3>2 DEF Terminal
      <4>2. QED BY <4>1, <2>1 DEF Accounted
    <3>3. \A q \in runs' : q.job = job.id => Accounted(q)' BY <3>1, <3>2, <2>1, <1>i, <1>a
    <3>4. QED BY <3>1, <2>1, <1>i, <1>k, <3>3 DEF BatchInv
  <2>4. QED BY <2>2, <2>3
<1>5. QED BY <1>1, <1>2, <1>3, <1>4, <1>j, RunStepEffect DEF EngineInv

LEMMA BatchStep ==
    ASSUME EngineInv, OneRun, BatchInv, EngineNext
    PROVE  BatchInv'
<1>j. job \in Job /\ jobs \in Nat /\ batches \in Nat BY DEF EngineInv, ScanTypeOK
<1>t. \A r \in runs : r.job \in Nat BY DEF EngineInv, ScanTypeOK, Run
<1>1. ASSUME NEW n \in Position, NEW prefilter \in BOOLEAN, Submit(n, prefilter) PROVE BatchInv'
  <2> DEFINE e == PageEnd(0, n)
             new == NewRun(jobs + 1, prefilter, 1 .. e)
  <2>1. n \in 0 .. MaxTargets /\ 0 \in Nat /\ 0 <= n BY DeviceScanAssumption DEF Position
  <2>2. e \in 0 .. n BY <2>1, PageEndBounds
  <2>3. /\ job'.id = jobs + 1 /\ job'.batchStart = 0 /\ job'.offset = e /\ job'.scanned = 0
        /\ job'.state = "running" /\ runs' = runs \cup {new}
    BY <1>1 DEF Submit
  <2>4. Left(new) = 0 + 1 .. e BY DEF NewRun, Left
  <2>5. \A r \in runs : r.job # jobs + 1 BY <1>j, <1>t DEF EngineInv, RunsInv
  <2>6. 1 .. 0 \subseteq evaluated' OBVIOUS
  <2>7. 0 \in Nat /\ e \in Nat /\ 0 <= e BY <2>1, <2>2
  <2> HIDE DEF e, new
  <2>8. QED BY <2>3, <2>4, <2>5, <2>6, <2>7, FreshBatch
<1>2. ASSUME NEW c \in Caller, ContinueBatch(c) PROVE BatchInv'
  <2> SUFFICES ASSUME ~overtaken' PROVE BatchInv' BY DEF BatchInv
  <2> DEFINE s == NextStart
             e == PageEnd(NextStart, job.requested)
             new == NewRun(job.id, job.prefilter, s + 1 .. e)
  <2>1. ~overtaken /\ \A r \in runs : r.job # job.id
    BY <1>2, ContinueAlone DEF EngineInv
  <2>2. /\ job.requested \in 0 .. MaxTargets /\ MaxTargets \in Nat
        /\ s \in 0 .. job.requested /\ e \in s .. job.requested
    BY <1>j, NextBatchBounds, DeviceScanAssumption DEF EngineInv, Job
  <2>3. /\ job'.id = job.id /\ job'.batchStart = s /\ job'.offset = e /\ job'.scanned = 0
        /\ job'.state = "running" /\ runs' = runs \cup {new} /\ evaluated' = evaluated
    BY <1>2, <1>j DEF ContinueBatch, Job
  <2>4. Left(new) = s + 1 .. e BY DEF NewRun, Left
  <2>5. 1 .. s \subseteq evaluated
    <3>0. job.id # 0 /\ Terminal BY <1>2 DEF ContinueBatch, MayContinue, Found
    <3>1. CASE CanceledMidBatch BY <3>0, <3>1, <2>1 DEF NextStart, BatchInv
    <3>2. CASE ~CanceledMidBatch
      <4>1. job.state \in State /\ job.scanned \in Nat /\ Planned \in Nat
        BY <3>0, <1>j, PlannedTargets DEF EngineInv, JobInv, Job
      <4>2. job.scanned = Planned
        BY <4>1, <3>0, <3>2, <2>1 DEF BatchInv, CanceledMidBatch, Terminal, State
      <4>3. 1 .. job.offset \subseteq evaluated BY <4>2, <3>0, <2>1, FullBatch DEF EngineInv
      <4>4. QED BY <4>3, <3>2 DEF NextStart
    <3>3. QED BY <3>1, <3>2
  <2>6. s \in Nat /\ e \in Nat /\ s <= e BY <2>2
  <2> HIDE DEF s, e, new
  <2>7. 1 .. s \subseteq evaluated' BY <2>3, <2>5
  <2>8. QED BY <2>1, <2>3, <2>4, <2>6, <2>7, FreshBatch
<1>3. ASSUME NEW r \in runs, RunStep(r) PROVE BatchInv' BY <1>3, RunAccounts
<1>4. ASSUME NEW id, Lookup(id) \/ Cancel(id) PROVE BatchInv'
  BY <1>4, <1>j, BatchFrame DEF Lookup, Cancel, NoJob, Job
<1>5. ASSUME NEW c \in Caller, ContinueStep(c), ~ContinueBatch(c) PROVE BatchInv'
  <2>1. job' = job \/ job' = NoJob
    BY <1>5 DEF ContinueStep, ContinueBegin, ContinueNothingLeft, ContinueRefused, Released
  <2>2. UNCHANGED <<runs, evaluated, overtaken>>
    BY <1>5 DEF ContinueStep, ContinueBegin, ContinueNothingLeft, ContinueRefused, Released
  <2>3. QED BY <2>1, <2>2, BatchFrame DEF NoJob
<1>6. CASE Expire BY <1>6, <1>j, BatchFrame DEF Expire, Job
<1>7. CASE StopBegin \/ StopReturn BY <1>7, <1>j, BatchFrame DEF StopBegin, StopReturn, Job
<1>8. QED BY <1>1, <1>2, <1>3, <1>4, <1>5, <1>6, <1>7 DEF EngineNext

(***************************************************************************)
(* Stop, the list of devices, and batches that have ended.                 *)
(***************************************************************************)

\* Once Stop has returned no batch is started, and none is left that it should have awaited.
LEMMA StopStep ==
    ASSUME EngineInv, OneRun, StopWaits, EngineNext
    PROVE  StopWaits'
<1>t. \A r \in runs : r.job # 0 BY DEF EngineInv, ScanTypeOK, Run
<1> SUFFICES ASSUME stop' = "done", ~overtaken' PROVE \A r \in runs' : r.job # job'.id
  BY DEF StopWaits
<1>w. ASSUME stop = "done", ~overtaken PROVE \A r \in runs : r.job # job.id
  BY <1>w DEF StopWaits
<1>1. CASE \/ \E n \in Position, prefilter \in BOOLEAN : Submit(n, prefilter)
           \/ \E c \in Caller : ContinueBatch(c)
  <2>1. stop = "no" /\ stop' = stop
    BY <1>1 DEF Submit, ContinueBatch, MaySubmit, MayContinue, stopped
  <2>2. QED BY <2>1
<1>2. ASSUME NEW id, Lookup(id) \/ Cancel(id) PROVE \A r \in runs' : r.job # job'.id
  <2>1. UNCHANGED <<runs, stop, overtaken>> /\ job'.id \in {0, job.id}
    BY <1>2 DEF Lookup, Cancel, NoJob, EngineInv, ScanTypeOK, Job
  <2>2. QED BY <2>1, <1>w, <1>t
<1>3. ASSUME NEW c \in Caller, ContinueStep(c), ~ContinueBatch(c)
      PROVE  \A r \in runs' : r.job # job'.id
  <2>1. UNCHANGED <<runs, stop, overtaken>> /\ (job' = job \/ job' = NoJob)
    BY <1>3 DEF ContinueStep, ContinueBegin, ContinueNothingLeft, ContinueRefused, Released
  <2>2. QED BY <2>1, <1>w, <1>t DEF NoJob
<1>4. CASE Expire
  <2>1. UNCHANGED <<runs, stop, overtaken>> /\ job'.id = job.id
    BY <1>4 DEF Expire, EngineInv, ScanTypeOK, Job
  <2>2. QED BY <2>1, <1>w
<1>5. CASE StopBegin
  <2>1. job = NoJob /\ job' = job /\ runs' = runs BY <1>5 DEF StopBegin
  <2>2. QED BY <2>1, <1>t DEF NoJob
<1>6. CASE StopReturn
  <2>1. /\ UNCHANGED <<job, runs, overtaken>>
        /\ \A r \in runs : r.batch # batches
    BY <1>6 DEF StopReturn, LastDone, DoneClosed
  <2>2. \A r \in runs : r.job # jobs BY <2>1 DEF OneRun
  <2>3. QED BY <2>1, <2>2, <1>t DEF EngineInv, JobInv
<1>7. ASSUME NEW r \in runs, RunStep(r) PROVE \A q \in runs' : q.job # job'.id
  <2>1. job'.id = job.id /\ stop' = stop /\ overtaken' = overtaken /\ Tidy(r)
    BY <1>7, RunKeepsBatch DEF EngineInv, RunsInv
  <2>2. \A q \in runs : q.job # job.id BY <2>1, <1>w
  <2>3. ASSUME NEW s, Succeeds(r, s), \/ Moves(r, s) \/ Ends(r, s)
                                     \/ \E t, devices : Evaluates(r, s, t, devices)
        PROVE  \A q \in runs' : q.job # job.id
    <3>1. s.job = r.job /\ runs' = (runs \ {r}) \cup {s}
      BY <2>3 DEF Moves, Ends, Evaluates, Succeeds, Change
    <3>2. QED BY <3>1, <2>2
  <2>4. QED BY <1>7, <2>1, <2>2, <2>3, RunStepEffect DEF EngineInv
<1>8. QED BY <1>1, <1>2, <1>3, <1>4, <1>5, <1>6, <1>7 DEF EngineNext

\* What the steps that change the list do to it.
DevicesStep ==
    \/ job'.id # job.id /\ job'.devices = <<>>
    \/ job'.devices = job.devices
    \/ \E devices \in Seq(Dev) :
          /\ job'.devices = job.devices \o devices
          /\ IsInjective(devices) /\ ToSet(devices) \cap ToSet(job.devices) = {}

LEMMA DevicesChange ==
    ASSUME EngineInv, EngineNext
    PROVE  DevicesStep
<1>j. job \in Job /\ jobs \in Nat BY DEF EngineInv, ScanTypeOK
<1>z. job' = NoJob => DevicesStep BY DEF DevicesStep, NoJob, EngineInv, JobInv
<1>1. ASSUME NEW n \in Position, NEW prefilter \in BOOLEAN, Submit(n, prefilter) PROVE DevicesStep
  <2>1. job'.id = jobs + 1 /\ job'.devices = <<>> BY <1>1 DEF Submit
  <2>2. job.id # jobs + 1 BY <1>j DEF EngineInv, JobInv, Job
  <2>3. QED BY <2>1, <2>2 DEF DevicesStep
<1>2. ASSUME NEW id, Lookup(id) \/ Cancel(id) PROVE DevicesStep
  BY <1>2, <1>j, <1>z DEF Lookup, Cancel, DevicesStep, Job
<1>3. ASSUME NEW c \in Caller, ContinueStep(c) PROVE DevicesStep
  <2>1. CASE ContinueBatch(c) BY <2>1, <1>j DEF ContinueBatch, DevicesStep, Job
  <2>2. CASE ~ContinueBatch(c)
    <3>1. job' = job \/ job' = NoJob
      BY <1>3, <2>2 DEF ContinueStep, ContinueBegin, ContinueNothingLeft, ContinueRefused, Released
    <3>2. QED BY <3>1, <1>z DEF DevicesStep
  <2>3. QED BY <2>1, <2>2
<1>4. CASE Expire BY <1>4, <1>j DEF Expire, DevicesStep, Job
<1>5. CASE StopBegin \/ StopReturn BY <1>5, <1>j DEF StopBegin, StopReturn, DevicesStep, Job
<1>6. ASSUME NEW r \in runs, RunStep(r) PROVE DevicesStep
  <2>1. CASE job' = job BY <2>1 DEF DevicesStep
  <2>2. ASSUME NEW s, Ends(r, s) PROVE DevicesStep BY <2>2, <1>j DEF Ends, DevicesStep, Job
  <2>3. ASSUME NEW s, NEW t, NEW devices, Evaluates(r, s, t, devices) PROVE DevicesStep
    <3>1. job'.devices = job.devices \o devices BY <2>3, <1>j DEF Evaluates, Job
    <3>2. QED BY <3>1, <2>3 DEF Evaluates, DevicesStep
  <2>4. Tidy(r) BY DEF EngineInv, RunsInv
  <2>5. QED BY <1>6, <2>1, <2>2, <2>3, <2>4, RunStepEffect DEF Moves, EngineInv
<1>7. QED BY <1>1, <1>2, <1>3, <1>4, <1>5, <1>6 DEF EngineNext

\* A list with no device twice keeps that, and what it has, when new ones are appended.
LEMMA AppendDistinct ==
    ASSUME NEW a \in Seq(Dev), NEW b \in Seq(Dev), IsInjective(a), IsInjective(b),
           ToSet(b) \cap ToSet(a) = {}
    PROVE  IsInjective(a \o b) /\ IsPrefix(a, a \o b)
<1>1. /\ Len(a) \in Nat /\ Len(b) \in Nat /\ a \o b \in Seq(Dev)
      /\ Len(a \o b) = Len(a) + Len(b)
      /\ DOMAIN a = 1 .. Len(a) /\ DOMAIN b = 1 .. Len(b)
      /\ DOMAIN (a \o b) = 1 .. Len(a) + Len(b)
  BY LenProperties, ConcatProperties
<1>2. \A i \in 1 .. Len(a) + Len(b) :
         (a \o b)[i] = IF i <= Len(a) THEN a[i] ELSE b[i - Len(a)]
  BY ConcatProperties
<1>3. \A i \in 1 .. Len(a), j \in 1 .. Len(b) : a[i] # b[j] BY <1>1 DEF ToSet
<1>4. ASSUME NEW i \in 1 .. Len(a) + Len(b), NEW j \in 1 .. Len(a) + Len(b),
             (a \o b)[i] = (a \o b)[j]
      PROVE  i = j
  <2>1. CASE i <= Len(a) /\ j <= Len(a)
    <3>1. i \in DOMAIN a /\ j \in DOMAIN a /\ a[i] = a[j] BY <2>1, <1>1, <1>2, <1>4
    <3>2. QED BY <3>1 DEF IsInjective
  <2>2. CASE ~(i <= Len(a)) /\ ~(j <= Len(a))
    <3>1. /\ i - Len(a) \in DOMAIN b /\ j - Len(a) \in DOMAIN b
          /\ b[i - Len(a)] = b[j - Len(a)]
      BY <2>2, <1>1, <1>2, <1>4
    <3>2. i - Len(a) = j - Len(a) BY <3>1 DEF IsInjective
    <3>3. QED BY <3>2, <1>1
  <2>3. CASE i <= Len(a) /\ ~(j <= Len(a))
    <3>1. i \in 1 .. Len(a) /\ j - Len(a) \in 1 .. Len(b) /\ a[i] = b[j - Len(a)]
      BY <2>3, <1>1, <1>2, <1>4
    <3>2. QED BY <3>1, <1>3
  <2>4. CASE ~(i <= Len(a)) /\ j <= Len(a)
    <3>1. j \in 1 .. Len(a) /\ i - Len(a) \in 1 .. Len(b) /\ a[j] = b[i - Len(a)]
      BY <2>4, <1>1, <1>2, <1>4
    <3>2. QED BY <3>1, <1>3
  <2>5. QED BY <2>1, <2>2, <2>3, <2>4
<1>5. IsInjective(a \o b) BY <1>1, <1>4 DEF IsInjective
<1>6. SubSeq(a \o b, 1, Len(a)) = a BY SubSeqOfConcat1
<1>7. SubSeq(a, 1, Len(a)) = a BY SubSeqFull
<1>8. QED BY <1>1, <1>5, <1>6, <1>7 DEF IsPrefix

\* A list has no device twice, and is only appended to.
LEMMA ListStep ==
    ASSUME EngineInv, IsInjective(job.devices), EngineNext
    PROVE  /\ IsInjective(job'.devices)
           /\ job'.id = job.id => IsPrefix(job.devices, job'.devices)
<1>d. job.devices \in Seq(Dev) BY DEF EngineInv, ScanTypeOK, Job
<1>s. DevicesStep BY DevicesChange
<1>1. CASE job'.id # job.id /\ job'.devices = <<>> BY <1>1 DEF IsInjective
<1>2. CASE job'.devices = job.devices BY <1>2, <1>d DEF IsPrefix
<1>3. CASE \E devices \in Seq(Dev) :
             /\ job'.devices = job.devices \o devices
             /\ IsInjective(devices) /\ ToSet(devices) \cap ToSet(job.devices) = {}
  BY <1>3, <1>d, AppendDistinct
<1>4. QED BY <1>s, <1>1, <1>2, <1>3 DEF DevicesStep

\* A batch that has ended: only Continue changes its job, and time.
LEMMA FrozenStep ==
    ASSUME EngineInv, OneRun, BatchInv, EngineNext,
           Terminal, job'.batch = job.batch, job.state = "canceled" \/ ~overtaken
    PROVE  job' = [job EXCEPT !.expired = job'.expired]
<1>j. job \in Job /\ jobs \in Nat /\ batches \in Nat BY DEF EngineInv, ScanTypeOK
<1>b. job.batch # batches + 1
  <2>1. CASE job.id = 0 BY <2>1, <1>j DEF EngineInv, JobInv, NoJob
  <2>2. CASE job.id # 0 BY <2>2, <1>j DEF EngineInv, JobInv
  <2>3. QED BY <2>1, <2>2
<1>z. CASE job' = job BY <1>z, <1>j DEF Job
<1>n. CASE job' = NoJob
  <2>1. job.id = 0 BY <1>n DEF EngineInv, JobInv, NoJob
  <2>2. job = NoJob BY <2>1 DEF EngineInv, JobInv
  <2>3. QED BY <2>2, <1>n, <1>z
<1>1. ASSUME NEW n \in Position, NEW prefilter \in BOOLEAN, Submit(n, prefilter) PROVE FALSE
  BY <1>1, <1>b DEF Submit
<1>2. ASSUME NEW id, Lookup(id) \/ Cancel(id) PROVE job' = job \/ job' = NoJob
  BY <1>2 DEF Lookup, Cancel
<1>3. ASSUME NEW c \in Caller, ContinueStep(c) PROVE job' = job \/ job' = NoJob
  <2>1. ~ContinueBatch(c) BY <1>b, <1>j DEF ContinueBatch, Job
  <2>2. QED BY <1>3, <2>1
            DEF ContinueStep, ContinueBegin, ContinueNothingLeft, ContinueRefused, Released
<1>4. CASE Expire BY <1>4, <1>j DEF Expire, Job
<1>5. CASE StopBegin \/ StopReturn BY <1>5, <1>z DEF StopBegin, StopReturn
<1>6. ASSUME NEW r \in runs, RunStep(r) PROVE job' = job
  <2>t. Tidy(r) /\ r.job # 0 BY DEF EngineInv, RunsInv, ScanTypeOK, Run
  <2>1. ASSUME NEW s, NEW t, NEW devices, Evaluates(r, s, t, devices) PROVE FALSE
    <3>1. job.id = r.job /\ job.state # "canceled" /\ r.pc # "close"
      BY <2>1 DEF Evaluates, Canceled
    <3>2. job.state = "done" BY <3>1, <2>t DEF EngineInv, JobInv, State, Terminal
    <3>3. Accounted(r) BY <3>1, <2>t DEF BatchInv
    <3>4. QED BY <3>1, <3>2, <3>3 DEF Accounted
  <2>2. ASSUME NEW s, Ends(r, s) PROVE job' = job BY <2>2 DEF Ends
  <2>3. QED BY <1>6, <2>t, <2>1, <2>2, RunStepEffect DEF Moves, EngineInv
<1>7. QED BY <1>z, <1>n, <1>1, <1>2, <1>3, <1>4, <1>5, <1>6 DEF EngineNext

(***************************************************************************)
(* The theorems about the engine.                                          *)
(***************************************************************************)
ScanInv ==
    /\ plan \in Plan
    /\ EngineInv /\ OneRun /\ BatchInv
    /\ StopWaits /\ IsInjective(job.devices)

LEMMA ScanInvInit == Init => ScanInv
<1> SUFFICES ASSUME Init PROVE ScanInv OBVIOUS
<1>1. plan \in Plan BY ScanPageAssumption DEF Init
<1>2. /\ job = NoJob /\ runs = {} /\ jobs = 0 /\ batches = 0 /\ stop = "no"
      /\ waiting = [c \in Caller |-> None] /\ evaluated = {} /\ overtaken = FALSE
  BY DEF Init, ScanInit
<1>3. NoJob \in Job BY EmptySeq, DeviceScanAssumption DEF NoJob, Job
<1>4. ScanTypeOK BY <1>2, <1>3 DEF ScanTypeOK, None
<1>5. JobBounds /\ JobInv BY <1>2 DEF JobBounds, JobInv, NoJob
<1>6. RunsInv /\ OneRun /\ StopWaits BY <1>2 DEF RunsInv, OneRun, StopWaits
<1>7. BatchInv /\ IsInjective(job.devices) BY <1>2 DEF BatchInv, NoJob, IsInjective
<1>8. QED BY <1>1, <1>4, <1>5, <1>6, <1>7 DEF ScanInv, EngineInv

LEMMA ScanInvNext == ScanInv /\ [Next]_vars => ScanInv'
<1> SUFFICES ASSUME ScanInv, [Next]_vars PROVE ScanInv' OBVIOUS
<1>1. plan' \in Plan BY PlanStep DEF ScanInv
<1>2. CASE EngineNext
  <2>1. EngineInv' BY <1>2, EngineStepTypes, JobStep, RunsStep DEF ScanInv, EngineInv
  <2>2. OneRun' BY <1>2, OneRunStep DEF ScanInv, EngineInv
  <2>3. BatchInv' BY <1>2, BatchStep DEF ScanInv
  <2>4. StopWaits' BY <1>2, StopStep DEF ScanInv
  <2>5. IsInjective(job.devices)' BY <1>2, ListStep DEF ScanInv
  <2>6. QED BY <1>1, <2>1, <2>2, <2>3, <2>4, <2>5 DEF ScanInv
<1>3. CASE UNCHANGED scanVars
  <2>1. EngineInv'
    BY <1>3 DEF ScanInv, EngineInv, scanVars, ScanTypeOK, JobBounds, JobInv, RunsInv, Tidy, Left
  <2>2. OneRun' /\ StopWaits' BY <1>3 DEF ScanInv, scanVars, OneRun, StopWaits
  <2>3. BatchInv' BY <1>3, BatchFrame DEF ScanInv, scanVars
  <2>4. IsInjective(job.devices)' BY <1>3 DEF ScanInv, scanVars
  <2>5. QED BY <1>1, <2>1, <2>2, <2>3, <2>4 DEF ScanInv
<1>4. QED BY <1>2, <1>3, PageDrivesEngine DEF ScanInv

LEMMA ScanInvHolds == Spec => []ScanInv
BY ScanInvInit, ScanInvNext, PTL DEF Spec

\* Continuing batch by batch leaves no target out (NothingSkipped): a batch that is counted
\* full was evaluated, and only such a batch, or a cancelled one, is left behind.
THEOREM ContinueSkipsNothing == Spec => []NothingSkipped
<1>1. ScanInv => NothingSkipped
  <2> SUFFICES ASSUME ScanInv, ~overtaken
               PROVE  /\ 1 .. job.batchStart \subseteq evaluated
                      /\ job.state = "done" => 1 .. job.offset \subseteq evaluated
    BY DEF NothingSkipped
  <2>1. CASE job.id = 0
    <3>1. job = NoJob BY <2>1 DEF ScanInv, EngineInv, JobInv
    <3>2. QED BY <3>1 DEF NoJob
  <2>2. CASE job.id # 0
    <3>1. 1 .. job.batchStart \subseteq evaluated BY <2>2 DEF ScanInv, BatchInv
    <3>2. ASSUME job.state = "done" PROVE 1 .. job.offset \subseteq evaluated
      <4>1. job.scanned = Planned BY <2>2, <3>2 DEF ScanInv, BatchInv
      <4>2. QED BY <4>1, <2>2, FullBatch DEF ScanInv, EngineInv
    <3>3. QED BY <3>1, <3>2
  <2>3. QED BY <2>1, <2>2
<1>2. QED BY <1>1, ScanInvHolds, PTL

\* What a snapshot says was scanned and what it says remains add up (CountsAgree).
THEOREM CountsAddUp == Spec => []CountsAgree
<1>1. ScanInv => CountsAgree
  <2> SUFFICES ASSUME ScanInv, ~overtaken
               PROVE  /\ ScannedTotal + Remaining <= job.requested
                      /\ Terminal => ScannedTotal + Remaining = job.requested
    BY DEF CountsAgree
  <2>1. CASE job.id = 0
    <3>1. job = NoJob BY <2>1 DEF ScanInv, EngineInv, JobInv
    <3>2. QED BY <3>1 DEF NoJob, ScannedTotal, Remaining, CanceledMidBatch, Planned
  <2>2. CASE job.id # 0
    <3>1. /\ job.batchStart \in Nat /\ job.offset \in Nat /\ job.requested \in Nat
          /\ job.scanned \in Nat /\ job.offset <= job.requested
          /\ job.state \in State
      BY <2>2, DeviceScanAssumption DEF ScanInv, EngineInv, ScanTypeOK, Job, JobBounds, JobInv
    <3>2. /\ job.scanned <= job.offset - job.batchStart
          /\ job.state = "done" => job.scanned = job.offset - job.batchStart
      BY <2>2 DEF ScanInv, BatchInv, Planned
    <3>3. QED BY <3>1, <3>2
              DEF ScannedTotal, Remaining, CanceledMidBatch, Planned, Terminal, State
  <2>3. QED BY <2>1, <2>2
<1>2. QED BY <1>1, ScanInvHolds, PTL

\* When Stop returns in time no goroutine of the job it found is left (StopWaits).
THEOREM StopAwaitsTheJob == Spec => []StopWaits
BY ScanInvHolds, PTL DEF ScanInv

\* Rows are only appended, and a device has one row (ListStable).
THEOREM RowsAreStable == Spec => ListStable
<1>1. ScanInv /\ [Next]_vars =>
        [/\ job'.id = job.id => IsPrefix(job.devices, job'.devices)
         /\ IsInjective(job'.devices)]_scanVars
  BY PageDrivesEngine, ListStep DEF ScanInv
<1>2. QED BY <1>1, ScanInvHolds, PTL DEF Spec, ListStable

\* A batch that has ended is neither taken up again nor changed (EndedIsFrozen).
THEOREM EndedStaysFrozen == Spec => EndedIsFrozen
<1>1. ScanInv /\ [Next]_vars =>
        [Terminal /\ job'.batch = job.batch /\ (job.state = "canceled" \/ ~overtaken)
          => job' = [job EXCEPT !.expired = job'.expired]]_scanVars
  BY PageDrivesEngine, FrozenStep DEF ScanInv
<1>2. QED BY <1>1, ScanInvHolds, PTL DEF Spec, EndedIsFrozen

(***************************************************************************)
(* Types of the page.                                                      *)
(***************************************************************************)

Poll ==
    {Idle} \cup [step : {"ask"}, id : Nat] \cup [step : {"told"}, id : Nat, light : Snapshot \cup {Gone}]
    \cup [step : {"askAll"}, id : Nat, light : Snapshot]
    \cup [step : {"toldAll"}, id : Nat, light : Snapshot, full : Snapshot \cup {Gone}]
StartCall == {Idle} \cup [step : {"sent", "failed"}] \cup [step : {"ok"}, snap : Snapshot]
ContinueCall ==
    {Idle} \cup [step : {"sent", "waiting", "failed"}, id : Nat, auto : BOOLEAN]
    \cup [step : {"ok"}, id : Nat, auto : BOOLEAN, snap : Snapshot]
    \cup [step : {"cancel", "canceled"}, id : Nat] \cup [step : {"polling"}]
CancelCall == {Idle} \cup [step : {"sent", "ok", "failed"}, id : Nat] \cup [step : {"polling"}]
Shown == [id : Nat, batch : Nat, state : State \cup {"none"}, more : BOOLEAN]

ShownTypes == shown \in Shown /\ rows \in Seq(Dev) /\ timer \in Nat
CallTypes == starting \in StartCall /\ continuing \in ContinueCall /\ canceling \in CancelCall
FlagTypes ==
    /\ mounted \in BOOLEAN /\ jobExpired \in BOOLEAN /\ autoStopped \in BOOLEAN
    /\ late \in BOOLEAN /\ byAuto \in BOOLEAN
    /\ given \in Nat /\ cancelled \in Nat /\ broken \subseteq Mishap
PageTypes == ShownTypes /\ CallTypes /\ FlagTypes /\ polls \in [Slot -> Poll]

\* A job the engine knows has a snapshot.
LEMMA JobSnapshot ==
    ASSUME EngineInv, job.id # 0
    PROVE  SnapshotOf(job) \in Snapshot
BY DEF EngineInv, ScanTypeOK, Job, JobInv, SnapshotOf, Snapshot

\* The parts of a poll.
LEMMA PollParts ==
    ASSUME NEW p \in Poll
    PROVE  /\ p.step \in {"idle", "ask", "told", "askAll", "toldAll"}
           /\ p.step = "idle" => p = Idle
           /\ p.step # "idle" => p.id \in Nat
           /\ p.step = "told" => p.light \in Snapshot \cup {Gone}
           /\ p.step \in {"askAll", "toldAll"} => p.light \in Snapshot
           /\ p.step = "toldAll" => p.full \in Snapshot \cup {Gone}
BY DEF Poll, Idle

\* The parts of the calls.
LEMMA CallParts ==
    ASSUME CallTypes
    PROVE  /\ starting.step \in {"idle", "sent", "failed", "ok"}
           /\ starting.step = "idle" => starting = Idle
           /\ starting.step = "ok" => starting.snap \in Snapshot
           /\ continuing.step \in {"idle", "sent", "waiting", "failed", "ok", "cancel", "canceled",
                                   "polling"}
           /\ continuing.step = "idle" => continuing = Idle
           /\ continuing.step \in {"sent", "waiting", "failed", "ok"}
                => continuing.id \in Nat /\ continuing.auto \in BOOLEAN
           /\ continuing.step \in {"cancel", "canceled"} => continuing.id \in Nat
           /\ continuing.step = "ok" => continuing.snap \in Snapshot
           /\ canceling.step \in {"idle", "sent", "ok", "failed", "polling"}
           /\ canceling.step = "idle" => canceling = Idle
           /\ canceling.step \in {"sent", "ok", "failed"} => canceling.id \in Nat
BY DEF CallTypes, StartCall, ContinueCall, CancelCall, Idle

\* Asking with a poll.
LEMMA AskTypes ==
    ASSUME polls \in [Slot -> Poll], NEW s \in Slot, NEW i \in Nat
    PROVE  [polls EXCEPT ![s] = Ask(i)] \in [Slot -> Poll]
BY DEF Ask, Poll

LEMMA startPollingTypes ==
    ASSUME polls \in [Slot -> Poll], NEW i \in Nat, startPolling(i)
    PROVE  polls' \in [Slot -> Poll] /\ timer' \in Nat
<1>1. timer' = i /\ (polls' = polls \/ \E s \in FreeTicks : polls' = [polls EXCEPT ![s] = Ask(i)])
  BY DEF startPolling
<1>2. FreeTicks \subseteq Slot BY DEF FreeTicks, Slot
<1>3. QED BY <1>1, <1>2, AskTypes

\* Serving a request gives an answer of its kind.
LEMMA ServePollTypes ==
    ASSUME PageTypes, EngineInv, NEW s \in Slot, ServePoll(s)
    PROVE  polls' \in [Slot -> Poll]
<1>1. polls[s] \in Poll BY DEF PageTypes
<1> DEFINE answer == IF Found(polls[s].id) THEN SnapshotOf(job) ELSE Gone
           p == IF polls[s].step = "ask"
                THEN [step |-> "told", id |-> polls[s].id, light |-> answer]
                ELSE [step |-> "toldAll", id |-> polls[s].id, light |-> polls[s].light,
                      full |-> answer]
<1>2. answer \in Snapshot \cup {Gone} BY JobSnapshot DEF Found
<1>3. polls' = [polls EXCEPT ![s] = p] BY DEF ServePoll
<1>4. polls[s].step \in {"ask", "askAll"} BY DEF ServePoll
<1> HIDE DEF answer
<1>5. p \in Poll BY <1>1, <1>2, <1>4, PollParts DEF Poll
<1> HIDE DEF p
<1>6. QED BY <1>3, <1>5 DEF PageTypes

LEMMA ServeContinueTypes ==
    ASSUME PageTypes, EngineInv, EngineInv', ServeContinue
    PROVE  continuing' \in ContinueCall
<1>c. continuing.step \in {"sent", "waiting"} BY DEF ServeContinue
<1>i. continuing \in [step : {"sent", "waiting", "failed"}, id : Nat, auto : BOOLEAN]
  BY <1>c DEF PageTypes, CallTypes, ContinueCall, Idle
<1>1. ASSUME NEW x \in Snapshot, continuing' = Continued(x) PROVE continuing' \in ContinueCall
  BY <1>1, <1>i DEF Continued, ContinueCall
<1>2. CASE ContinueBatch(ThisPage) /\ continuing' = Continued(SnapshotOf(job'))
  <2>1. job'.id # 0 BY <1>2 DEF ContinueBatch, MayContinue, Found, EngineInv, ScanTypeOK, Job
  <2>2. SnapshotOf(job') \in Snapshot
    BY <2>1 DEF EngineInv, ScanTypeOK, Job, JobInv, SnapshotOf, Snapshot
  <2>3. QED BY <2>2, <1>2, <1>1
<1>3. CASE ContinueNothingLeft(ThisPage) /\ continuing' = Continued(SnapshotOf(job))
  <2>1. job.id # 0 BY <1>3 DEF ContinueNothingLeft, MayContinue, Found
  <2>2. QED BY <2>1, <1>3, <1>1, JobSnapshot
<1>4. CASE \/ continuing' = [continuing EXCEPT !.step = "waiting"]
           \/ continuing' = [continuing EXCEPT !.step = "failed"]
  BY <1>4, <1>i DEF ContinueCall
<1>5. QED BY <1>2, <1>3, <1>4 DEF ServeContinue

LEMMA ServeStartTypes ==
    ASSUME PageTypes, EngineInv, EngineInv', ServeStart
    PROVE  starting' \in StartCall
<1>1. CASE Submit(plan.targets, plan.prefilter) /\ starting' = [step |-> "ok", snap |-> SnapshotOf(job')]
  <2>1. job'.id # 0 BY <1>1 DEF Submit, EngineInv, ScanTypeOK
  <2>2. SnapshotOf(job') \in Snapshot
    BY <2>1 DEF EngineInv, ScanTypeOK, Job, JobInv, SnapshotOf, Snapshot
  <2>3. QED BY <2>2, <1>1 DEF StartCall
<1>2. CASE starting' = [step |-> "failed"] BY <1>2 DEF StartCall
<1>3. QED BY <1>1, <1>2 DEF ServeStart

LEMMA ServeCancelTypes ==
    ASSUME PageTypes, ServeCancel
    PROVE  continuing' \in ContinueCall /\ canceling' \in CancelCall
<1>1. CASE canceling.step = "sent" /\ continuing' = continuing
  <2>1. canceling \in [step : {"sent", "ok", "failed"}, id : Nat]
    BY <1>1 DEF PageTypes, CallTypes, CancelCall, Idle
  <2>2. \/ canceling' = [canceling EXCEPT !.step = "ok"]
        \/ canceling' = [canceling EXCEPT !.step = "failed"]
        \/ canceling' = canceling
    BY DEF ServeCancel
  <2>3. QED BY <1>1, <2>1, <2>2 DEF CancelCall, PageTypes, CallTypes
<1>2. CASE /\ continuing.step = "cancel" /\ canceling' = canceling
           /\ continuing' = [continuing EXCEPT !.step = "canceled"]
  <2>1. continuing \in [step : {"cancel", "canceled"}, id : Nat]
    BY <1>2 DEF PageTypes, CallTypes, ContinueCall, Idle
  <2>2. QED BY <1>2, <2>1 DEF ContinueCall, PageTypes, CallTypes
<1>3. QED BY <1>1, <1>2 DEF ServeCancel

\* What a poll applies was told by the engine.
LEMMA PollEffect ==
    ASSUME PageTypes, NEW s \in Slot, PollGone(s) \/ PollLight(s) \/ PollFull(s) \/ PollLost(s)
    PROVE  \/ PollGone(s)
           \/ PollLost(s)
           \/ /\ polls[s].step = "told" /\ polls[s].light # Gone
              /\ polls' = [polls EXCEPT ![s].step = "askAll"]
              /\ UNCHANGED <<shown, rows, jobExpired, timer, continuing, canceling, late>>
           \/ /\ polls[s].step = "told" /\ polls[s].light \in Snapshot
              /\ Len(polls[s].light.devices) = Len(rows)
              /\ PollApplies(s, polls[s].light, FALSE)
           \/ /\ polls[s].step = "toldAll" /\ polls[s].full = Gone /\ polls[s].light \in Snapshot
              /\ PollApplies(s, polls[s].light, FALSE)
           \/ /\ polls[s].step = "toldAll" /\ polls[s].full \in Snapshot
              /\ PollApplies(s, polls[s].full, TRUE)
<1>1. polls[s] \in Poll BY DEF PageTypes
<1>2. CASE PollLight(s) BY <1>1, <1>2, PollParts DEF PollLight
<1>3. CASE PollFull(s) BY <1>1, <1>3, PollParts DEF PollFull
<1>4. QED BY <1>2, <1>3

\* The answers keep the types of the page.
LEMMA PollAppliesTypes ==
    ASSUME PageTypes, NEW s \in Slot, NEW x \in Snapshot, NEW w \in BOOLEAN, PollApplies(s, x, w)
    PROVE  /\ ShownTypes' /\ late' \in BOOLEAN /\ polls' \in [Slot -> Poll]
           /\ continuing' \in ContinueCall /\ canceling' \in CancelCall
<1>1. shown' \in Shown /\ rows' \in Seq(Dev) /\ late' \in BOOLEAN
  BY DEF PollApplies, applySnapshot, Shown, Snapshot, PageTypes, ShownTypes, FlagTypes
<1>2. timer' \in Nat BY DEF PollApplies, PageTypes, ShownTypes
<1>3. polls' \in [Slot -> Poll] BY DEF PollApplies, PollOver, PageTypes, Poll
<1>4. canceling' \in CancelCall BY DEF PollApplies, PollOver, PageTypes, CallTypes, CancelCall
<1>5. continuing' \in ContinueCall
  <2>1. x.id \in Nat /\ Idle \in ContinueCall BY DEF Snapshot, ContinueCall
  <2>2. continuing' \in {continuing, Idle, [step |-> "sent", id |-> x.id, auto |-> TRUE]}
    BY DEF PollApplies, Awaited
  <2>3. [step |-> "sent", id |-> x.id, auto |-> TRUE] \in
            [step : {"sent", "waiting", "failed"}, id : Nat, auto : BOOLEAN]
    BY <2>1
  <2>4. continuing \in ContinueCall BY DEF PageTypes, CallTypes
  <2>5. [step |-> "sent", id |-> x.id, auto |-> TRUE] \in ContinueCall BY <2>3 DEF ContinueCall
  <2>6. QED BY <2>1, <2>2, <2>4, <2>5
<1>6. QED BY <1>1, <1>2, <1>3, <1>4, <1>5 DEF ShownTypes

LEMMA PollAnswerTypes ==
    ASSUME PageTypes, NEW s \in Slot, PollAnswer(s)
    PROVE  PageTypes'
<1>u. UNCHANGED <<mounted, starting, autoStopped, given, cancelled, byAuto, broken>> BY DEF PollAnswer
<1>p. polls[s] \in Poll /\ polls \in [Slot -> Poll] BY DEF PageTypes
<1>1. ASSUME NEW x \in Snapshot, NEW w \in BOOLEAN, PollApplies(s, x, w) PROVE PageTypes'
  <2>1. jobExpired' = jobExpired BY <1>1 DEF PollApplies
  <2>2. QED BY <1>1, <1>u, <2>1, PollAppliesTypes DEF PageTypes, FlagTypes, CallTypes
<1>o. ASSUME PollOver(s), continuing' = Awaited(s) PROVE CallTypes' /\ polls' \in [Slot -> Poll]
  BY <1>o, <1>u, <1>p DEF PollOver, Awaited, PageTypes, CallTypes, CancelCall, ContinueCall, Poll
<1>2. CASE PollGone(s)
  BY <1>2, <1>u, <1>o DEF PollGone, PageTypes, ShownTypes, FlagTypes
<1>3. CASE PollLost(s)
  BY <1>3, <1>u, <1>o DEF PollLost, PageTypes, ShownTypes, FlagTypes
<1>4. CASE /\ polls[s].step = "told" /\ polls[s].light # Gone
           /\ polls' = [polls EXCEPT ![s].step = "askAll"]
           /\ UNCHANGED <<shown, rows, jobExpired, timer, continuing, canceling, late>>
  <2> DEFINE p == [polls[s] EXCEPT !.step = "askAll"]
  <2>1. p \in Poll
    <3>1. polls[s] \in [step : {"told"}, id : Nat, light : Snapshot \cup {Gone}]
      BY <1>p, <1>4 DEF Poll, Idle
    <3>2. QED BY <1>4, <3>1 DEF Poll
  <2>2. polls' = [polls EXCEPT ![s] = p] BY <1>4
  <2> HIDE DEF p
  <2>3. polls' \in [Slot -> Poll] BY <2>1, <2>2, <1>p
  <2>4. QED BY <1>4, <1>u, <2>3 DEF PageTypes, CallTypes, ShownTypes, FlagTypes
<1>5. QED BY <1>1, <1>2, <1>3, <1>4, PollEffect DEF PollAnswer

LEMMA StartAnswerTypes ==
    ASSUME PageTypes, StartAnswer
    PROVE  PageTypes'
<1>u. /\ UNCHANGED <<mounted, jobExpired, continuing, canceling, autoStopped, late, cancelled, byAuto>>
      /\ starting' = Idle
  BY DEF StartAnswer
<1>1. CASE /\ starting.step = "ok"
           /\ LET snap == starting.snap
              IN /\ shown' = [id |-> snap.id, batch |-> snap.batch, state |-> snap.state,
                              more |-> snap.more]
                 /\ rows' = snap.devices
                 /\ startPolling(snap.id)
                 /\ given' = snap.id - 1
           /\ UNCHANGED <<plan, broken>>
  <2>1. starting.snap \in Snapshot BY <1>1, CallParts DEF PageTypes
  <2>2. shown' \in Shown /\ rows' \in Seq(Dev) /\ given' \in Nat
    BY <1>1, <2>1 DEF Snapshot, Shown
  <2>3. polls' \in [Slot -> Poll] /\ timer' \in Nat
    BY <1>1, <2>1, startPollingTypes DEF Snapshot, PageTypes
  <2>4. QED BY <1>1, <1>u, <2>2, <2>3 DEF PageTypes, ShownTypes, CallTypes, FlagTypes, StartCall
<1>2. CASE broken' = broken \cup {"start"} /\ UNCHANGED <<shown, rows, timer, polls, given>>
  BY <1>2, <1>u DEF PageTypes, ShownTypes, CallTypes, FlagTypes, StartCall, Mishap
<1>3. QED BY <1>1, <1>2 DEF StartAnswer

LEMMA ContinueAnswerTypes ==
    ASSUME PageTypes, ContinueAnswer
    PROVE  PageTypes'
<1>u. UNCHANGED <<mounted, jobExpired, starting, canceling, given, cancelled, byAuto>>
  BY DEF ContinueAnswer
<1>1. CASE /\ continuing.step = "ok" /\ ContinueAnswered
           /\ UNCHANGED <<plan, broken, waiting, autoStopped>>
  <2>1. continuing.snap \in Snapshot BY <1>1, CallParts DEF PageTypes
  <2>2. shown' \in Shown /\ rows' \in Seq(Dev) /\ late' \in BOOLEAN
    BY <1>1, <2>1 DEF ContinueAnswered, applySnapshot, Snapshot, Shown, PageTypes, ShownTypes, FlagTypes
  <2>3. polls' \in [Slot -> Poll] /\ timer' \in Nat
    BY <1>1, <2>1, startPollingTypes DEF Snapshot, PageTypes, ContinueAnswered
  <2>4. continuing' \in ContinueCall
    BY <1>1, <2>1 DEF ContinueAnswered, ContinueCall, Snapshot
  <2>5. QED BY <1>1, <1>u, <2>2, <2>3, <2>4 DEF PageTypes, ShownTypes, CallTypes, FlagTypes
<1>2. CASE ContinueFailed /\ UNCHANGED <<shown, rows, late, timer, polls>>
  <2>1. /\ continuing' = Idle /\ broken' = broken \cup {"continue"} /\ autoStopped' \in BOOLEAN
    BY <1>2 DEF ContinueFailed
  <2>2. QED BY <1>2, <1>u, <2>1
            DEF PageTypes, ShownTypes, CallTypes, FlagTypes, ContinueCall, Mishap
<1>3. CASE ContinueCanceled /\ UNCHANGED <<shown, rows, late, timer, waiting, autoStopped>>
  <2>1. continuing.id \in Nat BY <1>3, CallParts DEF ContinueCanceled, PageTypes
  <2>2. "continue" \in Slot BY DEF Slot
  <2>3. polls' \in [Slot -> Poll] BY <1>3, <2>1, <2>2, AskTypes DEF ContinueCanceled, PageTypes
  <2>4. continuing' \in ContinueCall /\ broken' \subseteq Mishap
    BY <1>3 DEF ContinueCanceled, ContinueCall, Mishap, PageTypes, FlagTypes
  <2>5. QED BY <1>3, <1>u, <2>3, <2>4 DEF PageTypes, ShownTypes, CallTypes, FlagTypes
<1>4. QED BY <1>1, <1>2, <1>3 DEF ContinueAnswer

LEMMA CancelAnswerTypes ==
    ASSUME PageTypes, CancelAnswer
    PROVE  PageTypes'
<1>u. UNCHANGED <<mounted, shown, rows, jobExpired, timer, starting, continuing, autoStopped,
                  given, late, cancelled, byAuto>>
  BY DEF CancelAnswer
<1>1. broken' \subseteq Mishap BY DEF CancelAnswer, Mishap, PageTypes, FlagTypes
<1>2. canceling' \in CancelCall BY DEF CancelAnswer, CancelCall
<1>3. polls' \in [Slot -> Poll]
  <2>1. "cancel" \in Slot BY DEF Slot
  <2>2. shown.id \in Nat BY DEF PageTypes, ShownTypes, Shown
  <2>3. polls' = polls \/ polls' = [polls EXCEPT !["cancel"] = Ask(shown.id)] BY DEF CancelAnswer
  <2>4. QED BY <2>1, <2>2, <2>3, AskTypes DEF PageTypes
<1>4. QED BY <1>u, <1>1, <1>2, <1>3 DEF PageTypes, ShownTypes, CallTypes, FlagTypes

LEMMA UserTypes ==
    ASSUME PageTypes, User
    PROVE  PageTypes'
<1> USE DEF PageTypes, ShownTypes, FlagTypes
<1>s. shown.id \in Nat BY DEF Shown
<1>1. CASE handleStart BY <1>1 DEF handleStart, CallTypes, StartCall, Mishap
<1>2. CASE handleContinue
  <2>1. [step |-> "sent", id |-> shown.id, auto |-> FALSE] \in
            [step : {"sent", "waiting", "failed"}, id : Nat, auto : BOOLEAN]
    BY <1>s
  <2>2. continuing' \in ContinueCall BY <1>2, <2>1 DEF handleContinue, ContinueCall
  <2>3. QED BY <1>2, <2>2 DEF handleContinue, CallTypes
<1>3. CASE handleCancel
  <2>1. canceling' \in CancelCall BY <1>3, <1>s DEF handleCancel, CancelCall
  <2>2. broken' \subseteq Mishap BY <1>3 DEF handleCancel, Mishap
  <2>3. QED BY <1>3, <1>s, <2>1, <2>2 DEF handleCancel, CallTypes
<1>4. CASE handleProtocolChange
  BY <1>4, <1>s, EmptySeq DEF handleProtocolChange, CallTypes, Shown, NothingShown
<1>5. CASE Leave BY <1>5 DEF Leave, pastVars, CallTypes
<1>6. QED BY <1>1, <1>2, <1>3, <1>4, <1>5 DEF User

LEMMA PageTypesNext ==
    ASSUME PageTypes, EngineInv, EngineInv', [Next]_vars
    PROVE  PageTypes'
<1> USE DEF PageTypes, ShownTypes, FlagTypes
<1>1. CASE EngineStep BY <1>1 DEF EngineStep, pageVars, pastVars, CallTypes
<1>2. CASE JobExpires BY <1>2 DEF JobExpires, pageVars, pastVars, CallTypes
<1>3. CASE OtherClient
  <2>1. byAuto' \in BOOLEAN /\ broken' \subseteq Mishap BY <1>3 DEF OtherClient, Mishap
  <2>2. QED BY <1>3, <2>1 DEF OtherClient, pageVars, CallTypes
<1>4. CASE Serve
  <2>1. ASSUME NEW s \in Slot, ServePoll(s) PROVE PageTypes'
    BY <2>1, ServePollTypes DEF ServePoll, pastVars, CallTypes
  <2>2. CASE ServeStart
    <3>1. byAuto' \in BOOLEAN BY <2>2 DEF ServeStart
    <3>2. QED BY <2>2, <3>1, ServeStartTypes DEF ServeStart, CallTypes
  <2>3. CASE ServeContinue
    <3>1. byAuto' \in BOOLEAN
      <4>1. continuing.step = "waiting" => continuing.auto \in BOOLEAN BY CallParts
      <4>2. QED BY <2>3, <4>1 DEF ServeContinue
    <3>2. QED BY <2>3, <3>1, ServeContinueTypes DEF ServeContinue, CallTypes
  <2>4. CASE ServeCancel BY <2>4, ServeCancelTypes DEF ServeCancel, pastVars, CallTypes
  <2>5. QED BY <1>4, <2>1, <2>2, <2>3, <2>4 DEF Serve
<1>5. CASE Answer
  BY <1>5, PollAnswerTypes, StartAnswerTypes, ContinueAnswerTypes, CancelAnswerTypes DEF Answer
<1>6. CASE Tick
  <2>1. FreeTicks \subseteq Slot BY DEF FreeTicks, Slot
  <2>2. polls' \in [Slot -> Poll] BY <1>6, <2>1, AskTypes DEF Tick
  <2>3. QED BY <1>6, <2>2 DEF Tick, pastVars, CallTypes
<1>7. CASE PollDeadline BY <1>7 DEF PollDeadline, CallTypes, Mishap
<1>8. CASE User BY <1>8, UserTypes
<1>9. CASE UNCHANGED vars BY <1>9 DEF vars, pageVars, pastVars, CallTypes
<1>10. QED BY <1>1, <1>2, <1>3, <1>4, <1>5, <1>6, <1>7, <1>8, <1>9 DEF Next

(***************************************************************************)
(* Who waits for which poll.                                               *)
(***************************************************************************)

\* The two slots of their own are in use only while their caller waits for them, and a scan
\* is not started and continued at the same time.
SlotInv ==
    /\ polls["cancel"] # Idle => canceling.step = "polling"
    /\ polls["continue"] # Idle => continuing.step = "polling"
    /\ starting = Idle \/ continuing = Idle

\* A slot is taken only by its caller, and given back before the caller goes on.
LEMMA SlotStep ==
    ASSUME PageTypes, SlotInv, [Next]_vars
    PROVE  SlotInv'
<1>n. "cancel" \in Slot /\ "continue" \in Slot /\ Ticks \subseteq Slot BY DEF Slot
<1>t. "cancel" \notin Ticks /\ "continue" \notin Ticks BY ScanPageAssumption
<1>p. polls \in [Slot -> Poll] BY DEF PageTypes
<1>d. Idle.step = "idle" BY DEF Idle
<1>a. ASSUME NEW i, startPolling(i)
      PROVE  polls'["cancel"] = polls["cancel"] /\ polls'["continue"] = polls["continue"]
  BY <1>a, <1>n, <1>t, <1>p DEF startPolling, FreeTicks
<1>1. CASE EngineStep BY <1>1 DEF EngineStep, pageVars, SlotInv
<1>2. CASE JobExpires BY <1>2 DEF JobExpires, pageVars, SlotInv
<1>3. CASE OtherClient BY <1>3 DEF OtherClient, pageVars, SlotInv
<1>4. CASE Serve
  <2>1. ASSUME NEW s \in Slot, ServePoll(s) PROVE SlotInv'
    <3>1. polls[s] # Idle /\ UNCHANGED <<starting, continuing, canceling>>
      BY <2>1, <1>d DEF ServePoll
    <3>2. \A q \in Slot : q # s => polls'[q] = polls[q] BY <2>1, <1>p DEF ServePoll
    <3>3. QED BY <3>1, <3>2, <1>n DEF SlotInv
  <2>2. CASE ServeStart BY <2>2, <1>d DEF ServeStart, SlotInv
  <2>3. CASE ServeContinue
    <3>1. continuing # Idle /\ continuing.step # "polling" BY <2>3, <1>d DEF ServeContinue
    <3>2. UNCHANGED <<polls, starting, canceling>> BY <2>3 DEF ServeContinue
    <3>3. QED BY <3>1, <3>2 DEF SlotInv
  <2>4. CASE ServeCancel
    <3>1. UNCHANGED <<polls, starting>> BY <2>4 DEF ServeCancel
    <3>2. \/ canceling.step # "polling" /\ continuing' = continuing
          \/ continuing.step = "cancel" /\ canceling' = canceling
      BY <2>4 DEF ServeCancel
    <3>3. QED BY <3>1, <3>2, <1>d DEF SlotInv
  <2>5. QED BY <1>4, <2>1, <2>2, <2>3, <2>4 DEF Serve
<1>5. CASE Answer
  <2>1. ASSUME NEW s \in Slot, PollAnswer(s) PROVE SlotInv'
    <3>u. starting' = starting BY <2>1 DEF PollAnswer
    <3>o. ASSUME PollOver(s), \/ continuing' = Awaited(s)
                              \/ starting = Idle /\ continuing = Idle
          PROVE  SlotInv'
      <4>1. polls'[s] = Idle /\ \A q \in Slot : q # s => polls'[q] = polls[q]
        BY <3>o, <1>p DEF PollOver
      <4>2. s # "cancel" => canceling' = canceling BY <3>o DEF PollOver
      <4>3. CASE continuing' = Awaited(s)
        BY <4>1, <4>2, <4>3, <3>u, <1>n DEF SlotInv, Awaited
      <4>4. CASE starting = Idle /\ continuing = Idle
        BY <4>1, <4>2, <4>4, <3>u, <1>n, <1>d DEF SlotInv
      <4>5. QED BY <3>o, <4>3, <4>4
    <3>1. CASE PollGone(s) BY <3>1, <3>o DEF PollGone
    <3>2. CASE PollLost(s) BY <3>2, <3>o DEF PollLost
    <3>3. CASE /\ polls[s].step = "told"
               /\ polls' = [polls EXCEPT ![s].step = "askAll"]
               /\ UNCHANGED <<continuing, canceling>>
      <4>1. polls[s] # Idle BY <3>3, <1>d
      <4>2. \A q \in Slot : q # s => polls'[q] = polls[q] BY <3>3, <1>p
      <4>3. QED BY <3>3, <3>u, <4>1, <4>2, <1>n DEF SlotInv
    <3>4. ASSUME NEW x, NEW w, PollApplies(s, x, w) PROVE SlotInv'
      BY <3>4, <3>o DEF PollApplies, canAutoContinue
    <3>5. QED BY <2>1, <3>1, <3>2, <3>3, <3>4, PollEffect DEF PollAnswer
  <2>2. CASE StartAnswer
    <3>1. starting' = Idle /\ UNCHANGED <<continuing, canceling>> BY <2>2 DEF StartAnswer
    <3>2. polls' = polls \/ \E i : startPolling(i) BY <2>2 DEF StartAnswer
    <3>3. polls'["cancel"] = polls["cancel"] /\ polls'["continue"] = polls["continue"]
      BY <3>2, <1>a
    <3>4. QED BY <3>1, <3>3 DEF SlotInv
  <2>3. CASE ContinueAnswer
    <3>u. UNCHANGED <<starting, canceling>> BY <2>3 DEF ContinueAnswer
    <3>0. continuing # Idle BY <2>3, <1>d DEF ContinueAnswer, ContinueFailed, ContinueCanceled
    <3>1. CASE continuing.step = "ok" /\ ContinueAnswered
      <4>1. polls'["cancel"] = polls["cancel"] /\ polls'["continue"] = polls["continue"]
        BY <3>1, <1>a DEF ContinueAnswered
      <4>2. QED BY <3>u, <3>0, <3>1, <4>1 DEF SlotInv
    <3>2. CASE ContinueFailed /\ polls' = polls
      <4>1. continuing.step # "polling" /\ continuing' = Idle BY <3>2 DEF ContinueFailed
      <4>2. QED BY <3>u, <3>2, <4>1 DEF SlotInv
    <3>3. CASE ContinueCanceled
      <4>1. continuing'.step = "polling" /\ polls'["cancel"] = polls["cancel"]
        BY <3>3, <1>p, <1>n DEF ContinueCanceled
      <4>2. QED BY <3>u, <3>0, <4>1 DEF SlotInv
    <3>4. QED BY <2>3, <3>1, <3>2, <3>3 DEF ContinueAnswer
  <2>4. CASE CancelAnswer
    <3>1. UNCHANGED <<starting, continuing>> /\ canceling.step # "polling" BY <2>4 DEF CancelAnswer
    <3>2. \/ canceling'.step = "polling" /\ polls' = [polls EXCEPT !["cancel"] = Ask(shown.id)]
          \/ canceling' = Idle /\ polls' = polls
      BY <2>4 DEF CancelAnswer
    <3>3. polls'["continue"] = polls["continue"] BY <3>2, <1>p, <1>n
    <3>4. QED BY <3>1, <3>2, <3>3 DEF SlotInv
  <2>5. QED BY <1>5, <2>1, <2>2, <2>3, <2>4 DEF Answer
<1>6. CASE Tick
  <2>1. polls'["cancel"] = polls["cancel"] /\ polls'["continue"] = polls["continue"]
    BY <1>6, <1>n, <1>t, <1>p DEF Tick, FreeTicks
  <2>2. QED BY <1>6, <2>1 DEF Tick, SlotInv
<1>7. CASE PollDeadline BY <1>7 DEF PollDeadline, SlotInv
<1>8. CASE User
  BY <1>8, <1>d DEF User, handleStart, handleContinue, handleCancel, handleProtocolChange, Leave, SlotInv
<1>9. CASE UNCHANGED vars BY <1>9 DEF vars, pageVars, SlotInv
<1>10. QED BY <1>1, <1>2, <1>3, <1>4, <1>5, <1>6, <1>7, <1>8, <1>9 DEF Next

(***************************************************************************)
(* What the steps of the composition do to the job.                        *)
(***************************************************************************)

\* A step of the engine that starts no batch.
Calm ==
    \/ \E id : Lookup(id) \/ Cancel(id)
    \/ \E c \in Caller : \/ \E id : ContinueBegin(c, id)
                         \/ ContinueNothingLeft(c) \/ ContinueRefused(c) \/ Released(c)
    \/ Expire \/ StopBegin \/ StopReturn
    \/ \E r \in runs : RunStep(r)
    \/ UNCHANGED scanVars

\* The job is forgotten, or stays in its batch, and once ended stays so.
LEMMA CalmStep ==
    ASSUME EngineInv, Calm
    PROVE  /\ jobs' = jobs /\ batches' = batches /\ overtaken' = overtaken
           /\ \/ job' = NoJob
              \/ /\ job'.id = job.id /\ job'.batch = job.batch
                 /\ job'.state = "running" => job.state = "running"
<1>j. job \in Job BY DEF EngineInv, ScanTypeOK
<1>1. ASSUME NEW id, Lookup(id) \/ Cancel(id)
      PROVE  /\ jobs' = jobs /\ batches' = batches /\ overtaken' = overtaken
             /\ \/ job' = NoJob
                \/ /\ job'.id = job.id /\ job'.batch = job.batch
                   /\ job'.state = "running" => job.state = "running"
  BY <1>1, <1>j DEF Lookup, Cancel, Job
<1>2. ASSUME NEW c \in Caller, \/ \E id : ContinueBegin(c, id)
                               \/ ContinueNothingLeft(c) \/ ContinueRefused(c) \/ Released(c)
      PROVE  jobs' = jobs /\ batches' = batches /\ overtaken' = overtaken /\ (job' = job \/ job' = NoJob)
  BY <1>2 DEF ContinueBegin, ContinueNothingLeft, ContinueRefused, Released
<1>3. CASE Expire BY <1>3, <1>j DEF Expire, Job
<1>4. CASE StopBegin \/ StopReturn BY <1>4, <1>j DEF StopBegin, StopReturn, Job
<1>5. ASSUME NEW r \in runs, RunStep(r)
      PROVE  /\ jobs' = jobs /\ batches' = batches /\ overtaken' = overtaken
             /\ job'.id = job.id /\ job'.batch = job.batch
             /\ job'.state = "running" => job.state = "running"
  <2>1. /\ job'.id = job.id /\ job'.batch = job.batch /\ Tidy(r)
        /\ UNCHANGED <<jobs, batches, overtaken>>
    BY <1>5, RunKeepsBatch DEF EngineInv, RunsInv
  <2>2. ASSUME NEW s, \/ Moves(r, s) \/ Ends(r, s) \/ \E t, devices : Evaluates(r, s, t, devices)
        PROVE  job'.state = "running" => job.state = "running"
    BY <2>2, <1>j DEF Moves, Ends, Evaluates, Job
  <2>3. QED BY <1>5, <2>1, <2>2, RunStepEffect DEF EngineInv
<1>6. CASE UNCHANGED scanVars BY <1>6 DEF scanVars
<1>7. QED BY <1>1, <1>2, <1>3, <1>4, <1>5, <1>6 DEF Calm

\* Who starts a batch, and what else changes then.
OwnStart ==
    /\ ServeStart /\ \E n \in Position, prefilter \in BOOLEAN : Submit(n, prefilter)
    /\ starting.step = "sent" /\ starting' = [step |-> "ok", snap |-> SnapshotOf(job')]
    /\ byAuto' = FALSE
OwnContinue ==
    /\ ServeContinue /\ ContinueBatch(ThisPage)
    /\ continuing.step = "waiting" /\ continuing' = Continued(SnapshotOf(job'))
    /\ byAuto' = continuing.auto
OtherStart ==
    /\ \E n \in Position, prefilter \in BOOLEAN : Submit(n, prefilter)
    /\ byAuto' = FALSE /\ UNCHANGED <<pageVars, given, late, cancelled, broken>>
OtherContinue ==
    /\ \E c \in Other : ContinueBatch(c)
    /\ byAuto' = FALSE /\ broken' = broken \cup {"foreign"}
    /\ UNCHANGED <<pageVars, given, late, cancelled>>

\* Every step of the composition that starts a batch is one of these.
LEMMA BatchStarts ==
    ASSUME plan \in Plan, [Next]_vars
    PROVE  (Calm /\ byAuto' = byAuto) \/ OwnStart \/ OwnContinue \/ OtherStart \/ OtherContinue
<1>p. plan.targets \in Position /\ plan.prefilter \in BOOLEAN BY DEF Plan
<1>c. ThisPage \in Caller BY ScanPageAssumption
<1>1. CASE EngineStep BY <1>1 DEF EngineStep, Calm, pastVars
<1>2. CASE JobExpires BY <1>2 DEF JobExpires, Calm, pastVars
<1>3. CASE OtherClient
  <2>0. UNCHANGED <<pageVars, given, late, cancelled>> BY <1>3 DEF OtherClient
  <2>1. CASE Submit(plan.targets, plan.prefilter) /\ byAuto' = FALSE /\ UNCHANGED broken
    BY <2>0, <2>1, <1>p DEF OtherStart
  <2>2. CASE (\E c \in Other : ContinueBegin(c, job.id)) /\ UNCHANGED byAuto
    BY <2>2 DEF Calm, Other
  <2>3. CASE Cancel(job.id) /\ UNCHANGED byAuto BY <2>3 DEF Calm
  <2>4. CASE (StopBegin \/ StopReturn) /\ UNCHANGED byAuto BY <2>4 DEF Calm
  <2>5. CASE \E c \in Other : /\ ContinueNothingLeft(c) \/ ContinueRefused(c) \/ ContinueTimeout(c)
                              /\ UNCHANGED <<byAuto, broken>>
    BY <2>5 DEF Calm, Other, ContinueTimeout, Released
  <2>6. CASE \E c \in Other : ContinueBatch(c) /\ byAuto' = FALSE /\ broken' = broken \cup {"foreign"}
    BY <2>0, <2>6 DEF OtherContinue
  <2>7. QED BY <1>3, <2>1, <2>2, <2>3, <2>4, <2>5, <2>6 DEF OtherClient
<1>4. CASE Serve
  <2>1. ASSUME NEW s \in Slot, ServePoll(s) PROVE Calm /\ byAuto' = byAuto
    <3>1. Lookup(polls[s].id) /\ byAuto' = byAuto BY <2>1 DEF ServePoll, pastVars
    <3>2. QED BY <3>1 DEF Calm
  <2>2. CASE ServeStart
    <3>1. CASE Submit(plan.targets, plan.prefilter)
      <4>1. \/ byAuto' = FALSE /\ starting' = [step |-> "ok", snap |-> SnapshotOf(job')]
            \/ ~MaySubmit
        BY <2>2 DEF ServeStart
      <4>2. MaySubmit BY <3>1 DEF Submit
      <4>3. QED BY <2>2, <3>1, <4>1, <4>2, <1>p DEF ServeStart, OwnStart
    <3>2. CASE UNCHANGED <<scanVars, byAuto>> BY <3>2 DEF Calm
    <3>3. QED BY <2>2, <3>1, <3>2 DEF ServeStart
  <2>3. CASE ServeContinue
    <3>1. CASE ContinueBegin(ThisPage, continuing.id) /\ UNCHANGED byAuto BY <3>1, <1>c DEF Calm
    <3>2. CASE Lookup(continuing.id) /\ UNCHANGED byAuto BY <3>2 DEF Calm
    <3>3. CASE /\ ContinueBatch(ThisPage) /\ continuing.step = "waiting"
               /\ continuing' = Continued(SnapshotOf(job')) /\ byAuto' = continuing.auto
      BY <3>3, <2>3 DEF OwnContinue
    <3>4. CASE (ContinueNothingLeft(ThisPage) \/ ContinueRefused(ThisPage)) /\ UNCHANGED byAuto
      BY <3>4, <1>c DEF Calm
    <3>5. QED BY <2>3, <3>1, <3>2, <3>3, <3>4 DEF ServeContinue
  <2>4. CASE ServeCancel
    <3>1. byAuto' = byAuto /\ \E id : Cancel(id) BY <2>4 DEF ServeCancel, pastVars
    <3>2. QED BY <3>1 DEF Calm
  <2>5. QED BY <1>4, <2>1, <2>2, <2>3, <2>4 DEF Serve
<1>5. CASE Answer
  <2>1. CASE \E s \in Slot : PollAnswer(s) BY <2>1 DEF PollAnswer, Calm
  <2>2. CASE StartAnswer BY <2>2 DEF StartAnswer, Calm
  <2>3. CASE ContinueAnswer
    <3>1. \/ UNCHANGED waiting
          \/ waiting' = [waiting EXCEPT ![ThisPage] = None]
      BY <2>3 DEF ContinueAnswer, ContinueFailed
    <3>2. UNCHANGED <<job, runs, jobs, batches, stop, evaluated, overtaken, byAuto>>
      BY <2>3 DEF ContinueAnswer
    <3>3. QED BY <3>1, <3>2, <1>c DEF Calm, Released, scanVars
  <2>4. CASE CancelAnswer BY <2>4 DEF CancelAnswer, Calm
  <2>5. QED BY <1>5, <2>1, <2>2, <2>3, <2>4 DEF Answer
<1>6. CASE Tick BY <1>6 DEF Tick, Calm, pastVars
<1>7. CASE PollDeadline BY <1>7 DEF PollDeadline, Calm
<1>8. CASE User
  BY <1>8 DEF User, handleStart, handleContinue, handleCancel, handleProtocolChange, Leave, Calm,
              pastVars
<1>9. CASE UNCHANGED vars BY <1>9 DEF vars, Calm, pastVars
<1>10. QED BY <1>1, <1>2, <1>3, <1>4, <1>5, <1>6, <1>7, <1>8, <1>9 DEF Next

(***************************************************************************)
(* A cancel sticks.                                                        *)
(***************************************************************************)

\* A request is under way that will cancel the job.
CancelOnItsWay ==
    \/ canceling.step = "sent" /\ canceling.id = job.id
    \/ continuing.step = "ok" /\ continuing.auto /\ continuing.snap.id = job.id
    \/ continuing.step = "cancel" /\ continuing.id = job.id

\* The page runs a job on by itself that the user has cancelled.
RunsOn ==
    /\ broken \cap {"continue", "cancel"} = {}
    /\ job.id # 0 /\ job.id = cancelled /\ byAuto /\ ~Terminal

CancelInv ==
    /\ cancelled # 0 => autoStopped
    /\ RunsOn => CancelOnItsWay

\* A request to cancel stays under way until the job is cancelled, or the request has failed.
LEMMA CancelGoesOn ==
    ASSUME PageTypes, SlotInv, [Next]_vars, CancelOnItsWay, autoStopped,
           job'.id = job.id, ~Terminal', broken' \cap {"continue", "cancel"} = {}
    PROVE  CancelOnItsWay'
<1>d. Idle.step = "idle" BY DEF Idle
<1>i. continuing # Idle \/ canceling # Idle BY <1>d DEF CancelOnItsWay
<1>u. ASSUME UNCHANGED <<canceling, continuing>> PROVE CancelOnItsWay'
  BY <1>u DEF CancelOnItsWay
<1>1. CASE EngineStep BY <1>1, <1>u DEF EngineStep, pageVars
<1>2. CASE JobExpires BY <1>2, <1>u DEF JobExpires, pageVars
<1>3. CASE OtherClient BY <1>3, <1>u DEF OtherClient, pageVars
<1>4. CASE Serve
  <2>1. ASSUME NEW s \in Slot, ServePoll(s) PROVE CancelOnItsWay' BY <2>1, <1>u DEF ServePoll
  <2>2. CASE ServeStart BY <2>2, <1>u DEF ServeStart
  <2>3. CASE ServeContinue
    <3>1. canceling' = canceling /\ continuing.step \in {"sent", "waiting"} BY <2>3 DEF ServeContinue
    <3>2. QED BY <3>1 DEF CancelOnItsWay
  <2>4. CASE ServeCancel
    <3>1. ASSUME NEW i, Cancel(i) PROVE i # job.id
      <4>1. CASE Terminal BY <3>1, <4>1 DEF Cancel, Terminal
      <4>2. CASE ~Terminal /\ i = job.id
        <5>1. job' = [job EXCEPT !.state = "canceled"] BY <3>1, <4>2 DEF Cancel
        <5>2. job' = [job EXCEPT !.state = "canceled"]
                  => job'.state # "running" \/ "state" \notin DOMAIN job
          OBVIOUS
        <5>3. QED BY <5>1, <5>2 DEF Terminal
      <4>3. QED BY <4>1, <4>2
    <3>2. \/ Cancel(canceling.id) /\ canceling.step = "sent" /\ continuing' = continuing
          \/ Cancel(continuing.id) /\ continuing.step = "cancel" /\ canceling' = canceling
      BY <2>4 DEF ServeCancel
    <3>3. QED BY <3>1, <3>2 DEF CancelOnItsWay
  <2>5. QED BY <1>4, <2>1, <2>2, <2>3, <2>4 DEF Serve
<1>5. CASE Answer
  <2>1. ASSUME NEW s \in Slot, PollAnswer(s) PROVE CancelOnItsWay'
    <3>1. polls[s] # Idle
      BY <2>1, <1>d DEF PollAnswer, PollGone, PollLight, PollFull, PollLost
    <3>o. ASSUME PollOver(s), continuing' = Awaited(s) PROVE CancelOnItsWay'
      BY <3>o, <3>1, <1>d DEF PollOver, Awaited, SlotInv, CancelOnItsWay
    <3>2. CASE PollGone(s) BY <3>2, <3>o DEF PollGone
    <3>3. CASE PollLost(s) BY <3>3, <3>o DEF PollLost
    <3>4. CASE UNCHANGED <<continuing, canceling>> BY <3>4, <1>u
    <3>5. ASSUME NEW x, NEW w, PollApplies(s, x, w) PROVE CancelOnItsWay'
      <4>1. ~canAutoContinue(x) BY <1>i DEF canAutoContinue
      <4>2. QED BY <3>5, <4>1, <3>o DEF PollApplies
    <3>6. QED BY <2>1, <3>2, <3>3, <3>4, <3>5, PollEffect DEF PollAnswer
  <2>2. CASE StartAnswer BY <2>2, <1>u DEF StartAnswer
  <2>3. CASE ContinueAnswer
    <3>u. canceling' = canceling /\ job' = job BY <2>3 DEF ContinueAnswer
    <3>1. CASE continuing.step = "ok" /\ ContinueAnswered
      <4>1. continuing.auto => continuing' = [step |-> "cancel", id |-> continuing.snap.id]
        BY <3>1 DEF ContinueAnswered
      <4>2. QED BY <3>1, <3>u, <4>1 DEF CancelOnItsWay
    <3>2. CASE ContinueFailed BY <3>2 DEF ContinueFailed
    <3>3. CASE ContinueCanceled
      <4>1. continuing.step = "canceled" BY <3>3 DEF ContinueCanceled
      <4>2. QED BY <3>u, <4>1 DEF CancelOnItsWay
    <3>4. QED BY <2>3, <3>1, <3>2, <3>3 DEF ContinueAnswer
  <2>4. CASE CancelAnswer
    <3>1. continuing' = continuing /\ job' = job BY <2>4 DEF CancelAnswer, scanVars
    <3>2. canceling.step # "sent" BY <2>4 DEF CancelAnswer
    <3>3. QED BY <3>1, <3>2 DEF CancelOnItsWay
  <2>5. QED BY <1>5, <2>1, <2>2, <2>3, <2>4 DEF Answer
<1>6. CASE Tick BY <1>6, <1>u DEF Tick
<1>7. CASE PollDeadline BY <1>7, <1>u DEF PollDeadline
<1>8. CASE User
  <2>1. CASE handleContinue BY <2>1, <1>i DEF handleContinue
  <2>2. CASE handleCancel
    <3>1. canceling = Idle /\ continuing' = continuing BY <2>2 DEF handleCancel
    <3>2. QED BY <3>1, <1>d DEF CancelOnItsWay
  <2>3. CASE handleStart \/ handleProtocolChange \/ Leave
    BY <2>3, <1>u DEF handleStart, handleProtocolChange, Leave
  <2>4. QED BY <1>8, <2>1, <2>2, <2>3 DEF User
<1>9. CASE UNCHANGED vars BY <1>9, <1>u DEF vars, pageVars
<1>10. QED BY <1>1, <1>2, <1>3, <1>4, <1>5, <1>6, <1>7, <1>8, <1>9 DEF Next

\* What went wrong is not forgotten.
LEMMA BrokenGrows ==
    ASSUME [Next]_vars
    PROVE  broken \subseteq broken'
<1>1. CASE EngineStep \/ JobExpires BY <1>1 DEF EngineStep, JobExpires, pastVars
<1>2. CASE OtherClient BY <1>2 DEF OtherClient
<1>3. CASE Serve BY <1>3 DEF Serve, ServePoll, ServeStart, ServeContinue, ServeCancel, pastVars
<1>4. CASE Answer
  BY <1>4 DEF Answer, PollAnswer, StartAnswer, ContinueAnswer, ContinueFailed, ContinueCanceled,
              CancelAnswer
<1>5. CASE Tick \/ PollDeadline BY <1>5 DEF Tick, PollDeadline, pastVars
<1>6. CASE User
  BY <1>6 DEF User, handleStart, handleContinue, handleCancel, handleProtocolChange, Leave, pastVars
<1>7. CASE UNCHANGED vars BY <1>7 DEF vars, pastVars
<1>8. QED BY <1>1, <1>2, <1>3, <1>4, <1>5, <1>6, <1>7 DEF Next

\* Only the user changes what they have cancelled, and lets it be continued again.
LEMMA CancelledStep ==
    ASSUME [Next]_vars
    PROVE  \/ cancelled' = cancelled /\ (autoStopped => autoStopped')
           \/ cancelled' = 0
           \/ canceling'.step = "sent" /\ canceling'.id = cancelled' /\ autoStopped'
<1>1. CASE EngineStep \/ JobExpires
  BY <1>1 DEF EngineStep, JobExpires, pageVars, pastVars
<1>2. CASE OtherClient BY <1>2 DEF OtherClient, pageVars
<1>3. CASE Serve BY <1>3 DEF Serve, ServePoll, ServeStart, ServeContinue, ServeCancel, pastVars
<1>4. CASE Answer
  BY <1>4 DEF Answer, PollAnswer, StartAnswer, ContinueAnswer, ContinueFailed, CancelAnswer
<1>5. CASE Tick \/ PollDeadline BY <1>5 DEF Tick, PollDeadline, pastVars
<1>6. CASE handleCancel BY <1>6 DEF handleCancel
<1>7. CASE User /\ ~handleCancel
  BY <1>7 DEF User, handleStart, handleContinue, handleProtocolChange, Leave, pastVars
<1>8. CASE UNCHANGED vars BY <1>8 DEF vars, pageVars, pastVars
<1>9. QED BY <1>1, <1>2, <1>3, <1>4, <1>5, <1>6, <1>7, <1>8 DEF Next

\* CancelInv is kept: a batch that the page starts by itself after a cancel has its answer,
\* which will cancel it, under way.
LEMMA CancelStep ==
    ASSUME plan \in Plan, EngineInv, PageTypes, SlotInv, CancelInv, [Next]_vars
    PROVE  CancelInv'
<1>1. cancelled' # 0 => autoStopped' BY CancelledStep DEF CancelInv
<1>2. ASSUME RunsOn' PROVE CancelOnItsWay'
  <2>1. CASE OwnStart \/ OtherStart \/ OtherContinue
    BY <1>2, <2>1 DEF OwnStart, OtherStart, OtherContinue, RunsOn
  <2>2. CASE OwnContinue
    BY <1>2, <2>2 DEF OwnContinue, Continued, SnapshotOf, RunsOn, CancelOnItsWay
  <2>3. CASE Calm /\ byAuto' = byAuto
    <3>1. job'.id # 0 /\ job'.id = cancelled' /\ byAuto /\ job'.state = "running"
      BY <1>2, <2>3 DEF RunsOn, Terminal
    <3>2. job'.id = job.id /\ job.state = "running" BY <2>3, <3>1, CalmStep DEF NoJob
    <3>3. broken' \cap {"continue", "cancel"} = {} /\ broken \cap {"continue", "cancel"} = {}
      BY <1>2, BrokenGrows DEF RunsOn
    <3>4. CASE cancelled' = cancelled
      <4>1. RunsOn BY <3>1, <3>2, <3>3, <3>4 DEF RunsOn, Terminal
      <4>2. CancelOnItsWay /\ autoStopped BY <3>1, <3>4, <4>1 DEF CancelInv
      <4>3. ~Terminal' BY <3>1 DEF Terminal
      <4>4. QED BY <3>2, <3>3, <4>2, <4>3, CancelGoesOn
    <3>5. CASE canceling'.step = "sent" /\ canceling'.id = cancelled'
      BY <3>1, <3>5 DEF CancelOnItsWay
    <3>6. QED BY <3>1, <3>4, <3>5, CancelledStep
  <2>4. QED BY <2>1, <2>2, <2>3, BatchStarts
<1>3. QED BY <1>1, <1>2 DEF CancelInv

\* The engine's invariant with the page's types, slots and cancels.
PageInv == ScanInv /\ PageTypes /\ SlotInv /\ CancelInv

\* It is an invariant.
LEMMA PageInvInit == Init => PageInv
<1> SUFFICES ASSUME Init PROVE PageInv OBVIOUS
<1>1. ScanInv BY ScanInvInit
<1>2. PageTypes
  BY EmptySeq DEF Init, PageTypes, ShownTypes, CallTypes, FlagTypes, Shown, NothingShown, Poll,
                  StartCall, ContinueCall, CancelCall
<1>3. SlotInv BY DEF Init, SlotInv, Slot
<1>4. CancelInv BY DEF Init, CancelInv, RunsOn, ScanInit, NoJob
<1>5. QED BY <1>1, <1>2, <1>3, <1>4 DEF PageInv

LEMMA PageInvNext == PageInv /\ [Next]_vars => PageInv'
<1> SUFFICES ASSUME PageInv, [Next]_vars PROVE PageInv' OBVIOUS
<1>1. ScanInv' BY ScanInvNext DEF PageInv
<1>2. PageTypes' BY <1>1, PageTypesNext DEF PageInv, ScanInv
<1>3. SlotInv' BY SlotStep DEF PageInv
<1>4. CancelInv' BY CancelStep DEF PageInv, ScanInv
<1>5. QED BY <1>1, <1>2, <1>3, <1>4 DEF PageInv

LEMMA PageInvHolds == Spec => []PageInv
BY PageInvInit, PageInvNext, PTL DEF Spec

\* No variable of the page or the engine leaves its type (TypeOK).
THEOREM TypesHold == Spec => []TypeOK
<1>1. PageInv => TypeOK
  <2> SUFFICES ASSUME PageInv PROVE TypeOK OBVIOUS
  <2>1. ScanTypeOK /\ plan \in Plan BY DEF PageInv, ScanInv, EngineInv
  <2>2. PageTypes BY DEF PageInv
  <2>3. \A s \in Slot : polls[s].step \in {"idle", "ask", "told", "askAll", "toldAll"}
    BY <2>2, PollParts DEF PageTypes
  <2>4. /\ starting.step \in {"idle", "sent", "ok", "failed"}
        /\ continuing.step \in {"idle", "sent", "waiting", "ok", "failed", "cancel", "canceled",
                                "polling"}
        /\ canceling.step \in {"idle", "sent", "ok", "failed", "polling"}
    BY <2>2, CallParts DEF PageTypes
  <2>5. QED BY <2>1, <2>2, <2>3, <2>4 DEF TypeOK, PageTypes, ShownTypes, FlagTypes, Shown
<1>2. QED BY <1>1, PageInvHolds, PTL

\* After a cancel no batch that the page started by itself keeps running (CancelSticks): until
\* the job is cancelled a request to cancel it is under way.
THEOREM CancelHolds == Spec => []CancelSticks
<1>1. PageInv => CancelSticks
  <2> SUFFICES ASSUME PageInv, Quiet, RunsOn PROVE FALSE BY DEF CancelSticks, RunsOn
  <2>1. CancelOnItsWay BY DEF PageInv, CancelInv
  <2>2. QED BY <2>1 DEF Quiet, CancelOnItsWay, Idle
<1>2. QED BY <1>1, PageInvHolds, PTL

===============================================================================
