------------------------------- MODULE DeviceScan -------------------------------
(***************************************************************************)
(* The LAN scan engine (devicescan/engine.go, job.go, prefilter.go): one   *)
(* scan job at a time, its targets probed in batches of at most Limit by   *)
(* concurrent goroutines, cancelled, continued and stopped from HTTP.      *)
(*                                                                         *)
(* Targets are their positions in the virtual list that expandTargetsPage  *)
(* pages through, so a batch is an interval of positions.  j.ctx is        *)
(* cancelled exactly when the job is canceled: markCanceledLocked cancels  *)
(* it, and Continue replaces it as it sets the job running again.  The     *)
(* doneCh of a batch is closed when its run has left runs.                 *)
(*                                                                         *)
(* Here are the engine's steps; who calls it is the composition's matter   *)
(* (ScanPage).                                                             *)
(***************************************************************************)
EXTENDS Integers, Sequences, FiniteSets, SequencesExt

CONSTANTS
    MaxTargets,     \* targets of all subnets
    Limit,          \* maxTargets, the targets of one batch
    MaxConcurrent,  \* maxConcurrent probes of a batch
    Dev,            \* devices
    Answers,        \* target -> devices its probe reports, in any order
    Caller          \* HTTP callers

Position == 1 .. MaxTargets

ASSUME DeviceScanAssumption ==
    /\ {MaxTargets, Limit, MaxConcurrent} \subseteq Nat \ {0}
    /\ IsFiniteSet(Dev) /\ Answers \in [Position -> SUBSET Dev]

State == {"running", "done", "canceled"}
Job == [id : Nat, state : State \cup {"none"}, requested : 0 .. MaxTargets, prefilter : BOOLEAN,
        batchStart : Nat, offset : Nat, scanned : Nat, devices : Seq(Dev), batch : Nat,
        expired : BOOLEAN]
NoJob == [id |-> 0, state |-> "none", requested |-> 0, prefilter |-> FALSE, batchStart |-> 0,
          offset |-> 0, scanned |-> 0, devices |-> <<>>, batch |-> 0, expired |-> FALSE]
Run == [job : Nat \ {0}, batch : Nat \ {0}, pc : {"prefilter", "probe", "finish", "close"},
        unchecked : SUBSET Position, rest : SUBSET Position, flying : SUBSET Position]

VARIABLES
    job,        \* Engine.job
    runs,       \* goroutines of Engine.run, one per batch, with what they hold
    jobs,       \* Engine.seq: jobs submitted
    batches,    \* batches started
    waiting,    \* per caller: the job and batch Continue waits for, or None
    stop,       \* Stop: not called, waiting for doneCh, returned, or gave up waiting
    evaluated,  \* history: targets of the job whose evaluation was counted
    overtaken   \* history: a Continue went on after waiting for an older batch

scanVars == <<job, runs, jobs, batches, waiting, stop, evaluated, overtaken>>

None == [job |-> 0, batch |-> 0]
stopped == stop # "no"      \* Engine.stopped
Terminal == job.state # "running"
\* Mistake: the last batch is as long as the others.
WrongPageEnd(s, n) == s + Limit

\* expandTargetsPage: where the batch that starts after position s of n targets ends.
PageEnd(s, n) == IF s + Limit <= n THEN s + Limit ELSE n
Planned == job.offset - job.batchStart

\* A target of the current batch may be left over only if the batch was cancelled.
CanceledMidBatch == job.state = "canceled" /\ job.scanned < Planned
\* Mistake: what a cancelled batch has not scanned is not counted.
WrongRemaining == job.requested - job.offset

\* snapshot's and Continue's count of the targets still to scan.
Remaining == (job.requested - job.offset) + (IF CanceledMidBatch THEN Planned - job.scanned ELSE 0)
ScannedTotal == job.batchStart + job.scanned

ScanInit ==
    /\ job = NoJob /\ runs = {} /\ jobs = 0 /\ batches = 0
    /\ waiting = [c \in Caller |-> None]
    /\ stop = "no" /\ evaluated = {} /\ overtaken = FALSE

-------------------------------------------------------------------------------
(***************************************************************************)
(* What HTTP calls.  Each is one critical section, but for Continue.       *)
(***************************************************************************)

\* The goroutine of a new batch that scans the targets in scope.
NewRun(id, prefilter, scope) ==
    [job |-> id, batch |-> batches + 1, flying |-> {},
     pc |-> IF prefilter THEN "prefilter" ELSE "probe",
     unchecked |-> IF prefilter THEN scope ELSE {},
     rest |-> IF prefilter THEN {} ELSE scope]

MaySubmit == ~stopped /\ Terminal

\* Submit of a scan of n targets; it replaces a job that has ended.
Submit(n, prefilter) ==
    /\ MaySubmit
    /\ jobs' = jobs + 1 /\ batches' = batches + 1
    /\ job' = [id |-> jobs + 1, state |-> "running", requested |-> n, prefilter |-> prefilter,
               batchStart |-> 0, offset |-> PageEnd(0, n), scanned |-> 0, devices |-> <<>>,
               batch |-> batches + 1, expired |-> FALSE]
    /\ runs' = runs \cup {NewRun(jobs + 1, prefilter, 1 .. PageEnd(0, n))}
    /\ evaluated' = {}
    /\ UNCHANGED <<waiting, stop, overtaken>>

Found(id) == id # 0 /\ job.id = id /\ ~job.expired

\* Looking up a job: one that has expired is forgotten.
Lookup(id) ==
    /\ job' = IF job.id = id /\ job.expired THEN NoJob ELSE job
    /\ UNCHANGED <<runs, jobs, batches, waiting, stop, evaluated, overtaken>>

\* Continue, first part: the caller takes the doneCh of the last batch.
MayContinue(id) == ~stopped /\ Found(id) /\ Terminal

ContinueBegin(c, id) ==
    /\ waiting[c] = None
    /\ MayContinue(id)
    /\ waiting' = [waiting EXCEPT ![c] = [job |-> id, batch |-> job.batch]]
    /\ UNCHANGED <<job, runs, jobs, batches, stop, evaluated, overtaken>>

DoneClosed(b) == \A r \in runs : r.batch # b

\* Second part, once doneCh is closed: everything is looked at again.
ContinueGoesOn(c) ==
    /\ waiting[c] # None
    /\ DoneClosed(waiting[c].batch)
    /\ waiting' = [waiting EXCEPT ![c] = None]

\* Mistake: a cancelled batch is not scanned again, the next one follows it.
WrongNextStart == job.offset

\* The next batch starts where the last one ended, or began if it was cancelled.
NextStart == IF CanceledMidBatch THEN job.batchStart ELSE job.offset

ContinueBatch(c) ==
    /\ ContinueGoesOn(c)
    /\ MayContinue(waiting[c].job) /\ Remaining > 0
    /\ batches' = batches + 1
    /\ job' = [job EXCEPT !.state = "running", !.batchStart = NextStart,
                          !.offset = PageEnd(NextStart, job.requested), !.scanned = 0,
                          !.batch = batches + 1]
    /\ runs' = runs \cup {NewRun(job.id, job.prefilter,
                                 NextStart + 1 .. PageEnd(NextStart, job.requested))}
    /\ overtaken' = (overtaken \/ waiting[c].batch # job.batch)
    /\ UNCHANGED <<jobs, stop, evaluated>>

\* All is scanned already: the snapshot is returned as it is.
ContinueNothingLeft(c) ==
    /\ ContinueGoesOn(c)
    /\ MayContinue(waiting[c].job) /\ Remaining = 0
    /\ UNCHANGED <<job, runs, jobs, batches, stop, evaluated, overtaken>>

\* Another caller replaced, continued or let expire the job meanwhile.
ContinueRefused(c) ==
    /\ ContinueGoesOn(c)
    /\ ~MayContinue(waiting[c].job)
    /\ job' = IF job.id = waiting[c].job /\ ~stopped /\ Terminal THEN NoJob ELSE job
    /\ UNCHANGED <<runs, jobs, batches, stop, evaluated, overtaken>>

\* stopWait is over before the old batch has wound up.
ContinueTimeout(c) ==
    /\ waiting[c] # None
    /\ ~DoneClosed(waiting[c].batch)
    /\ waiting' = [waiting EXCEPT ![c] = None]
    /\ UNCHANGED <<job, runs, jobs, batches, stop, evaluated, overtaken>>

\* Cancel: nothing to do if the job has ended or is another one.
Cancel(id) ==
    /\ job' = IF job.id = id /\ ~Terminal THEN [job EXCEPT !.state = "canceled"] ELSE job
    /\ UNCHANGED <<runs, jobs, batches, waiting, stop, evaluated, overtaken>>

\* The job has been over for longer than ttl.
Expire ==
    /\ job # NoJob /\ Terminal /\ ~job.expired
    /\ job' = [job EXCEPT !.expired = TRUE]
    /\ UNCHANGED <<runs, jobs, batches, waiting, stop, evaluated, overtaken>>

-------------------------------------------------------------------------------
(***************************************************************************)
(* A batch: the goroutine of run and those of its dials and probes.        *)
(***************************************************************************)

batchFrame == <<jobs, batches, waiting, stop, overtaken>>

Change(r, s) == runs' = (runs \ {r}) \cup {s}

\* j.ctx of the job that run r works for; a replaced job has ended and stays so.
Canceled(r) == job.id = r.job => job.state = "canceled"

\* Mistake: a probe that returns after the cancel counts too.
WrongCount(r, t, devices) ==
    IF job.id # r.job
    THEN UNCHANGED <<job, evaluated>>
    ELSE /\ job' = [job EXCEPT !.scanned = @ + 1, !.devices = @ \o devices]
         /\ evaluated' = evaluated \cup {t}

\* Target t counts as scanned and reports devices, unless j.ctx is cancelled.
Count(r, t, devices) ==
    IF Canceled(r)
    THEN UNCHANGED <<job, evaluated>>
    ELSE /\ job' = [job EXCEPT !.scanned = @ + 1, !.devices = @ \o devices]
         /\ evaluated' = evaluated \cup {t}

\* A dial gets through, or fails for a reason of the gateway's own: the target is kept.
PrefilterKeep(r, t) ==
    /\ r.pc = "prefilter" /\ t \in r.unchecked
    /\ Change(r, [r EXCEPT !.unchecked = @ \ {t}, !.rest = @ \cup {t}])
    /\ UNCHANGED <<job, evaluated, batchFrame>>

\* Nobody answers: the target is done with.  After a cancel this also stands for a
\* target that is not dialled any more.
PrefilterDead(r, t) ==
    /\ r.pc = "prefilter" /\ t \in r.unchecked
    /\ Change(r, [r EXCEPT !.unchecked = @ \ {t}])
    /\ Count(r, t, <<>>)
    /\ UNCHANGED batchFrame

PrefilterDone(r) ==
    /\ r.pc = "prefilter" /\ r.unchecked = {}
    /\ Change(r, [r EXCEPT !.pc = "probe"])
    /\ UNCHANGED <<job, evaluated, batchFrame>>

\* The next target gets a slot; after a cancel the select may still take the slot.
Dispatch(r) ==
    /\ r.pc = "probe" /\ r.rest # {}
    /\ Cardinality(r.flying) < MaxConcurrent
    /\ LET t == CHOOSE x \in r.rest : \A y \in r.rest : x <= y
       IN Change(r, [r EXCEPT !.rest = @ \ {t}, !.flying = @ \cup {t}])
    /\ UNCHANGED <<job, evaluated, batchFrame>>

BreakDispatch(r) ==
    /\ r.pc = "probe" /\ r.rest # {} /\ Canceled(r)
    /\ Change(r, [r EXCEPT !.rest = {}])
    /\ UNCHANGED <<job, evaluated, batchFrame>>

\* Mistake: devices are not looked up among those of earlier targets.
WrongAccepted(found) == SetToSeqs(found)

\* acceptDevice: devices that are in the list already are left out.
Accepted(found) ==
    SetToSeqs(found \ ToSet(job.devices))

\* A probe ends, with the devices of its target or with an error.
ProbeOne(r, t) ==
    /\ t \in r.flying
    /\ Change(r, [r EXCEPT !.flying = @ \ {t}])
    /\ \E found \in {Answers[t], {}} : \E devices \in Accepted(found) : Count(r, t, devices)
    /\ UNCHANGED batchFrame

\* wg.Wait and finish: a job that was cancelled stays so.
Finish(r) ==
    /\ r.pc = "probe" /\ r.rest = {} /\ r.flying = {}
    /\ Change(r, [r EXCEPT !.pc = "close"])
    /\ job' = IF job.id = r.job /\ ~Terminal THEN [job EXCEPT !.state = "done"] ELSE job
    /\ UNCHANGED <<evaluated, batchFrame>>

CloseDone(r) ==
    /\ r.pc = "close"
    /\ runs' = runs \ {r}
    /\ UNCHANGED <<job, evaluated, batchFrame>>

RunStep(r) ==
    \/ \E t \in r.unchecked : PrefilterKeep(r, t) \/ PrefilterDead(r, t)
    \/ PrefilterDone(r)
    \/ Dispatch(r) \/ BreakDispatch(r)
    \/ \E t \in r.flying : ProbeOne(r, t)
    \/ Finish(r) \/ CloseDone(r)

-------------------------------------------------------------------------------
\* Stop, once: no new batch from here on; the last one is cancelled.
StopBegin ==
    /\ stop = "no"
    /\ stop' = IF job = NoJob THEN "done" ELSE "wait"
    /\ job' = IF job # NoJob /\ ~Terminal THEN [job EXCEPT !.state = "canceled"] ELSE job
    /\ UNCHANGED <<runs, jobs, batches, waiting, evaluated, overtaken>>

\* doneCh of the job at StopBegin: no batch is started after it.
LastDone == DoneClosed(batches)

\* Mistake: Stop does not wait.
WrongStopReturn ==
    /\ stop = "wait" /\ stop' = "done"
    /\ UNCHANGED <<job, runs, jobs, batches, waiting, evaluated, overtaken>>

\* Stop waits for the last batch to wind up, but not longer than stopWait.
StopReturn ==
    /\ stop = "wait"
    /\ \/ LastDone /\ stop' = "done"
       \/ ~LastDone /\ stop' = "gaveup"
    /\ UNCHANGED <<job, runs, jobs, batches, waiting, evaluated, overtaken>>

-------------------------------------------------------------------------------
ScanTypeOK ==
    /\ job \in Job
    /\ runs \in SUBSET Run
    /\ jobs \in Nat /\ batches \in Nat
    /\ waiting \in [Caller -> [job : Nat, batch : Nat]]
    /\ stop \in {"no", "wait", "done", "gaveup"}
    /\ evaluated \in SUBSET Position
    /\ overtaken \in BOOLEAN

\* Continuing batch by batch, across cancels, leaves no target out: every target before the
\* current batch was evaluated, and those of the batch too once it is done.  Two calls of
\* Continue that waited for the same batch can break this: the second may start a batch
\* while probes of the first one's are still under way (overtaken).
NothingSkipped ==
    ~overtaken => /\ 1 .. job.batchStart \subseteq evaluated
                  /\ job.state = "done" => 1 .. job.offset \subseteq evaluated

\* The numbers of a snapshot add up: what was scanned and what remains is all that was asked
\* for once the batch is over, and not more while it runs.
CountsAgree ==
    ~overtaken => /\ ScannedTotal + Remaining <= job.requested
                  /\ Terminal => ScannedTotal + Remaining = job.requested

\* Creating devices goes by the index of a row: over all batches of a job, rows are only
\* appended, and a device has one row.
ListStable ==
    [][/\ job'.id = job.id => IsPrefix(job.devices, job'.devices)
       /\ IsInjective(job'.devices)]_scanVars

\* A batch that has ended, cancelled ones above all, is neither taken up again nor changed by
\* the probes that return afterwards.
EndedIsFrozen ==
    [][Terminal /\ job'.batch = job.batch /\ (job.state = "canceled" \/ ~overtaken)
        => job' = [job EXCEPT !.expired = job'.expired]]_scanVars

\* When Stop returns in time, no goroutine of the job it found is left to talk to a plugin.
\* It does not wait for those of a cancelled job that another scan has replaced, or that
\* had expired and been forgotten, while a probe of theirs was stuck.
StopWaits == stop = "done" => \A r \in runs : r.job # job.id \/ overtaken

===============================================================================
