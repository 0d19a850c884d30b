--------------------------- MODULE TimeSeriesChannel ---------------------------
(***************************************************************************)
(* A time-series push channel (push/tdengine/v3, push/influxdb/v3): the    *)
(* Outbox, AggregateWriter workers that write windows of batches           *)
(* (push/writer.go), GroupedDrainer as the DrainFunc (push/drain.go), the  *)
(* ReconnectLoop and Stop.  The two databases differ in constants:         *)
(*                                                                         *)
(*              NarrowPolicy  RejectDisconnects  Conflict                  *)
(*   tdengine   FALSE         TRUE               rows of one sub-table     *)
(*   influxdb   TRUE          FALSE (4xx)        {}                        *)
(*                                                                         *)
(* A batch counts as one row towards MaxRows.                              *)
(***************************************************************************)
EXTENDS Outbox

CONSTANTS
    MaxRows,            \* rows per payload (batchRows)
    Conflict,           \* pairs of batches that cannot share a payload
    Refused,            \* batches the downstream rejects as invalid data
    RejectDisconnects,  \* a rejected write clears the connected flag
    MaxFaults           \* bound on the number of timeouts and broken connections

ASSUME ChannelAssumption ==
    /\ MaxRows \in Nat \ {0}
    /\ Conflict \subseteq Batch \X Batch
    /\ Refused \subseteq Batch
    /\ RejectDisconnects \in BOOLEAN
    /\ MaxFaults \in Nat

VARIABLES
    mode,     \* per worker: "run", "drain" after quit, "last" for the last flush
    carry,    \* per worker: the batch that conflicts with the current window
    group,    \* rows of the replay payload being written
    rpc,      \* ReconnectLoop: "idle", "notify", "exited"
    faults,   \* timeouts and broken connections so far
    blamed    \* history: batches dropped as poison

channelVars == <<mode, carry, group, rpc, faults, blamed>>
vars == <<outboxVars, channelVars>>

Conflicts(b, S) == \E c \in S : <<b, c>> \in Conflict \/ <<c, b>> \in Conflict

Init ==
    /\ OutboxInit
    /\ mode = [w \in Worker |-> "run"]
    /\ carry = [w \in Worker |-> <<>>]
    /\ group = {}
    /\ rpc = "idle"
    /\ faults = 0
    /\ blamed = {}

-------------------------------------------------------------------------------
(***************************************************************************)
(* What a call of write(payload) that reached the downstream can do.  A    *)
(* timeout may come before or after the payload was applied.               *)
(***************************************************************************)

WriteSucceeds(S) ==
    /\ S \cap Refused = {}
    /\ delivered' = delivered \cup S
    /\ UNCHANGED <<conn, faults>>

WriteBreaks(S) ==
    /\ faults < MaxFaults
    /\ faults' = faults + 1
    /\ conn' = FALSE
    /\ \/ UNCHANGED delivered
       \/ S \cap Refused = {} /\ delivered' = delivered \cup S

WriteRefused(S) ==
    /\ S \cap Refused # {}
    /\ conn' = (conn /\ ~RejectDisconnects)
    /\ UNCHANGED <<delivered, faults>>

-------------------------------------------------------------------------------
(***************************************************************************)
(* AggregateWriter.Run and flush.                                          *)
(***************************************************************************)

workerFrame == <<rows, lastId, count, dbFaults, notify, writerVars, drainVars,
                 lifeVars, losses, intake, group, rpc, blamed>>

\* A batch is received; it opens, joins or conflicts with the current window.
WorkerTake(w) ==
    /\ pc[w] = "idle" /\ carry[w] = <<>>
    /\ outbox # <<>>
    /\ outbox' = Tail(outbox)
    /\ LET b == Head(outbox)
       IN IF Conflicts(b, Range(hand[w]))
            THEN /\ carry' = [carry EXCEPT ![w] = <<b>>]
                 /\ pc' = [pc EXCEPT ![w] = "write"]
                 /\ UNCHANGED hand
            ELSE /\ hand' = [hand EXCEPT ![w] = Append(@, b)]
                 /\ pc' = [pc EXCEPT ![w] =
                              IF Len(hand[w]) + 1 >= MaxRows THEN "write" ELSE "idle"]
                 /\ UNCHANGED carry
    /\ UNCHANGED <<workerFrame, spoolCh, conn, tally, delivered, mode, faults>>

\* The window the conflicting batch had to wait for is flushed: append it.
WorkerAppendCarry(w) ==
    /\ pc[w] = "idle" /\ carry[w] # <<>>
    /\ hand' = [hand EXCEPT ![w] = carry[w]]
    /\ carry' = [carry EXCEPT ![w] = <<>>]
    /\ pc' = [pc EXCEPT ![w] = IF MaxRows = 1 THEN "write" ELSE "idle"]
    /\ UNCHANGED <<workerFrame, queues, conn, tally, delivered, mode, faults>>

\* The ticker flushes a window that is not full.
WorkerTick(w) ==
    /\ pc[w] = "idle" /\ carry[w] = <<>> /\ mode[w] = "run"
    /\ hand[w] # <<>>
    /\ pc' = [pc EXCEPT ![w] = "write"]
    /\ UNCHANGED <<workerFrame, queues, hand, conn, tally, delivered, mode, carry, faults>>

\* Mistake: a worker that sees quit returns without draining the queue.
WrongWorkerQuit(w) ==
    /\ pc[w] = "idle" /\ carry[w] = <<>> /\ mode[w] = "run"
    /\ quit
    /\ mode' = [mode EXCEPT ![w] = "last"]
    /\ pc' = [pc EXCEPT ![w] = IF hand[w] = <<>> THEN "exited" ELSE "write"]
    /\ UNCHANGED <<workerFrame, queues, hand, conn, tally, delivered, carry, faults>>

WorkerQuit(w) ==
    /\ pc[w] = "idle" /\ carry[w] = <<>> /\ mode[w] = "run"
    /\ quit
    /\ mode' = [mode EXCEPT ![w] = "drain"]
    /\ UNCHANGED <<workerFrame, queues, callVars, conn, tally, delivered, carry, faults>>

\* draining and the queue is empty: flush the last window and return.
WorkerLast(w) ==
    /\ pc[w] = "idle" /\ carry[w] = <<>> /\ mode[w] = "drain"
    /\ outbox = <<>>
    /\ mode' = [mode EXCEPT ![w] = "last"]
    /\ pc' = [pc EXCEPT ![w] = IF hand[w] = <<>> THEN "exited" ELSE "write"]
    /\ UNCHANGED <<workerFrame, queues, hand, conn, tally, delivered, carry, faults>>

\* Where a worker goes once its window is out of its hands.
AfterFlush(w) == IF mode[w] = "last" THEN "exited" ELSE "idle"

\* Mistake: a dropped window counts as one batch.
WrongFlushFailed(w) ==
    /\ pc' = [pc EXCEPT ![w] = AfterFlush(w)]
    /\ hand' = [hand EXCEPT ![w] = <<>>]
    /\ dropped' = dropped + 1
    /\ shed' = shed \cup Range(hand[w])

\* A failed window goes to the spool batch by batch, or is dropped and counted.
FlushFailed(w) ==
    IF SpoolEnabled
      THEN /\ pc' = [pc EXCEPT ![w] = "spoolSend"]
           /\ UNCHANGED <<hand, tally>>
      ELSE /\ pc' = [pc EXCEPT ![w] = AfterFlush(w)]
           /\ hand' = [hand EXCEPT ![w] = <<>>]
           /\ dropped' = dropped + Len(hand[w])
           /\ shed' = shed \cup Range(hand[w])

\* write() returns false at once when the channel is not connected.
WorkerWrite(w) ==
    /\ pc[w] = "write"
    /\ IF conn
         THEN pc' = [pc EXCEPT ![w] = "sending"] /\ UNCHANGED <<hand, tally>>
         ELSE FlushFailed(w)
    /\ UNCHANGED <<workerFrame, queues, conn, delivered, mode, carry, faults>>

WorkerWritten(w) ==
    /\ pc[w] = "sending"
    /\ WriteSucceeds(Range(hand[w]))
    /\ hand' = [hand EXCEPT ![w] = <<>>]
    /\ pc' = [pc EXCEPT ![w] = AfterFlush(w)]
    /\ UNCHANGED <<workerFrame, queues, tally, mode, carry>>

WorkerWriteFailed(w) ==
    /\ pc[w] = "sending"
    /\ WriteBreaks(Range(hand[w])) \/ WriteRefused(Range(hand[w]))
    /\ FlushFailed(w)
    /\ UNCHANGED <<workerFrame, queues, mode, carry>>

WorkerStep(w) ==
    \/ WorkerTake(w) \/ WorkerAppendCarry(w) \/ WorkerTick(w) \/ WorkerQuit(w)
    \/ WorkerLast(w) \/ WorkerWrite(w) \/ WorkerWritten(w) \/ WorkerWriteFailed(w)

WorkerSpool(w) ==
    /\ \/ SpoolSend(w, AfterFlush(w)) \/ SpoolEvict(w) \/ SpoolResend(w, AfterFlush(w))
    /\ UNCHANGED channelVars

-------------------------------------------------------------------------------
(***************************************************************************)
(* GroupedDrainer.Drain, called by DrainLoop with the window in pend.      *)
(***************************************************************************)

\* The longest prefix of the window that fits one payload; one row if narrow.
Group(R) ==
    {r \in R : LET upTo == {q \in R : q.id <= r.id}
               IN /\ Cardinality(upTo) <= (IF narrow THEN 1 ELSE MaxRows)
                  /\ \A q \in upTo : ~Conflicts(q.batch, BatchesOf(upTo \ {q}))}

drainCallFrame == <<queues, lastId, notify, callVars, writerVars, lifeVars, losses,
                    intake, mode, carry, rpc>>

\* Mistake: the call goes on with the next group after one that failed.
WrongDrainFail ==
    /\ IF pend = group \/ ~conn
         THEN DrainFails(First(pend).id)
         ELSE /\ pend' = pend \ group
              /\ dpc' = "drain"
              /\ UNCHANGED <<full, poisonId, narrow, tally>>
    /\ group' = {}
    /\ UNCHANGED blamed

DrainFail ==
    /\ DrainFails(First(pend).id)
    /\ blamed' = IF PoisonPolicy /\ poisonId = First(pend).id
                   THEN blamed \cup {First(pend).batch} ELSE blamed
    /\ group' = {}

DrainWrite ==
    /\ dpc = "drain"
    /\ IF conn
         THEN /\ group' = Group(pend)
              /\ dpc' = "sending"
              /\ UNCHANGED <<pend, full, poisonId, narrow, tally, blamed>>
         ELSE DrainFail
    /\ UNCHANGED <<drainCallFrame, rows, count, dbFaults, conn, delivered, faults>>

DrainWritten ==
    /\ dpc = "sending"
    /\ WriteSucceeds(BatchesOf(group))
    /\ dpc' = "delete"
    /\ UNCHANGED <<drainCallFrame, rows, count, dbFaults, pend, full, poisonId,
                   narrow, tally, group, blamed>>

DrainWriteFailed ==
    /\ dpc = "sending"
    /\ WriteBreaks(BatchesOf(group)) \/ WriteRefused(BatchesOf(group))
    /\ DrainFail
    /\ UNCHANGED <<drainCallFrame, rows, count, dbFaults>>

DrainDeleteSent ==
    /\ dpc = "delete"
    /\ DeleteRows(group)
    /\ group' = {}
    /\ IF pend = group
         THEN DrainSucceeds
         ELSE /\ pend' = pend \ group
              /\ dpc' = "drain"
              /\ UNCHANGED <<full, poisonId, narrow>>
    /\ UNCHANGED <<drainCallFrame, conn, tally, delivered, faults, blamed>>

DrainCall == DrainWrite \/ DrainWritten \/ DrainWriteFailed \/ DrainDeleteSent

-------------------------------------------------------------------------------
(***************************************************************************)
(* ReconnectLoop and tryConnect: an attempt that fails changes nothing.    *)
(***************************************************************************)

reconnectFrame == <<queues, dbVars, callVars, writerVars, drainVars, lifeVars,
                    tally, losses, intake, delivered, mode, carry, group, faults,
                    blamed>>

TryConnect ==
    /\ rpc = "idle"
    /\ ~conn
    /\ conn' = TRUE
    /\ rpc' = "notify"
    /\ UNCHANGED <<reconnectFrame, notify>>

\* Mistake: a reconnection does not wake DrainLoop.
WrongTryConnectNotify ==
    /\ rpc = "notify"
    /\ rpc' = "idle"
    /\ UNCHANGED <<reconnectFrame, notify, conn>>

TryConnectNotify ==
    /\ rpc = "notify"
    /\ notify' = SpoolEnabled
    /\ rpc' = "idle"
    /\ UNCHANGED <<reconnectFrame, conn>>

ReconnectQuit ==
    /\ rpc = "idle"
    /\ quit
    /\ rpc' = "exited"
    /\ UNCHANGED <<reconnectFrame, conn, notify>>

Reconnect == TryConnect \/ TryConnectNotify \/ ReconnectQuit

-------------------------------------------------------------------------------
\* Mistake: run() does not wait for DrainLoop.
WrongGroupExited ==
    /\ \A w \in Worker : pc[w] = "exited"
    /\ rpc = "exited"

\* run() returns when the workers, DrainLoop and ReconnectLoop have.
GroupExited ==
    /\ \A w \in Worker : pc[w] = "exited"
    /\ dpc = "exited"
    /\ rpc = "exited"

OutboxStep ==
    /\ \/ \E p \in Producer : Enqueue(p)
       \/ SpoolWriteLoop
       \/ DrainLoopStep
       \/ Close
       \/ WaitStart(GroupExited)
       \/ WaitReturn
    /\ UNCHANGED channelVars

\* Applied downstream, or lost in a way the channel accounts for.
Settled == delivered \cup shed \cup trimmed \cup unsaved \cup bygone

\* Batches a worker received but could not yet append to a window.
Carried == UNION {Range(carry[w]) : w \in Worker}

\* The process restarts; a batch that is in a row or downstream is not lost.
Restart ==
    /\ Reboot((InMemory \cup Carried) \ (BatchesOf(rows) \cup delivered))
    /\ mode' = [w \in Worker |-> "run"]
    /\ carry' = [w \in Worker |-> <<>>]
    /\ group' = {}
    /\ rpc' = "idle"
    /\ UNCHANGED <<faults, blamed>>

Next ==
    \/ OutboxStep
    \/ \E w \in Worker : WorkerStep(w) \/ WorkerSpool(w)
    \/ DrainCall
    \/ Reconnect
    \/ Restart

Spec == Init /\ [][Next]_vars

-------------------------------------------------------------------------------
(***************************************************************************)
(* Safety.                                                                 *)
(***************************************************************************)

(***************************************************************************)
(* Every variable stays in its range, and a caller in the middle of a call *)
(* of Enqueue or SpoolEnqueue still has the batch it is about.             *)
(***************************************************************************)
TypeOK ==
    /\ OutboxTypeOK
    /\ CallersHoldBatches
    /\ pc \in [Actor -> {"idle", "send", "evict", "resend", "spoolSend", "spoolEvict",
                         "spoolResend", "write", "sending", "exited"}]
    /\ dpc \in {"check", "fetch", "wait", "drain", "sending", "delete", "poison", "exited"}
    /\ mode \in [Worker -> {"run", "drain", "last"}]
    /\ carry \in [Worker -> Seq(Batch)]
    /\ group \in SUBSET Row
    /\ rpc \in {"idle", "notify", "exited"}
    /\ faults \in Nat
    /\ blamed \in SUBSET Batch

(***************************************************************************)
(* No batch vanishes: one that was given to Enqueue is in memory, in a     *)
(* row, applied downstream, counted in droppedCount, trimmed, reported as  *)
(* a failed insert, or went down with an earlier process.  Two selects     *)
(* with a default, a flush and a sweep are where one could slip through.   *)
(***************************************************************************)
NothingVanishes ==
    accepted \subseteq InMemory \cup Carried \cup BatchesOf(rows) \cup Settled

(***************************************************************************)
(* droppedCount is exact: every discarded batch is counted, and once.      *)
(***************************************************************************)
DroppedExact == dropped = Cardinality(shed)

(***************************************************************************)
(* "No batch is left unsaved once Wait returns", for the batches whose     *)
(* Enqueue had returned when Close was called (outbox.go, Wait).           *)
(***************************************************************************)
StopSavesAll == stop = "stopped" => onTime \cap (InMemory \cup Carried) = {}

(***************************************************************************)
(* The in-memory count follows the rows, whatever the interleaving of      *)
(* inserts, trims and deletes of rows that are already gone: it is short   *)
(* by those that NewSqliteSpool could not count when it started, by no     *)
(* more, and until the next start.                                         *)
(***************************************************************************)
CountIsRows == count + uncounted = Cardinality(rows)

(***************************************************************************)
(* A batch is in one place at a time: stored in one row, and not in memory *)
(* any more, so only a lost acknowledgement can send it twice.             *)
(***************************************************************************)
OneCustodian ==
    /\ \A r, q \in rows : r.batch = q.batch => r = q
    /\ BatchesOf(rows) \cap (InMemory \cup Carried) = {}
    /\ Range(outbox) \cap Range(spoolCh) = {}
    /\ \A a \in Actor : Range(hand[a]) \cap (Range(outbox) \cup Range(spoolCh) \cup Range(buf)) = {}
    /\ \A a, c \in Actor : a # c => Range(hand[a]) \cap Range(hand[c]) = {}

-------------------------------------------------------------------------------
(***************************************************************************)
(* Action properties.                                                      *)
(***************************************************************************)

(***************************************************************************)
(* Replay is in insertion order: when a row is applied downstream for the  *)
(* first time, every older row already has been.                           *)
(***************************************************************************)
ReplayInOrder ==
    [][\A r \in rows : r.batch \in delivered' \ delivered =>
          \A q \in rows : q.id < r.id => q.batch \in delivered']_vars

(***************************************************************************)
(* With NarrowPolicy a batch is dropped as poison only after a failure of  *)
(* a payload that held nothing else: no good batch is taken down by a bad  *)
(* one in its group.                                                       *)
(***************************************************************************)
BlameIsIsolated ==
    [][\A b \in blamed' \ blamed : BatchesOf(Group(pend)) = {b}]_vars

(***************************************************************************)
(* A stopped channel is quiet: it neither writes downstream nor touches    *)
(* its rows, which a new instance of the same channel may now own.         *)
(***************************************************************************)
StoppedIsQuiet ==
    [][stop = "stopped" => UNCHANGED <<rows, delivered>>]_vars

-------------------------------------------------------------------------------
(***************************************************************************)
(* The channel keeps the custody promise.  A row in the replay window is   *)
(* held until the window is done with, even if it is trimmed meanwhile.    *)
(***************************************************************************)
Promise == INSTANCE Custody WITH
    held    <- InMemory \cup Carried \cup BatchesOf(rows) \cup BatchesOf(pend),
    excused <- shed \cup trimmed \cup unsaved \cup bygone

KeepsCustody == Promise!Spec

-------------------------------------------------------------------------------
(***************************************************************************)
(* Liveness.  Every goroutine that can take a step eventually takes one.   *)
(* Enqueue need not be called again, Stop need not be called, the process  *)
(* need not restart.                                                       *)
(***************************************************************************)
Fairness ==
    /\ \A p \in Producer : WF_vars(pc[p] # "idle" /\ Enqueue(p) /\ UNCHANGED channelVars)
    /\ \A w \in Worker : WF_vars(WorkerStep(w) \/ WorkerSpool(w))
    /\ WF_vars(SpoolWriteLoop /\ UNCHANGED channelVars)
    /\ WF_vars((DrainLoopStep /\ UNCHANGED channelVars) \/ DrainCall)
    /\ WF_vars(Reconnect)
    /\ WF_vars((WaitStart(GroupExited) \/ WaitReturn) /\ UNCHANGED channelVars)

FairSpec == Spec /\ Fairness

(***************************************************************************)
(* No batch waits for ever: again and again, everything accepted so far is *)
(* settled, unless Stop was called.  Where Backstop is FALSE the wake-ups  *)
(* alone must bring this about: the 10 s timer only covers a missed ping   *)
(* (outbox.go, spoolDrainBackstop).                                        *)
(***************************************************************************)
EventuallySettled == []<>(accepted \subseteq Settled \/ stop # "running")

(***************************************************************************)
(* Stop returns, whatever the backlog and the state of the downstream.     *)
(***************************************************************************)
StopReturns == (stop = "joining") ~> (stop = "stopped")

-------------------------------------------------------------------------------
(***************************************************************************)
(* What drain.go says of poison: a batch is dropped only because a healthy *)
(* downstream refused it ("connection healthy and write refused").         *)
(***************************************************************************)
PoisonWasRefused == blamed \subseteq Refused

(***************************************************************************)
(* SpoolCap bounds the rows ("trim the oldest once reached"), up to what   *)
(* one merged insert and the interval between cap checks may add on top.   *)
(***************************************************************************)
SpoolWithinCap == Cardinality(rows) < SpoolCap + TrimInterval + WriteBatch - 1

===============================================================================
