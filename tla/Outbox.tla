-------------------------------- MODULE Outbox --------------------------------
(***************************************************************************)
(* The non-blocking outbound queue and the offline spool that every push   *)
(* channel is built on (push/outbox.go, push/spool.go, push/drain.go): a   *)
(* bounded memory queue filled by the collector's goroutines, a write      *)
(* buffer emptied into SQLite by spoolWriteLoop, and DrainLoop, which      *)
(* replays the stored rows when the channel is connected.                  *)
(*                                                                         *)
(* This module holds the shared state and the steps that belong to the     *)
(* Outbox itself.  What a channel adds (how it takes batches from the      *)
(* queue, writes them downstream, connects and stops) is in the modules    *)
(* that extend it.                                                         *)
(*                                                                         *)
(* A batch is an atomic value, submitted at most once.  A stored row is an *)
(* AUTOINCREMENT id and a batch; ids are never reused.                     *)
(*                                                                         *)
(* An operator whose comment begins with "Mistake" is a variant of the one *)
(* that follows it; no step uses it.  Put in its place, it breaks a        *)
(* property the runs check.                                                *)
(***************************************************************************)
EXTENDS Integers, Sequences, FiniteSets, Functions

CONSTANTS
    Batch,          \* push batches the collector may submit
    Producer,       \* collector goroutines that call Enqueue
    Worker,         \* goroutines of the channel that consume Batches()
    QueueSize,      \* capacity of outbox            (outboxSize, 1024)
    SpoolChSize,    \* capacity of spoolCh           (spoolChSize, 1024)
    DrainWindow,    \* rows fetched per replay window (spoolDrainWindow, 16)
    TrimInterval,   \* inserts between cap checks    (spoolTrimInterval, 16)
    TrimChunk,      \* rows deleted by one trim      (spoolTrimChunk, 16)
    WriteBatch,     \* batches merged into one insert (spoolWriteBatchSize, 64)
    SpoolCap,       \* configured row cap            (OutboxConfig.SpoolCap)
    SpoolEnabled,   \* the offline spool is configured
    PoisonPolicy,   \* DrainPolicy.Poison
    NarrowPolicy,   \* DrainPolicy.Narrow
    Backstop,       \* WaitDrain's 10 s timer may fire
    DbFaultOps,     \* SQLite operations that may fail
    MaxDbFaults,    \* bound on the number of such failures
    MaxRestarts     \* bound on the number of process restarts

Actor == Producer \cup Worker

ASSUME OutboxAssumption ==
    /\ Producer \cap Worker = {}
    /\ IsFiniteSet(Producer) /\ IsFiniteSet(Worker) /\ Worker # {}
    /\ {QueueSize, SpoolChSize, DrainWindow, TrimInterval, TrimChunk,
        WriteBatch, SpoolCap} \subseteq Nat \ {0}
    /\ {SpoolEnabled, PoisonPolicy, NarrowPolicy, Backstop} \subseteq BOOLEAN
    /\ DbFaultOps \subseteq {"insert", "fetch", "delete", "trim", "seed"}
    /\ MaxDbFaults \in Nat /\ MaxRestarts \in Nat

VARIABLES
    outbox,       \* memory queue, oldest first
    spoolCh,      \* write buffer of the spool, oldest first
    rows,         \* this channel's rows of push_outbox
    lastId,       \* last AUTOINCREMENT id handed out
    count,        \* SqliteSpool.count, the in-memory row count
    dbFaults,     \* SQLite failures so far
    notify,       \* a token is in drainNotify
    pc, hand,     \* per caller of Enqueue / SpoolEnqueue: step, batches in hand
    wmode, wpc, buf, trimTick,           \* spoolWriteLoop
    dpc, pend, full, poisonId, narrow,   \* DrainLoop
    conn,         \* Connectivity.Connected()
    quit, workersDone, stop,             \* life cycle
    dropped,      \* droppedCount
    accepted,     \* history: batches given to Enqueue
    onTime,       \* history: batches whose Enqueue had returned at Close
    delivered,    \* history: batches the downstream has applied
    shed,         \* history: batches discarded and counted in droppedCount
    trimmed,      \* history: batches whose row was trimmed away
    unsaved,      \* history: batches whose insert failed for good
    bygone,       \* history: batches that ended in the memory of an earlier process
    restarts,     \* process restarts so far
    uncounted     \* history: rows there were when their count at the start failed

queues     == <<outbox, spoolCh>>
dbVars     == <<rows, lastId, count, dbFaults>>
callVars   == <<pc, hand>>
writerVars == <<wmode, wpc, buf, trimTick>>
drainVars  == <<dpc, pend, full, poisonId, narrow>>
lifeVars   == <<quit, workersDone, stop>>
tally      == <<dropped, shed>>
losses     == <<trimmed, unsaved>>
intake     == <<accepted, onTime, bygone, restarts, uncounted>>

outboxVars == <<queues, dbVars, notify, callVars, writerVars, drainVars, conn,
                lifeVars, tally, losses, intake, delivered>>

Row == [id : Nat \ {0}, batch : Batch]

BatchesOf(R) == {r.batch : r \in R}

\* FetchOldest(n), and the rows DeleteOldest(n) removes.
Oldest(R, n) == {r \in R : Cardinality({q \in R : q.id < r.id}) < n}

\* Row of a nonempty set with the smallest id.
First(R) == CHOOSE r \in R : \A q \in R : r.id <= q.id

DbMayFail(op) == op \in DbFaultOps /\ dbFaults < MaxDbFaults

\* NewOutbox on an empty push_outbox, then Start.
OutboxInit ==
    /\ outbox = <<>> /\ spoolCh = <<>>
    /\ rows = {} /\ lastId = 0 /\ count = 0 /\ dbFaults = 0
    /\ notify = FALSE
    /\ pc = [a \in Actor |-> "idle"] /\ hand = [a \in Actor |-> <<>>]
    /\ wmode = IF SpoolEnabled THEN "run" ELSE "done"
    /\ wpc = "idle" /\ buf = <<>> /\ trimTick = 0
    /\ dpc = IF SpoolEnabled THEN "check" ELSE "exited"
    /\ pend = {} /\ full = FALSE /\ poisonId = 0 /\ narrow = FALSE
    /\ conn = FALSE
    /\ quit = FALSE /\ workersDone = FALSE /\ stop = "running"
    /\ dropped = 0 /\ shed = {} /\ trimmed = {} /\ unsaved = {} /\ bygone = {}
    /\ accepted = {} /\ onTime = {} /\ delivered = {} /\ restarts = 0
    /\ uncounted = 0

\* droppedCount.Add(1) for batch b.
Drop(b) ==
    /\ dropped' = dropped + 1
    /\ shed' = shed \cup {b}

-------------------------------------------------------------------------------
(***************************************************************************)
(* Enqueue, one channel operation per step.  Connectivity is read once, on *)
(* entry; everything after it may see a channel whose state has moved on.  *)
(***************************************************************************)

EnqueueStart(p, b) ==
    /\ pc[p] = "idle"
    /\ b \notin accepted
    /\ accepted' = accepted \cup {b}
    /\ hand' = [hand EXCEPT ![p] = <<b>>]
    /\ pc' = [pc EXCEPT ![p] = IF SpoolEnabled /\ ~conn THEN "spoolSend" ELSE "send"]
    /\ UNCHANGED <<queues, dbVars, notify, writerVars, drainVars, conn, lifeVars,
                   tally, losses, onTime, bygone, restarts,
                   uncounted, delivered>>

\* First select: the memory queue takes the batch if it has room.
EnqueueSend(p) ==
    /\ pc[p] = "send"
    /\ IF Len(outbox) < QueueSize
         THEN /\ outbox' = Append(outbox, Head(hand[p]))
              /\ hand' = [hand EXCEPT ![p] = <<>>]
              /\ pc' = [pc EXCEPT ![p] = "idle"]
         ELSE /\ pc' = [pc EXCEPT ![p] = IF SpoolEnabled THEN "spoolSend" ELSE "evict"]
              /\ UNCHANGED <<outbox, hand>>
    /\ UNCHANGED <<spoolCh, dbVars, notify, writerVars, drainVars, conn, lifeVars,
                   tally, losses, intake, delivered>>

\* Without a spool the oldest queued batch makes room for the newest.
EnqueueEvict(p) ==
    /\ pc[p] = "evict"
    /\ IF outbox = <<>>
         THEN UNCHANGED <<outbox, tally>>
         ELSE outbox' = Tail(outbox) /\ Drop(Head(outbox))
    /\ pc' = [pc EXCEPT ![p] = "resend"]
    /\ UNCHANGED <<spoolCh, dbVars, notify, hand, writerVars, drainVars, conn,
                   lifeVars, losses, intake, delivered>>

EnqueueResend(p) ==
    /\ pc[p] = "resend"
    /\ IF Len(outbox) < QueueSize
         THEN outbox' = Append(outbox, Head(hand[p])) /\ UNCHANGED tally
         ELSE Drop(Head(hand[p])) /\ UNCHANGED outbox
    /\ hand' = [hand EXCEPT ![p] = <<>>]
    /\ pc' = [pc EXCEPT ![p] = "idle"]
    /\ UNCHANGED <<spoolCh, dbVars, notify, writerVars, drainVars, conn, lifeVars,
                   losses, intake, delivered>>

(***************************************************************************)
(* SpoolEnqueue of the first batch in a's hand.  A caller with more        *)
(* batches in hand (a flush that failed) calls it again; after the last    *)
(* one it continues at step `after'.                                       *)
(***************************************************************************)

\* Mistake: one call too many after the last batch of a window.
WrongHandOver(a, after) ==
    /\ hand' = [hand EXCEPT ![a] = Tail(hand[a])]
    /\ pc' = [pc EXCEPT ![a] = IF Len(hand[a]) > 0 THEN "spoolSend" ELSE after]

HandOver(a, after) ==
    /\ hand' = [hand EXCEPT ![a] = Tail(hand[a])]
    /\ pc' = [pc EXCEPT ![a] = IF Len(hand[a]) > 1 THEN "spoolSend" ELSE after]

SpoolSend(a, after) ==
    /\ pc[a] = "spoolSend"
    /\ IF Len(spoolCh) < SpoolChSize
         THEN spoolCh' = Append(spoolCh, Head(hand[a])) /\ HandOver(a, after)
         ELSE /\ pc' = [pc EXCEPT ![a] = "spoolEvict"]
              /\ UNCHANGED <<spoolCh, hand>>
    /\ UNCHANGED <<outbox, dbVars, notify, writerVars, drainVars, conn, lifeVars,
                   tally, losses, intake, delivered>>

\* Mistake: the evicted batch is not counted.
WrongSpoolEvict(a) ==
    /\ pc[a] = "spoolEvict"
    /\ spoolCh' = (IF spoolCh = <<>> THEN <<>> ELSE Tail(spoolCh))
    /\ pc' = [pc EXCEPT ![a] = "spoolResend"]
    /\ UNCHANGED <<outbox, dbVars, notify, hand, writerVars, drainVars, conn,
                   lifeVars, tally, losses, intake, delivered>>

SpoolEvict(a) ==
    /\ pc[a] = "spoolEvict"
    /\ IF spoolCh = <<>>
         THEN UNCHANGED <<spoolCh, tally>>
         ELSE spoolCh' = Tail(spoolCh) /\ Drop(Head(spoolCh))
    /\ pc' = [pc EXCEPT ![a] = "spoolResend"]
    /\ UNCHANGED <<outbox, dbVars, notify, hand, writerVars, drainVars, conn,
                   lifeVars, losses, intake, delivered>>

SpoolResend(a, after) ==
    /\ pc[a] = "spoolResend"
    /\ IF Len(spoolCh) < SpoolChSize
         THEN spoolCh' = Append(spoolCh, Head(hand[a])) /\ UNCHANGED tally
         ELSE Drop(Head(hand[a])) /\ UNCHANGED spoolCh
    /\ HandOver(a, after)
    /\ UNCHANGED <<outbox, dbVars, notify, writerVars, drainVars, conn, lifeVars,
                   losses, intake, delivered>>

Enqueue(p) ==
    \/ \E b \in Batch : EnqueueStart(p, b)
    \/ EnqueueSend(p) \/ EnqueueEvict(p) \/ EnqueueResend(p)
    \/ SpoolSend(p, "idle") \/ SpoolEvict(p) \/ SpoolResend(p, "idle")

-------------------------------------------------------------------------------
(***************************************************************************)
(* spoolWriteLoop.  wmode says which of its loops runs: "run" until quit,  *)
(* "sweep" the first drainSpoolCh, "serve" until workersDone, "last" the   *)
(* final drainSpoolCh, "done" once spoolDone is closed.  wpc is the step   *)
(* inside collectSpoolBatch and insertMany.                                *)
(***************************************************************************)

writerFrame == <<outbox, callVars, drainVars, conn, lifeVars, tally, intake, delivered>>

WriterTake ==
    /\ wpc = "idle" /\ wmode # "done"
    /\ spoolCh # <<>>
    /\ buf' = <<Head(spoolCh)>>
    /\ spoolCh' = Tail(spoolCh)
    /\ wpc' = "collect"
    /\ UNCHANGED <<writerFrame, dbVars, notify, wmode, trimTick, losses>>

WriterCollect ==
    /\ wpc = "collect"
    /\ Len(buf) < WriteBatch /\ spoolCh # <<>>
    /\ buf' = Append(buf, Head(spoolCh))
    /\ spoolCh' = Tail(spoolCh)
    /\ UNCHANGED <<writerFrame, dbVars, notify, wmode, wpc, trimTick, losses>>

\* collectSpoolBatch returns; insertMany advances trimTick and reads Count.
WriterCheckCap ==
    /\ wpc = "collect"
    /\ Len(buf) = WriteBatch \/ spoolCh = <<>>
    /\ LET tick == trimTick + Len(buf)
           due  == tick >= TrimInterval
       IN /\ trimTick' = IF due THEN 0 ELSE tick
          /\ wpc' = IF due /\ count >= SpoolCap THEN "trim" ELSE "insert"
    /\ UNCHANGED <<writerFrame, queues, dbVars, notify, wmode, buf, losses>>

WriterTrim ==
    /\ wpc = "trim"
    /\ wpc' = "insert"
    /\ \/ /\ rows' = rows \ Oldest(rows, TrimChunk)
          /\ count' = count - Cardinality(Oldest(rows, TrimChunk))
          /\ trimmed' = trimmed \cup BatchesOf(Oldest(rows, TrimChunk))
          /\ UNCHANGED dbFaults
       \/ /\ DbMayFail("trim")
          /\ dbFaults' = dbFaults + 1
          /\ UNCHANGED <<rows, count, trimmed>>
    /\ UNCHANGED <<writerFrame, queues, lastId, notify, wmode, buf, trimTick, unsaved>>

\* Mistake: a merged INSERT that fails leaves its first row behind.
WrongWriterInsert ==
    /\ wpc = "insert"
    /\ DbMayFail("insert")
    /\ dbFaults' = dbFaults + 1
    /\ rows' = rows \cup {[id |-> lastId + 1, batch |-> Head(buf)]}
    /\ lastId' = lastId + 1
    /\ count' = count + 1
    /\ wpc' = "fallback"
    /\ UNCHANGED <<writerFrame, queues, buf, notify, wmode, trimTick, losses>>

\* InsertMany: one multi-row INSERT, all rows or none.
WriterInsert ==
    /\ wpc = "insert"
    /\ \/ /\ rows' = rows \cup {[id |-> lastId + i, batch |-> buf[i]] : i \in 1..Len(buf)}
          /\ lastId' = lastId + Len(buf)
          /\ count' = count + Len(buf)
          /\ buf' = <<>>
          /\ wpc' = "idle"
          /\ notify' = TRUE
          /\ UNCHANGED dbFaults
       \/ /\ DbMayFail("insert")
          /\ dbFaults' = dbFaults + 1
          /\ wpc' = "fallback"
          /\ UNCHANGED <<rows, lastId, count, buf, notify>>
    /\ UNCHANGED <<writerFrame, queues, wmode, trimTick, losses>>

\* The merged INSERT failed: one by one, a failure loses only its own batch.
WriterFallback ==
    /\ wpc = "fallback"
    /\ \/ /\ rows' = rows \cup {[id |-> lastId + 1, batch |-> Head(buf)]}
          /\ lastId' = lastId + 1
          /\ count' = count + 1
          /\ UNCHANGED <<dbFaults, unsaved>>
       \/ /\ DbMayFail("insert")
          /\ dbFaults' = dbFaults + 1
          /\ unsaved' = unsaved \cup {Head(buf)}
          /\ UNCHANGED <<rows, lastId, count>>
    /\ buf' = Tail(buf)
    /\ IF Len(buf) = 1
         THEN wpc' = "idle" /\ notify' = TRUE
         ELSE UNCHANGED <<wpc, notify>>
    /\ UNCHANGED <<writerFrame, queues, wmode, trimTick, trimmed>>

\* Mistake: spoolCh is not drained again once the workers are done.
WrongWriterPhase ==
    /\ wpc = "idle"
    /\ \/ wmode = "run" /\ quit /\ wmode' = "sweep"
       \/ wmode = "sweep" /\ spoolCh = <<>> /\ wmode' = "serve"
       \/ wmode = "serve" /\ workersDone /\ wmode' = "done"
    /\ UNCHANGED <<writerFrame, queues, dbVars, notify, wpc, buf, trimTick, losses>>

\* The selects on quit and workersDone, and the ends of the two drainSpoolCh.
WriterPhase ==
    /\ wpc = "idle"
    /\ \/ wmode = "run" /\ quit /\ wmode' = "sweep"
       \/ wmode = "sweep" /\ spoolCh = <<>> /\ wmode' = "serve"
       \/ wmode = "serve" /\ workersDone /\ wmode' = "last"
       \/ wmode = "last" /\ spoolCh = <<>> /\ wmode' = "done"
    /\ UNCHANGED <<writerFrame, queues, dbVars, notify, wpc, buf, trimTick, losses>>

SpoolWriteLoop ==
    \/ WriterTake \/ WriterCollect \/ WriterCheckCap \/ WriterTrim
    \/ WriterInsert \/ WriterFallback \/ WriterPhase

-------------------------------------------------------------------------------
(***************************************************************************)
(* DrainLoop.  dpc = "drain" is the call of the channel's DrainFunc, which *)
(* the channel module models; it ends in DrainSucceeds or DrainFails.      *)
(***************************************************************************)

drainFrame == <<queues, callVars, writerVars, lifeVars, losses, intake>>

DrainCheck ==
    /\ dpc = "check"
    /\ dpc' = IF conn THEN "fetch" ELSE "wait"
    /\ UNCHANGED <<drainFrame, dbVars, notify, pend, full, poisonId, narrow, conn,
                   tally, delivered>>

DrainFetch ==
    /\ dpc = "fetch"
    /\ \/ LET window == Oldest(rows, DrainWindow)
          IN /\ pend' = window
             /\ full' = (Cardinality(window) = DrainWindow)
             /\ dpc' = IF window = {} THEN "wait" ELSE "drain"
             /\ UNCHANGED dbFaults
       \/ /\ DbMayFail("fetch")
          /\ dbFaults' = dbFaults + 1
          /\ dpc' = "wait"
          /\ UNCHANGED <<pend, full>>
    /\ UNCHANGED <<drainFrame, rows, lastId, count, notify, poisonId, narrow, conn,
                   tally, delivered>>

\* drain returned ok: a full window is followed by the next one at once.
DrainSucceeds ==
    /\ poisonId' = 0
    /\ narrow' = FALSE
    /\ dpc' = IF full THEN "check" ELSE "wait"
    /\ pend' = {} /\ full' = FALSE

\* Mistake: the poison batch is deleted and not counted.
UncountedDrainFails(failId) ==
    /\ IF PoisonPolicy /\ poisonId = failId
         THEN poisonId' = 0 /\ dpc' = "poison" /\ pend' = {First(pend)}
         ELSE poisonId' = failId /\ dpc' = "wait" /\ pend' = {}
    /\ narrow' = (narrow \/ NarrowPolicy)
    /\ full' = FALSE
    /\ UNCHANGED tally

\* Mistake: the retry is not narrowed to one batch.
UnnarrowedDrainFails(failId) ==
    /\ IF PoisonPolicy /\ poisonId = failId
         THEN /\ poisonId' = 0
              /\ Drop(First(pend).batch)
              /\ dpc' = "poison"
              /\ pend' = {First(pend)}
         ELSE poisonId' = failId /\ dpc' = "wait" /\ pend' = {} /\ UNCHANGED tally
    /\ full' = FALSE
    /\ UNCHANGED narrow

\* drain returned failID: the second failure in a row of one id is poison.
DrainFails(failId) ==
    /\ IF PoisonPolicy /\ poisonId = failId
         THEN /\ poisonId' = 0
              /\ Drop(First(pend).batch)
              /\ dpc' = "poison"
              /\ pend' = {First(pend)}
              /\ UNCHANGED narrow
         ELSE /\ poisonId' = failId
              /\ narrow' = (narrow \/ NarrowPolicy)
              /\ dpc' = "wait"
              /\ pend' = {}
              /\ UNCHANGED tally
    /\ full' = FALSE

\* Mistake: the count follows the rows asked for, not the rows affected.
WrongDeleteRows(R) ==
    /\ rows' = rows \ R
    /\ count' = count - Cardinality(R)
    /\ UNCHANGED dbFaults

\* Delete / DeleteBatch of the rows of R; the count follows RowsAffected.
DeleteRows(R) ==
    \/ /\ rows' = rows \ R
       /\ count' = count - Cardinality(rows \cap R)
       /\ UNCHANGED dbFaults
    \/ /\ DbMayFail("delete")
       /\ dbFaults' = dbFaults + 1
       /\ UNCHANGED <<rows, count>>

DrainDeletePoison ==
    /\ dpc = "poison"
    /\ DeleteRows(pend)
    /\ pend' = {}
    /\ dpc' = "check"
    /\ UNCHANGED <<drainFrame, lastId, notify, full, poisonId, narrow, conn, tally,
                   delivered>>

(***************************************************************************)
(* WaitDrain: whichever of a token, the backstop timer and quit the select *)
(* picks.                                                                  *)
(***************************************************************************)

waitFrame == <<drainFrame, dbVars, pend, full, poisonId, narrow, conn, tally, delivered>>

DrainQuit ==
    /\ dpc = "wait" /\ quit
    /\ dpc' = "exited"
    /\ UNCHANGED <<waitFrame, notify>>

DrainNotified ==
    /\ dpc = "wait" /\ notify
    /\ notify' = FALSE
    /\ dpc' = "check"
    /\ UNCHANGED waitFrame

DrainBackstop ==
    /\ dpc = "wait" /\ Backstop
    /\ dpc' = "check"
    /\ UNCHANGED <<waitFrame, notify>>

DrainLoopStep ==
    \/ DrainCheck \/ DrainFetch \/ DrainDeletePoison
    \/ DrainQuit \/ DrainNotified \/ DrainBackstop

-------------------------------------------------------------------------------
(***************************************************************************)
(* Close and Wait, called in this order by every channel's Stop.           *)
(***************************************************************************)

Close ==
    /\ stop = "running"
    /\ stop' = "joining"
    /\ quit' = TRUE
    /\ onTime' = accepted \ UNION {Range(hand[p]) : p \in Producer}
    /\ UNCHANGED <<queues, dbVars, notify, callVars, writerVars, drainVars, conn,
                   workersDone, tally, losses, accepted, bygone, restarts, uncounted,
                   delivered>>

\* Mistake: Wait does not close workersDone.
WrongWaitStart(groupDone) ==
    /\ stop = "joining"
    /\ groupDone
    /\ stop' = "waiting"
    /\ UNCHANGED <<queues, dbVars, notify, callVars, writerVars, drainVars, conn,
                   quit, workersDone, tally, losses, intake, delivered>>

\* The worker group has exited; Wait closes workersDone.
WaitStart(groupDone) ==
    /\ stop = "joining"
    /\ groupDone
    /\ stop' = "waiting"
    /\ workersDone' = TRUE
    /\ UNCHANGED <<queues, dbVars, notify, callVars, writerVars, drainVars, conn,
                   quit, tally, losses, intake, delivered>>

\* spoolDone is closed: Wait returns and Stop resets the connected flag.
WaitReturn ==
    /\ stop = "waiting"
    /\ wmode = "done"
    /\ stop' = "stopped"
    /\ conn' = FALSE
    /\ UNCHANGED <<queues, dbVars, notify, callVars, writerVars, drainVars, quit,
                   workersDone, tally, losses, intake, delivered>>

(***************************************************************************)
(* The process ends, after Stop or by a crash, and starts again: what was  *)
(* only in memory (`lost') is gone, the rows and their ids are still       *)
(* there, and NewSqliteSpool counts them; if that fails it goes on with 0. *)
(***************************************************************************)
Reboot(lost) ==
    /\ restarts < MaxRestarts
    /\ restarts' = restarts + 1
    /\ bygone' = bygone \cup lost \cup shed
    /\ outbox' = <<>> /\ spoolCh' = <<>>
    /\ \/ count' = Cardinality(rows) /\ uncounted' = 0 /\ UNCHANGED dbFaults
       \/ /\ DbMayFail("seed")
          /\ dbFaults' = dbFaults + 1
          /\ count' = 0 /\ uncounted' = Cardinality(rows)
    /\ notify' = FALSE
    /\ pc' = [a \in Actor |-> "idle"] /\ hand' = [a \in Actor |-> <<>>]
    /\ wmode' = (IF SpoolEnabled THEN "run" ELSE "done")
    /\ wpc' = "idle" /\ buf' = <<>> /\ trimTick' = 0
    /\ dpc' = (IF SpoolEnabled THEN "check" ELSE "exited")
    /\ pend' = {} /\ full' = FALSE /\ poisonId' = 0 /\ narrow' = FALSE
    /\ conn' = FALSE
    /\ quit' = FALSE /\ workersDone' = FALSE /\ stop' = "running"
    /\ dropped' = 0 /\ shed' = {} /\ onTime' = {}
    /\ UNCHANGED <<rows, lastId, trimmed, unsaved, accepted, delivered>>

-------------------------------------------------------------------------------

OutboxTypeOK ==
    /\ outbox \in Seq(Batch) /\ spoolCh \in Seq(Batch)
    /\ rows \in SUBSET Row /\ lastId \in Nat /\ count \in Int /\ dbFaults \in Nat
    /\ notify \in BOOLEAN
    /\ hand \in [Actor -> Seq(Batch)]
    /\ wmode \in {"run", "sweep", "serve", "last", "done"}
    /\ wpc \in {"idle", "collect", "trim", "insert", "fallback"}
    /\ buf \in Seq(Batch) /\ trimTick \in Nat
    /\ pend \in SUBSET Row /\ full \in BOOLEAN /\ poisonId \in Nat
    /\ narrow \in BOOLEAN /\ conn \in BOOLEAN
    /\ quit \in BOOLEAN /\ workersDone \in BOOLEAN
    /\ stop \in {"running", "joining", "waiting", "stopped"}
    /\ dropped \in Nat
    /\ {accepted, onTime, delivered, shed, trimmed, unsaved, bygone} \subseteq SUBSET Batch
    /\ restarts \in Nat /\ uncounted \in Nat

\* A caller in the middle of a call still has the batch it is about.
CallersHoldBatches ==
    \A a \in Actor :
       pc[a] \in {"send", "evict", "resend", "spoolSend", "spoolEvict", "spoolResend"}
          => hand[a] # <<>>

\* Batches that exist nowhere but in this process's memory.
InMemory ==
    Range(outbox) \cup Range(spoolCh) \cup Range(buf)
        \cup UNION {Range(hand[a]) : a \in Actor}

===============================================================================
