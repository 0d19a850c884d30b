# A verification of the IoT gateway's data path

TLA+ models of the gateway in `src/backend` and of the pages of its console in `src/frontend` that
have a life of their own, the TLC runs that check them on small instances, and
the TLAPS proofs that hold for every instance. The models follow the code; where a comment or a
test says something else, the run that shows it is marked as a violation.

## 1. The system

| component | state | operations | who calls it |
|---|---|---|---|
| push outbox, spool, replay (`push/outbox.go`, `spool.go`, `drain.go`) | memory queue, write buffer `spoolCh`, rows of `push_outbox`, row count, `drainNotify`, `quit`/`workersDone` | Enqueue, SpoolEnqueue, spoolWriteLoop, DrainLoop, Close, Wait | push engine (many goroutines), the channel's workers |
| aggregate writer (`push/writer.go`, `influxdb/v3`, `tdengine/v3`) | window per worker, batch carried over, connection flag | Run, flush, Drain, ReconnectLoop, Start, Stop | outbox queue, ticker |
| message channels (`mqtt`, `messagechannel`, `webhook`) | connection flag, in-flight send | publishLoop/sendLoop, drainWindow, Stop | outbox queue, MQTT callbacks |
| push engine (`push/engine.go`, `change.go`) | table of channel instances, change tracker, watcher checksum | Start, Stop, refresh, PushRecords | collector, HTTP, watcher, main |
| collector (`collector`, `workerPool`) | task, groups, device gates, in-flight marks, worker queue, `Engine.mu` | Start, StopCollection, Refresh, Stop, poll, Write | main, HTTP, watcher |
| alarms (`alarm`) | state per device, point and push channel; alarm rows | report, the channel scan | collector, channel monitor, services |
| notification (`notify`) | ingress, a queue and a worker per webhook | Notify, reload, Start, Stop, delivery with retry | alarms, HTTP, watcher |
| device scan (`devicescan`) | one job with its batches, the goroutine of each | Submit, Continue, Cancel, Status, Stop | HTTP |
| scan page (`views/industrial/device-scan`) | the job shown, the interval, requests under way | start, poll, continue, cancel, leave | user, answers |
| channel dialog (`views/data-push/channel`) | what the dialog was loaded from, request ids and flags, preview | open, edit, preview, save, close | user, answers |
| live views (realtime, points, monitor, recent messages, rules) | selection, interval, requests under way | page, pause, hide, unfold, poll | user, answers |
| trigger rules (`triggerrule`) | edge and cooldown state per rule, job queues | PushRecords, finishJob, Refresh, Stop | collector, runners |
| driver plugins (`pluginhost`) | process state, epoch, sessions, restart backoff | Start, call, exit, restart, hot upgrade | collector, HTTP |
| runtime configuration (`runtimecfg`) | snapshot, rows, appliers | Update, Reset, rollback, Close | HTTP |
| MQTT subscriptions (`subscribe`) | subscribers, device point store | Start, Refresh, message | broker, HTTP |
| discovery, control, services, the rest of the console | see `PROJECT.json` | | |

Records flow collector -> (realtime store, alarms, trigger rules) -> push engine -> channel outbox ->
downstream database or broker; while a channel is offline, or its queue is full, batches go to SQLite
and are replayed by DrainLoop. Stop runs against that flow: collector, trigger rules, subscriptions,
push engine (`main.go`, the deferred calls). Polls and the
channel scan drive the alarm state machines, whose rows the console lists and whose events go to the
webhooks. The console knows the server only by its answers.

### What is hard

* Every queue operation of the outbox is a non-blocking `select`; two of them in a row are not atomic,
  and any number of collector goroutines, workers and the two spool goroutines interleave between them.
* A batch changes hands many times (queue, window, carry, write buffer, row, replay window) and each
  hand-over has a failure branch.
* Stop is ordered: quit, workers drain and hand over, `workersDone`, final sweep, Wait. A step in the
  wrong place loses the batches that were in somebody's hands.
* Wake-ups are a one-slot channel with a 10 s backstop timer.
* A row is deleted after it was sent: crash, lost acknowledgement, trim and a failing SQLite call may
  come between.
* Poison detection must not blame a good batch for its neighbour, nor a slow database for a bad batch.
* Refreshes of the push engine (Start, watcher, HTTP) overlap each other, pushes and Stop, and read
  the database outside the lock.
* The collector's engine holds its lock while it drains polls and HTTP writes, which wait for the gates of
  devices; a Go write lock that waits keeps new readers out.
* The alarm table is written by the Tracker and, behind its back, by services; a failed lookup is taken
  for "no row"; a restart forgets the state and keeps the rows.
* A reload of the notifier starts workers before it publishes them, and Stop may come in between.
* A batch of a scan may be cancelled and continued while its probes are still under way.
* A page of the console that asks again before it has its answer gets answers out of order, and some
  arrive after the user has gone on to something else.

`PROJECT.json` lists these hazards one by one, at their lines, with the properties that cover each, and a note where a property
covers only part of it. A hazard that the code really falls into cannot be the subject of a property that holds: it is
listed without one, and the property next to it names the exception (section 3).

### What makes each component correct

| component | properties |
|---|---|
| outbox and time-series channel | no batch vanishes; in one place at a time; exact drop count; exact row count; replay in order; only isolated batches are dropped as poison; Stop saves what was handed over and leaves nothing behind; everything is eventually settled; Stop returns |
| message channels | the same custody; order within a topic; what Stop saves |
| push engine | no instance lost or doubled; Stop stops all; channels follow the table; no value withheld by the change filter |
| collector | a device is talked to by one party at a time, never through a closed driver; no poll is lost or piles up; the newest configuration is collected; Refresh and Stop terminate with writes in progress |
| alarms | the active rows are the targets that are off line; alarms and recoveries alternate |
| notification | the counters account for every event; no worker is left delivering after Stop |
| device scan and its page | no target is skipped; a batch that ended stays as it is; the page keeps polling, a cancel holds, in the end every device is shown |
| channel dialog, live views | a save takes the channel's own settings; spinners and previews are true; a view comes to show what is selected |
| trigger rules | one job in flight per rule; a pending edge is not lost; no send on a closed queue |
| driver plugins | a session id of an older epoch never reaches the newer process; backoff; upgrade swaps once |
| runtime configuration | row, snapshot and component agree after success or compensation |

## 2. Modules

```
Outbox  <-  TimeSeriesChannel  <-  MCTimeSeriesChannel
               |  refines Custody
TimeSeriesChannel_proofs  <-  TimeSeriesChannel_custodian

PushEngine  <-  MCPushEngine
PushEngine_proofs

AlarmTracker, Notifier  <-  AlarmPipeline  <-  MCAlarmPipeline
AlarmPipeline_proofs

Collector  <-  MCCollector
Collector_proofs

DeviceScan  <-  ScanPage  <-  MCScanPage
ScanPage_proofs  <-  ScanPage_view

ChannelDialog, LiveViews  <-  Console  <-  MCConsole
Console_proofs
```

**Custody** is the abstract specification: a channel accepts a batch, holds it, and lets it go only
when it was applied downstream or its loss is excused (counted as dropped, trimmed at the cap, failed
to store, or gone with the process).

**Outbox** holds the shared state of a channel and the steps of `outbox.go`, `spool.go` and `drain.go`.
Each channel operation or SQL statement is a step. `pc[a]` is where caller `a` (a collector goroutine or
a worker) is inside Enqueue or SpoolEnqueue and `hand[a]` the batches it has in hand; `wmode`/`wpc` are
the loop and the step of spoolWriteLoop, `dpc` the step of DrainLoop with its locals `pend`, `full`,
`poisonId`, `narrow`. `rows` is the set of this channel's rows, `count` the in-memory count the code
keeps instead of querying. A batch is a model value and is submitted at most once. Histories
(`accepted`, `delivered`, `shed`, `trimmed`, `unsaved`, `bygone`, `onTime`) record what became of each batch; no guard
reads them, except that a batch is submitted once.

**TimeSeriesChannel** adds what the two time-series channels share: workers running
`AggregateWriter.Run` (window, `carry` for a batch that conflicts with the window, `mode` for the drain
after quit), the write and its failures, `GroupedDrainer.Drain`, ReconnectLoop, Stop, and a process
restart that keeps only the rows. The constants choose the channel: InfluxDB sets `NarrowPolicy` and may
refuse a batch while connected; TDengine sets `RejectDisconnects` (its write clears the connection flag
on any error).

**PushEngine** models the table of channels. A refresh (`rpc[r]`, one per Start/Stop, watcher, HTTP caller) reads
the rows, swaps the channels in one critical section, resets the change tracker and stops the replaced
instances, which it holds in `doomed[r]` (toStop). The watcher compares checksums, which stand here for the
rows they were computed from; `{}` is the 0 of a failed query. A collector pushes one
point: look up the channels, filter by the tracker, enqueue on each.

**Collector** models `collector/engine.go`, `task.go`, `control.go`, `deviceGate.go` and `workerPool.go`.
`writer` is the holder of `Engine.mu` for writing, the callers in `calls` hold it for reading. `ops[m]` is where a
manager (an HTTP request or the watcher) is in Start, Stop, StopCollection or Refresh: waiting for the lock,
building the new task, closing the old one's quit, draining polls, stopping the pool. Per task there are its
group loops, the in-flight marks, the wait group, the connected drivers and the gates taken; `work[w]` is
the poll of a worker and the step it is at (gate, connect, gate again for the read, read, report). A
serial device keeps the gate for the whole poll, another takes it for the connect and for the read. A configuration is known by
its content, so an edit may bring back an earlier one, and a checksum is the content or, if a query failed, what was read before it
(`Cut`). A task is of a configuration and has the groups whose points could be read: the queries of collector groups and thing
models may fail without failing the build.

**AlarmTracker** models `alarm/tracker.go` and `channel.go`. `st` is `Tracker.states` of both Trackers, `table`
the alarm rows in order of creation. A report is one step up to its statements, since it holds the Tracker's lock and
the table has one connection, and a second one that hands the row to the notifier (`handing`). Services
disable a target in one step and clear its rows in another, without the Tracker. Faulty variants take
each statement's error branch. The scan of a channel either reports it or forgets it: `GetStatus` of the push engine lists
the channels that it has (`push/engine.go:388-397`), a refresh removes a disabled one, and those that are there run. So the
branch of `scan` that clears the alarm of a listed channel that does not run (`channel.go:124-127`) is not reached, and not modelled.

**Notifier** models `notify/dispatcher.go` and `worker.go`: `ingress`, the fanout loop of each Start (`loops`,
which tries a worker's queue, evicts its oldest event and tries again), a record per worker ever started (`inst`), the
reload that holds `reloadMu`, and Stop. The watcher is present as one of the callers of reload.
**AlarmPipeline** composes the two: Notify, under the Tracker's lock, is Admit (it looks at `running`) and HandOver (it queues or counts); Stop may come in between; a restart of the process loses
what the notifier held.

**DeviceScan** models the job of `devicescan/engine.go` and `job.go`: a batch is an interval of positions in the
virtual list of targets, and `runs` holds the goroutine of each batch with the targets it has yet to prefilter, to
probe, and in flight. Continue waits for the batch before it (`waiting`), Stop for the current one.
**ScanPage** adds the page. A request is sent, served and answered in three steps, in any order with
others; the interval has `Ticks` slots of polls, the polls that handleCancel and continueBatch wait for have
their own. Other clients call the same engine.

**ChannelDialog** models the dialog of `views/data-push/channel/IndexView.vue`. What it holds is known by
the channel it was loaded from: output configuration, subscribed groups, connection form. `flight` is the
set of requests under way, each with the ids the handlers compare when they are answered. An edit that is announced reschedules
the preview; one made in the JSON mode of the mapping (`EditText`) changes what is previewed and saved and tells nobody. **LiveViews**
models the five views that poll (`useRealtimeValues.js` among them) and differ in whether they ask while they wait and
what they do with a late answer. **Console** puts the two next to each other in one event loop.

An operator whose comment begins with "Mistake" is a variant of the definition after it that breaks a
property the runs check; it shows that the property depends on the code, and no step uses it.

### Abstractions

* Each of the newer models takes a *plan* from `Plans` in its initial state: how many clicks, edits, failing
  statements, panics, restarts or calls of Stop a behaviour may have. It also says which devices, targets or views there are.
  A step that uses it up says so by `Use` (`Click` and `Fault` in ScanPage).
* Payload text, SQL, logging, status text and recent messages are left out; a batch is one row of a
  payload, so `MaxRows` counts batches.
* A database error is nondeterministic within `DbFaultOps`/`MaxDbFaults`; a downstream error within
  `MaxFaults` (a break) or permanent for the batches in `Refused`.
* Timers are nondeterministic: a flush tick, the reconnect ticker, the watcher's ticker may fire at any
  time, the 10 s backstop only where `Backstop` is TRUE.
* A collector goroutine of PushEngine polls one point and pushes one value at a time, as a polling group
  does. The records of PushRecordsToChannel and PushRecordsToTimeSeries skip the tracker and are not
  modelled.

## 3. Runs

| run | what it asks | instance | result |
|---|---|---|---|
| influx | the channel implements Custody; one place per batch; replay in order; poison blame is isolated | 2 batches (one refused), queue/buffer of 1, cap 1, window 2, one failure of any SQLite operation, one broken connection | holds |
| crash | nothing vanishes and the row count is exact through trims and a restart | 3 interchangeable batches, 1 restart at any step, whose count of the rows may fail, cap 1, trim every 2 | holds (2.2 million states) |
| tdengine | liveness without the backstop timer; Stop | 2 batches (one refused), rejections disconnect, fairness | holds |
| nospool | drop counting without a spool | 3 batches, 2 callers, 2 workers, two batches that conflict, one refused | holds |
| poison | "the connection is healthy and the write was refused" (`drain.go:81-84`) | 2 broken connections | violated |
| cap | the cap bounds the rows (`outbox.go:60`, `460`) | 4 interchangeable batches, offline | violated |
| reload | instances are accounted for; Stop; channels follow the table | 1 channel with 2 configurations, 2 edits, 1 HTTP refresh, 1 failed query, fairness | holds |
| scan | no target is skipped, counts add up, ended batches are frozen, Stop waits; the page keeps polling and goes on by itself, a cancel sticks, every device is shown in the end | 3 targets in batches of 2, 2 concurrent probes, 2 devices; page, second tab and a tool; 5 plans of clicks, a failure, other clients | holds (2.1 million states) |
| alarm | the list of active alarms is true, edges alternate, counters add up, Stop is quiet | 1 device and 1 push channel, threshold 2, 3 rows, ingress and queues of 1, 2 attempts, 2 webhooks, 3 workers, 2 Starts; 10 plans | holds (0.8 million states) |
| collector | one party per device, no poll lost or piled up, the newest configuration is collected, every operation returns | 2 devices (1 serial) in 2 groups, 2 workers, queue of 1, 2 reads a poll, 8 tasks, 2 configurations; 9 plans with up to 3 edits and a failed query; fairness | holds (0.3 million states) |
| console | a save takes the channel's own settings, the dialog's flags and preview are true, a view catches up | 2 channels of different type and format, 3 requests of the dialog, 2 of a view; 6 clicks and 1 failure in the dialog, 6 acts and 2 failures in each view; fairness | holds (1.8 million states) |
| records | the change filter withholds no value | 2 channels, 2 configurations of which one takes the point, 2 values, 1 edit, 2 switches of changeOnly, keepalive on | holds |

Why the bounds are enough. Every queue has capacity 1 or 2, so full and empty alternate within two batches and
each eviction, overflow and conflict branch is taken; a window of two rows is the smallest that mixes a
good with a bad batch; one fault suffices to reach every error branch, and a second failure in a row on
the same row, which poison detection needs, comes from a refused batch. Three batches give a cap of one
row a trim while another row is being replayed. One restart at any step includes one between a write and
its delete. In `reload`, two edits make an edit-and-undo, and one HTTP refresh beside the watcher makes two refreshes
overlap. In `records`, two switches are needed for the tracker to hold values from before an off period. In `scan`,
three targets make a full batch and a short one, and two polls in flight are the fewest that can be answered out of
order. In `alarm`, a threshold of 2 tells a first failure from the one that raises, three rows are alarm, recovery
and alarm again, and three workers let one webhook have a predecessor and a successor. In `collector`, two
groups share a device, so two polls of it and a write can want its gate; eight tasks are enough for all its plans (a manager that could not build would violate `OpsReturn`), and three edits leave a
configuration, return to it and leave it again. In
`console`, six clicks open one channel, close it, open another and save.
`Spec` in `influx`, `crash`, `nospool`, `records`, `scan` and `alarm` has no fairness, as they check safety. (CancelSticks, ShowsAll and GoesOnByItself of `scan` are about states in
which nothing is under way any more, so they are invariants.) Deadlock is not checked: a stopped channel or engine,
and one whose batches are all settled, rightly has no step left.

### Fairness

`FairSpec` of TimeSeriesChannel gives weak fairness to each goroutine: a collector inside Enqueue, each
worker, spoolWriteLoop, DrainLoop, ReconnectLoop and the caller of Stop. None of them blocks for ever in
the code: the queue operations have a `default`, every write and ping has a timeout, and the tickers
keep firing. A reconnection attempt eventually succeeds because downtime is what liveness is conditional
on. Enqueue need not be called, Stop need not be called, faults are bounded, the backstop gets no
fairness. `FairSpec` of PushEngine gives it to every refresh that has begun and to the watcher. `Spec` of Collector gives
it to each worker, each group loop that is told to quit, each caller (its wait for the gate has a deadline) and each manager once it
has been called: drivers return from a read or fail, and a goroutine that can go on does. Nobody need
call, edit or poll. `Spec` of Console gives it to the interval of a view and to the answers of its requests, which
succeed or fail by the deadline of the HTTP client; the user need not act.

### Exceptions the properties name

`FollowsTable` holds except in five windows, each recorded by `behind`: an edit between Start's refresh and the
watcher's first checksum (`engine.go:148`, `516`), a failed query in Start's own refresh, after which that first checksum hides what
was never read (`engine.go:148`, `420-423`, `516`), a failed query in the watcher's own refresh, after which the
new checksum is kept all the same (`engine.go:533`), a refresh that publishes older rows over newer ones
(`engine.go:420`), and an edit undone before the watcher saw it while another refresh had published it.
`NoValueWithheld` excludes a push that looked the channels up before a refresh and recorded its value after
the refresh's reset (`overtaken`). `StopStopsAll` excludes what a refresh publishes after Stop (`late`):
refresh does not look at `running` again. That the old and the new instance of a channel run together for a moment (`engine.go:438`,
`459`) is a behaviour of the model; Outbox has one instance at a time, so what two of them do to one table of rows is not modelled.

*Outbox.* `uncounted`: NewSqliteSpool could not count the rows of an earlier process and goes on with 0
(`spool.go:108-112`), so until the next restart the count is short by what there was. The comment above it (`spool.go:101-103`) says
that this does not matter; the cap check reads the count before every insert.

*Scan.* `overtaken`: two Continue calls wait for the same `doneCh` and a cancel comes between them, so the second starts a batch while
probes of the first are under way and write into it, which `engine.go:588-589` means to exclude. `StopWaits`
speaks of the job that Stop finds, as Stop does: goroutines of a cancelled job whose probe is stuck outlive it when another
scan replaced the job, or when it expired and was forgotten. `late`: the page took an answer that was out of date. `broken`
has what went wrong. A rescan that was refused as busy keeps the automatic continuation off (`start`). A poll of a
batch that another client has started shows a running scan that has no interval, and a batch of theirs may end
between the two requests of a poll (`foreign`). A scan that is started again before the cancel of the one before has been
answered may rest after its first batch (`overlap`): the end of a batch is acted upon only in the poll that brings it, and
`canAutoContinue` is false while any cancel is under way, although `IndexView.vue:831-833` means the page to go on until
nothing is left.
Not an exception but part of the model: leaving the page with a start or continue under way sets the interval again afterwards.

*Alarms.* `wiped`: a service cleared the rows of an abnormal target and left the Tracker as it was; a target that is enabled
again and still fails is not listed, and its recovery is announced without an alarm. `ghost`: a poll
between disabling a target and the collector's reload raises an alarm that stays active, and so does the crash
of the process between the two statements of the service. For a channel it stays so also after the push engine has dropped it, and a clear of
its row that failed is not repaired: `channel.go:124-127` means to clear the alarm of a channel that was disabled, but the engine's list no longer
has it, and `scan` only forgets it (135-143). (So says `channel.go:37`; the test of it, `TestChannelMonitorStopClearsActiveAlarm`, lists a stopped channel,
which the engine does not.) `blind`: a lookup that fails for any reason counts as "not found" and a second active
row is made. `stuck`: the UPDATE failed and the row stays active. `began`: the row was not created, the state is abnormal all the same.
`recounted`: Stop counts what is left in `ingress` as dropped and leaves it there for the next Start. A reload that publishes after Stop leaves its workers running.

*Collector.* `jammed`: a panic of a driver's Read leaves the gate of the device taken, after which its polls never end
and whoever drains them holds `Engine.mu` for ever. `unnoticed`: the task is not of the last edit, and the watcher cannot see it. Either the edit
came between the load of Start and the watcher's first checksum, or it brought back what the watcher remembers while the task is of
something else: somebody else had refreshed meanwhile, or the checksum it remembers was cut short by a failed query
(`engine.go:259-263`, `281-284`, `317-320`) and is, by chance, that of the configuration that comes next. What `TaskFollowsConf` does not
speak of is whether a task has all of its configuration: if the query of the collector groups fails, the task is built without the points
that are bound to one (`task.go:420-423`; the comment at `1115-1116` and the log message say they fall back to their own frequency), and the
watcher, content with its checksum, does not build it again.

*Console.* `foreign`: the details of a channel whose dialog was closed before they came fill the dialog opened
next, and allow it to be saved before its own details are there (compare the comment at `IndexView.vue:1474`).
`outdated`: a preview that fails leaves the result before it, and the preview of a plain format arrives after the
format was changed; a preview that is rejected before it is sent (`IndexView.vue:1359-1363`, `1382-1384`) cancels the one under way and leaves the
result as it is. `typed`: typing in the JSON mode of the mapping (`MappingEditor.vue:155-162`) emits no change, so the result shown, or one on its way, passes for
that of the new text until the mapping is previewed or shown as a table again. Settings may be missing from a save (it does not wait for the connection form), and an
answer to a save closes whatever dialog is open; `SavesItsOwn` speaks of settings of the wrong channel only. A view that is
paused, hidden or has a message unfolded is not asked to catch up: the realtime page drops a change of page
while it waits and shows it with the next tick, the monitor keeps the messages of the channel before.

Without these exceptions TLC shows each of these behaviours.

## 4. Proofs

TLAPS checks, for any batches, callers, workers, queue sizes, policies and numbers of faults:

* `TimeSeriesChannel_proofs!TypeCorrect`: `Spec => []TypeOK`. The inductive invariant `TypeInv` adds that
  sequences are over `Batch`, that the writer's buffer is not empty while it inserts, and that a caller in the middle of a
  call has its batch in hand. One lemma per group of actions.
* `ChannelKeepsCustody`: `Spec => KeepsCustody`, the refinement of `Custody`.
  `CustodyInv` is `TypeInv` with `HandsInv` (no hand is overwritten while it holds a batch) and `WindowInv`
  (a row in the replay window is stored, or its batch is settled). Both are needed: a step that starts a
  call overwrites a hand, and trims run while the window is being replayed, so a batch whose row is gone
  must still be accounted for. Every step is shown to be `Accept`, `Settle` or a stutter of the promise.
* `BatchesNeverVanish`: `Spec => []NothingVanishes`, from the same invariant.
* `StopLeavesNothing`: `Spec => []StopSavesAll`, and `StoppedStaysQuiet`: `Spec => StoppedIsQuiet`. `StopInv` follows
  Stop through its waits: which goroutines have ended by then, and that whatever they held was handed to a goroutine that
  is still to end, or stored, or counted.
* `TimeSeriesChannel_custodian!BatchHasOneCustodian`: `Spec => []OneCustodian`. `PlacesInv` says that the queues, buffers, hands and
  rows are pairwise disjoint and repeat nothing, but for a row that is being replayed. The step that needs it is the merged
  insert, which turns a buffer into rows.
* `CountFollowsRows`: `Spec => []CountIsRows`. A trim or a delete subtracts what the statement affected,
  so it needs that ids are not used twice. After a failed seed the count is short by `uncounted`, a constant until the next restart.
* `ReplayKeepsOrder`: `Spec => ReplayInOrder`: the window is the oldest rows in order, and a group a prefix of what is left of it.
* `BadBatchIsAlone`: `NarrowPolicy => (Spec => BlameIsIsolated)`. `NarrowPolicy` is the InfluxDB channel; the other has no such promise.
* `DroppedIsExact`: `PoisonStaysDeleted => (Spec => []DroppedExact)`. `PoisonStaysDeleted` says that
  the DELETE of a poison row is not among the operations that fail. It is needed: if it fails, the row comes back in a later
  window, is refused and counted once more.

For any number of channels, configurations, collectors and overlapping refreshes:

* `PushEngine_proofs!TypeCorrect`.
* `InstancesAccounted`: `Spec => []Accounted`. The strengthening `HoldersInv` says that stop lists are disjoint and empty outside
  the last part of a refresh, and that generations grow, so a new instance is never one that runs.
* `StopLeavesNothing`: `Spec => []StopStopsAll`, from `Accounted` and `StopInv` (main refreshes only while it starts or stops).
* `StableValuesDelivered`: `Spec => []NoValueWithheld`. The strengthening `PushingTracked` says that a push
  under way hands over the value the tracker holds, unless the tracker is about to be reset.

For any devices, push channels, webhooks, thresholds, queue sizes, attempts, workers and Starts:

* `AlarmPipeline_proofs!TypeCorrect`.
* `AlarmsListedRight`: `Spec => []ListIsTrue`, and `EdgesAreAlternate`: `Spec => []EdgesAlternate`. Both follow from `TrackerInv`:
  for each target, `Listed` relates its state to its active rows, and `Fits` says what its last row must be for that state.
  `Fits` is the strengthening: whether the next row alternates depends on the last one, which the list of
  active rows does not tell once it is cleared.
* `EventsAccounted`: `Spec => []Accounted`, from the balance of each worker (`WorkerOK`), which holds in the middle of
  an eviction as well.
* `StopIsQuiet`: `Spec => []QuietAfterStop`. The strengthening says which workers are owned by the table, by
  a reload or by Stop, and in which phases of each.
* The invariant of the composition is `TrackerInv`, `NotifierInv` and the type of the plan. The halves do not read each other's
  state, so a step of one is a stutter of the other; only HandOver and Restart are steps of both, and Admit of neither.

For any devices, groups, workers, callers, managers, queue sizes and plans:

* `Collector_proofs!TypeCorrect`.
* `DriversAreSafe`: `Spec => []DriverSafe`. `GateInv` says that whoever talks to a device has its gate, alone;
  `LockInv` that one manager at a time is past the lock and no reader is there meanwhile; `PhaseInv` that only the
  current task has loops or marks, so that no old poll survives into a new task.
* `MarksAreExact`: `Spec => []MarksMatch`. `MarkInv` says that a mark stands for exactly one poll in the queue or in a worker, and
  the wait group for the number of marks. It holds when a full queue takes a mark back, when a
  driver fails or panics, and when the pool is stopped.
* `NewestIsCollected`: `Spec => []TaskFollowsConf`. `ConfInv` says that if what the watcher remembers, or is
  about to, is the configuration, then the task, or the one that is to replace it, was built from it, unless the last edit was not to be noticed.

For any devices, answers of the probes, callers, numbers of targets, batch sizes, concurrency, plans and numbers of polls in flight:

* `ScanPage_proofs!ContinueSkipsNothing`: `Spec => []NothingSkipped`, and `CountsAddUp`: `Spec => []CountsAgree`. Whatever the page and the
  other clients do, the engine takes one of its own steps or none (`PageDrivesEngine`), so the engine's invariant is proved from
  these. `BatchInv` says that the targets of the current batch are split into those evaluated and those that its
  goroutine still has, whose number is what `scanned` lacks. It holds while no Continue has overtaken another;
  `OneRun` says that until then the job has one goroutine.
* `StopAwaitsTheJob`: `Spec => []StopWaits`, from `OneRun` and the order of batches.
* `RowsAreStable`: `Spec => ListStable`: devices found by concurrent probes are looked up among those listed, so the list has
  no device twice. `EndedStaysFrozen`: `Spec => EndedIsFrozen`: a probe counts only if the job is running.
* `TypesHold`: `Spec => []TypeOK`, from `PageTypes` (the fields that a request has at each of its steps), the
  types of the engine, and `SlotInv`: the polls of handleCancel and continueBatch are in their own slots exactly while these
  wait for them.
* `CancelHolds`: `Spec => []CancelSticks`. `CancelInv` says that until the job is cancelled a request to cancel it is
  under way. It is needed for a batch that the page asked for before the user cancelled: continueBatch then cancels it itself.
* `ScanPage_view!PollingGoesOn`: `Spec => []PollsWhileRunning`; `AllIsShown`: `Spec => []ShowsAll`; `BatchesFollow`:
  `Spec => []GoesOnByItself`. They share the invariant `ShowInv`, about what the page knows (`Known`: the job, and every
  snapshot in an answer under way) and what it asks for (`Asked`):
  - `AnswersInv`: an answer is about the job asked for. `OrderInv`: as long as no answer was out of date (`late`), the page
    asks for no job later than the one it shows or has given up, so that no answer to a poll or a continue takes it to another job.
  - All three are about a page that took no answer that was out of date (`~late`): such an answer may stop the polling for good.
  - `BatchesInv`: only the answer to a continue tells of a later batch than is shown; `PollInv` follows, since the
    polling is started again when that answer comes.
  - `FaithInv`: whatever the page knows or shows is an older picture of the job, its list a prefix of the job's list, and the whole list
    once the batch it tells of has ended. So a list that is left out because its length has not changed is the one shown.
    `WaitInv` (no batch is overtaken unless another client continues) is what makes the picture of an ended batch final.
  - `GoInv`: an ended batch with targets left is followed by a request for the next, or the automatic continuation was
    stopped; a cancel under way has stopped it, unless a start overlaps.

For any channels, types, kinds of format and numbers of requests under way:

* `Console_proofs!OwnIsSaved`: `Spec => []SavesItsOwn`, from `OwnInv`. The groups and the form of another channel may be
  in the dialog until the details of its own are there, and a form may come that was asked for by a dialog closed long ago; `FormComes`
  says that the one with the newest id, the only one that is shown, is of the type and the channel of the dialog. Late details are checked against
  nothing, and what they fill is not covered (`foreign`).
* `DialogTellsTrue`: `Spec => []DialogIsTrue`, from `TrueInv`: ids only grow, so that no request under way has an id that is given
  later, and each announced edit takes a new one (`ComingIsCurrent`); the timer is set for the newest of them or not at all. Nothing is said of what is shown
  after `outdated` or `typed`.
* What the live views do is a stutter of the dialog. Their own property is liveness.

The assumptions are `OutboxAssumption`, `ChannelAssumption`, `PushEngineAssumption`, `AlarmTrackerAssumption`, `NotifierAssumption`,
`AlarmPipelineAssumption`, `CollectorAssumption`, `DeviceScanAssumption`, `ScanPageAssumption` and `DialogAssumption`: callers and workers are finite disjoint
sets, sizes are positive, the reserved names are not used as values. Each invariant was model-checked on its run before it was proved.

Only model-checked: liveness (`EventuallySettled`, `StopReturns`, `FollowsTable`, `OpsReturn`, `CatchesUp`), which is out of the
prover's reach. Every invariant and action property of the passing runs is a theorem.

## 5. What the violations say

* *poison*: DrainLoop drops a row on its second failure in a row. The comment says that this happens only when the
  connection is healthy and the write was refused, but a failure may be a timeout or a lost connection
  that ReconnectLoop repaired in between. A batch the database never refused is then lost (and counted).
* *cap*: a cap check deletes at most 16 rows and is followed by an insert of up to 64, so a backlog that
  arrives in merged inserts grows past the cap without bound while the channel is offline.

## 6. Not modelled

* Message channels, trigger rules, the plugin host and runtime configuration (but for the switch of changeOnly) are planned (below).
* MQTT subscriptions (but for the view of recent messages): their queues and reload have the shapes of the outbox and
  the push engine. Device control is deduplication and audit around the Write that Collector has.
* The OPC UA server wraps a third-party library. Discovery announces over UDP and keeps a rate limit.
  The realtime store is a map behind one mutex.
* Codecs, parsers and the mapping DSL are pure conversions driven by user configuration.
* Services, controllers, migrations, metrics, logging and translations are CRUD or I/O; where a service changes
  what a modelled component reads (alarm rows, webhooks, configuration), its effect is a step of that component's model.
* Of the console: lists, plain forms, charts, the mapping editor, translations, the session and the router, the
  creation of devices from a scan, the token of a plugin upload. Most of the front end is markup and
  text, which has no behaviour to model.
* The developer tools.

Within the models: two instances of one channel over the same rows, the records that skip the change tracker, and the moment in handlePreview
between the validation of a form and the request (a form that is not valid is rejected in one step).

## 7. Plan

| order | module | composes | abstract specification | run and bounds | theorems |
|---|---|---|---|---|---|
| done | Outbox, TimeSeriesChannel | | Custody | section 3 | section 4 |
| done | PushEngine | | | section 3 | section 4 |
| done | AlarmPipeline | AlarmTracker, Notifier | | section 3 | section 4 |
| done | Collector (with workerPool, device gate) | | | section 3 | section 4 |
| done | ScanPage | DeviceScan | | section 3 | section 4 |
| done | Console | ChannelDialog, LiveViews | | section 3 | section 4 |
| 1 | MessageChannel | Outbox | Custody with a weaker Stop | 2 batches, 2 topics, stop at any step | custody |
| 2 | PluginProcess | | a session belongs to one epoch | 2 epochs, 1 upgrade, 2 sessions | no stale session is served |
| 3 | TriggerRule | | an edge fires or is suppressed by the cooldown | 1 rule, 2 edges, stop at any step | one job in flight |
| 4 | RuntimeCfg | | row = snapshot = component | 2 updates, 1 failing applier, 1 failing store | agreement |
