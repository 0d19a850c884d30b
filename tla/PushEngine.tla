------------------------------- MODULE PushEngine -------------------------------
(***************************************************************************)
(* The push engine (push/engine.go, push/change.go): it owns the running   *)
(* push channels, hot-reloads them when the rows of push_channel change,   *)
(* and hands every round of collected records to them, filtered to what    *)
(* has changed when "push only changes" is on.                             *)
(*                                                                         *)
(* A channel is the row's id; its configuration is a value of Sig (the     *)
(* ConfigSig), and each running instance is told apart by gen.  A          *)
(* collector goroutine polls one point; what it hands over is the value.   *)
(* main starts and stops the engine once; the watcher and the callers of   *)
(* Refresh (HTTP) rebuild the channels concurrently.                       *)
(*                                                                         *)
(* PushRecordsToTimeSeries and PushRecordsToChannel do not use the change  *)
(* tracker and change no state of the engine; they are not actions here.   *)
(***************************************************************************)
EXTENDS Integers, FiniteSets

CONSTANTS
    Chan,           \* ids of push_channel rows
    Sig,            \* configurations a row can have
    Collector,      \* collector goroutines, each with its point
    Value,          \* values (and qualities) a point can have
    Accepts,        \* <<sig, c>>: that configuration accepts c's group
    Api,            \* HTTP callers of Refresh
    Keepalive,      \* keepaliveIntervalSec > 0
    MaxEdits,       \* bound on changes of push_channel
    MaxCalls,       \* bound on calls of Refresh
    MaxToggles,     \* bound on switches of changeOnly
    MaxDbFaults     \* bound on failed queries

Off == "off"          \* the row is absent or disabled
None == "none"        \* no value recorded

Main == "main"        \* Start's refresh, and Stop
Watcher == "watcher"
Refresher == {Main, Watcher} \cup Api

ASSUME PushEngineAssumption ==
    /\ IsFiniteSet(Chan)
    /\ Accepts \subseteq Sig \X Collector
    /\ Off \notin Sig /\ None \notin Value
    /\ Main \notin Api /\ Watcher \notin Api
    /\ Keepalive \in BOOLEAN
    /\ {MaxEdits, MaxCalls, MaxToggles, MaxDbFaults} \subseteq Nat

NoRows == [c \in Chan |-> Off]
Table == [Chan -> Sig \cup {Off}]
Instance == [chan : Chan, sig : Sig, gen : Nat \ {0}]

VARIABLES
    table,        \* push_channel: the configuration of every enabled row
    edits, calls, toggles, dbFaults,    \* what the bounds count
    life,         \* main's progress: starting, up, stopping, down
    running,      \* Engine.running
    channels,     \* Engine.channels
    gen,          \* generation of the newest instance
    live,         \* instances started and not stopped
    rpc, built, builtAt, fresh, doomed, \* per refresh: step, rows read, when, newChannel, toStop
    watch, sum, cur,                    \* watchLoop: phase, lastChecksum, cur
    changeOnly,   \* the setting push.changeOnly
    applying,     \* its applier is yet to run
    tracker,      \* changeTracker.last
    cpc, rec, aim,    \* per collector: step, value to push, channels still to get it
    told,         \* history: last value each live instance was given, per collector
    overtaken,    \* history: points recorded by a push older than a published channel
    shownAt,      \* history: number of edits the published rows include
    seenAt,       \* history: number of edits the watcher's newest checksum includes
    behind,       \* history: a change was missed, and why the watcher cannot see it
    late          \* history: instances published after Stop had emptied the table

boundVars   == <<edits, calls, toggles, dbFaults>>
engineVars  == <<life, running, channels, gen, live>>
refreshVars == <<rpc, built, builtAt, fresh, doomed>>
watchVars   == <<watch, sum, cur>>
changeVars  == <<changeOnly, applying, tracker, overtaken>>
pushVars    == <<cpc, rec, aim, told>>
historyVars == <<shownAt, seenAt, behind, late>>
vars == <<table, boundVars, engineVars, refreshVars, watchVars, changeVars, pushVars,
          historyVars>>

\* Start has set running and is about to refresh.
Init ==
    /\ table \in Table
    /\ edits = 0 /\ calls = 0 /\ toggles = 0 /\ dbFaults = 0
    /\ life = "starting" /\ running = TRUE
    /\ channels = {} /\ gen = 0 /\ live = {}
    /\ rpc = [r \in Refresher |-> IF r = Main THEN "build" ELSE "idle"]
    /\ built = [r \in Refresher |-> NoRows] /\ builtAt = [r \in Refresher |-> 0]
    /\ fresh = [r \in Refresher |-> FALSE] /\ doomed = [r \in Refresher |-> {}]
    /\ watch = "off" /\ sum = {} /\ cur = {}
    /\ changeOnly \in BOOLEAN /\ applying = FALSE
    /\ tracker = [c \in Collector |-> None] /\ overtaken = {}
    /\ cpc = [c \in Collector |-> "idle"] /\ rec = [c \in Collector |-> None]
    /\ aim = [c \in Collector |-> {}] /\ told = {}
    /\ shownAt = -1 /\ seenAt = -1 /\ behind = FALSE /\ late = {}

-------------------------------------------------------------------------------
(***************************************************************************)
(* refresh: read the rows, swap the channels under the lock, then reset    *)
(* the change tracker and stop the replaced channels without it.           *)
(***************************************************************************)

\* Refresh of an HTTP caller: running is looked at once.
RefreshCall(r) ==
    /\ r \in Api
    /\ rpc[r] = "idle"
    /\ running
    /\ calls < MaxCalls /\ calls' = calls + 1
    /\ rpc' = [rpc EXCEPT ![r] = "build"]
    /\ UNCHANGED <<table, edits, toggles, dbFaults, engineVars, built, builtAt, fresh,
                   doomed, watchVars, changeVars, pushVars, historyVars>>

\* buildChannels, one query; if it fails the refresh is over.
RefreshBuild(r) ==
    /\ rpc[r] = "build"
    /\ \/ /\ built' = [built EXCEPT ![r] = table]
          /\ builtAt' = [builtAt EXCEPT ![r] = edits]
          /\ rpc' = [rpc EXCEPT ![r] = "publish"]
          /\ UNCHANGED <<dbFaults, behind>>
       \/ /\ dbFaults < MaxDbFaults /\ dbFaults' = dbFaults + 1
          /\ rpc' = [rpc EXCEPT ![r] = "return"]
          /\ behind' = (behind \/ r = Watcher)
          /\ UNCHANGED <<built, builtAt>>
    /\ UNCHANGED <<table, edits, calls, toggles, engineVars, fresh, doomed, watchVars,
                   changeVars, pushVars, shownAt, seenAt, late>>

\* Published instances whose configuration is the one just read.
Kept(r) == {i \in channels : built[r][i.chan] = i.sig}

\* Instances to start: new rows, and rows whose configuration changed.
New(r) ==
    {[chan |-> c, sig |-> built[r][c], gen |-> gen + 1] :
        c \in {d \in Chan : built[r][d] # Off /\ \A i \in Kept(r) : i.chan # d}}

\* Rows older than those shown, or than the watcher's checksum, may stay unnoticed.
Shown(r) ==
    /\ shownAt' = builtAt[r]
    /\ behind' = \/ builtAt[r] < seenAt \/ builtAt[r] < shownAt
                 \/ behind /\ builtAt[r] < edits
    /\ late' = IF running THEN late ELSE late \cup New(r)
    /\ UNCHANGED seenAt

\* Mistake: only channels that get a new instance are stopped, not removed ones.
WrongRefreshPublish(r) ==
    /\ rpc[r] = "publish"
    /\ channels' = Kept(r) \cup New(r)
    /\ live' = live \cup New(r)
    /\ gen' = IF New(r) = {} THEN gen ELSE gen + 1
    /\ fresh' = [fresh EXCEPT ![r] = New(r) # {}]
    /\ doomed' = [doomed EXCEPT ![r] = {i \in channels \ Kept(r) : built[r][i.chan] # Off}]
    /\ built' = [built EXCEPT ![r] = NoRows] /\ builtAt' = [builtAt EXCEPT ![r] = 0]
    /\ rpc' = [rpc EXCEPT ![r] = "reset"]
    /\ Shown(r)
    /\ UNCHANGED <<table, boundVars, life, running, watchVars, changeVars, pushVars>>

\* The critical section.  Rows read before those of the published channels
\* put an older configuration back.
RefreshPublish(r) ==
    /\ rpc[r] = "publish"
    /\ channels' = Kept(r) \cup New(r)
    /\ live' = live \cup New(r)
    /\ gen' = IF New(r) = {} THEN gen ELSE gen + 1
    /\ fresh' = [fresh EXCEPT ![r] = New(r) # {}]
    /\ doomed' = [doomed EXCEPT ![r] = channels \ Kept(r)]
    /\ built' = [built EXCEPT ![r] = NoRows] /\ builtAt' = [builtAt EXCEPT ![r] = 0]
    /\ rpc' = [rpc EXCEPT ![r] = "reset"]
    /\ Shown(r)
    /\ UNCHANGED <<table, boundVars, life, running, watchVars, changeVars, pushVars>>

\* changeTracker.reset: the next round is delivered in full.
Reset == tracker' = [c \in Collector |-> None] /\ overtaken' = {}

\* Mistake: the tracker survives a new channel.
WrongRefreshReset(r) ==
    /\ rpc[r] = "reset"
    /\ rpc' = [rpc EXCEPT ![r] = "stop"]
    /\ fresh' = [fresh EXCEPT ![r] = FALSE]
    /\ UNCHANGED <<table, boundVars, engineVars, built, builtAt, doomed, watchVars,
                   changeVars, pushVars, historyVars>>

RefreshReset(r) ==
    /\ rpc[r] = "reset"
    /\ IF fresh[r] /\ changeOnly THEN Reset ELSE UNCHANGED <<tracker, overtaken>>
    /\ rpc' = [rpc EXCEPT ![r] = "stop"]
    /\ fresh' = [fresh EXCEPT ![r] = FALSE]
    /\ UNCHANGED <<table, boundVars, engineVars, built, builtAt, doomed, watchVars,
                   changeOnly, applying, pushVars, historyVars>>

\* One old.Stop(), which returns when that channel has drained.
StopOne(r) ==
    /\ rpc[r] = "stop"
    /\ \E i \in doomed[r] :
          /\ doomed' = [doomed EXCEPT ![r] = doomed[r] \ {i}]
          /\ live' = live \ {i}
          /\ told' = {t \in told : t.to # i}
    /\ UNCHANGED <<table, boundVars, life, running, channels, gen, rpc, built, builtAt,
                   fresh, watchVars, changeVars, cpc, rec, aim, historyVars>>

StoppedAll(r) ==
    /\ rpc[r] = "stop" /\ doomed[r] = {}
    /\ rpc' = [rpc EXCEPT ![r] = "return"]
    /\ UNCHANGED <<table, boundVars, engineVars, built, builtAt, fresh, doomed, watchVars,
                   changeVars, pushVars, historyVars>>

\* refresh returns: to Start, which starts the watcher, to watchLoop, which
\* takes the new checksum, or to the HTTP caller.  Stop returns to main.
RefreshReturn(r) ==
    /\ rpc[r] = "return"
    /\ rpc' = [rpc EXCEPT ![r] = "idle"]
    /\ life' = IF r # Main THEN life ELSE IF life = "starting" THEN "up" ELSE "down"
    /\ watch' = IF r = Main /\ life = "starting" THEN "first" ELSE watch
    /\ IF r = Watcher THEN sum' = cur /\ cur' = {} ELSE UNCHANGED <<sum, cur>>
    /\ UNCHANGED <<table, boundVars, running, channels, gen, live, built, builtAt, fresh,
                   doomed, changeVars, pushVars, historyVars>>

RefreshStep(r) ==
    \/ RefreshBuild(r) \/ RefreshPublish(r) \/ RefreshReset(r)
    \/ StopOne(r) \/ StoppedAll(r) \/ RefreshReturn(r)

\* Mistake: Stop leaves the channels to the garbage collector.
WrongStop ==
    /\ life = "up" /\ rpc[Main] = "idle"
    /\ life' = "stopping" /\ running' = FALSE
    /\ channels' = {}
    /\ rpc' = [rpc EXCEPT ![Main] = "stop"]
    /\ UNCHANGED <<table, boundVars, gen, live, built, builtAt, fresh, doomed, watchVars,
                   changeVars, pushVars, historyVars>>

\* Stop: empty the table under the lock and stop the channels after it.
Stop ==
    /\ life = "up" /\ rpc[Main] = "idle"
    /\ life' = "stopping" /\ running' = FALSE
    /\ channels' = {}
    /\ doomed' = [doomed EXCEPT ![Main] = channels]
    /\ rpc' = [rpc EXCEPT ![Main] = "stop"]
    /\ UNCHANGED <<table, boundVars, gen, live, built, builtAt, fresh, watchVars,
                   changeVars, pushVars, historyVars>>

-------------------------------------------------------------------------------
(***************************************************************************)
(* watchLoop: it compares checksums of the enabled rows, and refreshes     *)
(* when they differ.  Stop cancels its context; select may still take a    *)
(* tick that is ready at the same time.                                    *)
(***************************************************************************)

watcherFrame == <<table, edits, calls, toggles, engineVars, built, builtAt, fresh, doomed,
                  changeVars, pushVars, shownAt, late>>

\* A checksum: the rows it was taken from, or {} (0) if the query failed.
LoadChecksum(result) ==
    \/ /\ result = {table} /\ seenAt' = edits
       /\ UNCHANGED dbFaults
    \/ /\ result = {} /\ UNCHANGED seenAt
       /\ dbFaults < MaxDbFaults /\ dbFaults' = dbFaults + 1

\* The first checksum is taken after Start's refresh has read the rows, or has failed to: what
\* that refresh does not show is then part of the checksum, and no tick will bring it.
WatcherFirst ==
    /\ watch = "first"
    /\ \E now \in {{table}, {}} : LoadChecksum(now) /\ sum' = now
    /\ watch' = "loop"
    /\ behind' = (behind \/ shownAt < seenAt')
    /\ UNCHANGED <<watcherFrame, rpc, cur>>

Disabled(t) == {c \in Chan : t[c] = Off}

\* A checksum, and a refresh unless it is the same as the last one.
Checked(now, same) ==
    /\ LoadChecksum(now)
    /\ IF same
         THEN UNCHANGED <<rpc, cur>>
         ELSE cur' = now /\ rpc' = [rpc EXCEPT ![Watcher] = "build"]

\* Mistake: the checksum does not cover the configuration of a row.
WrongWatcherTick ==
    /\ watch = "loop" /\ rpc[Watcher] = "idle"
    /\ \E now \in {{table}, {}} :
          Checked(now, {Disabled(t) : t \in now} = {Disabled(t) : t \in sum})
    /\ UNCHANGED <<watcherFrame, watch, sum, behind>>

WatcherTick ==
    /\ watch = "loop" /\ rpc[Watcher] = "idle"
    /\ \E now \in {{table}, {}} : Checked(now, now = sum)
    /\ UNCHANGED <<watcherFrame, watch, sum, behind>>

WatcherQuit ==
    /\ watch = "loop" /\ rpc[Watcher] = "idle"
    /\ ~running
    /\ watch' = "exited"
    /\ UNCHANGED <<watcherFrame, dbFaults, rpc, sum, cur, seenAt, behind>>

-------------------------------------------------------------------------------
(***************************************************************************)
(* PushRecords, for the point of collector c.                              *)
(***************************************************************************)

pushFrame == <<table, boundVars, engineVars, refreshVars, watchVars, historyVars>>

\* Who takes c's group.
Targets(c) == {i \in channels : <<i.sig, c>> \in Accepts}

\* Mistake: a value that no channel takes is recorded as delivered all the same.
WrongPushStart(c) ==
    /\ cpc[c] = "idle"
    /\ \E v \in Value : rec' = [rec EXCEPT ![c] = v]
    /\ aim' = [aim EXCEPT ![c] = Targets(c)]
    /\ cpc' = [cpc EXCEPT ![c] = "filter"]
    /\ UNCHANGED <<pushFrame, changeVars, told>>

\* The channels are looked up before the filter; without one the value is not recorded.
PushStart(c) ==
    /\ cpc[c] = "idle"
    /\ Targets(c) # {}
    /\ \E v \in Value : rec' = [rec EXCEPT ![c] = v]
    /\ aim' = [aim EXCEPT ![c] = Targets(c)]
    /\ cpc' = [cpc EXCEPT ![c] = "filter"]
    /\ UNCHANGED <<pushFrame, changeVars, told>>

\* An unchanged value goes no further, unless its keepalive is due.
PushSkip(c) ==
    /\ cpc[c] = "filter"
    /\ changeOnly /\ tracker[c] = rec[c]
    /\ cpc' = [cpc EXCEPT ![c] = "idle"]
    /\ aim' = [aim EXCEPT ![c] = {}] /\ rec' = [rec EXCEPT ![c] = None]
    /\ UNCHANGED <<pushFrame, changeVars, told>>

PushFilter(c) ==
    /\ cpc[c] = "filter"
    /\ changeOnly /\ tracker[c] = rec[c] => Keepalive
    /\ IF changeOnly
         THEN /\ tracker' = [tracker EXCEPT ![c] = rec[c]]
              /\ overtaken' = IF Targets(c) \subseteq aim[c] THEN overtaken \ {c}
                                                          ELSE overtaken \cup {c}
         ELSE UNCHANGED <<tracker, overtaken>>
    /\ cpc' = [cpc EXCEPT ![c] = "enqueue"]
    /\ UNCHANGED <<pushFrame, changeOnly, applying, rec, aim, told>>

\* Enqueue on one target; a stopped instance has no one to tell.
PushEnqueue(c) ==
    /\ cpc[c] = "enqueue"
    /\ \E i \in aim[c] :
          /\ told' = IF i \in live
                       THEN {t \in told : t.to # i \/ t.point # c}
                              \cup {[to |-> i, point |-> c, value |-> rec[c]]}
                       ELSE told
          /\ aim' = [aim EXCEPT ![c] = aim[c] \ {i}]
          /\ IF aim[c] = {i}
               THEN cpc' = [cpc EXCEPT ![c] = "idle"] /\ rec' = [rec EXCEPT ![c] = None]
               ELSE UNCHANGED <<cpc, rec>>
    /\ UNCHANGED <<pushFrame, changeVars>>

Push(c) == PushStart(c) \/ PushSkip(c) \/ PushFilter(c) \/ PushEnqueue(c)

-------------------------------------------------------------------------------
(***************************************************************************)
(* The world: rows edited by the configuration pages, and the run-time     *)
(* switch of changeOnly, whose applier runs after the value is published.  *)
(***************************************************************************)

\* Putting back the rows the watcher has recorded, or is about to, goes unnoticed.
EditTable ==
    /\ edits < MaxEdits /\ edits' = edits + 1
    /\ table' \in {[table EXCEPT ![c] = s] : c \in Chan, s \in Sig \cup {Off}} \ {table}
    /\ behind' = (behind \/ {table'} \in {sum, cur})
    /\ UNCHANGED <<calls, toggles, dbFaults, engineVars, refreshVars, watchVars, changeVars,
                   pushVars, shownAt, seenAt, late>>

SetChangeOnly ==
    /\ ~applying
    /\ toggles < MaxToggles /\ toggles' = toggles + 1
    /\ changeOnly' = ~changeOnly
    /\ applying' = changeOnly'
    /\ UNCHANGED <<table, edits, calls, dbFaults, engineVars, refreshVars, watchVars,
                   tracker, overtaken, pushVars, historyVars>>

\* Mistake: the applier does not reset the tracker.
WrongApplyChangeOnly ==
    /\ applying /\ applying' = FALSE
    /\ UNCHANGED <<pushFrame, changeOnly, tracker, overtaken, pushVars>>

\* The applier: from off to on, the tracker is reset.
ApplyChangeOnly ==
    /\ applying /\ applying' = FALSE
    /\ Reset
    /\ UNCHANGED <<pushFrame, changeOnly, pushVars>>

Next ==
    \/ \E r \in Refresher : RefreshCall(r) \/ RefreshStep(r)
    \/ Stop
    \/ WatcherFirst \/ WatcherTick \/ WatcherQuit
    \/ \E c \in Collector : Push(c)
    \/ EditTable \/ SetChangeOnly \/ ApplyChangeOnly

Spec == Init /\ [][Next]_vars

-------------------------------------------------------------------------------
(***************************************************************************)
(* Safety.                                                                 *)
(***************************************************************************)

\* Every variable stays in its range, and a push under way has a value and
\* a channel that is to get it: nothing is recorded for a point nobody takes.
TypeOK ==
    /\ table \in Table /\ {edits, calls, toggles, dbFaults} \subseteq Nat
    /\ life \in {"starting", "up", "stopping", "down"}
    /\ {running, changeOnly, applying, behind} \subseteq BOOLEAN
    /\ gen \in Nat
    /\ channels \in SUBSET Instance /\ live \in SUBSET Instance /\ late \in SUBSET Instance
    /\ rpc \in [Refresher -> {"idle", "build", "publish", "reset", "stop", "return"}]
    /\ built \in [Refresher -> Table] /\ builtAt \in [Refresher -> Nat]
    /\ fresh \in [Refresher -> BOOLEAN] /\ doomed \in [Refresher -> SUBSET Instance]
    /\ watch \in {"off", "first", "loop", "exited"}
    /\ sum \in SUBSET Table /\ cur \in SUBSET Table
    /\ tracker \in [Collector -> Value \cup {None}] /\ overtaken \in SUBSET Collector
    /\ cpc \in [Collector -> {"idle", "filter", "enqueue"}]
    /\ rec \in [Collector -> Value \cup {None}] /\ aim \in [Collector -> SUBSET Instance]
    /\ \A c \in Collector : cpc[c] # "idle" => rec[c] # None /\ aim[c] # {}
    /\ told \in SUBSET [to : Instance, point : Collector, value : Value]
    /\ {shownAt, seenAt} \subseteq Nat \cup {-1}

\* Instances some refresh, or Stop, still has to stop.
Doomed == UNION {doomed[r] : r \in Refresher}

(***************************************************************************)
(* No instance is lost: whatever refreshes overlap with each other and     *)
(* with Stop, one that runs is published or on its way to be stopped, one  *)
(* on its way to be stopped is not published, and a channel has at most    *)
(* one published instance.                                                 *)
(***************************************************************************)
Accounted ==
    /\ live = channels \cup Doomed
    /\ channels \cap Doomed = {}
    /\ \A i, j \in channels : i.chan = j.chan => i = j

(***************************************************************************)
(* When Stop has returned, the only instances that run are those another   *)
(* refresh is about to stop, and those a refresh published after Stop had  *)
(* emptied the table (refresh does not look at running again).             *)
(***************************************************************************)
StopStopsAll ==
    life = "down" => channels \subseteq late /\ live \subseteq late \cup Doomed

\* Someone has yet to reset the tracker.
ResetPending == applying \/ \E r \in Refresher : rpc[r] = "reset" /\ fresh[r]

(***************************************************************************)
(* What the tracker holds as delivered, every published channel has been   *)
(* given or is being given, so that a stable point is not withheld from a  *)
(* new channel (engine.go, refresh; change.go, reset).  The exception is a *)
(* push that looked the channels up before a refresh published a new one   *)
(* and recorded its value after that refresh had reset the tracker.        *)
(***************************************************************************)
NoValueWithheld ==
    \A c \in Collector :
       changeOnly /\ ~ResetPending /\ tracker[c] # None /\ c \notin overtaken =>
          \A i \in Targets(c) :
             \/ cpc[c] = "enqueue" /\ i \in aim[c] /\ rec[c] = tracker[c]
             \/ [to |-> i, point |-> c, value |-> tracker[c]] \in told

-------------------------------------------------------------------------------
(***************************************************************************)
(* Liveness.  A refresh that has begun goes on, and the ticker keeps       *)
(* ticking; nobody need call Refresh, Stop or PushRecords.                 *)
(***************************************************************************)
Fairness ==
    /\ \A r \in Refresher : WF_vars(RefreshStep(r))
    /\ WF_vars(WatcherFirst) /\ WF_vars(WatcherTick)

FairSpec == Spec /\ Fairness

\* The published channels are the enabled rows, with their configuration.
Matches == {<<i.chan, i.sig>> : i \in channels} = {<<c, table[c]>> : c \in Chan \ Disabled(table)}

(***************************************************************************)
(* Hot reload: once the rows stop changing, the channels follow them, no   *)
(* matter how refreshes overlap and queries fail, unless the change was    *)
(* missed: made between Start's refresh and the watcher's first checksum,  *)
(* there at Start but not read because the query of Start's own refresh    *)
(* failed (the first checksum then covers all rows, and none was ever      *)
(* started), met by a failed query of the watcher's own refresh (watchLoop *)
(* takes the new checksum all the same), overwritten by a refresh that had *)
(* read older rows, or undone before the watcher saw it.                   *)
(***************************************************************************)
FollowsTable == []<>(Matches \/ behind \/ life \in {"stopping", "down"})

===============================================================================
