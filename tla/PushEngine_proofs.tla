--------------------------- MODULE PushEngine_proofs ---------------------------
(***************************************************************************)
(* Proofs about PushEngine, for any number of channels, configurations,    *)
(* collectors and HTTP callers: its type invariant, that no running        *)
(* instance is lost, that Stop stops everything but what is published      *)
(* after it, and that no published channel is denied a stable value.       *)
(***************************************************************************)
EXTENDS PushEngine, TLAPS

USE DEF boundVars, engineVars, refreshVars, watchVars, changeVars, pushVars, historyVars,
        vars, watcherFrame, pushFrame

LEMMA Constant ==
    /\ Main \in Refresher /\ Watcher \in Refresher /\ Main # Watcher
    /\ Main \notin Api /\ Watcher \notin Api
    /\ NoRows \in Table /\ None \notin Value
BY PushEngineAssumption DEF Refresher, Main, Watcher, NoRows, Table

LEMMA TypeInit == Init => TypeOK
<1> SUFFICES ASSUME Init PROVE TypeOK
  OBVIOUS
<1>1. table \in Table /\ {edits, calls, toggles, dbFaults} \subseteq Nat /\ gen \in Nat
  BY DEF Init
<1>2. {running, changeOnly, applying, behind} \subseteq BOOLEAN
  BY DEF Init
<1>3. /\ built \in [Refresher -> Table] /\ builtAt \in [Refresher -> Nat]
      /\ fresh \in [Refresher -> BOOLEAN] /\ doomed \in [Refresher -> SUBSET Instance]
      /\ rpc \in [Refresher -> {"idle", "build", "publish", "reset", "stop", "return"}]
  BY Constant DEF Init
<1>4. /\ tracker \in [Collector -> Value \cup {None}]
      /\ cpc \in [Collector -> {"idle", "filter", "enqueue"}]
      /\ rec \in [Collector -> Value \cup {None}] /\ aim \in [Collector -> SUBSET Instance]
      /\ \A c \in Collector : cpc[c] # "idle" => rec[c] # None /\ aim[c] # {}
  BY DEF Init
<1>5. {shownAt, seenAt} \subseteq Nat \cup {-1}
  BY DEF Init
<1> QED
  BY <1>1, <1>2, <1>3, <1>4, <1>5 DEF Init, TypeOK

\* The instances a refresh starts are of the generation after the newest.
LEMMA NewInstances ==
    ASSUME TypeOK, NEW r \in Refresher
    PROVE  /\ New(r) \in SUBSET Instance
           /\ \A i \in New(r) : i.gen = gen + 1
           /\ Kept(r) \in SUBSET channels
<1>1. \A c \in Chan : built[r][c] \in Sig \cup {Off}
  BY DEF TypeOK, Table
<1>2. gen + 1 \in Nat \ {0}
  BY DEF TypeOK
<1>3. \A i \in New(r) : i \in Instance /\ i.gen = gen + 1
  <2> TAKE i \in New(r)
  <2>1. PICK c \in Chan : /\ built[r][c] # Off
                          /\ i = [chan |-> c, sig |-> built[r][c], gen |-> gen + 1]
    BY DEF New
  <2> QED
    BY <1>1, <1>2, <2>1 DEF Instance
<1> QED
  BY <1>3 DEF Kept

LEMMA TypeRefresh ==
    ASSUME TypeOK, NEW r \in Refresher, RefreshCall(r) \/ RefreshStep(r)
    PROVE  TypeOK'
<1>1. CASE RefreshCall(r)
  BY <1>1 DEF RefreshCall, TypeOK
<1>2. CASE RefreshBuild(r)
  <2>1. behind' \in BOOLEAN
    BY <1>2 DEF RefreshBuild, TypeOK
  <2>2. /\ built' \in [Refresher -> Table] /\ builtAt' \in [Refresher -> Nat]
        /\ rpc' \in [Refresher -> {"idle", "build", "publish", "reset", "stop", "return"}]
        /\ dbFaults' \in Nat
    BY <1>2 DEF RefreshBuild, TypeOK
  <2> QED
    BY <1>2, <2>1, <2>2 DEF RefreshBuild, TypeOK
<1>3. CASE RefreshPublish(r)
  <2>1. /\ channels' \in SUBSET Instance /\ live' \in SUBSET Instance
        /\ late' \in SUBSET Instance /\ gen' \in Nat
    BY <1>3, NewInstances DEF RefreshPublish, Shown, TypeOK
  <2>2. /\ fresh' \in [Refresher -> BOOLEAN] /\ doomed' \in [Refresher -> SUBSET Instance]
        /\ rpc' \in [Refresher -> {"idle", "build", "publish", "reset", "stop", "return"}]
        /\ built' \in [Refresher -> Table] /\ builtAt' \in [Refresher -> Nat]
    BY <1>3, Constant DEF RefreshPublish, TypeOK
  <2>3. {running, changeOnly, applying, behind}' \subseteq BOOLEAN
        /\ {shownAt, seenAt}' \subseteq Nat \cup {-1}
    BY <1>3 DEF RefreshPublish, Shown, TypeOK
  <2> QED
    BY <1>3, <2>1, <2>2, <2>3 DEF RefreshPublish, TypeOK
<1>4. CASE RefreshReset(r)
  BY <1>4 DEF RefreshReset, Reset, TypeOK
<1>5. CASE StopOne(r)
  BY <1>5 DEF StopOne, TypeOK
<1>6. CASE StoppedAll(r)
  BY <1>6 DEF StoppedAll, TypeOK
<1>7. CASE RefreshReturn(r)
  BY <1>7 DEF RefreshReturn, TypeOK
<1> QED
  BY <1>1, <1>2, <1>3, <1>4, <1>5, <1>6, <1>7 DEF RefreshStep

LEMMA TypeWatcher ==
    ASSUME TypeOK, WatcherFirst \/ WatcherTick \/ WatcherQuit
    PROVE  TypeOK'
<1>1. CASE WatcherFirst
  <2>1. PICK now \in {{table}, {}} : LoadChecksum(now) /\ sum' = now
    BY <1>1 DEF WatcherFirst
  <2>2. sum' \in SUBSET Table /\ dbFaults' \in Nat /\ seenAt' \in Nat \cup {-1}
    BY <2>1 DEF LoadChecksum, TypeOK
  <2> QED
    BY <1>1, <2>2 DEF WatcherFirst, TypeOK
<1>2. CASE WatcherTick
  <2>1. PICK now \in {{table}, {}} : Checked(now, now = sum)
    BY <1>2 DEF WatcherTick
  <2>2. dbFaults' \in Nat /\ seenAt' \in Nat \cup {-1}
    BY <2>1 DEF Checked, LoadChecksum, TypeOK
  <2>3. /\ cur' \in SUBSET Table
        /\ rpc' \in [Refresher -> {"idle", "build", "publish", "reset", "stop", "return"}]
    BY <2>1 DEF Checked, TypeOK
  <2> QED
    BY <1>2, <2>2, <2>3 DEF WatcherTick, TypeOK
<1>3. CASE WatcherQuit
  BY <1>3 DEF WatcherQuit, TypeOK
<1> QED
  BY <1>1, <1>2, <1>3

LEMMA TypePush ==
    ASSUME TypeOK, NEW c \in Collector, Push(c)
    PROVE  TypeOK'
<1>1. CASE PushStart(c)
  <2>1. PICK v \in Value : rec' = [rec EXCEPT ![c] = v]
    BY <1>1 DEF PushStart
  <2>2. Targets(c) \in SUBSET Instance /\ Targets(c) # {} /\ v # None
    BY <1>1, Constant DEF PushStart, Targets, TypeOK
  <2> QED
    BY <1>1, <2>1, <2>2 DEF PushStart, TypeOK
<1>2. CASE PushSkip(c)
  BY <1>2 DEF PushSkip, TypeOK
<1>3. CASE PushFilter(c)
  BY <1>3 DEF PushFilter, TypeOK
<1>4. CASE PushEnqueue(c)
  <2>1. PICK i \in aim[c] :
           /\ told' = IF i \in live
                        THEN {t \in told : t.to # i \/ t.point # c}
                               \cup {[to |-> i, point |-> c, value |-> rec[c]]}
                        ELSE told
           /\ aim' = [aim EXCEPT ![c] = aim[c] \ {i}]
           /\ IF aim[c] = {i}
                THEN cpc' = [cpc EXCEPT ![c] = "idle"] /\ rec' = [rec EXCEPT ![c] = None]
                ELSE UNCHANGED <<cpc, rec>>
    BY <1>4 DEF PushEnqueue
  <2>2. i \in Instance /\ rec[c] \in Value
    BY <1>4 DEF PushEnqueue, TypeOK
  <2>3. told' \in SUBSET [to : Instance, point : Collector, value : Value]
    BY <2>1, <2>2 DEF TypeOK
  <2>4. /\ aim' \in [Collector -> SUBSET Instance]
        /\ cpc' \in [Collector -> {"idle", "filter", "enqueue"}]
        /\ rec' \in [Collector -> Value \cup {None}]
    BY <2>1 DEF TypeOK
  <2>5. \A d \in Collector : cpc'[d] # "idle" => rec'[d] # None /\ aim'[d] # {}
    BY <2>1, <2>2 DEF TypeOK
  <2> QED
    BY <1>4, <2>3, <2>4, <2>5 DEF PushEnqueue, TypeOK
<1> QED
  BY <1>1, <1>2, <1>3, <1>4 DEF Push

LEMMA TypeNext == TypeOK /\ [Next]_vars => TypeOK'
<1> SUFFICES ASSUME TypeOK, [Next]_vars PROVE TypeOK'
  OBVIOUS
<1>1. CASE \E r \in Refresher : RefreshCall(r) \/ RefreshStep(r)
  BY <1>1, TypeRefresh
<1>2. CASE Stop
  BY <1>2, Constant DEF Stop, TypeOK
<1>3. CASE WatcherFirst \/ WatcherTick \/ WatcherQuit
  BY <1>3, TypeWatcher
<1>4. CASE \E c \in Collector : Push(c)
  BY <1>4, TypePush
<1>5. CASE EditTable
  BY <1>5 DEF EditTable, TypeOK, Table
<1>6. CASE SetChangeOnly
  BY <1>6 DEF SetChangeOnly, TypeOK
<1>7. CASE ApplyChangeOnly
  BY <1>7 DEF ApplyChangeOnly, Reset, TypeOK
<1>8. CASE UNCHANGED vars
  BY <1>8 DEF TypeOK
<1> QED
  BY <1>1, <1>2, <1>3, <1>4, <1>5, <1>6, <1>7, <1>8 DEF Next

(***************************************************************************)
(* Every variable keeps its type, and a value on its way to the channels   *)
(* has a channel to go to.                                                 *)
(***************************************************************************)
THEOREM TypeCorrect == Spec => []TypeOK
BY TypeInit, TypeNext, PTL DEF Spec

-------------------------------------------------------------------------------
(***************************************************************************)
(* Who runs.  A refresh holds instances to stop only between its critical  *)
(* section and its return, no two hold the same one, and a new instance is *)
(* of a newer generation than any that runs.                               *)
(***************************************************************************)
HoldersInv ==
    /\ \A r \in Refresher : rpc[r] \notin {"reset", "stop"} => doomed[r] = {}
    /\ \A r, q \in Refresher : r # q => doomed[r] \cap doomed[q] = {}
    /\ \A i \in live : i.gen <= gen

AccountInv == TypeOK /\ Accounted /\ HoldersInv

LEMMA AccountInit == Init => AccountInv
<1> SUFFICES ASSUME Init PROVE AccountInv
  OBVIOUS
<1>1. TypeOK
  BY TypeInit
<1>2. Accounted
  BY DEF Init, Accounted, Doomed
<1>3. HoldersInv
  BY DEF Init, HoldersInv
<1> QED
  BY <1>1, <1>2, <1>3 DEF AccountInv

\* Giving refresh r the set D to stop, in place of the empty one.
LEMMA DoomedGrows ==
    ASSUME TypeOK, NEW r \in Refresher, NEW D, doomed[r] = {},
           doomed' = [doomed EXCEPT ![r] = D]
    PROVE  /\ Doomed' = Doomed \cup D
           /\ \A q \in Refresher : doomed'[q] = IF q = r THEN D ELSE doomed[q]
<1>1. \A q \in Refresher : doomed'[q] = IF q = r THEN D ELSE doomed[q]
  BY DEF TypeOK
<1> QED
  BY <1>1 DEF Doomed

LEMMA AccountPublish ==
    ASSUME AccountInv, NEW r \in Refresher, RefreshPublish(r)
    PROVE  Accounted' /\ HoldersInv'
<1> DEFINE D == channels \ Kept(r)
<1>1. /\ channels' = Kept(r) \cup New(r) /\ live' = live \cup New(r)
      /\ doomed' = [doomed EXCEPT ![r] = D] /\ rpc' = [rpc EXCEPT ![r] = "reset"]
      /\ gen' = (IF New(r) = {} THEN gen ELSE gen + 1)
      /\ rpc[r] = "publish"
  BY DEF RefreshPublish
<1>2. TypeOK /\ Accounted /\ HoldersInv /\ doomed[r] = {}
  BY <1>1 DEF AccountInv, HoldersInv
<1>3. /\ Doomed' = Doomed \cup D
      /\ \A q \in Refresher : doomed'[q] = IF q = r THEN D ELSE doomed[q]
  <2> HIDE DEF D
  <2> QED
    BY <1>1, <1>2, DoomedGrows
<1>4. Kept(r) \subseteq channels /\ \A i \in New(r) : i.gen = gen + 1
  BY <1>2, NewInstances
<1>5. New(r) \cap live = {}
  <2> SUFFICES ASSUME NEW i \in New(r), i \in live PROVE FALSE
    OBVIOUS
  <2>1. i.gen = gen + 1 /\ i.gen <= gen /\ gen \in Nat
    BY <1>2, <1>4 DEF HoldersInv, TypeOK
  <2> QED
    BY <2>1
<1>6. live' = channels' \cup Doomed'
  BY <1>1, <1>2, <1>3, <1>4 DEF Accounted
<1>7. channels' \cap Doomed' = {}
  BY <1>1, <1>2, <1>3, <1>4, <1>5 DEF Accounted
<1>8. \A i, j \in channels' : i.chan = j.chan => i = j
  <2>1. \A i, j \in Kept(r) : i.chan = j.chan => i = j
    BY <1>2, <1>4 DEF Accounted
  <2>2. \A i \in New(r), j \in Kept(r) : i.chan # j.chan
    BY DEF New
  <2>3. \A i, j \in New(r) : i.chan = j.chan => i = j
    BY DEF New
  <2> QED
    BY <1>1, <2>1, <2>2, <2>3
<1>9. \A q \in Refresher : rpc'[q] \notin {"reset", "stop"} => doomed'[q] = {}
  BY <1>1, <1>2, <1>3 DEF HoldersInv, TypeOK
<1>10. \A p, q \in Refresher : p # q => doomed'[p] \cap doomed'[q] = {}
  BY <1>2, <1>3 DEF Accounted, HoldersInv, Doomed
<1>11. \A i \in live' : i.gen <= gen'
  <2> SUFFICES ASSUME NEW i \in live' PROVE i.gen <= gen'
    OBVIOUS
  <2>1. CASE i \in New(r)
    BY <1>1, <1>2, <1>4, <2>1 DEF TypeOK
  <2>2. CASE i \in live
    <3>1. i.gen <= gen /\ i.gen \in Nat /\ gen \in Nat
      BY <1>2, <2>2 DEF HoldersInv, TypeOK, Instance
    <3> QED
      BY <1>1, <3>1
  <2> QED
    BY <1>1, <2>1, <2>2
<1> QED
  BY <1>6, <1>7, <1>8, <1>9, <1>10, <1>11 DEF Accounted, HoldersInv

LEMMA AccountStopOne ==
    ASSUME AccountInv, NEW r \in Refresher, StopOne(r)
    PROVE  Accounted' /\ HoldersInv'
<1>1. PICK i \in doomed[r] : /\ doomed' = [doomed EXCEPT ![r] = doomed[r] \ {i}]
                             /\ live' = live \ {i}
  BY DEF StopOne
<1>2. UNCHANGED <<channels, gen, rpc>> /\ rpc[r] = "stop"
  BY DEF StopOne
<1>3. TypeOK /\ Accounted /\ HoldersInv
  BY DEF AccountInv
<1>4. \A q \in Refresher : doomed'[q] = IF q = r THEN doomed[r] \ {i} ELSE doomed[q]
  BY <1>1, <1>3 DEF TypeOK
<1>5. \A q \in Refresher : q # r => i \notin doomed[q]
  BY <1>3 DEF HoldersInv
<1>6. Doomed' = Doomed \ {i} /\ i \in Doomed
  BY <1>4, <1>5 DEF Doomed
<1>7. Accounted'
  BY <1>1, <1>2, <1>3, <1>6 DEF Accounted
<1>8. HoldersInv'
  BY <1>1, <1>2, <1>3, <1>4 DEF HoldersInv
<1> QED
  BY <1>7, <1>8

\* The other steps of a refresh move neither instances nor stop lists.
LEMMA AccountRefresh ==
    ASSUME AccountInv, NEW r \in Refresher, RefreshCall(r) \/ RefreshStep(r)
    PROVE  Accounted' /\ HoldersInv'
<1>1. TypeOK /\ Accounted /\ HoldersInv
  BY DEF AccountInv
<1>2. CASE RefreshPublish(r)
  BY <1>2, AccountPublish
<1>3. CASE StopOne(r)
  BY <1>3, AccountStopOne
<1>4. CASE \/ RefreshCall(r) \/ RefreshBuild(r) \/ RefreshReset(r)
           \/ StoppedAll(r) \/ RefreshReturn(r)
  <2>1. UNCHANGED <<channels, live, gen, doomed>>
    BY <1>4 DEF RefreshCall, RefreshBuild, RefreshReset, StoppedAll, RefreshReturn
  <2>2. rpc'[r] \notin {"reset", "stop"} => doomed[r] = {}
    BY <1>1, <1>4 DEF RefreshCall, RefreshBuild, RefreshReset, StoppedAll, RefreshReturn,
                      HoldersInv, TypeOK
  <2>3. \A q \in Refresher : q # r => rpc'[q] = rpc[q]
    BY <1>1, <1>4 DEF RefreshCall, RefreshBuild, RefreshReset, StoppedAll, RefreshReturn,
                      TypeOK
  <2> QED
    BY <1>1, <2>1, <2>2, <2>3 DEF Accounted, Doomed, HoldersInv
<1> QED
  BY <1>2, <1>3, <1>4 DEF RefreshStep

LEMMA AccountStop ==
    ASSUME AccountInv, Stop
    PROVE  Accounted' /\ HoldersInv'
<1>1. /\ channels' = {} /\ doomed' = [doomed EXCEPT ![Main] = channels]
      /\ rpc[Main] = "idle" /\ rpc' = [rpc EXCEPT ![Main] = "stop"]
      /\ UNCHANGED <<gen, live>>
  BY DEF Stop
<1>2. TypeOK /\ Accounted /\ HoldersInv /\ doomed[Main] = {}
  BY <1>1, Constant DEF AccountInv, HoldersInv
<1>3. /\ Doomed' = Doomed \cup channels
      /\ \A q \in Refresher : doomed'[q] = IF q = Main THEN channels ELSE doomed[q]
  BY <1>1, <1>2, Constant, DoomedGrows
<1>4. Accounted'
  BY <1>1, <1>2, <1>3 DEF Accounted
<1>5. HoldersInv'
  BY <1>1, <1>2, <1>3 DEF Accounted, HoldersInv, Doomed, TypeOK
<1> QED
  BY <1>4, <1>5

LEMMA AccountNext == AccountInv /\ [Next]_vars => AccountInv'
<1> SUFFICES ASSUME AccountInv, [Next]_vars PROVE AccountInv'
  OBVIOUS
<1>1. TypeOK'
  BY TypeNext DEF AccountInv
<1>2. CASE \E r \in Refresher : RefreshCall(r) \/ RefreshStep(r)
  BY <1>1, <1>2, AccountRefresh DEF AccountInv
<1>3. CASE Stop
  BY <1>1, <1>3, AccountStop DEF AccountInv
<1>4. CASE WatcherFirst \/ WatcherTick \/ WatcherQuit
  <2>1. UNCHANGED <<channels, live, gen, doomed>>
    BY <1>4 DEF WatcherFirst, WatcherTick, WatcherQuit
  <2>2. \A r \in Refresher : rpc'[r] \notin {"reset", "stop"} => doomed[r] = {}
    <3>1. CASE UNCHANGED rpc
      BY <3>1 DEF AccountInv, HoldersInv
    <3>2. CASE rpc[Watcher] = "idle" /\ rpc' = [rpc EXCEPT ![Watcher] = "build"]
      BY <3>2, Constant DEF AccountInv, HoldersInv, TypeOK
    <3> QED
      BY <1>4, <3>1, <3>2 DEF WatcherFirst, WatcherTick, WatcherQuit, Checked
  <2> QED
    BY <1>1, <2>1, <2>2 DEF AccountInv, Accounted, Doomed, HoldersInv
<1>5. CASE \E c \in Collector : Push(c)
  <2>1. UNCHANGED <<channels, live, gen, doomed, rpc>>
    BY <1>5 DEF Push, PushStart, PushSkip, PushFilter, PushEnqueue
  <2> QED
    BY <1>1, <2>1 DEF AccountInv, Accounted, Doomed, HoldersInv
<1>6. CASE EditTable \/ SetChangeOnly \/ ApplyChangeOnly \/ UNCHANGED vars
  <2>1. UNCHANGED <<channels, live, gen, doomed, rpc>>
    BY <1>6 DEF EditTable, SetChangeOnly, ApplyChangeOnly
  <2> QED
    BY <1>1, <2>1 DEF AccountInv, Accounted, Doomed, HoldersInv
<1> QED
  BY <1>2, <1>3, <1>4, <1>5, <1>6 DEF Next

(***************************************************************************)
(* No running instance is lost, however refreshes overlap with each other  *)
(* and with Stop.                                                          *)
(***************************************************************************)
THEOREM InstancesAccounted == Spec => []Accounted
<1>1. AccountInv => Accounted
  BY DEF AccountInv
<1> QED
  BY AccountInit, AccountNext, <1>1, PTL DEF Spec

-------------------------------------------------------------------------------
(***************************************************************************)
(* Stop.  Once running is cleared, what is published came after it.        *)
(***************************************************************************)
StopInv ==
    /\ life \in {"stopping", "down"} <=> ~running
    /\ life = "up" => rpc[Main] = "idle"
    /\ ~running => channels \subseteq late

LEMMA StopInit == Init => StopInv
BY DEF Init, StopInv

\* Main is in a refresh only while it starts or stops the engine.
LEMMA MainWaits ==
    ASSUME TypeOK, StopInv, NEW r \in Refresher, RefreshCall(r) \/ RefreshStep(r)
    PROVE  life' = "up" => rpc'[Main] = "idle"
<1>1. CASE RefreshCall(r)
  BY <1>1, Constant DEF RefreshCall, StopInv, TypeOK
<1>2. CASE RefreshReturn(r)
  BY <1>2, Constant DEF RefreshReturn, StopInv, TypeOK
<1>3. CASE \/ RefreshBuild(r) \/ RefreshPublish(r) \/ RefreshReset(r)
           \/ StopOne(r) \/ StoppedAll(r)
  <2>1. life' = life /\ rpc[r] # "idle" /\ \A q \in Refresher : q # r => rpc'[q] = rpc[q]
    BY <1>3 DEF RefreshBuild, RefreshPublish, RefreshReset, StopOne, StoppedAll, TypeOK
  <2> QED
    BY <2>1, Constant DEF StopInv
<1> QED
  BY <1>1, <1>2, <1>3 DEF RefreshStep

LEMMA StopNext == AccountInv /\ StopInv /\ [Next]_vars => StopInv'
<1> SUFFICES ASSUME AccountInv, StopInv, [Next]_vars PROVE StopInv'
  OBVIOUS
<1> USE DEF AccountInv
<1>1. ASSUME NEW r \in Refresher, RefreshPublish(r) PROVE StopInv'
  <2>1. life' = "up" => rpc'[Main] = "idle"
    BY <1>1, MainWaits DEF RefreshStep
  <2>2. Kept(r) \subseteq channels
    BY NewInstances
  <2> QED
    BY <1>1, <2>1, <2>2 DEF RefreshPublish, Shown, StopInv
<1>2. ASSUME NEW r \in Refresher, RefreshReturn(r) PROVE StopInv'
  <2>1. life' = "up" => rpc'[Main] = "idle"
    BY <1>2, MainWaits DEF RefreshStep
  <2>2. life' \in {"stopping", "down"} <=> life \in {"stopping", "down"}
    BY <1>2 DEF RefreshReturn, StopInv, TypeOK
  <2>3. UNCHANGED <<running, channels, late>>
    BY <1>2 DEF RefreshReturn
  <2> QED
    BY <2>1, <2>2, <2>3 DEF StopInv
<1>3. ASSUME NEW r \in Refresher,
             \/ RefreshCall(r) \/ RefreshBuild(r) \/ RefreshReset(r)
             \/ StopOne(r) \/ StoppedAll(r)
      PROVE  StopInv'
  <2>1. life' = "up" => rpc'[Main] = "idle"
    BY <1>3, MainWaits DEF RefreshStep
  <2>2. UNCHANGED <<life, running, channels, late>>
    BY <1>3 DEF RefreshCall, RefreshBuild, RefreshReset, StopOne, StoppedAll
  <2> QED
    BY <2>1, <2>2 DEF StopInv
<1>4. CASE Stop
  BY <1>4 DEF Stop, StopInv
<1>5. CASE WatcherFirst \/ WatcherTick \/ WatcherQuit
  <2>1. UNCHANGED <<life, running, channels, late>>
    BY <1>5 DEF WatcherFirst, WatcherTick, WatcherQuit
  <2>2. rpc'[Main] = rpc[Main]
    BY <1>5, Constant DEF WatcherFirst, WatcherTick, WatcherQuit, Checked, TypeOK
  <2> QED
    BY <2>1, <2>2 DEF StopInv
<1>6. CASE \/ \E c \in Collector : Push(c)
           \/ EditTable \/ SetChangeOnly \/ ApplyChangeOnly \/ UNCHANGED vars
  <2>1. UNCHANGED <<life, running, channels, late, rpc>>
    BY <1>6 DEF Push, PushStart, PushSkip, PushFilter, PushEnqueue, EditTable,
                SetChangeOnly, ApplyChangeOnly
  <2> QED
    BY <2>1 DEF StopInv
<1> QED
  BY <1>1, <1>2, <1>3, <1>4, <1>5, <1>6 DEF Next, RefreshStep

(***************************************************************************)
(* When Stop has returned, an instance runs only if a refresh published it *)
(* after Stop, or has yet to stop it.                                      *)
(***************************************************************************)
THEOREM StopLeavesNothing == Spec => []StopStopsAll
<1>1. AccountInv /\ StopInv => StopStopsAll
  BY DEF AccountInv, Accounted, StopInv, StopStopsAll
<1> QED
  BY AccountInit, AccountNext, StopInit, StopNext, <1>1, PTL DEF Spec

-------------------------------------------------------------------------------
(***************************************************************************)
(* No value withheld.  A push under way hands over what the tracker holds, *)
(* and every channel that takes the point has it or is about to get it.    *)
(***************************************************************************)
PushingTracked ==
    \A c \in Collector :
       cpc[c] = "enqueue" /\ changeOnly /\ ~applying /\ tracker[c] # None => rec[c] = tracker[c]

\* What NoValueWithheld asks of collector c and instance i.
Served(c, i) ==
    \/ cpc[c] = "enqueue" /\ i \in aim[c] /\ rec[c] = tracker[c]
    \/ [to |-> i, point |-> c, value |-> tracker[c]] \in told

\* What it is asked under.
Settled(c) == changeOnly /\ ~ResetPending /\ tracker[c] # None /\ c \notin overtaken

LEMMA WithheldIs ==
    NoValueWithheld <=> \A c \in Collector : Settled(c) => \A i \in Targets(c) : Served(c, i)
BY DEF NoValueWithheld, Settled, Served

ServeInv == PushingTracked /\ \A c \in Collector : Settled(c) => \A i \in Targets(c) : Served(c, i)

LEMMA ServeInit == Init => ServeInv
BY DEF Init, ServeInv, PushingTracked, Settled

LEMMA ServeRefresh ==
    ASSUME AccountInv, ServeInv, NEW r \in Refresher, RefreshCall(r) \/ RefreshStep(r)
    PROVE  ServeInv'
<1> USE DEF AccountInv
<1>1. CASE RefreshPublish(r)
  <2>1. UNCHANGED <<cpc, rec, aim, told, changeOnly, applying, tracker, overtaken>>
    BY <1>1 DEF RefreshPublish
  <2>2. PushingTracked'
    BY <2>1 DEF ServeInv, PushingTracked
  <2>3. rpc'[r] = "reset" /\ fresh'[r] = (New(r) # {})
    BY <1>1 DEF RefreshPublish, TypeOK
  <2>4. \A q \in Refresher : q # r => rpc'[q] = rpc[q] /\ fresh'[q] = fresh[q]
    BY <1>1 DEF RefreshPublish, TypeOK
  <2>5. rpc[r] = "publish"
    BY <1>1 DEF RefreshPublish
  <2>6. ASSUME ~ResetPending' PROVE ~ResetPending /\ channels' \subseteq channels
    <3>1. New(r) = {}
      BY <2>3, <2>6 DEF ResetPending
    <3>2. channels' \subseteq channels
      BY <1>1, <3>1, NewInstances DEF RefreshPublish
    <3>3. ~ResetPending
      BY <2>1, <2>4, <2>5, <2>6 DEF ResetPending
    <3> QED
      BY <3>2, <3>3
  <2>7. ASSUME NEW c \in Collector, Settled(c)', NEW i \in Targets(c)' PROVE Served(c, i)'
    <3>1. Settled(c) /\ i \in Targets(c)
      BY <2>1, <2>6, <2>7 DEF Settled, Targets
    <3> QED
      BY <2>1, <3>1 DEF ServeInv, Served
  <2> QED
    BY <2>2, <2>7 DEF ServeInv
<1>2. CASE RefreshReset(r)
  <2>1. UNCHANGED <<cpc, rec, aim, told, changeOnly, applying, channels>> /\ rpc[r] = "reset"
    BY <1>2 DEF RefreshReset
  <2>2. CASE fresh[r] /\ changeOnly
    BY <1>2, <2>2 DEF RefreshReset, Reset, ServeInv, PushingTracked, Settled
  <2>3. CASE ~(fresh[r] /\ changeOnly)
    <3>1. UNCHANGED <<tracker, overtaken>>
      BY <1>2, <2>3 DEF RefreshReset
    <3>2. changeOnly /\ ~ResetPending' => ~ResetPending
      BY <1>2, <2>1, <2>3 DEF RefreshReset, ResetPending, TypeOK
    <3> QED
      BY <2>1, <3>1, <3>2 DEF ServeInv, PushingTracked, Settled, Served, Targets
  <2> QED
    BY <2>2, <2>3
<1>3. CASE StopOne(r)
  <2>1. PICK d \in doomed[r] : told' = {t \in told : t.to # d}
    BY <1>3 DEF StopOne
  <2>2. UNCHANGED <<cpc, rec, aim, changeOnly, applying, tracker, overtaken, channels, rpc, fresh>>
    BY <1>3 DEF StopOne
  <2>3. d \notin channels
    BY <2>1 DEF Accounted, Doomed
  <2>4. ASSUME NEW c \in Collector, Settled(c)', NEW i \in Targets(c)' PROVE Served(c, i)'
    <3>1. Settled(c) /\ i \in Targets(c) /\ i # d
      BY <2>2, <2>3, <2>4 DEF Settled, Targets, ResetPending
    <3>2. Served(c, i)
      BY <3>1 DEF ServeInv
    <3> QED
      BY <2>1, <2>2, <3>1, <3>2 DEF Served
  <2> QED
    BY <2>2, <2>4 DEF ServeInv, PushingTracked
<1>4. CASE RefreshCall(r) \/ RefreshBuild(r) \/ StoppedAll(r) \/ RefreshReturn(r)
  <2>1. UNCHANGED <<cpc, rec, aim, told, changeOnly, applying, tracker, overtaken, channels, fresh>>
    BY <1>4 DEF RefreshCall, RefreshBuild, StoppedAll, RefreshReturn
  <2>2. rpc[r] # "reset" /\ \A q \in Refresher : q # r => rpc'[q] = rpc[q]
    BY <1>4 DEF RefreshCall, RefreshBuild, StoppedAll, RefreshReturn, TypeOK
  <2>3. ~ResetPending' => ~ResetPending
    BY <2>1, <2>2 DEF ResetPending
  <2> QED
    BY <2>1, <2>3 DEF ServeInv, PushingTracked, Settled, Served, Targets
<1> QED
  BY <1>1, <1>2, <1>3, <1>4 DEF RefreshStep

\* A push of c changes what c's channels have, and nobody else's.
LEMMA ServePush ==
    ASSUME AccountInv, ServeInv, NEW c \in Collector, Push(c)
    PROVE  ServeInv'
<1> USE DEF AccountInv
<1>1. UNCHANGED <<changeOnly, applying, channels, live, rpc, fresh>>
  BY DEF Push, PushStart, PushSkip, PushFilter, PushEnqueue
<1>2. ResetPending' <=> ResetPending
  BY <1>1 DEF ResetPending
<1>3. \A d \in Collector : Targets(d)' = Targets(d)
  BY <1>1 DEF Targets
<1>4. CASE PushStart(c) \/ PushSkip(c)
  <2>1. UNCHANGED <<tracker, overtaken, told>> /\ cpc[c] # "enqueue" /\ cpc'[c] # "enqueue"
    BY <1>4 DEF PushStart, PushSkip, TypeOK
  <2>2. \A d \in Collector : d # c => cpc'[d] = cpc[d] /\ aim'[d] = aim[d] /\ rec'[d] = rec[d]
    BY <1>4 DEF PushStart, PushSkip, TypeOK
  <2>3. PushingTracked'
    BY <1>1, <2>1, <2>2 DEF ServeInv, PushingTracked
  <2>4. \A d \in Collector : Settled(d)' => Settled(d)
    BY <1>1, <1>2, <2>1 DEF Settled
  <2>5. ASSUME NEW d \in Collector, Settled(d)', NEW i \in Targets(d)' PROVE Served(d, i)'
    <3>1. Served(d, i)
      BY <1>3, <2>4, <2>5 DEF ServeInv
    <3> QED
      BY <2>1, <2>2, <3>1 DEF Served
  <2> QED
    BY <2>3, <2>5 DEF ServeInv
<1>5. CASE PushFilter(c)
  <2>1. UNCHANGED <<rec, aim, told>> /\ cpc'[c] = "enqueue" /\ cpc[c] = "filter"
    BY <1>5 DEF PushFilter, TypeOK
  <2>2. \A d \in Collector : d # c => cpc'[d] = cpc[d]
    BY <1>5 DEF PushFilter, TypeOK
  <2>3. CASE changeOnly
    <3>1. tracker'[c] = rec[c] /\ (Targets(c) \subseteq aim[c] \/ c \in overtaken')
      BY <1>5, <2>3 DEF PushFilter, TypeOK
    <3>2. \A d \in Collector : d # c => tracker'[d] = tracker[d] /\ (d \in overtaken' <=> d \in overtaken)
      BY <1>5, <2>3 DEF PushFilter, TypeOK
    <3>3. PushingTracked'
      BY <1>1, <2>1, <2>2, <3>1, <3>2 DEF ServeInv, PushingTracked
    <3>4. ASSUME NEW d \in Collector, Settled(d)', NEW i \in Targets(d)' PROVE Served(d, i)'
      <4>1. CASE d = c
        BY <1>3, <2>1, <3>1, <3>4, <4>1 DEF Settled, Served
      <4>2. CASE d # c
        <5>1. Settled(d)
          BY <1>1, <1>2, <3>2, <3>4, <4>2 DEF Settled
        <5>2. Served(d, i)
          BY <1>3, <3>4, <5>1 DEF ServeInv
        <5> QED
          BY <2>1, <2>2, <3>2, <4>2, <5>2 DEF Served
      <4> QED
        BY <4>1, <4>2
    <3> QED
      BY <3>3, <3>4 DEF ServeInv
  <2>4. CASE ~changeOnly
    BY <1>1, <2>4 DEF ServeInv, PushingTracked, Settled
  <2> QED
    BY <2>3, <2>4
<1>6. CASE PushEnqueue(c)
  <2>1. PICK j \in aim[c] :
           /\ told' = IF j \in live
                        THEN {t \in told : t.to # j \/ t.point # c}
                               \cup {[to |-> j, point |-> c, value |-> rec[c]]}
                        ELSE told
           /\ aim' = [aim EXCEPT ![c] = aim[c] \ {j}]
           /\ IF aim[c] = {j}
                THEN cpc' = [cpc EXCEPT ![c] = "idle"] /\ rec' = [rec EXCEPT ![c] = None]
                ELSE UNCHANGED <<cpc, rec>>
    BY <1>6 DEF PushEnqueue
  <2>2. UNCHANGED <<tracker, overtaken>> /\ cpc[c] = "enqueue"
    BY <1>6 DEF PushEnqueue
  <2>3. \A d \in Collector : d # c => cpc'[d] = cpc[d] /\ aim'[d] = aim[d] /\ rec'[d] = rec[d]
    BY <2>1 DEF TypeOK
  <2>4. PushingTracked'
    <3>1. cpc'[c] = "enqueue" => rec'[c] = rec[c]
      BY <2>1 DEF TypeOK
    <3> QED
      BY <1>1, <2>2, <2>3, <3>1 DEF ServeInv, PushingTracked
  <2>5. ASSUME NEW d \in Collector, Settled(d)', NEW i \in Targets(d)' PROVE Served(d, i)'
    <3>1. Settled(d) /\ i \in Targets(d) /\ i \in live
      BY <1>1, <1>2, <1>3, <2>2, <2>5 DEF Settled, Targets, Accounted
    <3>2. Served(d, i)
      BY <3>1 DEF ServeInv
    <3>3. CASE d # c
      BY <2>1, <2>2, <2>3, <3>2, <3>3 DEF Served
    <3>4. CASE d = c /\ i = j
      <4>1. rec[c] = tracker[c]
        BY <2>2, <3>1, <3>4 DEF ServeInv, PushingTracked, Settled, ResetPending
      <4> QED
        BY <2>1, <2>2, <3>1, <3>4, <4>1 DEF Served
    <3>5. CASE d = c /\ i # j
      <4>1. CASE i \in aim[c] /\ rec[c] = tracker[c]
        <5>1. cpc'[c] = "enqueue" /\ rec'[c] = rec[c] /\ i \in aim'[c]
          BY <2>1, <2>2, <3>5, <4>1 DEF TypeOK
        <5> QED
          BY <2>2, <3>5, <4>1, <5>1 DEF Served
      <4>2. CASE [to |-> i, point |-> c, value |-> tracker[c]] \in told
        BY <2>1, <2>2, <3>5, <4>2 DEF Served
      <4> QED
        BY <3>2, <3>5, <4>1, <4>2 DEF Served
    <3> QED
      BY <3>3, <3>4, <3>5
  <2> QED
    BY <2>4, <2>5 DEF ServeInv
<1> QED
  BY <1>4, <1>5, <1>6 DEF Push

LEMMA ServeNext == AccountInv /\ ServeInv /\ [Next]_vars => ServeInv'
<1> SUFFICES ASSUME AccountInv, ServeInv, [Next]_vars PROVE ServeInv'
  OBVIOUS
<1>1. CASE \E r \in Refresher : RefreshCall(r) \/ RefreshStep(r)
  BY <1>1, ServeRefresh
<1>2. CASE \E c \in Collector : Push(c)
  BY <1>2, ServePush
<1>3. CASE Stop
  <2>1. UNCHANGED <<cpc, rec, aim, told, changeOnly, applying, tracker>> /\ channels' = {}
    BY <1>3 DEF Stop
  <2> QED
    BY <2>1 DEF ServeInv, PushingTracked, Targets
<1>4. CASE WatcherFirst \/ WatcherTick \/ WatcherQuit
  <2>1. UNCHANGED <<cpc, rec, aim, told, changeOnly, applying, tracker, overtaken, channels, fresh>>
    BY <1>4 DEF WatcherFirst, WatcherTick, WatcherQuit
  <2>2. \A r \in Refresher : rpc[r] = "reset" => rpc'[r] = rpc[r]
    BY <1>4 DEF WatcherFirst, WatcherTick, WatcherQuit, Checked, AccountInv, TypeOK
  <2>3. ~ResetPending' => ~ResetPending
    BY <2>1, <2>2 DEF ResetPending
  <2> QED
    BY <2>1, <2>3 DEF ServeInv, PushingTracked, Settled, Served, Targets
<1>5. CASE SetChangeOnly
  <2>1. UNCHANGED <<cpc, rec, aim, told, tracker, overtaken, channels, rpc, fresh>>
        /\ ~applying /\ changeOnly' = ~changeOnly /\ applying' = changeOnly'
    BY <1>5 DEF SetChangeOnly
  <2> QED
    BY <2>1 DEF ServeInv, PushingTracked, Settled, ResetPending
<1>6. CASE ApplyChangeOnly
  BY <1>6 DEF ApplyChangeOnly, Reset, ServeInv, PushingTracked, Settled
<1>7. CASE EditTable \/ UNCHANGED vars
  <2>1. UNCHANGED <<cpc, rec, aim, told, changeOnly, applying, tracker, overtaken, channels, rpc, fresh>>
    BY <1>7 DEF EditTable
  <2> QED
    BY <2>1 DEF ServeInv, PushingTracked, Settled, Served, Targets, ResetPending
<1> QED
  BY <1>1, <1>2, <1>3, <1>4, <1>5, <1>6, <1>7 DEF Next

(***************************************************************************)
(* A stable value is withheld from no published channel: whatever the      *)
(* tracker holds back as already delivered, each channel that takes the    *)
(* point has been given, unless a push overlapped the refresh.             *)
(***************************************************************************)
THEOREM StableValuesDelivered == Spec => []NoValueWithheld
<1>1. ServeInv => NoValueWithheld
  BY WithheldIs DEF ServeInv
<1> QED
  BY AccountInit, AccountNext, ServeInit, ServeNext, <1>1, PTL DEF Spec

===============================================================================
