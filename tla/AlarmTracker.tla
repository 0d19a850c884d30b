------------------------------ MODULE AlarmTracker ------------------------------
(***************************************************************************)
(* The alarm state machines (alarm/tracker.go, channel.go) over the alarm  *)
(* table: one Tracker judges devices by the polls of the collector, one    *)
(* judges push channels by a periodic scan.  Services disable and enable   *)
(* targets and clear their rows without the Tracker (alarmService.go).     *)
(*                                                                         *)
(* report holds Tracker.mu throughout, over its statements on the table    *)
(* and the call of the notifier at its end: until then the Tracker judges  *)
(* nothing else (handing).  The table has a single connection, and what a  *)
(* service does between two statements of report has the same outcome      *)
(* after it.  A failing statement is logged and otherwise ignored.         *)
(***************************************************************************)
EXTENDS Integers, Sequences, FiniteSets

CONSTANTS
    Device,
    Channel,
    Threshold,      \* failures in a row that make a target abnormal
    MaxRows         \* bound: rows of the table

Target == Device \cup Channel

ASSUME AlarmTrackerAssumption ==
    /\ Device \cap Channel = {}
    /\ Threshold \in [Target -> Nat \ {0}]
    /\ MaxRows \in Nat

Kind == {"device", "channel"}       \* the two Trackers
KindOf(t) == IF t \in Device THEN "device" ELSE "channel"

DevState == [normal : BOOLEAN, fails : Nat, reconciled : BOOLEAN]

\* What report starts from for a target it has not seen.
Fresh == [normal |-> TRUE, fails |-> 0, reconciled |-> FALSE]

\* Rows that are active, and how others came to be cleared: by a recovery that was recorded
\* or not, by a service, or by the first success of a new state machine.
Closed == {"open", "recovered", "unrecorded", "cleared", "reconciled"}
Row == [target : Target, alarm : {"alarm", "recover"}, closed : Closed, silent : BOOLEAN]

VARIABLES
    st,         \* Tracker.states of both trackers
    table,      \* the alarm table, in the order of creation
    handing,    \* per Tracker: the row it is about to hand to the notifier, or 0
    enabled,    \* status of the target in its own table
    polled,     \* the target is collected, or the channel runs
    was,        \* ChannelMonitor.was
    clearing,   \* targets disabled by a request that has yet to clear their rows
    began,      \* history: how the last abnormal period began: row raised, found or lost
    stuck,      \* history: rows left active by a failed UPDATE of report
    blind,      \* history: a failed lookup let a second active row in
    wiped,      \* history: rows cleared by a service while the target was abnormal
    ghost       \* history: rows that outlived, or came after, the clearing of a disabled target

ledger == <<began, stuck, blind, wiped, ghost>>
trackerVars == <<st, table, handing, enabled, polled, was, clearing, ledger>>

TrackerInit ==
    /\ st = [t \in Target |-> Fresh] /\ table = <<>> /\ handing = [k \in Kind |-> 0]
    /\ enabled = [t \in Target |-> TRUE] /\ polled = [t \in Target |-> TRUE]
    /\ was = [c \in Channel |-> FALSE] /\ clearing = {}
    /\ began = [t \in Target |-> "raised"]
    /\ stuck = {} /\ blind = {} /\ wiped = {} /\ ghost = {}

ActiveRows(t) == {i \in DOMAIN table : table[i].target = t /\ table[i].closed = "open"}

\* The table with the active rows of t cleared.
ClearedRows(t, by) ==
    [i \in DOMAIN table |-> IF i \in ActiveRows(t) THEN [table[i] EXCEPT !.closed = by]
                                                   ELSE table[i]]

-------------------------------------------------------------------------------
(***************************************************************************)
(* report, from the state s that it finds for the target.                  *)
(***************************************************************************)

frame == <<enabled, polled, clearing>>
Free(t) == handing[KindOf(t)] = 0
SetState(t, s) == st' = [st EXCEPT ![t] = s]

\* Nothing happens beyond the counters: a success in a normal state that has been
\* reconciled, a failure below the threshold, or one more of an abnormal target (whose row
\* only gets a new last_occur_time).
Unremarkable(t, s, ok) ==
    /\ \/ ok /\ s.normal /\ s.reconciled /\ SetState(t, [s EXCEPT !.fails = 0])
       \/ ~ok /\ s.normal /\ s.fails + 1 < Threshold[t]
          /\ SetState(t, [s EXCEPT !.fails = @ + 1])
       \/ ~ok /\ ~s.normal /\ SetState(t, s)
    /\ UNCHANGED <<table, handing, ledger>>

\* The first success of a new state machine clears what an earlier process left active.
Reconcile(t, s, fault) ==
    /\ s.normal /\ ~s.reconciled
    /\ SetState(t, [s EXCEPT !.fails = 0, !.reconciled = TRUE])
    /\ IF fault THEN /\ stuck' = IF ActiveRows(t) = {} THEN stuck ELSE stuck \cup {t}
                     /\ UNCHANGED <<table, ghost>>
                ELSE /\ table' = ClearedRows(t, "reconciled")
                     /\ stuck' = stuck \ {t} /\ ghost' = ghost \ {t}
    /\ UNCHANGED <<handing, began, blind, wiped>>

\* Mistake: the recovery does not put the state machine back to normal.
WrongRecovered(s) == [s EXCEPT !.fails = 0, !.reconciled = TRUE]

Recovered(s) == [s EXCEPT !.normal = TRUE, !.fails = 0, !.reconciled = TRUE]

\* recoverLocked: the active rows are cleared, a recovery is recorded and handed over.
\* Either statement may fail; without the record nothing is handed over.
Recover(t, s, clearFails, createFails) ==
    /\ ~s.normal
    /\ SetState(t, Recovered(s))
    /\ LET kept == IF clearFails THEN table
                   ELSE ClearedRows(t, IF createFails THEN "unrecorded" ELSE "recovered")
       IN IF createFails
          THEN table' = kept /\ UNCHANGED handing
          ELSE /\ Len(table) < MaxRows
               /\ table' = Append(kept, [target |-> t, alarm |-> "recover",
                                         closed |-> "recovered", silent |-> began[t] # "raised"])
               /\ handing' = [handing EXCEPT ![KindOf(t)] = Len(table) + 1]
    /\ IF clearFails THEN stuck' = (IF ActiveRows(t) = {} THEN stuck ELSE stuck \cup {t})
                          /\ UNCHANGED ghost
                     ELSE stuck' = stuck \ {t} /\ ghost' = ghost \ {t}
    /\ wiped' = wiped \ {t}
    /\ UNCHANGED <<began, blind>>

\* The edge to abnormal.  The state machine has changed before raiseLocked looks at the table.
Edge(t, s) ==
    /\ s.normal /\ s.fails + 1 >= Threshold[t]
    /\ SetState(t, [normal |-> FALSE, fails |-> Threshold[t], reconciled |-> TRUE])
    /\ wiped' = wiped \ {t}

\* raiseLocked finds an active row: no second one is made, and nobody is told.
RaiseFound(t, s) ==
    /\ Edge(t, s)
    /\ ActiveRows(t) # {}
    /\ began' = [began EXCEPT ![t] = "found"]
    /\ UNCHANGED <<table, handing, stuck, blind, ghost>>

\* Mistake: raiseLocked trusts the state machine and does not look for an active row.
WrongMayRaise(t, lookupFails) == TRUE

\* The lookup finds none, or fails: any error counts as "not found".
MayRaise(t, lookupFails) == ActiveRows(t) = {} \/ lookupFails

\* A row is created and handed over.
RaiseCreated(t, s, lookupFails) ==
    /\ Edge(t, s)
    /\ MayRaise(t, lookupFails)
    /\ Len(table) < MaxRows
    /\ table' = Append(table, [target |-> t, alarm |-> "alarm", closed |-> "open",
                               silent |-> FALSE])
    /\ handing' = [handing EXCEPT ![KindOf(t)] = Len(table) + 1]
    /\ began' = [began EXCEPT ![t] = "raised"]
    /\ blind' = IF lookupFails /\ ActiveRows(t) # {} THEN blind \cup {t} ELSE blind
    /\ ghost' = IF enabled[t] \/ t \in clearing THEN ghost ELSE ghost \cup {t}
    /\ UNCHANGED stuck

\* The row cannot be created: nobody is told, and the state machine stays abnormal.
RaiseLost(t, s) ==
    /\ Edge(t, s)
    /\ ActiveRows(t) = {}
    /\ began' = [began EXCEPT ![t] = "lost"]
    /\ UNCHANGED <<table, handing, stuck, blind, ghost>>

\* report without a failing statement, and with some.
Report(t, s, ok) ==
    \/ Unremarkable(t, s, ok)
    \/ ok /\ (Reconcile(t, s, FALSE) \/ Recover(t, s, FALSE, FALSE))
    \/ ~ok /\ (RaiseFound(t, s) \/ RaiseCreated(t, s, FALSE))

ReportFaulty(t, s, ok) ==
    \/ ok /\ Reconcile(t, s, TRUE)
    \/ ok /\ \E b \in BOOLEAN \X BOOLEAN : b # <<FALSE, FALSE>> /\ Recover(t, s, b[1], b[2])
    \/ ~ok /\ (RaiseCreated(t, s, TRUE) \/ RaiseLost(t, s))

-------------------------------------------------------------------------------
(***************************************************************************)
(* Who reports: the polls of a device, in whatever groups, and the scan of *)
(* the channels, one after another.                                        *)
(***************************************************************************)

ReportDevicePoll(d, ok) ==
    /\ Free(d) /\ polled[d]
    /\ Report(d, st[d], ok)
    /\ UNCHANGED <<was, frame>>

\* scan resets the state of a channel that it did not see running before.
Found(t) == IF t \in Channel /\ ~was[t] THEN Fresh ELSE st[t]

\* What scan does about one channel.  GetStatus lists the channels that the push engine has, and
\* those run; one that is no longer listed is only forgotten: its rows and its state stay.
ScanChannel(c, connected) ==
    /\ Free(c)
    /\ was' = [was EXCEPT ![c] = polled[c]]
    /\ \/ polled[c] /\ Report(c, Found(c), connected)
       \/ ~polled[c] /\ was[c] /\ UNCHANGED <<st, table, handing, ledger>>
    /\ UNCHANGED frame

\* A poll or a scan with failing statements.
Faulty(t, ok) ==
    /\ Free(t) /\ polled[t]
    /\ ReportFaulty(t, Found(t), ok)
    /\ was' = IF t \in Channel THEN [was EXCEPT ![t] = TRUE] ELSE was
    /\ UNCHANGED frame

-------------------------------------------------------------------------------
(***************************************************************************)
(* The services: the transaction that disables a target and the UPDATE     *)
(* that clears its rows are two steps.  The collector and the push engine  *)
(* follow later, when they reload.                                         *)
(***************************************************************************)

serviceFrame == <<st, handing, was, began, blind>>

Disable(t) ==
    /\ enabled[t] /\ t \notin clearing
    /\ enabled' = [enabled EXCEPT ![t] = FALSE]
    /\ clearing' = clearing \cup {t}
    /\ UNCHANGED <<serviceFrame, table, polled, stuck, wiped, ghost>>

\* Mistake: ClearDeviceAlarm is not called.
WrongServiceClear(t) ==
    /\ t \in clearing
    /\ clearing' = clearing \ {t}
    /\ UNCHANGED <<serviceFrame, table, enabled, polled, stuck, wiped, ghost>>

\* ClearDeviceAlarm, ClearChannelAlarm: the Tracker is not told.
ServiceClear(t) ==
    /\ t \in clearing
    /\ clearing' = clearing \ {t}
    /\ table' = ClearedRows(t, "cleared")
    /\ stuck' = stuck \ {t} /\ ghost' = ghost \ {t}
    /\ wiped' = IF st[t].normal THEN wiped ELSE wiped \cup {t}
    /\ UNCHANGED <<serviceFrame, enabled, polled>>

\* The UPDATE fails; the request succeeds all the same.
ServiceClearFails(t) ==
    /\ t \in clearing
    /\ clearing' = clearing \ {t}
    /\ ghost' = ghost \cup {t}
    /\ UNCHANGED <<serviceFrame, table, enabled, polled, stuck, wiped>>

Enable(t) ==
    /\ ~enabled[t]
    /\ enabled' = [enabled EXCEPT ![t] = TRUE]
    /\ ghost' = ghost \ {t}
    /\ UNCHANGED <<serviceFrame, table, polled, clearing, stuck, wiped>>

\* The reload of the collector or of the push engine.
Follow(t) ==
    /\ polled[t] # enabled[t]
    /\ polled' = [polled EXCEPT ![t] = enabled[t]]
    /\ UNCHANGED <<serviceFrame, table, enabled, clearing, stuck, wiped, ghost>>

\* The process ends and another starts: the table and the configuration are what remains.
TrackerRestart ==
    /\ st' = [t \in Target |-> Fresh] /\ handing' = [k \in Kind |-> 0]
    /\ polled' = enabled /\ was' = [c \in Channel |-> FALSE] /\ clearing' = {}
    /\ stuck' = {} /\ wiped' = {} /\ ghost' = ghost \cup clearing
    /\ UNCHANGED <<table, enabled, began, blind>>

-------------------------------------------------------------------------------
TrackerTypeOK ==
    /\ st \in [Target -> DevState]
    /\ table \in Seq(Row)
    /\ handing \in [Kind -> Nat]
    /\ enabled \in [Target -> BOOLEAN] /\ polled \in [Target -> BOOLEAN]
    /\ was \in [Channel -> BOOLEAN]
    /\ began \in [Target -> {"raised", "found", "lost"}]
    /\ {clearing, stuck, blind, wiped, ghost} \subseteq SUBSET Target

\* At most one row of a target is active.  Only a lookup that fails for another reason than
\* finding nothing lets a second row in.
OneActive ==
    \A t \in Target \ blind : \A i, j \in ActiveRows(t) : i = j

\* The list of active alarms is the list of targets that are off line.  An active row has
\* somebody to clear it: an abnormal state machine, or a new one at its first success; an
\* abnormal target is listed, once; a disabled one is not.  What breaks this is a failed
\* statement, a service that cleared the row behind the Tracker's back, and a poll or a
\* restart that came between disabling a target and clearing it; the row of a disabled channel
\* is then left to its next instance, since the scan clears nothing.
ListIsTrue ==
    OneActive /\ \A t \in Target :
        /\ ActiveRows(t) # {} /\ st[t].normal /\ st[t].reconciled => t \in stuck
        /\ ~st[t].normal /\ ActiveRows(t) = {} => began[t] = "lost" \/ t \in wiped
        /\ ActiveRows(t) # {} /\ ~enabled[t] /\ t \notin clearing => t \in ghost

\* No row of the same target lies between rows i and j.
Successive(i, j) ==
    /\ i < j /\ table[i].target = table[j].target
    /\ \A k \in i + 1 .. j - 1 : table[k].target # table[i].target

\* What the people on call are told alternates: no second alarm before the recovery, no
\* recovery without an alarm before it.  A second alarm follows only a row that was cleared
\* without a record, a second recovery only a fault that got no row of its own.
EdgesAlternate ==
    /\ \A i, j \in DOMAIN table :
        Successive(i, j) =>
            \/ table[i].alarm # table[j].alarm
            \/ table[j].alarm = "alarm" /\ (table[i].closed \in {"unrecorded", "cleared", "reconciled"}
                                            \/ table[i].target \in blind)
            \/ table[j].alarm = "recover" /\ table[j].silent
    /\ \A j \in DOMAIN table :
        table[j].alarm = "recover" /\ ~table[j].silent
        => \E i \in 1 .. j - 1 : table[i].target = table[j].target

===============================================================================
