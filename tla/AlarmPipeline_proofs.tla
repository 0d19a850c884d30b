------------------------- MODULE AlarmPipeline_proofs -------------------------
(***************************************************************************)
(* What holds of the alarms from poll to webhook, for any devices,         *)
(* channels, webhooks, thresholds and queue sizes.  The Trackers and the   *)
(* notifier keep an invariant each; neither reads the other's state, so a  *)
(* step of the pipeline keeps both.                                        *)
(***************************************************************************)
EXTENDS AlarmPipeline, TLAPS

(***************************************************************************)
(* The steps of AlarmTracker: each keeps the list of active alarms true    *)
(* and the alarms and recoveries of a target alternating.                  *)
(***************************************************************************)
(***************************************************************************)
(* A table of alarms, whichever it is: the active rows of a target, the    *)
(* table with them cleared, and the last row of a target.                  *)
(***************************************************************************)
Act(tb, u) == {i \in DOMAIN tb : tb[i].target = u /\ tb[i].closed = "open"}

Clr(tb, u, by) ==
    [i \in DOMAIN tb |-> IF i \in Act(tb, u) THEN [tb[i] EXCEPT !.closed = by] ELSE tb[i]]

Last(tb, u, i) ==
    /\ i \in DOMAIN tb /\ tb[i].target = u
    /\ \A k \in DOMAIN tb : k > i => tb[k].target # u

Consecutive(tb, i, j) ==
    /\ i < j /\ tb[i].target = tb[j].target
    /\ \A k \in i + 1 .. j - 1 : tb[k].target # tb[i].target

\* EdgesAlternate of a pair of rows, and of one row; bl are the targets with a failed lookup.
PairFits(tb, i, j, bl) ==
    Consecutive(tb, i, j) =>
        \/ tb[i].alarm # tb[j].alarm
        \/ tb[j].alarm = "alarm" /\ (\/ tb[i].closed \in {"unrecorded", "cleared", "reconciled"}
                                       \/ tb[i].target \in bl)
        \/ tb[j].alarm = "recover" /\ tb[j].silent

RowFits(tb, j) ==
    tb[j].alarm = "recover" /\ ~tb[j].silent
    => \E i \in DOMAIN tb : i < j /\ tb[i].target = tb[j].target

\* An alarm that has recovered is not the last row of its target.
RecoveryFollows(tb, u) ==
    \A i \in DOMAIN tb :
        tb[i].target = u /\ tb[i].alarm = "alarm" /\ tb[i].closed = "recovered" => ~Last(tb, u, i)

\* The last row of u is an alarm.
AlarmIsLast(tb, u) == \E i \in DOMAIN tb : Last(tb, u, i) /\ tb[i].alarm = "alarm"

\* All of it for the rows of u.
PairsFit(tb, u, bl) == \A i, j \in DOMAIN tb : tb[i].target = u => PairFits(tb, i, j, bl)
RowsFit(tb, u) == \A j \in DOMAIN tb : tb[j].target = u => RowFits(tb, j)
Fits(tb, u, bl) == PairsFit(tb, u, bl) /\ RowsFit(tb, u) /\ RecoveryFollows(tb, u)

(***************************************************************************)
(* ListIsTrue of one target with at most one active row, whatever state s  *)
(* its report starts from.                                                 *)
(***************************************************************************)
Listed(u, s) ==
    /\ ActiveRows(u) # {} /\ s.normal /\ s.reconciled => u \in stuck
    /\ ~s.normal /\ ActiveRows(u) = {} => began[u] = "lost" \/ u \in wiped

\* What makes the alarms of u right: the active rows, and the sequence of its rows.  A
\* target whose abnormal period began with a row has that alarm for its last row.
Right(u) ==
    /\ Listed(u, st[u])
    /\ ActiveRows(u) # {} /\ ~enabled[u] /\ u \notin clearing => u \in ghost
    /\ u \notin blind => \A i, j \in ActiveRows(u) : i = j
    /\ Fits(table, u, blind)
    /\ ~st[u].normal /\ began[u] = "raised" => AlarmIsLast(table, u)

TrackerInv == TrackerTypeOK /\ \A u \in Target : Right(u)

-------------------------------------------------------------------------------
\* The operators above, of the table there is.
LEMMA TablesAgree ==
    /\ \A u : ActiveRows(u) = Act(table, u)
    /\ \A u, by : ClearedRows(u, by) = Clr(table, u, by)
BY DEF ActiveRows, Act, ClearedRows, Clr

\* Clearing the active rows of t changes nothing else.
LEMMA ClearKeeps ==
    ASSUME NEW tb \in Seq(Row), NEW t \in Target, NEW by \in Closed \ {"open"}
    PROVE  LET c == Clr(tb, t, by) IN
           /\ c \in Seq(Row) /\ Len(c) = Len(tb) /\ DOMAIN c = DOMAIN tb
           /\ \A i \in DOMAIN tb : /\ c[i].target = tb[i].target /\ c[i].alarm = tb[i].alarm
                                   /\ c[i].silent = tb[i].silent
                                   /\ c[i].closed = IF i \in Act(tb, t) THEN by ELSE tb[i].closed
           /\ Act(c, t) = {}
           /\ \A u \in Target \ {t} : Act(c, u) = Act(tb, u)
<1> DEFINE c == Clr(tb, t, by)
<1>1. DOMAIN c = DOMAIN tb /\ \A i \in DOMAIN tb : tb[i] \in Row
  BY DEF Clr
<1>2. \A i \in DOMAIN tb :
        /\ c[i] \in Row
        /\ c[i].target = tb[i].target /\ c[i].alarm = tb[i].alarm /\ c[i].silent = tb[i].silent
        /\ c[i].closed = IF i \in Act(tb, t) THEN by ELSE tb[i].closed
  BY <1>1 DEF Clr, Row
<1>3. c \in Seq(Row) /\ Len(c) = Len(tb)
  BY <1>1, <1>2 DEF Clr
<1>4. Act(c, t) = {} /\ \A u \in Target \ {t} : Act(c, u) = Act(tb, u)
  BY <1>1, <1>2 DEF Act
<1> QED
  BY <1>1, <1>2, <1>3, <1>4

\* A new row leaves the others as they are.
LEMMA AppendKeeps ==
    ASSUME NEW tb \in Seq(Row), NEW r \in Row
    PROVE  LET a == Append(tb, r)
               n == Len(tb) + 1 IN
           /\ a \in Seq(Row) /\ n \in Nat /\ DOMAIN a = DOMAIN tb \cup {n}
           /\ DOMAIN tb = 1 .. n - 1 /\ a[n] = r
           /\ \A i \in DOMAIN tb : a[i] = tb[i]
           /\ \A u \in Target : u # r.target \/ r.closed # "open" => Act(a, u) = Act(tb, u)
           /\ r.closed = "open" => Act(a, r.target) = Act(tb, r.target) \cup {n}
<1> DEFINE a == Append(tb, r)
           n == Len(tb) + 1
<1>1. /\ a \in Seq(Row) /\ n \in Nat /\ DOMAIN a = DOMAIN tb \cup {n}
      /\ DOMAIN tb = 1 .. n - 1 /\ a[n] = r
      /\ \A i \in DOMAIN tb : a[i] = tb[i]
  OBVIOUS
<1>2. /\ \A u \in Target : u # r.target \/ r.closed # "open" => Act(a, u) = Act(tb, u)
      /\ r.closed = "open" => Act(a, r.target) = Act(tb, r.target) \cup {n}
  BY <1>1 DEF Act
<1> QED
  BY <1>1, <1>2

\* A failed lookup excuses more.
LEMMA BlindGrows ==
    ASSUME NEW tb \in Seq(Row), NEW u, NEW bl, NEW bb, u \in bl => u \in bb, Fits(tb, u, bl)
    PROVE  Fits(tb, u, bb)
BY DEF Fits, PairsFit, PairFits

\* Clearing rows leaves the sequence of the rows of u in order; that a recovered alarm is
\* followed by its recovery is in question only where t's rows are cleared as recovered.
LEMMA ClearedFits ==
    ASSUME NEW tb \in Seq(Row), NEW t \in Target, NEW by \in Closed \ {"open"},
           NEW u \in Target, NEW bl, Fits(tb, u, bl)
    PROVE  LET c == Clr(tb, t, by) IN
           /\ PairsFit(c, u, bl) /\ RowsFit(c, u)
           /\ u # t \/ by # "recovered" => RecoveryFollows(c, u)
           /\ AlarmIsLast(tb, u) => AlarmIsLast(c, u)
<1> DEFINE c == Clr(tb, t, by)
<1>1. /\ DOMAIN c = DOMAIN tb
      /\ \A i \in DOMAIN tb : /\ c[i].target = tb[i].target /\ c[i].alarm = tb[i].alarm
                              /\ c[i].silent = tb[i].silent
                              /\ c[i].closed = IF i \in Act(tb, t) THEN by ELSE tb[i].closed
  BY ClearKeeps
<1>2. DOMAIN tb = 1 .. Len(tb) /\ Len(tb) \in Nat
  OBVIOUS
<1> HIDE DEF c
<1>3. \A i, j \in DOMAIN tb : Consecutive(c, i, j) <=> Consecutive(tb, i, j)
  <2> SUFFICES ASSUME NEW i \in DOMAIN tb, NEW j \in DOMAIN tb
               PROVE  Consecutive(c, i, j) <=> Consecutive(tb, i, j)
    OBVIOUS
  <2>1. \A k \in i + 1 .. j - 1 : k \in DOMAIN tb BY <1>2
  <2>2. \A k \in DOMAIN tb : c[k].target = tb[k].target BY <1>1
  <2>3. (\A k \in i + 1 .. j - 1 : c[k].target # c[i].target)
            <=> \A k \in i + 1 .. j - 1 : tb[k].target # tb[i].target
    BY <2>1, <2>2
  <2>4. QED BY <2>2, <2>3 DEF Consecutive
<1>4. \A i \in DOMAIN tb : Last(c, u, i) <=> Last(tb, u, i)
  BY <1>1 DEF Last
<1>5. PairsFit(c, u, bl)
  <2> SUFFICES ASSUME NEW i \in DOMAIN tb, NEW j \in DOMAIN tb, tb[i].target = u,
                      Consecutive(tb, i, j)
               PROVE  \/ c[i].alarm # c[j].alarm
                      \/ c[j].alarm = "alarm" /\ (\/ c[i].closed \in {"unrecorded", "cleared", "reconciled"}
                                                  \/ tb[i].target \in bl)
                      \/ c[j].alarm = "recover" /\ c[j].silent
    BY <1>1, <1>3 DEF PairsFit, PairFits
  <2>1. PairFits(tb, i, j, bl)
    BY DEF Fits, PairsFit
  <2>2. i \in Act(tb, t) => tb[i].closed = "open"
    BY DEF Act
  <2> QED
    BY <1>1, <2>1, <2>2 DEF PairFits
<1>6. RowsFit(c, u)
  BY <1>1 DEF Fits, RowsFit, RowFits
<1>7. u # t \/ by # "recovered" => RecoveryFollows(c, u)
  <2> SUFFICES ASSUME u # t \/ by # "recovered", NEW i \in DOMAIN tb, tb[i].target = u,
                      tb[i].alarm = "alarm", c[i].closed = "recovered"
               PROVE  ~Last(tb, u, i)
    BY <1>1, <1>4 DEF RecoveryFollows
  <2>1. tb[i].closed = "recovered"
    BY <1>1 DEF Act
  <2> QED
    BY <2>1 DEF Fits, RecoveryFollows
<1>8. AlarmIsLast(tb, u) => AlarmIsLast(c, u)
  BY <1>1, <1>4 DEF AlarmIsLast
<1> QED
  BY <1>5, <1>6, <1>7, <1>8 DEF c

\* A row of another target.
LEMMA OtherAppendFits ==
    ASSUME NEW tb \in Seq(Row), NEW r \in Row, NEW u \in Target, r.target # u,
           NEW bl, Fits(tb, u, bl)
    PROVE  /\ Fits(Append(tb, r), u, bl)
           /\ AlarmIsLast(tb, u) => AlarmIsLast(Append(tb, r), u)
<1> DEFINE a == Append(tb, r)
           n == Len(tb) + 1
<1>1. /\ n \in Nat /\ DOMAIN a = DOMAIN tb \cup {n} /\ DOMAIN tb = 1 .. n - 1 /\ a[n] = r
      /\ \A i \in DOMAIN tb : a[i] = tb[i]
  BY AppendKeeps
<1> HIDE DEF a, n
<1>2. \A i, j \in DOMAIN tb : Consecutive(a, i, j) <=> Consecutive(tb, i, j)
  BY <1>1 DEF Consecutive
<1>3. \A i \in DOMAIN tb : Last(a, u, i) <=> Last(tb, u, i)
  BY <1>1 DEF Last
<1>4. \A i, j \in DOMAIN a : a[i].target = u /\ Consecutive(a, i, j) => i \in DOMAIN tb /\ j \in DOMAIN tb
  BY <1>1 DEF Consecutive
<1>5. PairsFit(a, u, bl)
  BY <1>1, <1>2, <1>4 DEF Fits, PairsFit, PairFits
<1>6. RowsFit(a, u)
  BY <1>1 DEF Fits, RowsFit, RowFits
<1>7. RecoveryFollows(a, u)
  BY <1>1, <1>3 DEF Fits, RecoveryFollows
<1>8. AlarmIsLast(tb, u) => AlarmIsLast(a, u)
  BY <1>1, <1>3 DEF AlarmIsLast
<1> QED
  BY <1>5, <1>6, <1>7, <1>8 DEF a, Fits

\* A row of u itself: nothing follows it, and the row before it was the last.
LEMMA AppendIsLast ==
    ASSUME NEW tb \in Seq(Row), NEW r \in Row, NEW u \in Target, r.target = u
    PROVE  LET a == Append(tb, r)
               n == Len(tb) + 1 IN
           /\ Last(a, u, n) /\ \A i \in DOMAIN tb : ~Last(a, u, i)
           /\ \A i \in DOMAIN tb, j \in DOMAIN a : Consecutive(a, i, j) /\ j \in DOMAIN tb => Consecutive(tb, i, j)
           /\ \A i \in DOMAIN tb : tb[i].target = u /\ Consecutive(a, i, n) => Last(tb, u, i)
           /\ \A j \in DOMAIN a : ~Consecutive(a, n, j)
<1> DEFINE a == Append(tb, r)
           n == Len(tb) + 1
<1>1. /\ n \in Nat /\ DOMAIN a = DOMAIN tb \cup {n} /\ DOMAIN tb = 1 .. n - 1 /\ a[n] = r
      /\ \A i \in DOMAIN tb : a[i] = tb[i]
  BY AppendKeeps
<1> HIDE DEF a, n
<1>2. Last(a, u, n) /\ \A i \in DOMAIN tb : ~Last(a, u, i)
  BY <1>1 DEF Last
<1>3. \A i \in DOMAIN tb, j \in DOMAIN a : Consecutive(a, i, j) /\ j \in DOMAIN tb => Consecutive(tb, i, j)
  BY <1>1 DEF Consecutive
<1>4. \A i \in DOMAIN tb : tb[i].target = u /\ Consecutive(a, i, n) => Last(tb, u, i)
  BY <1>1 DEF Consecutive, Last
<1>5. \A j \in DOMAIN a : ~Consecutive(a, n, j)
  BY <1>1 DEF Consecutive
<1> QED
  BY <1>2, <1>3, <1>4, <1>5 DEF a, n

\* The recovery of t, after an alarm or silent.
LEMMA RecoveryFits ==
    ASSUME NEW tb \in Seq(Row), NEW t \in Target, NEW bl,
           PairsFit(tb, t, bl), RowsFit(tb, t),
           NEW r \in Row, r.target = t, r.alarm = "recover", r.silent \/ AlarmIsLast(tb, t)
    PROVE  Fits(Append(tb, r), t, bl)
<1> DEFINE a == Append(tb, r)
           n == Len(tb) + 1
<1>1. /\ n \in Nat /\ DOMAIN a = DOMAIN tb \cup {n} /\ DOMAIN tb = 1 .. n - 1 /\ a[n] = r
      /\ \A i \in DOMAIN tb : a[i] = tb[i]
  BY AppendKeeps
<1>2. /\ \A i \in DOMAIN tb : ~Last(a, t, i)
      /\ \A i \in DOMAIN tb, j \in DOMAIN a : Consecutive(a, i, j) /\ j \in DOMAIN tb => Consecutive(tb, i, j)
      /\ \A i \in DOMAIN tb : tb[i].target = t /\ Consecutive(a, i, n) => Last(tb, t, i)
      /\ \A j \in DOMAIN a : ~Consecutive(a, n, j)
  BY AppendIsLast
<1> HIDE DEF a, n
<1>3. \A i \in DOMAIN tb : Last(tb, t, i) => tb[i].alarm = "alarm" \/ r.silent
  BY <1>1 DEF AlarmIsLast, Last
<1>4. PairsFit(a, t, bl)
  BY <1>1, <1>2, <1>3 DEF PairsFit, PairFits
<1>5. RowsFit(a, t)
  BY <1>1 DEF RowsFit, RowFits, AlarmIsLast, Last
<1>6. RecoveryFollows(a, t)
  BY <1>1, <1>2 DEF RecoveryFollows
<1> QED
  BY <1>4, <1>5, <1>6 DEF a, Fits

\* A new alarm of t, which has no active one, unless a lookup failed.
LEMMA AlarmFits ==
    ASSUME NEW tb \in Seq(Row), NEW t \in Target, NEW bl, Fits(tb, t, bl),
           NEW bb, t \in bl => t \in bb, Act(tb, t) # {} => t \in bb,
           NEW r \in Row, r.target = t, r.alarm = "alarm", r.closed = "open"
    PROVE  Fits(Append(tb, r), t, bb) /\ AlarmIsLast(Append(tb, r), t)
<1> DEFINE a == Append(tb, r)
           n == Len(tb) + 1
<1>1. /\ n \in Nat /\ DOMAIN a = DOMAIN tb \cup {n} /\ DOMAIN tb = 1 .. n - 1 /\ a[n] = r
      /\ \A i \in DOMAIN tb : a[i] = tb[i]
  BY AppendKeeps
<1>2. /\ Last(a, t, n) /\ \A i \in DOMAIN tb : ~Last(a, t, i)
      /\ \A i \in DOMAIN tb, j \in DOMAIN a : Consecutive(a, i, j) /\ j \in DOMAIN tb => Consecutive(tb, i, j)
      /\ \A i \in DOMAIN tb : tb[i].target = t /\ Consecutive(a, i, n) => Last(tb, t, i)
      /\ \A j \in DOMAIN a : ~Consecutive(a, n, j)
  BY AppendIsLast
<1> HIDE DEF a, n
<1>3. \A i \in DOMAIN tb : Last(tb, t, i) /\ tb[i].alarm = "alarm"
                           => tb[i].closed \in {"unrecorded", "cleared", "reconciled"} \/ t \in bb
  <2> TAKE i \in DOMAIN tb
  <2> HAVE Last(tb, t, i) /\ tb[i].alarm = "alarm"
  <2>1. tb[i].target = t /\ tb[i].closed # "recovered"
    BY DEF Fits, RecoveryFollows, Last
  <2>2. tb[i].closed = "open" => t \in bb
    BY <2>1 DEF Act
  <2>3. tb[i] \in Row
    OBVIOUS
  <2>4. tb[i].closed \in Closed
    BY <2>3 DEF Row
  <2> QED
    BY <2>1, <2>2, <2>4 DEF Closed
<1>4. PairsFit(a, t, bb)
  BY <1>1, <1>2, <1>3 DEF Fits, PairsFit, PairFits
<1>5. RowsFit(a, t)
  BY <1>1 DEF Fits, RowsFit, RowFits
<1>6. RecoveryFollows(a, t)
  BY <1>1, <1>2 DEF RecoveryFollows
<1>7. AlarmIsLast(a, t)
  BY <1>1, <1>2 DEF AlarmIsLast
<1> QED
  BY <1>4, <1>5, <1>6, <1>7 DEF a, Fits

-------------------------------------------------------------------------------
\* A step that is not about u may clear or add rows of others.
Alike(u) ==
    /\ Act(table', u) = Act(table, u)
    /\ Fits(table', u, blind')
    /\ AlarmIsLast(table, u) => AlarmIsLast(table', u)
    /\ st'[u] = st[u] /\ began'[u] = began[u] /\ enabled'[u] = enabled[u]
    /\ u \in stuck => u \in stuck'
    /\ u \in wiped => u \in wiped'
    /\ u \in ghost => u \in ghost'
    /\ u \in clearing => u \in clearing'
    /\ u \in blind => u \in blind'

\* A target whose part of the state is alike stays right.
LEMMA AlikeRight ==
    ASSUME NEW u \in Target, Right(u), Alike(u)
    PROVE  Right(u)'
<1>1. ActiveRows(u) = Act(table, u) /\ ActiveRows(u)' = Act(table', u)
  BY TablesAgree DEF ActiveRows, Act
<1> QED
  BY <1>1 DEF Right, Alike, Listed

\* What the table may become.
LEMMA SameTable ==
    ASSUME TrackerInv, table' = table, NEW u \in Target
    PROVE  /\ Act(table', u) = Act(table, u)
           /\ Fits(table', u, blind)
           /\ AlarmIsLast(table, u) => AlarmIsLast(table', u)
BY DEF TrackerInv, Right

\* The table after an UPDATE that clears the active rows of t.
LEMMA ClearedTable ==
    ASSUME TrackerInv, NEW t \in Target, NEW by \in Closed \ {"open"}, table' = ClearedRows(t, by),
           NEW u \in Target
    PROVE  /\ table' \in Seq(Row)
           /\ Act(table', u) = IF u = t THEN {} ELSE Act(table, u)
           /\ u # t \/ by # "recovered" => Fits(table', u, blind)
           /\ AlarmIsLast(table, u) => AlarmIsLast(table', u)
<1>1. table' = Clr(table, t, by) /\ table \in Seq(Row)
  BY TablesAgree DEF TrackerInv, TrackerTypeOK
<1>2. Fits(table, u, blind)
  BY DEF TrackerInv, Right
<1>3. table' \in Seq(Row) /\ Act(table', u) = IF u = t THEN {} ELSE Act(table, u)
  BY <1>1, ClearKeeps
<1>4. /\ u # t \/ by # "recovered" => Fits(table', u, blind)
      /\ AlarmIsLast(table, u) => AlarmIsLast(table', u)
  BY <1>1, <1>2, ClearedFits DEF Fits
<1> QED
  BY <1>3, <1>4

\* The row of a recovery, whether the active rows could be cleared or not.
LEMMA RecoveredTable ==
    ASSUME TrackerInv, NEW t \in Target, NEW kept, kept \in {table, ClearedRows(t, "recovered")},
           NEW r \in Row, r.target = t, r.alarm = "recover", r.closed = "recovered",
           r.silent \/ AlarmIsLast(table, t),
           table' = Append(kept, r), NEW u \in Target
    PROVE  /\ table' \in Seq(Row)
           /\ Act(table', u) = Act(kept, u)
           /\ u # t => Act(kept, u) = Act(table, u)
           /\ kept # table => Act(kept, t) = {}
           /\ Fits(table', u, blind)
           /\ u # t /\ AlarmIsLast(table, u) => AlarmIsLast(table', u)
<1>0. "recovered" \in Closed \ {"open"} /\ table \in Seq(Row)
  BY DEF Closed, TrackerInv, TrackerTypeOK
<1>1. kept = table \/ kept = Clr(table, t, "recovered")
  BY TablesAgree
<1>2. \A v \in Target : Fits(table, v, blind)
  BY DEF TrackerInv, Right
<1>3. /\ kept \in Seq(Row)
      /\ u # t => Act(kept, u) = Act(table, u)
      /\ kept # table => Act(kept, t) = {}
  BY <1>0, <1>1, ClearKeeps
<1>4. /\ PairsFit(kept, t, blind) /\ RowsFit(kept, t)
      /\ AlarmIsLast(table, t) => AlarmIsLast(kept, t)
  BY <1>0, <1>1, <1>2, ClearedFits DEF Fits
<1>5. /\ u # t => Fits(kept, u, blind)
      /\ AlarmIsLast(table, u) => AlarmIsLast(kept, u)
  BY <1>0, <1>1, <1>2, ClearedFits DEF Fits
<1>6. table' \in Seq(Row) /\ Act(table', u) = Act(kept, u)
  <2>1. r.closed # "open"
    OBVIOUS
  <2> QED
    BY <1>3, <2>1, AppendKeeps
<1>7. Fits(table', u, blind)
  <2>1. CASE u = t
    BY <2>1, <1>2, <1>3, <1>4, RecoveryFits
  <2>2. CASE u # t
    BY <2>2, <1>2, <1>3, <1>5, OtherAppendFits
  <2> QED
    BY <2>1, <2>2
<1>8. u # t /\ AlarmIsLast(table, u) => AlarmIsLast(table', u)
  BY <1>2, <1>3, <1>5, OtherAppendFits
<1> QED
  BY <1>3, <1>6, <1>7, <1>8

\* The row of a new alarm.
LEMMA RaisedTable ==
    ASSUME TrackerInv, NEW t \in Target, NEW r \in Row, r.target = t, r.alarm = "alarm",
           r.closed = "open", table' = Append(table, r),
           blind \subseteq blind', Act(table, t) # {} => t \in blind',
           NEW u \in Target
    PROVE  /\ table' \in Seq(Row)
           /\ u # t => Act(table', u) = Act(table, u)
           /\ Act(table', t) = Act(table, t) \cup {Len(table) + 1}
           /\ Fits(table', u, blind')
           /\ AlarmIsLast(table, u) => AlarmIsLast(table', u)
           /\ AlarmIsLast(table', t)
<1>1. table \in Seq(Row)
  BY DEF TrackerInv, TrackerTypeOK
<1>2. \A v \in Target : Fits(table, v, blind)
  BY DEF TrackerInv, Right
<1>3. /\ table' \in Seq(Row)
      /\ u # t => Act(table', u) = Act(table, u)
      /\ Act(table', t) = Act(table, t) \cup {Len(table) + 1}
  BY <1>1, AppendKeeps
<1>4. Fits(table', t, blind') /\ AlarmIsLast(table', t)
  BY <1>1, <1>2, AlarmFits
<1>5. u # t => Fits(table', u, blind') /\ (AlarmIsLast(table, u) => AlarmIsLast(table', u))
  <2> SUFFICES ASSUME u # t
               PROVE  Fits(table', u, blind') /\ (AlarmIsLast(table, u) => AlarmIsLast(table', u))
    OBVIOUS
  <2>1. Fits(table, u, blind')
    BY <1>1, <1>2, BlindGrows
  <2> QED
    BY <1>1, <2>1, OtherAppendFits
<1> QED
  BY <1>3, <1>4, <1>5

-------------------------------------------------------------------------------
\* A step that changes one target has only that target to be proved right.
LEMMA OneChanges ==
    ASSUME TrackerInv, NEW t \in Target, TrackerTypeOK', \A u \in Target \ {t} : Alike(u), Right(t)'
    PROVE  TrackerInv'
<1>1. \A u \in Target \ {t} : Right(u)'
  BY AlikeRight DEF TrackerInv
<1> QED
  BY <1>1 DEF TrackerInv

\* The state a report of t may start from: what the Tracker holds, or a new one.
MayStart(t, s) ==
    /\ s \in DevState /\ Listed(t, s)
    /\ ~s.normal /\ began[t] = "raised" => AlarmIsLast(table, t)

\* A report starts from what the Tracker holds, or from a new state machine.
LEMMA FreshStarts ==
    ASSUME TrackerInv, NEW t \in Target
    PROVE  Fresh \in DevState /\ MayStart(t, Fresh) /\ MayStart(t, st[t])
BY DEF TrackerInv, TrackerTypeOK, Right, MayStart, Listed, Fresh, DevState

\* The first success clears what an earlier process left, or fails to.
LEMMA ReconcileRight ==
    ASSUME TrackerInv, NEW t \in Target, NEW s, MayStart(t, s), NEW fault \in BOOLEAN,
           Reconcile(t, s, fault), UNCHANGED frame, was' \in [Channel -> BOOLEAN]
    PROVE  TrackerInv'
<1> USE DEF Reconcile, SetState, frame, MayStart
<1>1. st' \in [Target -> DevState] /\ st'[t].normal /\ \A u \in Target \ {t} : st'[u] = st[u]
  BY DEF TrackerInv, TrackerTypeOK, DevState
<1>2. CASE fault
  <2>1. TrackerTypeOK'
    BY <1>1, <1>2 DEF TrackerInv, TrackerTypeOK
  <2>2. \A u \in Target : /\ Act(table', u) = Act(table, u) /\ Fits(table', u, blind)
                          /\ AlarmIsLast(table, u) => AlarmIsLast(table', u)
    BY <1>2, SameTable
  <2>3. \A u \in Target \ {t} : Alike(u)
    BY <1>1, <1>2, <2>2 DEF Alike
  <2>4. Right(t)'
    BY <1>1, <1>2, <2>2, TablesAgree DEF TrackerInv, Right, Listed, ActiveRows, Act
  <2> QED
    BY <2>1, <2>3, <2>4, OneChanges
<1>3. CASE ~fault
  <2>0. "reconciled" \in Closed \ {"open"} /\ table' = ClearedRows(t, "reconciled")
    BY <1>3 DEF Closed
  <2>2. \A u \in Target : /\ table' \in Seq(Row)
                          /\ Act(table', u) = IF u = t THEN {} ELSE Act(table, u)
                          /\ Fits(table', u, blind)
                          /\ AlarmIsLast(table, u) => AlarmIsLast(table', u)
    BY <2>0, ClearedTable
  <2>1. TrackerTypeOK'
    BY <1>1, <1>3, <2>2 DEF TrackerInv, TrackerTypeOK
  <2>3. \A u \in Target \ {t} : Alike(u)
    BY <1>1, <1>3, <2>2 DEF Alike
  <2>4. Act(table', t) = {} /\ ActiveRows(t)' = Act(table', t)
    BY <2>2 DEF ActiveRows, Act
  <2>5. Right(t)'
    BY <1>1, <1>3, <2>2, <2>4 DEF Right, Listed
  <2> QED
    BY <2>1, <2>3, <2>5, OneChanges
<1> QED
  BY <1>2, <1>3

\* A report that only counts.
LEMMA UnremarkableRight ==
    ASSUME TrackerInv, NEW t \in Target, NEW s, MayStart(t, s), NEW ok \in BOOLEAN,
           Unremarkable(t, s, ok), UNCHANGED frame, was' \in [Channel -> BOOLEAN]
    PROVE  TrackerInv'
<1> USE DEF Unremarkable, SetState, frame, MayStart, ledger
<1>0. s \in DevState
  OBVIOUS
<1>1. /\ st' \in [Target -> DevState] /\ \A u \in Target \ {t} : st'[u] = st[u]
      /\ st'[t].normal = s.normal /\ st'[t].reconciled = s.reconciled
  <2>1. PICK x : /\ st' = [st EXCEPT ![t] = x]
                 /\ x \in DevState /\ x.normal = s.normal /\ x.reconciled = s.reconciled
    <3>1. /\ s \in DevState /\ [s EXCEPT !.fails = 0] \in DevState
          /\ [s EXCEPT !.fails = @ + 1] \in DevState
      BY <1>0 DEF DevState
    <3> QED
      BY <3>1 DEF DevState
  <2> QED
    BY <2>1 DEF TrackerInv, TrackerTypeOK
<1>2. TrackerTypeOK'
  BY <1>1 DEF TrackerInv, TrackerTypeOK
<1>3. \A u \in Target : /\ Act(table', u) = Act(table, u) /\ Fits(table', u, blind)
                        /\ AlarmIsLast(table, u) => AlarmIsLast(table', u)
  BY SameTable
<1>4. \A u \in Target \ {t} : Alike(u)
  BY <1>1, <1>3 DEF Alike
<1>5. ActiveRows(t)' = ActiveRows(t)
  BY <1>3, TablesAgree DEF ActiveRows, Act
<1>6. Right(t)'
  BY <1>1, <1>3, <1>5 DEF TrackerInv, Right, Listed
<1> QED
  BY <1>2, <1>4, <1>6, OneChanges

\* What the number of a new row does to handing.
LEMMA RowNumber ==
    ASSUME TrackerInv
    PROVE  \A k : [handing EXCEPT ![k] = Len(table) + 1] \in [Kind -> Nat]
<1>1. table \in Seq(Row) /\ handing \in [Kind -> Nat]
  BY DEF TrackerInv, TrackerTypeOK
<1>2. Len(table) + 1 \in Nat
  BY <1>1
<1> QED
  BY <1>1, <1>2

\* The edge to normal, with or without failing statements.
LEMMA RecoverRight ==
    ASSUME TrackerInv, NEW t \in Target, NEW s, MayStart(t, s), NEW clearFails \in BOOLEAN,
           NEW createFails \in BOOLEAN, Recover(t, s, clearFails, createFails), UNCHANGED frame,
           was' \in [Channel -> BOOLEAN]
    PROVE  TrackerInv'
<1> USE DEF SetState, frame
<1>1. /\ st' \in [Target -> DevState] /\ \A u \in Target \ {t} : st'[u] = st[u]
      /\ st'[t].normal
  <2>1. Recovered(s) \in DevState /\ Recovered(s).normal
    BY DEF MayStart, Recovered, DevState
  <2> QED
    BY <2>1 DEF Recover, TrackerInv, TrackerTypeOK
<1>2. /\ \A u \in Target \ {t} : /\ u \in stuck => u \in stuck'
                                 /\ u \in ghost => u \in ghost'
                                 /\ u \in wiped => u \in wiped'
      /\ {stuck', ghost', wiped'} \subseteq SUBSET Target
      /\ UNCHANGED <<began, blind, enabled, polled, clearing>>
      /\ clearFails => ghost' = ghost /\ (ActiveRows(t) # {} => t \in stuck')
  BY DEF Recover, TrackerInv, TrackerTypeOK
\* It remains to see that the rows of all targets are right and those of t cleared.
<1>3. SUFFICES /\ table' \in Seq(Row) /\ handing' \in [Kind -> Nat]
               /\ \A u \in Target : Fits(table', u, blind)
               /\ \A u \in Target \ {t} : /\ Act(table', u) = Act(table, u)
                                          /\ AlarmIsLast(table, u) => AlarmIsLast(table', u)
               /\ Act(table', t) = IF clearFails THEN ActiveRows(t) ELSE {}
  <2>1. TrackerTypeOK'
    BY <1>1, <1>2, <1>3 DEF TrackerInv, TrackerTypeOK
  <2>2. \A u \in Target \ {t} : Alike(u)
    BY <1>1, <1>2, <1>3 DEF Alike
  <2>3. ActiveRows(t)' = Act(table', t)
    BY DEF ActiveRows, Act
  <2>4. Right(t)'
    BY <1>1, <1>2, <1>3, <2>3 DEF TrackerInv, Right, Listed
  <2> QED
    BY <2>1, <2>2, <2>4, OneChanges
<1>4. CASE createFails
  <2>1. CASE clearFails
    <3>1. table' = table /\ handing' = handing
      BY <1>4, <2>1 DEF Recover
    <3> QED
      BY <3>1, <2>1, SameTable, TablesAgree DEF TrackerInv, TrackerTypeOK
  <2>2. CASE ~clearFails
    <3>1. /\ table' = ClearedRows(t, "unrecorded") /\ handing' = handing
          /\ "unrecorded" \in Closed \ {"open"} /\ "unrecorded" # "recovered"
      BY <1>4, <2>2 DEF Recover, Closed
    <3> QED
      BY <3>1, <2>2, ClearedTable DEF TrackerInv, TrackerTypeOK
  <2> QED
    BY <2>1, <2>2
<1>5. CASE ~createFails
  <2> DEFINE kept == IF clearFails THEN table ELSE ClearedRows(t, "recovered")
             r == [target |-> t, alarm |-> "recover", closed |-> "recovered",
                   silent |-> began[t] # "raised"]
  <2>1. table' = Append(kept, r) /\ handing' = [handing EXCEPT ![KindOf(t)] = Len(table) + 1]
    BY <1>5 DEF Recover
  <2>2. r \in Row /\ r.target = t /\ r.alarm = "recover" /\ r.closed = "recovered"
    BY DEF Row, Closed
  <2>3. r.silent \/ AlarmIsLast(table, t)
    BY DEF Recover, MayStart
  <2>4. kept \in {table, ClearedRows(t, "recovered")}
    OBVIOUS
  <2>5. handing' \in [Kind -> Nat]
    BY <2>1, RowNumber
  <2> HIDE DEF kept, r
  <2>6. \A u \in Target : /\ table' \in Seq(Row)
                          /\ Act(table', u) = Act(kept, u)
                          /\ u # t => Act(kept, u) = Act(table, u)
                          /\ Fits(table', u, blind)
                          /\ u # t /\ AlarmIsLast(table, u) => AlarmIsLast(table', u)
    BY <2>1, <2>2, <2>3, <2>4, RecoveredTable
  <2>7. Act(kept, t) = IF clearFails THEN ActiveRows(t) ELSE {}
    <3>1. "recovered" \in Closed \ {"open"} /\ table \in Seq(Row)
      BY DEF Closed, TrackerInv, TrackerTypeOK
    <3>2. Act(Clr(table, t, "recovered"), t) = {}
      BY <3>1, ClearKeeps
    <3> QED
      BY <3>2, TablesAgree DEF kept
  <2> QED
    BY <2>5, <2>6, <2>7
<1> QED
  BY <1>4, <1>5

\* What the three outcomes of an edge to abnormal have in common.
LEMMA EdgeState ==
    ASSUME TrackerInv, NEW t \in Target, NEW s, MayStart(t, s), Edge(t, s)
    PROVE  /\ st' \in [Target -> DevState] /\ \A u \in Target \ {t} : st'[u] = st[u]
           /\ ~st'[t].normal
           /\ wiped' = wiped \ {t}
<1>1. [normal |-> FALSE, fails |-> Threshold[t], reconciled |-> TRUE] \in DevState
  BY AlarmTrackerAssumption DEF DevState
<1> QED
  BY <1>1 DEF Edge, SetState, TrackerInv, TrackerTypeOK

\* Nothing is recorded: a row has been found, or none could be made.
LEMMA RaiseSilentRight ==
    ASSUME TrackerInv, NEW t \in Target, NEW s, MayStart(t, s), RaiseFound(t, s) \/ RaiseLost(t, s),
           UNCHANGED frame, was' \in [Channel -> BOOLEAN]
    PROVE  TrackerInv'
<1> USE DEF frame
<1>1. /\ st' \in [Target -> DevState] /\ \A u \in Target \ {t} : st'[u] = st[u]
      /\ ~st'[t].normal
      /\ wiped' = wiped \ {t}
  BY EdgeState DEF RaiseFound, RaiseLost
<1>2. /\ table' = table /\ UNCHANGED <<handing, stuck, blind, ghost>>
      /\ began' \in [Target -> {"raised", "found", "lost"}]
      /\ \A u \in Target \ {t} : began'[u] = began[u]
      /\ \/ began'[t] = "found" /\ ActiveRows(t) # {}
         \/ began'[t] = "lost"
  BY DEF RaiseFound, RaiseLost, TrackerInv, TrackerTypeOK
<1>3. TrackerTypeOK'
  BY <1>1, <1>2 DEF TrackerInv, TrackerTypeOK
<1>4. \A u \in Target : /\ Act(table', u) = Act(table, u) /\ Fits(table', u, blind)
                        /\ AlarmIsLast(table, u) => AlarmIsLast(table', u)
  BY <1>2, SameTable
<1>5. \A u \in Target \ {t} : Alike(u)
  BY <1>1, <1>2, <1>4 DEF Alike
<1>6. ActiveRows(t)' = ActiveRows(t)
  BY <1>4, TablesAgree DEF ActiveRows, Act
<1>7. Right(t)'
  BY <1>1, <1>2, <1>4, <1>6 DEF TrackerInv, Right, Listed
<1> QED
  BY <1>3, <1>5, <1>7, OneChanges

\* The edge to abnormal with a row of its own.
LEMMA RaiseCreatedRight ==
    ASSUME TrackerInv, NEW t \in Target, NEW s, MayStart(t, s), NEW lookupFails \in BOOLEAN,
           RaiseCreated(t, s, lookupFails), UNCHANGED frame, was' \in [Channel -> BOOLEAN]
    PROVE  TrackerInv'
<1> USE DEF frame
<1> DEFINE r == [target |-> t, alarm |-> "alarm", closed |-> "open", silent |-> FALSE]
<1>1. /\ st' \in [Target -> DevState] /\ \A u \in Target \ {t} : st'[u] = st[u]
      /\ ~st'[t].normal
      /\ wiped' = wiped \ {t}
  BY EdgeState DEF RaiseCreated
<1>2. /\ table' = Append(table, r) /\ handing' \in [Kind -> Nat] /\ UNCHANGED stuck
      /\ began' = [began EXCEPT ![t] = "raised"]
      /\ blind' \in SUBSET Target /\ blind \subseteq blind'
      /\ \A u \in Target \ {t} : u \in blind' => u \in blind
      /\ Act(table, t) # {} => t \in blind'
      /\ ghost' \in SUBSET Target /\ ghost \subseteq ghost'
      /\ enabled[t] \/ t \in clearing \/ t \in ghost'
  <2>1. /\ table' = Append(table, r) /\ UNCHANGED stuck
        /\ began' = [began EXCEPT ![t] = "raised"]
        /\ handing' = [handing EXCEPT ![KindOf(t)] = Len(table) + 1]
    BY DEF RaiseCreated
  <2>2. handing' \in [Kind -> Nat]
    BY <2>1, RowNumber
  <2>3. /\ blind' \in SUBSET Target /\ blind \subseteq blind'
        /\ \A u \in Target \ {t} : u \in blind' => u \in blind
        /\ ActiveRows(t) # {} => t \in blind'
    BY DEF RaiseCreated, MayRaise, TrackerInv, TrackerTypeOK
  <2>4. /\ ghost' \in SUBSET Target /\ ghost \subseteq ghost'
        /\ enabled[t] \/ t \in clearing \/ t \in ghost'
    BY DEF RaiseCreated, TrackerInv, TrackerTypeOK
  <2> QED
    BY <2>1, <2>2, <2>3, <2>4, TablesAgree
<1>3. r \in Row /\ r.target = t /\ r.alarm = "alarm" /\ r.closed = "open"
  BY DEF Row, Closed
<1> HIDE DEF r
<1>4. \A u \in Target : /\ table' \in Seq(Row)
                        /\ u # t => Act(table', u) = Act(table, u)
                        /\ Act(table', t) = Act(table, t) \cup {Len(table) + 1}
                        /\ Fits(table', u, blind')
                        /\ AlarmIsLast(table, u) => AlarmIsLast(table', u)
                        /\ AlarmIsLast(table', t)
  BY <1>2, <1>3, RaisedTable
<1>5. TrackerTypeOK'
  BY <1>1, <1>2, <1>4 DEF TrackerInv, TrackerTypeOK
<1>6. \A u \in Target \ {t} : Alike(u)
  BY <1>1, <1>2, <1>4 DEF Alike, TrackerInv, TrackerTypeOK
<1>7. ActiveRows(t)' = Act(table', t)
  BY DEF ActiveRows, Act
<1>8. Right(t)'
  <2>1. ActiveRows(t)' # {}
    BY <1>4, <1>7
  <2>2. t \notin blind' => \A i, j \in ActiveRows(t)' : i = j
    BY <1>2, <1>4, <1>7
  <2> QED
    BY <1>1, <1>2, <1>4, <2>1, <2>2 DEF Right, Listed
<1> QED
  BY <1>5, <1>6, <1>8, OneChanges

\* Whatever report does, from any state it may start from.
LEMMA ReportRight ==
    ASSUME TrackerInv, NEW t \in Target, NEW s, MayStart(t, s), NEW ok \in BOOLEAN,
           Report(t, s, ok) \/ ReportFaulty(t, s, ok), UNCHANGED frame, was' \in [Channel -> BOOLEAN]
    PROVE  TrackerInv'
<1>1. CASE Unremarkable(t, s, ok)
  BY <1>1, UnremarkableRight
<1>2. CASE \E fault \in BOOLEAN : Reconcile(t, s, fault)
  BY <1>2, ReconcileRight
<1>3. CASE \E a, b \in BOOLEAN : Recover(t, s, a, b)
  BY <1>3, RecoverRight
<1>4. CASE RaiseFound(t, s) \/ RaiseLost(t, s)
  BY <1>4, RaiseSilentRight
<1>5. CASE \E lookupFails \in BOOLEAN : RaiseCreated(t, s, lookupFails)
  BY <1>5, RaiseCreatedRight
<1> QED
  BY <1>1, <1>2, <1>3, <1>4, <1>5 DEF Report, ReportFaulty

\* The poll of a device.
LEMMA DevicePollRight ==
    ASSUME TrackerInv, NEW d \in Device, NEW ok \in BOOLEAN, ReportDevicePoll(d, ok)
    PROVE  TrackerInv'
<1>1. d \in Target /\ was' \in [Channel -> BOOLEAN] /\ UNCHANGED frame
  BY DEF ReportDevicePoll, Target, TrackerInv, TrackerTypeOK
<1>2. MayStart(d, st[d]) /\ Report(d, st[d], ok)
  BY <1>1, FreshStarts DEF ReportDevicePoll
<1> QED
  BY <1>1, <1>2, ReportRight

\* A scan may start from a fresh state.
LEMMA FoundStarts ==
    ASSUME TrackerInv, NEW t \in Target
    PROVE  MayStart(t, Found(t))
BY FreshStarts DEF Found

\* A scan that no longer finds a channel changes nothing else.
LEMMA ForgottenRight ==
    ASSUME TrackerInv, UNCHANGED <<st, table, handing, ledger>>, UNCHANGED frame,
           was' \in [Channel -> BOOLEAN]
    PROVE  TrackerInv'
<1>1. TrackerTypeOK'
  BY DEF TrackerInv, TrackerTypeOK, ledger, frame
<1> QED
  BY <1>1 DEF TrackerInv, Right, Listed, ActiveRows, ledger, frame

\* The scan of a channel.
LEMMA ScanRight ==
    ASSUME TrackerInv, NEW c \in Channel, NEW ok \in BOOLEAN, ScanChannel(c, ok)
    PROVE  TrackerInv'
<1>1. c \in Target /\ was' \in [Channel -> BOOLEAN] /\ UNCHANGED frame
  BY DEF ScanChannel, Target, TrackerInv, TrackerTypeOK
<1>2. CASE UNCHANGED <<st, table, handing, ledger>>
  BY <1>1, <1>2, ForgottenRight
<1>3. CASE Report(c, Found(c), ok)
  BY <1>1, <1>3, FoundStarts, ReportRight
<1> QED
  BY <1>2, <1>3 DEF ScanChannel

\* A poll or a scan with failing statements.
LEMMA FaultyRight ==
    ASSUME TrackerInv, NEW t \in Target, NEW ok \in BOOLEAN, Faulty(t, ok)
    PROVE  TrackerInv'
<1>1. was' \in [Channel -> BOOLEAN] /\ UNCHANGED frame
  BY DEF Faulty, TrackerInv, TrackerTypeOK
<1>2. MayStart(t, Found(t)) /\ ReportFaulty(t, Found(t), ok)
  BY FoundStarts DEF Faulty
<1> QED
  BY <1>1, <1>2, ReportRight

\* A service clears the rows of a target behind the Tracker's back.
LEMMA ServiceClearRight ==
    ASSUME TrackerInv, NEW t \in Target, ServiceClear(t)
    PROVE  TrackerInv'
<1> USE DEF ServiceClear, serviceFrame
<1>1. "cleared" \in Closed \ {"open"} /\ "cleared" # "recovered" /\ table' = ClearedRows(t, "cleared")
  BY DEF Closed
<1>2. \A u \in Target : /\ table' \in Seq(Row)
                        /\ Act(table', u) = IF u = t THEN {} ELSE Act(table, u)
                        /\ Fits(table', u, blind)
                        /\ AlarmIsLast(table, u) => AlarmIsLast(table', u)
  BY <1>1, ClearedTable
<1>3. TrackerTypeOK'
  BY <1>2 DEF TrackerInv, TrackerTypeOK
<1>4. \A u \in Target \ {t} : Alike(u)
  BY <1>2 DEF Alike
<1>5. ActiveRows(t)' = {}
  BY <1>2 DEF ActiveRows, Act
<1>6. Right(t)'
  BY <1>2, <1>5 DEF TrackerInv, Right, Listed
<1> QED
  BY <1>3, <1>4, <1>6, OneChanges

\* The other steps of the services leave the table and the state machines alone.
LEMMA StatusRight ==
    ASSUME TrackerInv, NEW t \in Target, Disable(t) \/ ServiceClearFails(t) \/ Enable(t) \/ Follow(t)
    PROVE  TrackerInv'
<1> USE DEF Disable, ServiceClearFails, Enable, Follow, serviceFrame
<1>1. TrackerTypeOK'
  <2>1. enabled' \in [Target -> BOOLEAN] /\ polled' \in [Target -> BOOLEAN]
    BY DEF TrackerInv, TrackerTypeOK
  <2>2. {clearing', stuck', blind', wiped', ghost'} \subseteq SUBSET Target
    BY DEF TrackerInv, TrackerTypeOK
  <2> QED
    BY <2>1, <2>2 DEF TrackerInv, TrackerTypeOK
<1>2. \A u \in Target : /\ Act(table', u) = Act(table, u) /\ Fits(table', u, blind)
                        /\ AlarmIsLast(table, u) => AlarmIsLast(table', u)
  BY SameTable
<1>3. \A u \in Target \ {t} : Alike(u)
  BY <1>2 DEF Alike, TrackerInv, TrackerTypeOK
<1>4. ActiveRows(t)' = ActiveRows(t)
  BY DEF ActiveRows
<1>5. Right(t)'
  <2>1. Listed(t, st[t])'
    BY <1>4 DEF TrackerInv, Right, Listed
  <2>2. (ActiveRows(t) # {} /\ ~enabled[t] /\ t \notin clearing => t \in ghost)'
    BY <1>4 DEF TrackerInv, TrackerTypeOK, Right
  <2> QED
    BY <1>2, <1>4, <2>1, <2>2 DEF TrackerInv, Right
<1> QED
  BY <1>1, <1>3, <1>5, OneChanges

\* A new process starts from the table and the configuration.
LEMMA RestartRight ==
    ASSUME TrackerInv, TrackerRestart
    PROVE  TrackerInv'
<1> USE DEF TrackerRestart
<1>1. Fresh \in DevState /\ Fresh.normal /\ ~Fresh.reconciled
  BY DEF Fresh, DevState
<1>2. TrackerTypeOK'
  BY <1>1 DEF TrackerInv, TrackerTypeOK
<1>3. ASSUME NEW u \in Target PROVE Right(u)'
  <2>1. st'[u] = Fresh
    OBVIOUS
  <2>2. ActiveRows(u)' = ActiveRows(u)
    BY DEF ActiveRows
  <2>3. Fits(table', u, blind')
    BY SameTable
  <2> QED
    BY <1>1, <2>1, <2>2, <2>3 DEF TrackerInv, Right, Listed
<1> QED
  BY <1>2, <1>3 DEF TrackerInv

\* report ends: the row has been handed to the notifier.
LEMMA HandedRight ==
    ASSUME TrackerInv, NEW k \in Kind, handing' = [handing EXCEPT ![k] = 0],
           UNCHANGED <<st, table, enabled, polled, was, clearing, ledger>>
    PROVE  TrackerInv'
<1>1. TrackerTypeOK'
  BY DEF TrackerInv, TrackerTypeOK, ledger
<1> QED
  BY <1>1 DEF TrackerInv, Right, Listed, ActiveRows, ledger

\* No alarm is recorded at first.
LEMMA InitRight == TrackerInit => TrackerInv
<1> SUFFICES ASSUME TrackerInit PROVE TrackerInv
  OBVIOUS
<1> USE DEF TrackerInit
<1>1. Fresh \in DevState /\ Fresh.normal
  BY DEF Fresh, DevState
<1>2. TrackerTypeOK
  BY <1>1 DEF TrackerTypeOK
<1>3. DOMAIN table = {}
  OBVIOUS
<1>4. ASSUME NEW u \in Target PROVE Right(u)
  <2>1. ActiveRows(u) = {}
    BY <1>3 DEF ActiveRows
  <2>2. Fits(table, u, blind)
    BY <1>3 DEF Fits, PairsFit, RowsFit, RecoveryFollows
  <2> QED
    BY <1>1, <2>1, <2>2 DEF Right, Listed
<1> QED
  BY <1>2, <1>4 DEF TrackerInv

\* The invariant says what the runs check.
LEMMA RightIsTrue ==
    ASSUME TrackerInv
    PROVE  ListIsTrue /\ EdgesAlternate
<1>1. table \in Seq(Row) /\ \A u \in Target : Right(u)
  BY DEF TrackerInv, TrackerTypeOK
<1>2. ListIsTrue
  BY <1>1 DEF ListIsTrue, OneActive, Right, Listed
<1>3. \A i \in DOMAIN table : table[i].target \in Target
  <2>1. \A i \in DOMAIN table : table[i] \in Row
    BY <1>1
  <2> QED
    BY <2>1 DEF Row
<1>4. \A u \in Target : Fits(table, u, blind)
  BY <1>1 DEF Right
<1>5. ASSUME NEW i \in DOMAIN table, NEW j \in DOMAIN table, Successive(i, j)
      PROVE  \/ table[i].alarm # table[j].alarm
             \/ table[j].alarm = "alarm" /\ (table[i].closed \in {"unrecorded", "cleared", "reconciled"}
                                             \/ table[i].target \in blind)
             \/ table[j].alarm = "recover" /\ table[j].silent
  <2>1. Consecutive(table, i, j)
    BY <1>5 DEF Successive, Consecutive
  <2> QED
    BY <1>3, <1>4, <2>1 DEF Fits, PairsFit, PairFits
<1>6. ASSUME NEW j \in DOMAIN table, table[j].alarm = "recover", ~table[j].silent
      PROVE  \E i \in 1 .. j - 1 : table[i].target = table[j].target
  <2>1. RowFits(table, j)
    BY <1>3, <1>4 DEF Fits, RowsFit
  <2>2. DOMAIN table = 1 .. Len(table) /\ Len(table) \in Nat
    BY <1>1
  <2> QED
    BY <1>6, <2>1, <2>2 DEF RowFits
<1>7. EdgesAlternate
  BY <1>5, <1>6 DEF EdgesAlternate
<1> QED
  BY <1>2, <1>7

-------------------------------------------------------------------------------
(***************************************************************************)
(* The steps of Notifier: each keeps the counters of the status page       *)
(* exact, and loses no worker that Stop or a reload would have to stop.    *)
(***************************************************************************)
\* The event that a worker is delivering.
Held(s) == IF s.hand = {} THEN 0 ELSE 1

\* Events got are those sent, failed, dropped, abandoned, in the queue and in hand.
Balanced(g, a, b, c, d, l, h) == g = a + b + c + d + l + h

\* A worker accounts for what it was given, and holds an event exactly while it delivers it.
WorkerOK(s) ==
    /\ s \in WorkerState /\ Len(s.q) <= QueueSize
    /\ Balanced(s.got, s.sent, s.failed, s.dropped, s.abandoned, Len(s.q), Held(s))
    /\ s.pc \in {"new", "run", "done"} => s.hand = {}
    /\ s.pc \in {"deliver", "backoff"} => s.hand # {}

\* Every event that Notify was given is somewhere.
IngressOK == offered + recounted = taken + ingressDropped + Len(ingress)

\* A worker that runs is in the table, or somebody is about to put it there or to stop it.
Owned(w) == inst[w].pc \in {"new", "done"}
            \/ w \in workers \cup stopping.left \cup reload.next \cup reload.stop

\* Nothing else is in a reload or a Stop than the phase they are in calls for, and a reload
\* forgets none of the workers of the table.
PhasesOK ==
    /\ reload.pc = "idle" => reload.next = {} /\ reload.stop = {}
    /\ reload.pc = "publish" => workers \subseteq reload.next \cup reload.stop
    /\ reload.pc = "stop" => reload.next = {}
    /\ stopping.pc = "no" => stopping.left = {}
    /\ running => stopping.pc = "no"
    /\ running \/ stopping.pc # "no" => starts > 0

NotifierInv ==
    /\ NotifierTypeOK /\ IngressOK /\ PhasesOK
    /\ \A w \in Worker : WorkerOK(inst[w]) /\ Owned(w)

-------------------------------------------------------------------------------
\* A worker as it is before it is started, whatever it is started for.
LEMMA NewWorkerOK ==
    /\ WorkerOK(NotStarted) /\ NotStarted.pc = "new"
    /\ \A h \in Hook, v \in Nat :
        WorkerOK([NotStarted EXCEPT !.hook = h, !.version = v, !.pc = "run"])
<1>1. (CHOOSE h \in Hook : TRUE) \in Hook
  BY NotifierAssumption
<1>2. /\ NotStarted \in WorkerState /\ NotStarted.q = <<>> /\ NotStarted.hand = {} /\ NotStarted.pc = "new"
      /\ NotStarted.got = 0 /\ NotStarted.sent = 0 /\ NotStarted.failed = 0 /\ NotStarted.dropped = 0
      /\ NotStarted.abandoned = 0
  BY <1>1 DEF NotStarted, WorkerState
<1>3. Len(<<>>) = 0 /\ QueueSize \in Nat
  BY NotifierAssumption
<1>4. WorkerOK(NotStarted)
  BY <1>2, <1>3 DEF WorkerOK, Held, Balanced
<1>5. ASSUME NEW h \in Hook, NEW v \in Nat
      PROVE  WorkerOK([NotStarted EXCEPT !.hook = h, !.version = v, !.pc = "run"])
  <2> DEFINE s == [NotStarted EXCEPT !.hook = h, !.version = v, !.pc = "run"]
  <2>1. /\ s \in WorkerState /\ s.q = <<>> /\ s.hand = {} /\ s.pc = "run"
        /\ s.got = 0 /\ s.sent = 0 /\ s.failed = 0 /\ s.dropped = 0 /\ s.abandoned = 0
    BY <1>2 DEF WorkerState
  <2> HIDE DEF s
  <2>2. WorkerOK(s)
    BY <1>3, <2>1 DEF WorkerOK, Held, Balanced
  <2> QED
    BY <2>2 DEF s
<1> QED
  BY <1>2, <1>4, <1>5

\* One worker changes, and neither begins nor comes back.
LEMMA OneWorker ==
    ASSUME NotifierInv, NEW w \in Worker, NEW s, WorkerOK(s), inst' = [inst EXCEPT ![w] = s],
           inst[w].pc \in {"new", "done"} => s.pc = inst[w].pc,
           UNCHANGED <<workers, stopping, reload>>
    PROVE  /\ inst' \in [Worker -> WorkerState]
           /\ \A v \in Worker : Len(inst'[v].q) <= QueueSize /\ WorkerOK(inst'[v]) /\ Owned(v)'
<1>1. inst \in [Worker -> WorkerState] /\ s \in WorkerState
  BY DEF NotifierInv, NotifierTypeOK, WorkerOK
<1>2. inst' \in [Worker -> WorkerState] /\ inst'[w] = s /\ \A v \in Worker \ {w} : inst'[v] = inst[v]
  BY <1>1
<1>3. \A v \in Worker : WorkerOK(inst'[v])
  BY <1>2 DEF NotifierInv
<1>4. \A v \in Worker : Owned(v)'
  BY <1>2 DEF NotifierInv, Owned
<1> QED
  BY <1>2, <1>3, <1>4 DEF WorkerOK

-------------------------------------------------------------------------------
\* An event is queued, or counted as dropped.
LEMMA NotifyKeeps ==
    ASSUME NotifierInv, NEW ev \in Nat, NotifyQueued(ev) \/ NotifyRefused
    PROVE  NotifierInv'
<1> USE DEF NotifyQueued, NotifyRefused, control
<1>1. UNCHANGED <<conf, running, starts, quitted, loading, refreshers, taken, recounted, workers, inst,
                  loops, reload, stopping>>
  OBVIOUS
<1>2. /\ ingress \in Seq(Nat) /\ Len(ingress) <= IngressSize /\ IngressSize \in Nat
      /\ offered \in Nat /\ taken \in Nat /\ ingressDropped \in Nat /\ recounted \in Nat
  BY NotifierAssumption DEF NotifierInv, NotifierTypeOK
<1>3. /\ ingress' \in Seq(Nat) /\ Len(ingress') <= IngressSize
      /\ offered' \in Nat /\ ingressDropped' \in Nat
      /\ offered' + recounted = taken + ingressDropped' + Len(ingress')
  <2>0. offered + recounted = taken + ingressDropped + Len(ingress) /\ Len(ingress) \in Nat
    BY <1>2 DEF NotifierInv, IngressOK
  <2>1. CASE NotifyQueued(ev) /\ MayQueue
    <3>1. /\ ingress' = Append(ingress, ev) /\ ingressDropped' = ingressDropped
          /\ offered' = offered + 1 /\ Len(ingress) < IngressSize
      BY <2>1 DEF MayQueue
    <3>2. ingress' \in Seq(Nat) /\ Len(ingress') = Len(ingress) + 1
      BY <1>2, <3>1
    <3> QED
      BY <1>2, <2>0, <3>1, <3>2
  <2>2. CASE NotifyRefused \/ ~MayQueue
    <3>1. /\ ingress' = ingress /\ ingressDropped' = ingressDropped + 1
          /\ offered' = offered + 1
      BY <2>2
    <3> QED
      BY <1>2, <2>0, <3>1
  <2> QED
    BY <2>1, <2>2
<1>4. NotifierTypeOK' /\ IngressOK'
  BY <1>1, <1>3 DEF NotifierInv, NotifierTypeOK, IngressOK
<1> QED
  BY <1>1, <1>4 DEF NotifierInv, PhasesOK, Owned

\* A fanout loop takes an event, reads the table of workers, or ends.
LEMMA LoopKeeps ==
    ASSUME NotifierInv, NEW e \in Epoch, LoopTake(e) \/ LoopQuit(e) \/ LoopSnapshot(e)
    PROVE  NotifierInv'
<1> USE DEF loopFrame, control, queues
<1>1. UNCHANGED <<conf, running, starts, quitted, loading, refreshers, offered, ingressDropped, recounted,
                  workers, inst, reload, stopping>>
  BY DEF LoopTake, LoopQuit, LoopSnapshot
<1>2. /\ ingress \in Seq(Nat) /\ Len(ingress) <= IngressSize /\ IngressSize \in Nat
      /\ offered \in Nat /\ taken \in Nat /\ ingressDropped \in Nat /\ recounted \in Nat
      /\ loops \in [Epoch -> Loop] /\ workers \in SUBSET Worker
  BY NotifierAssumption DEF NotifierInv, NotifierTypeOK
<1>3. /\ ingress' \in Seq(Nat) /\ Len(ingress') <= IngressSize /\ taken' \in Nat
      /\ offered + recounted = taken' + ingressDropped + Len(ingress')
      /\ loops' \in [Epoch -> Loop]
  <2>1. CASE LoopTake(e)
    <3>0. loops' = [loops EXCEPT ![e].pc = "snapshot", ![e].ev = Head(ingress)]
      BY <2>1 DEF LoopTake
    <3>1. ingress' = Tail(ingress) /\ taken' = taken + 1 /\ ingress # <<>>
      BY <2>1 DEF LoopTake
    <3>2. Head(ingress) \in Nat /\ Tail(ingress) \in Seq(Nat) /\ Len(Tail(ingress)) = Len(ingress) - 1
      BY <1>2, <3>1
    <3>3. loops' \in [Epoch -> Loop]
      BY <1>2, <3>0, <3>2 DEF Loop
    <3>4. offered + recounted = taken + ingressDropped + Len(ingress) /\ Len(ingress) \in Nat
      BY <1>2 DEF NotifierInv, IngressOK
    <3>5. /\ ingress' \in Seq(Nat) /\ Len(ingress') <= IngressSize /\ taken' \in Nat
          /\ offered + recounted = taken' + ingressDropped + Len(ingress')
      BY <1>2, <3>1, <3>2, <3>4
    <3> QED
      BY <3>3, <3>5
  <2>2. CASE LoopQuit(e)
    BY <1>2, <2>2 DEF LoopQuit, Loop, NotifierInv, IngressOK
  <2>3. CASE LoopSnapshot(e)
    BY <1>2, <2>3 DEF LoopSnapshot, GoOn, Loop, NotifierInv, IngressOK
  <2> QED
    BY <2>1, <2>2, <2>3
<1>4. NotifierTypeOK' /\ IngressOK'
  BY <1>1, <1>3 DEF NotifierInv, NotifierTypeOK, IngressOK
<1> QED
  BY <1>1, <1>4 DEF NotifierInv, PhasesOK, Owned

-------------------------------------------------------------------------------
\* The counters of a worker are natural numbers.
LEMMA WorkerCounts ==
    ASSUME NEW s, WorkerOK(s)
    PROVE  /\ s.got \in Nat /\ s.sent \in Nat /\ s.failed \in Nat /\ s.dropped \in Nat
           /\ s.abandoned \in Nat /\ Len(s.q) \in Nat /\ Held(s) \in Nat
           /\ QueueSize \in Nat
<1>1. /\ s.q \in Seq(Nat) /\ s.got \in Nat /\ s.sent \in Nat /\ s.failed \in Nat
      /\ s.dropped \in Nat /\ s.abandoned \in Nat
  BY DEF WorkerOK, WorkerState
<1>2. QueueSize \in Nat
  BY NotifierAssumption
<1>3. Held(s) \in Nat
  BY DEF Held
<1>4. Len(s.q) \in Nat
  BY <1>1
<1> QED
  BY <1>1, <1>2, <1>3, <1>4

\* A queue that is not empty has a head and a shorter tail.
LEMMA WorkerQueue ==
    ASSUME NEW s, WorkerOK(s), s.q # <<>>
    PROVE  /\ Head(s.q) \in Nat /\ Tail(s.q) \in Seq(Nat) /\ Len(Tail(s.q)) = Len(s.q) - 1
           /\ Len(s.q) > 0
<1>1. s.q \in Seq(Nat)
  BY DEF WorkerOK, WorkerState
<1> QED
  BY <1>1

\* An event received or counted out, one that moves on, and the abandoned ones counted.
LEMMA Moves ==
    \A g, a, b, c, d, l, h \in Nat : Balanced(g, a, b, c, d, l, h) =>
        /\ Balanced(g + 1, a, b, c, d, l + 1, h) /\ Balanced(g + 1, a, b, c + 1, d, l, h)
        /\ Balanced(g, a, b, c + d, 0, l, h)
        /\ l > 0 => /\ Balanced(g, a, b, c + 1, d, l - 1, h) /\ Balanced(g, a, b, c, d + 1, l - 1, h)
                    /\ Balanced(g, a, b, c, d, l - 1, h + 1)
        /\ h > 0 => /\ Balanced(g, a + 1, b, c, d, l, h - 1) /\ Balanced(g, a, b + 1, c, d, l, h - 1)
BY DEF Balanced

\* What they mean for the counters of a worker.
LEMMA Moved ==
    ASSUME NEW s, WorkerOK(s)
    PROVE  /\ Balanced(s.got, s.sent, s.failed, s.dropped, s.abandoned, Len(s.q), Held(s))
           /\ Balanced(s.got + 1, s.sent, s.failed, s.dropped, s.abandoned, Len(s.q) + 1, Held(s))
           /\ Balanced(s.got + 1, s.sent, s.failed, s.dropped + 1, s.abandoned, Len(s.q), Held(s))
           /\ Balanced(s.got, s.sent, s.failed, s.dropped + s.abandoned, 0, Len(s.q), Held(s))
           /\ Len(s.q) > 0 =>
                /\ Balanced(s.got, s.sent, s.failed, s.dropped + 1, s.abandoned, Len(s.q) - 1, Held(s))
                /\ Balanced(s.got, s.sent, s.failed, s.dropped, s.abandoned + 1, Len(s.q) - 1, Held(s))
                /\ Balanced(s.got, s.sent, s.failed, s.dropped, s.abandoned, Len(s.q) - 1, Held(s) + 1)
           /\ Held(s) > 0 =>
                /\ Balanced(s.got, s.sent + 1, s.failed, s.dropped, s.abandoned, Len(s.q), Held(s) - 1)
                /\ Balanced(s.got, s.sent, s.failed + 1, s.dropped, s.abandoned, Len(s.q), Held(s) - 1)
<1>1. Balanced(s.got, s.sent, s.failed, s.dropped, s.abandoned, Len(s.q), Held(s))
  BY DEF WorkerOK
<1>2. /\ s.got \in Nat /\ s.sent \in Nat /\ s.failed \in Nat /\ s.dropped \in Nat
      /\ s.abandoned \in Nat /\ Len(s.q) \in Nat /\ Held(s) \in Nat
  BY WorkerCounts
<1> QED
  BY <1>1, <1>2, Moves

\* A worker with room is given an event.
LEMMA ReceivedOK ==
    ASSUME NEW s, WorkerOK(s), NEW ev \in Nat, Len(s.q) < QueueSize
    PROVE  WorkerOK([s EXCEPT !.q = Append(s.q, ev), !.got = s.got + 1])
<1> DEFINE x == [s EXCEPT !.q = Append(s.q, ev), !.got = s.got + 1]
<1>1. s \in WorkerState /\ s.got + 1 \in Nat
      /\ Append(s.q, ev) \in Seq(Nat) /\ Len(Append(s.q, ev)) = Len(s.q) + 1
  <2>1. s.q \in Seq(Nat)
    BY DEF WorkerOK, WorkerState
  <2> QED
    BY <2>1, WorkerCounts DEF WorkerOK
<1>2. x \in WorkerState
  BY <1>1 DEF WorkerState
<1>3. /\ Held(x) = Held(s) /\ Len(x.q) = Len(s.q) + 1 /\ x.got = s.got + 1
      /\ x.sent = s.sent /\ x.failed = s.failed /\ x.dropped = s.dropped /\ x.abandoned = s.abandoned
      /\ x.hand = s.hand /\ x.pc = s.pc
  BY <1>1 DEF WorkerState, Held
<1> HIDE DEF x
<1>4. Balanced(x.got, x.sent, x.failed, x.dropped, x.abandoned, Len(x.q), Held(x))
  BY <1>3, Moved
<1>5. Len(x.q) <= QueueSize
  BY <1>3, WorkerCounts
<1>6. WorkerOK(x)
  BY <1>2, <1>3, <1>4, <1>5 DEF WorkerOK
<1> QED
  BY <1>6 DEF x

\* The selects of enqueue that count an event out.
LEMMA CountedOutOK ==
    ASSUME NEW s, WorkerOK(s)
    PROVE  /\ s.q # <<>> => WorkerOK([s EXCEPT !.q = Tail(s.q), !.dropped = s.dropped + 1])
           /\ WorkerOK([s EXCEPT !.got = s.got + 1, !.dropped = s.dropped + 1])
<1>0. /\ s \in WorkerState /\ s.got + 1 \in Nat /\ s.dropped + 1 \in Nat
      /\ Len(s.q) \in Nat /\ Len(s.q) <= QueueSize /\ QueueSize \in Nat
  BY WorkerCounts DEF WorkerOK
<1>1. ASSUME s.q # <<>> PROVE WorkerOK([s EXCEPT !.q = Tail(s.q), !.dropped = s.dropped + 1])
  <2> DEFINE x == [s EXCEPT !.q = Tail(s.q), !.dropped = s.dropped + 1]
  <2>1. Tail(s.q) \in Seq(Nat) /\ Len(Tail(s.q)) = Len(s.q) - 1 /\ Len(s.q) > 0
    BY <1>1, WorkerQueue
  <2>2. x \in WorkerState
    BY <1>0, <2>1 DEF WorkerState
  <2>3. /\ Held(x) = Held(s) /\ Len(x.q) = Len(s.q) - 1 /\ x.dropped = s.dropped + 1 /\ x.got = s.got
        /\ x.sent = s.sent /\ x.failed = s.failed /\ x.abandoned = s.abandoned
        /\ x.hand = s.hand /\ x.pc = s.pc
    BY <1>0, <2>1 DEF WorkerState, Held
  <2> HIDE DEF x
  <2>4. Balanced(x.got, x.sent, x.failed, x.dropped, x.abandoned, Len(x.q), Held(x))
    BY <2>1, <2>3, Moved
  <2>5. WorkerOK(x)
    BY <1>0, <2>2, <2>3, <2>4 DEF WorkerOK
  <2> QED
    BY <2>5 DEF x
<1>2. WorkerOK([s EXCEPT !.got = s.got + 1, !.dropped = s.dropped + 1])
  <2> DEFINE x == [s EXCEPT !.got = s.got + 1, !.dropped = s.dropped + 1]
  <2>1. x \in WorkerState
    BY <1>0 DEF WorkerState
  <2>2. /\ Held(x) = Held(s) /\ x.q = s.q /\ x.dropped = s.dropped + 1 /\ x.got = s.got + 1
        /\ x.sent = s.sent /\ x.failed = s.failed /\ x.abandoned = s.abandoned
        /\ x.hand = s.hand /\ x.pc = s.pc
    BY <1>0 DEF WorkerState, Held
  <2> HIDE DEF x
  <2>3. Balanced(x.got, x.sent, x.failed, x.dropped, x.abandoned, Len(x.q), Held(x))
    BY <2>2, Moved
  <2>4. WorkerOK(x)
    BY <1>0, <2>1, <2>2, <2>3 DEF WorkerOK
  <2> QED
    BY <2>4 DEF x
<1> QED
  BY <1>1, <1>2

\* The worker takes an event into its hands.
LEMMA TakenOK ==
    ASSUME NEW s, WorkerOK(s), s.q # <<>>, s.pc = "run" \/ (s.pc = "drain" /\ s.hand = {})
    PROVE  WorkerOK([s EXCEPT !.q = Tail(s.q), !.hand = {Head(s.q)}, !.attempt = 1,
                              !.pc = IF s.pc = "run" THEN "deliver" ELSE s.pc])
<1> DEFINE x == [s EXCEPT !.q = Tail(s.q), !.hand = {Head(s.q)}, !.attempt = 1,
                          !.pc = IF s.pc = "run" THEN "deliver" ELSE s.pc]
<1>0. s \in WorkerState /\ Len(s.q) \in Nat /\ Len(s.q) <= QueueSize /\ QueueSize \in Nat /\ s.hand = {}
  BY WorkerCounts DEF WorkerOK
<1>1. Head(s.q) \in Nat /\ Tail(s.q) \in Seq(Nat) /\ Len(Tail(s.q)) = Len(s.q) - 1 /\ Len(s.q) > 0
  BY WorkerQueue
<1>2. x \in WorkerState
  BY <1>0, <1>1 DEF WorkerState
<1>3. /\ x.hand # {} /\ Held(x) = Held(s) + 1 /\ Len(x.q) = Len(s.q) - 1 /\ x.pc \in {"deliver", "drain"}
      /\ x.dropped = s.dropped /\ x.got = s.got
      /\ x.sent = s.sent /\ x.failed = s.failed /\ x.abandoned = s.abandoned
  BY <1>0, <1>1 DEF WorkerState, Held
<1> HIDE DEF x
<1>4. Balanced(x.got, x.sent, x.failed, x.dropped, x.abandoned, Len(x.q), Held(x))
  BY <1>1, <1>3, Moved
<1>5. WorkerOK(x)
  BY <1>0, <1>2, <1>3, <1>4 DEF WorkerOK
<1> QED
  BY <1>5 DEF x

\* The event in its hands is sent, or has failed.
LEMMA SettledOK ==
    ASSUME NEW s, WorkerOK(s), s.hand # {}, s.pc \in {"deliver", "backoff", "drain"}
    PROVE  /\ WorkerOK([AfterDelivery(s) EXCEPT !.sent = @ + 1])
           /\ WorkerOK([AfterDelivery(s) EXCEPT !.failed = @ + 1])
           /\ AfterDelivery(s).pc \in {"drain", "run"}
<1> DEFINE x == [AfterDelivery(s) EXCEPT !.sent = @ + 1]
           y == [AfterDelivery(s) EXCEPT !.failed = @ + 1]
<1>0. /\ s \in WorkerState /\ Len(s.q) \in Nat /\ Len(s.q) <= QueueSize /\ QueueSize \in Nat
      /\ s.sent + 1 \in Nat /\ s.failed + 1 \in Nat
  BY WorkerCounts DEF WorkerOK
<1>1. AfterDelivery(s) \in WorkerState /\ AfterDelivery(s).pc \in {"drain", "run"}
      /\ AfterDelivery(s).hand = {}
  BY <1>0 DEF AfterDelivery, WorkerState
<1>2. x \in WorkerState /\ y \in WorkerState
  BY <1>0 DEF AfterDelivery, WorkerState
<1>3. /\ x.hand = {} /\ Held(x) = Held(s) - 1 /\ x.q = s.q /\ x.pc \in {"drain", "run"}
      /\ x.dropped = s.dropped /\ x.got = s.got
      /\ x.sent = s.sent + 1 /\ x.failed = s.failed /\ x.abandoned = s.abandoned
  BY <1>0 DEF AfterDelivery, WorkerState, Held
<1>4. /\ y.hand = {} /\ Held(y) = Held(s) - 1 /\ y.q = s.q /\ y.pc \in {"drain", "run"}
      /\ y.dropped = s.dropped /\ y.got = s.got
      /\ y.sent = s.sent /\ y.failed = s.failed + 1 /\ y.abandoned = s.abandoned
  BY <1>0 DEF AfterDelivery, WorkerState, Held
<1> HIDE DEF x, y
<1>5. Held(s) > 0
  BY DEF Held
<1>6. WorkerOK(x)
  <2>1. Balanced(x.got, x.sent, x.failed, x.dropped, x.abandoned, Len(x.q), Held(x))
    BY <1>3, <1>5, Moved
  <2> QED
    BY <1>0, <1>2, <1>3, <2>1 DEF WorkerOK
<1>7. WorkerOK(y)
  <2>1. Balanced(y.got, y.sent, y.failed, y.dropped, y.abandoned, Len(y.q), Held(y))
    BY <1>4, <1>5, Moved
  <2> QED
    BY <1>0, <1>2, <1>4, <2>1 DEF WorkerOK
<1> QED
  BY <1>1, <1>6, <1>7 DEF x, y

\* A worker past its deadline throws an event away, or counts what it threw away.
LEMMA AbandonedOK ==
    ASSUME NEW s, WorkerOK(s), s.pc = "drain", s.hand = {}
    PROVE  /\ s.q # <<>> => WorkerOK([s EXCEPT !.q = Tail(s.q), !.abandoned = s.abandoned + 1])
           /\ WorkerOK([s EXCEPT !.pc = "done", !.dropped = s.dropped + s.abandoned, !.abandoned = 0])
<1>0. /\ s \in WorkerState /\ s.abandoned + 1 \in Nat /\ s.dropped + s.abandoned \in Nat
      /\ Len(s.q) \in Nat /\ Len(s.q) <= QueueSize /\ QueueSize \in Nat
  BY WorkerCounts DEF WorkerOK
<1>1. ASSUME s.q # <<>> PROVE WorkerOK([s EXCEPT !.q = Tail(s.q), !.abandoned = s.abandoned + 1])
  <2> DEFINE x == [s EXCEPT !.q = Tail(s.q), !.abandoned = s.abandoned + 1]
  <2>1. Tail(s.q) \in Seq(Nat) /\ Len(Tail(s.q)) = Len(s.q) - 1 /\ Len(s.q) > 0
    BY <1>1, WorkerQueue
  <2>2. x \in WorkerState
    BY <1>0, <2>1 DEF WorkerState
  <2>3. /\ Held(x) = Held(s) /\ Len(x.q) = Len(s.q) - 1 /\ x.abandoned = s.abandoned + 1 /\ x.got = s.got
        /\ x.sent = s.sent /\ x.failed = s.failed /\ x.dropped = s.dropped
        /\ x.hand = s.hand /\ x.pc = s.pc
    BY <1>0, <2>1 DEF WorkerState, Held
  <2> HIDE DEF x
  <2>4. Balanced(x.got, x.sent, x.failed, x.dropped, x.abandoned, Len(x.q), Held(x))
    BY <2>1, <2>3, Moved
  <2>5. WorkerOK(x)
    BY <1>0, <2>1, <2>2, <2>3, <2>4 DEF WorkerOK
  <2> QED
    BY <2>5 DEF x
<1>2. WorkerOK([s EXCEPT !.pc = "done", !.dropped = s.dropped + s.abandoned, !.abandoned = 0])
  <2> DEFINE x == [s EXCEPT !.pc = "done", !.dropped = s.dropped + s.abandoned, !.abandoned = 0]
  <2>1. x \in WorkerState
    BY <1>0 DEF WorkerState
  <2>2. /\ Held(x) = Held(s) /\ x.q = s.q /\ x.abandoned = 0 /\ x.got = s.got
        /\ x.sent = s.sent /\ x.failed = s.failed /\ x.dropped = s.dropped + s.abandoned
        /\ x.hand = {} /\ x.pc = "done"
    BY <1>0 DEF WorkerState, Held
  <2> HIDE DEF x
  <2>3. Balanced(x.got, x.sent, x.failed, x.dropped, x.abandoned, Len(x.q), Held(x))
    BY <2>2, Moved
  <2>4. WorkerOK(x)
    BY <1>0, <2>1, <2>2, <2>3 DEF WorkerOK
  <2> QED
    BY <2>4 DEF x
<1> QED
  BY <1>1, <1>2

\* Steps that touch neither the counters nor the events.
LEMMA MarkedOK ==
    ASSUME NEW s, WorkerOK(s)
    PROVE  /\ WorkerOK([s EXCEPT !.quit = TRUE])
           /\ s.pc = "run" => WorkerOK([s EXCEPT !.pc = "drain"])
           /\ s.pc = "deliver" => WorkerOK([s EXCEPT !.pc = "backoff"])
           /\ s.pc = "backoff" => WorkerOK([s EXCEPT !.pc = "deliver", !.attempt = s.attempt + 1])
<1> DEFINE Same(x) == /\ x \in WorkerState /\ x.q = s.q /\ x.hand = s.hand /\ x.got = s.got
                      /\ x.sent = s.sent /\ x.failed = s.failed /\ x.dropped = s.dropped
                      /\ x.abandoned = s.abandoned
<1>1. s \in WorkerState /\ s.attempt + 1 \in Nat
  BY DEF WorkerOK, WorkerState
<1>2. ASSUME NEW x, Same(x), x.pc = s.pc \/ (s.pc = "run" /\ x.pc = "drain")
                             \/ (s.pc = "deliver" /\ x.pc = "backoff")
                             \/ (s.pc = "backoff" /\ x.pc = "deliver")
      PROVE  WorkerOK(x)
  <2>1. Held(x) = Held(s)
    BY <1>2 DEF Held
  <2>2. Balanced(x.got, x.sent, x.failed, x.dropped, x.abandoned, Len(x.q), Held(x))
    BY <1>2, <2>1, Moved
  <2> QED
    BY <1>2, <2>2 DEF WorkerOK
<1>3. /\ Same([s EXCEPT !.quit = TRUE]) /\ [s EXCEPT !.quit = TRUE].pc = s.pc
      /\ Same([s EXCEPT !.pc = "drain"]) /\ [s EXCEPT !.pc = "drain"].pc = "drain"
      /\ Same([s EXCEPT !.pc = "backoff"]) /\ [s EXCEPT !.pc = "backoff"].pc = "backoff"
      /\ Same([s EXCEPT !.pc = "deliver", !.attempt = s.attempt + 1])
      /\ [s EXCEPT !.pc = "deliver", !.attempt = s.attempt + 1].pc = "deliver"
  BY <1>1 DEF WorkerState
<1> HIDE DEF Same
<1> QED
  BY <1>2, <1>3

-------------------------------------------------------------------------------
\* One worker changes and, where the fanout gave it an event, that loop.
LEMMA WorkerChanges ==
    ASSUME NotifierInv, NEW w \in Worker, NEW s, WorkerOK(s), inst' = [inst EXCEPT ![w] = s],
           inst[w].pc \in {"new", "done"} => s.pc = inst[w].pc,
           loops' \in [Epoch -> Loop],
           UNCHANGED <<conf, control, refreshers, queues, workers, reload, stopping>>
    PROVE  NotifierInv'
<1>1. /\ inst' \in [Worker -> WorkerState]
      /\ \A v \in Worker : Len(inst'[v].q) <= QueueSize /\ WorkerOK(inst'[v]) /\ Owned(v)'
  BY OneWorker
<1>2. NotifierTypeOK'
  BY <1>1 DEF NotifierInv, NotifierTypeOK, control, queues
<1>3. IngressOK' /\ PhasesOK'
  BY DEF NotifierInv, IngressOK, PhasesOK, control, queues
<1> QED
  BY <1>1, <1>2, <1>3 DEF NotifierInv

\* The three selects of enqueue.
LEMMA EnqueueKeeps ==
    ASSUME NotifierInv, NEW e \in Epoch, NEW w \in Worker,
           EnqueueTry(e, w) \/ EnqueueEvict(e, w) \/ EnqueueRetry(e, w)
    PROVE  NotifierInv'
<1> DEFINE s == inst[w]
<1>0. /\ WorkerOK(s) /\ inst \in [Worker -> WorkerState] /\ loops \in [Epoch -> Loop]
      /\ UNCHANGED <<conf, control, refreshers, queues, workers, reload, stopping>>
  BY DEF NotifierInv, NotifierTypeOK, EnqueueTry, EnqueueEvict, EnqueueRetry, loopFrame
<1>1. loops' \in [Epoch -> Loop]
  <2>1. CASE GoOn(e, loops[e].left \ {w})
    <3>1. loops[e].left \in SUBSET Worker /\ loops[e].ev \in Nat
      BY <1>0 DEF Loop
    <3>2. [pc |-> IF loops[e].left \ {w} = {} THEN "select" ELSE "try",
           ev |-> IF loops[e].left \ {w} = {} THEN 0 ELSE loops[e].ev,
           left |-> loops[e].left \ {w}, at |-> 0] \in Loop
      BY <3>1 DEF Loop
    <3> QED
      BY <1>0, <2>1, <3>2 DEF GoOn
  <2>2. CASE loops' = [loops EXCEPT ![e].pc = "evict", ![e].at = w]
    <3>1. w \in Nat
      BY DEF Worker
    <3> QED
      BY <1>0, <2>2, <3>1 DEF Loop
  <2>3. CASE loops' = [loops EXCEPT ![e].pc = "retry"]
    BY <1>0, <2>3 DEF Loop
  <2> QED
    BY <2>1, <2>2, <2>3 DEF EnqueueTry, EnqueueEvict, EnqueueRetry
<1>2. loops[e].ev \in Nat
  BY <1>0 DEF Loop
<1>3. \/ inst' = inst
      \/ Put(w, loops[e].ev) /\ Len(s.q) < QueueSize
      \/ inst' = [inst EXCEPT ![w].q = Tail(@), ![w].dropped = @ + 1] /\ s.q # <<>>
      \/ inst' = [inst EXCEPT ![w].got = @ + 1, ![w].dropped = @ + 1]
  BY DEF EnqueueTry, EnqueueEvict, EnqueueRetry
<1>4. PICK x : WorkerOK(x) /\ x.pc = s.pc /\ inst' = [inst EXCEPT ![w] = x]
  <2>1. CASE inst' = inst
    BY <1>0, <2>1
  <2>2. CASE Put(w, loops[e].ev) /\ Len(s.q) < QueueSize
    <3> DEFINE x == [s EXCEPT !.q = Append(s.q, loops[e].ev), !.got = s.got + 1]
    <3>1. WorkerOK(x)
      BY <1>0, <1>2, <2>2, ReceivedOK
    <3>2. x.pc = s.pc /\ inst' = [inst EXCEPT ![w] = x]
      BY <1>0, <2>2 DEF Put, WorkerState
    <3> QED
      BY <3>1, <3>2
  <2>3. CASE inst' = [inst EXCEPT ![w].q = Tail(@), ![w].dropped = @ + 1] /\ s.q # <<>>
    <3> DEFINE x == [s EXCEPT !.q = Tail(s.q), !.dropped = s.dropped + 1]
    <3>1. WorkerOK(x)
      BY <1>0, <2>3, CountedOutOK
    <3>2. x.pc = s.pc /\ inst' = [inst EXCEPT ![w] = x]
      BY <1>0, <2>3 DEF WorkerState
    <3> QED
      BY <3>1, <3>2
  <2>4. CASE inst' = [inst EXCEPT ![w].got = @ + 1, ![w].dropped = @ + 1]
    <3> DEFINE x == [s EXCEPT !.got = s.got + 1, !.dropped = s.dropped + 1]
    <3>1. WorkerOK(x)
      BY <1>0, CountedOutOK
    <3>2. x.pc = s.pc /\ inst' = [inst EXCEPT ![w] = x]
      BY <1>0, <2>4 DEF WorkerState
    <3> QED
      BY <3>1, <3>2
  <2> QED
    BY <1>3, <2>1, <2>2, <2>3, <2>4
<1> QED
  BY <1>0, <1>1, <1>4, WorkerChanges

\* A step of a worker.
LEMMA WorkerKeeps ==
    ASSUME NotifierInv, NEW w \in Worker, WorkerStep(w)
    PROVE  NotifierInv'
<1> DEFINE s == inst[w]
<1>0. /\ WorkerOK(s) /\ s \in WorkerState /\ inst \in [Worker -> WorkerState]
      /\ loops \in [Epoch -> Loop]
  BY DEF NotifierInv, NotifierTypeOK, WorkerOK
<1>1. UNCHANGED workerFrame /\ s.pc \notin {"new", "done"}
  BY DEF WorkerStep, WorkerTake, WorkerQuit, Delivered, DeliverFails, DeliverRetries, BackoffEnds,
         Abandon, Drained, Delivering
<1>2. SUFFICES \E x : WorkerOK(x) /\ Become(w, x)
  BY <1>0, <1>1, <1>2, WorkerChanges DEF Become, workerFrame
<1>3. CASE WorkerTake(w)
  BY <1>0, <1>3, TakenOK DEF WorkerTake
<1>4. CASE WorkerQuit(w) \/ DeliverRetries(w)
  BY <1>0, <1>4, MarkedOK DEF WorkerQuit, DeliverRetries
<1>5. CASE Delivered(w) \/ DeliverFails(w)
  <2>1. s.hand # {} /\ s.pc \in {"deliver", "drain"}
    BY <1>0, <1>5 DEF Delivered, DeliverFails, Delivering, WorkerOK
  <2> QED
    BY <1>0, <1>5, <2>1, SettledOK DEF Delivered, DeliverFails
<1>6. CASE BackoffEnds(w)
  <2>1. s.hand # {} /\ s.pc = "backoff"
    BY <1>0, <1>6 DEF BackoffEnds, WorkerOK
  <2> QED
    BY <1>0, <1>6, <2>1, SettledOK, MarkedOK DEF BackoffEnds
<1>7. CASE Abandon(w) \/ Drained(w)
  BY <1>0, <1>7, AbandonedOK DEF Abandon, Drained
<1> QED
  BY <1>3, <1>4, <1>5, <1>6, <1>7 DEF WorkerStep

-------------------------------------------------------------------------------
\* A reload starts workers of numbers not used yet, and keeps track of all others.
LEMMA LoadKeeps ==
    ASSUME NotifierInv, LoadForStart \/ LoadForRefresh
    PROVE  NotifierInv'
<1> USE DEF control, queues
<1>0. /\ conf \in [Hook -> Nat] /\ inst \in [Worker -> WorkerState] /\ workers \in SUBSET Worker
      /\ refreshers \in Nat /\ reload.pc = "idle"
      /\ UNCHANGED <<conf, running, starts, quitted, queues, workers, loops, stopping>>
  BY DEF NotifierInv, NotifierTypeOK, LoadForStart, LoadForRefresh, Load
<1>1. refreshers' \in Nat /\ loading' \in {"no", "asked", "busy"}
  BY <1>0 DEF NotifierInv, NotifierTypeOK, LoadForStart, LoadForRefresh
<1>2. PICK f \in Fill :
        LET started == {f[h] : h \in Missing} IN
        /\ inst' = [w \in Worker |->
              IF w \in started
              THEN LET h == CHOOSE h \in Missing : f[h] = w
                   IN [NotStarted EXCEPT !.hook = h, !.version = conf[h], !.pc = "run"]
              ELSE inst[w]]
        /\ reload' = [pc |-> "publish", next |-> Kept \cup started, stop |-> workers \ Kept]
  BY DEF LoadForStart, LoadForRefresh, Load
<1> DEFINE started == {f[h] : h \in Missing}
<1>3. f \in [Missing -> Unused] /\ Missing \subseteq Hook /\ Unused \subseteq Worker /\ Kept \subseteq workers
  BY DEF Fill, Missing, Unused, Kept
<1>4. started \subseteq Unused
  BY <1>3
<1>5. ASSUME NEW w \in Worker PROVE WorkerOK(inst'[w]) /\ (w \notin started => inst'[w] = inst[w])
  <2>1. CASE w \in started
    <3> DEFINE h == CHOOSE h \in Missing : f[h] = w
    <3>1. h \in Missing
      BY <2>1
    <3>2. h \in Hook /\ conf[h] \in Nat
      BY <1>0, <1>3, <3>1
    <3>3. inst'[w] = [NotStarted EXCEPT !.hook = h, !.version = conf[h], !.pc = "run"]
      BY <1>2, <2>1
    <3> HIDE DEF h
    <3> QED
      BY <2>1, <3>2, <3>3, NewWorkerOK
  <2>2. CASE w \notin started
    BY <1>2, <2>2 DEF NotifierInv
  <2> QED
    BY <2>1, <2>2
<1>6. /\ reload'.pc = "publish" /\ reload'.next = Kept \cup started /\ reload'.stop = workers \ Kept
      /\ reload' \in Reload
  BY <1>0, <1>2, <1>3, <1>4 DEF Reload
<1>7. inst' \in [Worker -> WorkerState]
  <2>1. DOMAIN inst' = Worker /\ inst' = [w \in Worker |-> inst'[w]]
    BY <1>2
  <2> QED
    BY <1>5, <2>1 DEF WorkerOK
<1> HIDE DEF started
<1>8. \A w \in Worker : Owned(w)'
  BY <1>0, <1>3, <1>5, <1>6 DEF NotifierInv, PhasesOK, Owned
<1>9. PhasesOK'
  BY <1>0, <1>6 DEF NotifierInv, PhasesOK
<1>10. NotifierTypeOK'
  BY <1>0, <1>1, <1>5, <1>6, <1>7 DEF NotifierInv, NotifierTypeOK, WorkerOK
<1>11. IngressOK'
  BY <1>0 DEF NotifierInv, IngressOK
<1> QED
  BY <1>5, <1>8, <1>9, <1>10, <1>11 DEF NotifierInv

\* Steps in which the workers, the events and their counters stay as they are.
LEMMA ControlKeeps ==
    ASSUME NotifierInv, UNCHANGED <<queues, inst>>,
           /\ conf' \in [Hook -> Nat] /\ running' \in BOOLEAN /\ loading' \in {"no", "asked", "busy"}
           /\ starts' \in 0 .. MaxStarts /\ quitted' \in SUBSET Epoch /\ refreshers' \in Nat
           /\ workers' \in SUBSET Worker /\ loops' \in [Epoch -> Loop]
           /\ reload' \in Reload /\ stopping' \in Stopping,
           PhasesOK', \A w \in Worker : Owned(w)'
    PROVE  NotifierInv'
<1>1. NotifierTypeOK' /\ IngressOK'
  BY DEF NotifierInv, NotifierTypeOK, IngressOK, queues
<1> QED
  BY <1>1 DEF NotifierInv

\* A reload that cannot read, that publishes its table, or that ends.
LEMMA ReloadKeeps ==
    ASSUME NotifierInv, LoadFails \/ Publish \/ ReloadEnds
    PROVE  NotifierInv'
<1> USE DEF control, queues
<1>0. UNCHANGED <<conf, running, starts, quitted, queues, inst, loops, stopping>>
  BY DEF LoadFails, Publish, ReloadEnds
<1>1. /\ refreshers' \in Nat /\ loading' \in {"no", "asked", "busy"}
      /\ workers' \in SUBSET Worker /\ reload' \in Reload
  <2>1. /\ refreshers \in Nat /\ loading \in {"no", "asked", "busy"} /\ workers \in SUBSET Worker
        /\ reload \in Reload
    BY DEF NotifierInv, NotifierTypeOK
  <2>2. CASE LoadFails
    BY <2>1, <2>2 DEF LoadFails
  <2>3. CASE Publish
    <3>1. /\ workers' = reload.next /\ reload' = [reload EXCEPT !.pc = "stop", !.next = {}]
          /\ UNCHANGED <<refreshers, loading>>
      BY <2>3 DEF Publish
    <3> QED
      BY <2>1, <3>1 DEF Reload
  <2>4. CASE ReloadEnds
    <3>1. NoReload \in Reload
      BY DEF NoReload, Reload
    <3> QED
      BY <2>1, <2>4, <3>1 DEF ReloadEnds
  <2> QED
    BY <2>2, <2>3, <2>4
<1>2. PhasesOK' /\ \A w \in Worker : Owned(w)'
  <2>1. CASE LoadFails
    BY <1>0, <2>1 DEF LoadFails, NotifierInv, PhasesOK, Owned
  <2>2. CASE Publish
    <3>1. /\ workers' = reload.next /\ reload'.next = {} /\ reload'.stop = reload.stop /\ reload'.pc = "stop"
          /\ workers \subseteq reload.next \cup reload.stop
      BY <2>2 DEF Publish, NotifierInv, NotifierTypeOK, Reload, PhasesOK
    <3> QED
      BY <1>0, <3>1 DEF NotifierInv, PhasesOK, Owned
  <2>3. CASE ReloadEnds
    <3>1. /\ reload.next = {} /\ \A w \in reload.stop : inst[w].pc = "done"
          /\ reload'.pc = "idle" /\ reload'.next = {} /\ reload'.stop = {} /\ workers' = workers
      BY <2>3 DEF ReloadEnds, NotifierInv, PhasesOK, NoReload
    <3> QED
      BY <1>0, <3>1 DEF NotifierInv, PhasesOK, Owned
  <2> QED
    BY <2>1, <2>2, <2>3
<1> QED
  BY <1>0, <1>1, <1>2, ControlKeeps DEF NotifierInv, NotifierTypeOK

\* The next of some workers is told to stop.
LEMMA QuitKeeps ==
    ASSUME NotifierInv, ReloadQuits \/ StopQuits
    PROVE  NotifierInv'
<1>1. PICK left \in SUBSET Worker : QuitWorker(left)
  BY DEF ReloadQuits, StopQuits, NotifierInv, NotifierTypeOK, Reload, Stopping
<1>2. PICK w \in Worker : inst' = [inst EXCEPT ![w].quit = TRUE]
  BY <1>1 DEF QuitWorker
<1> DEFINE x == [inst[w] EXCEPT !.quit = TRUE]
<1>3. /\ inst \in [Worker -> WorkerState] /\ loops \in [Epoch -> Loop]
      /\ UNCHANGED <<conf, control, refreshers, queues, workers, loops, reload, stopping>>
  BY DEF NotifierInv, NotifierTypeOK, ReloadQuits, StopQuits
<1>4. WorkerOK(x)
  BY MarkedOK DEF NotifierInv
<1>5. inst' = [inst EXCEPT ![w] = x] /\ x.pc = inst[w].pc
  BY <1>2, <1>3 DEF WorkerState
<1> QED
  BY <1>3, <1>4, <1>5, WorkerChanges

\* A webhook is edited.
LEMMA EditKeeps ==
    ASSUME NotifierInv, NEW h \in Hook, NEW version \in Nat, Edit(h, version)
    PROVE  NotifierInv'
<1> USE DEF control, queues
<1>1. /\ conf' \in [Hook -> Nat] /\ refreshers' \in Nat
      /\ UNCHANGED <<running, starts, quitted, loading, queues, workers, inst, loops, reload, stopping>>
  BY DEF Edit, NotifierInv, NotifierTypeOK
<1>2. PhasesOK' /\ \A w \in Worker : Owned(w)'
  BY <1>1 DEF NotifierInv, PhasesOK, Owned
<1> QED
  BY <1>1, <1>2, ControlKeeps DEF NotifierInv, NotifierTypeOK

\* Start, and the loop it starts.
LEMMA StartKeeps ==
    ASSUME NotifierInv, Start \/ StartLoop
    PROVE  NotifierInv'
<1> USE DEF control, queues
<1>1. /\ running' \in BOOLEAN /\ starts' \in 0 .. MaxStarts /\ loading' \in {"no", "asked", "busy"}
      /\ UNCHANGED <<conf, quitted, refreshers, queues, workers, inst, reload, stopping>>
  <2>1. /\ running \in BOOLEAN /\ loading \in {"no", "asked", "busy"}
        /\ starts \in 0 .. MaxStarts /\ MaxStarts \in Nat
    BY NotifierAssumption DEF NotifierInv, NotifierTypeOK
  <2>2. CASE Start
    <3>1. starts < MaxStarts /\ starts' = starts + 1
      BY <2>2 DEF Start
    <3>2. starts' \in 0 .. MaxStarts
      BY <2>1, <3>1
    <3> QED
      BY <2>2, <3>2 DEF Start
  <2>3. CASE StartLoop
    BY <2>1, <2>3 DEF StartLoop
  <2> QED
    BY <2>2, <2>3
<1>2. loops' \in [Epoch -> Loop]
  BY DEF Start, StartLoop, NotifierInv, NotifierTypeOK, Loop
<1>3. PhasesOK'
  <2>1. CASE Start
    <3>1. stopping.pc = "no" /\ starts' = starts + 1 /\ starts \in Nat
      BY <2>1 DEF Start, NotifierInv, NotifierTypeOK
    <3> QED
      BY <1>1, <3>1 DEF NotifierInv, PhasesOK
  <2>2. CASE StartLoop
    BY <1>1, <2>2 DEF StartLoop, NotifierInv, PhasesOK
  <2> QED
    BY <2>1, <2>2
<1>4. \A w \in Worker : Owned(w)'
  BY <1>1 DEF NotifierInv, Owned
<1> QED
  BY <1>1, <1>2, <1>3, <1>4, ControlKeeps DEF NotifierInv, NotifierTypeOK

\* Stop takes the workers out of the table, and waits for them.
LEMMA StopKeeps ==
    ASSUME NotifierInv, StopBegin \/ StopEnds
    PROVE  NotifierInv'
<1> USE DEF control, queues
<1>1. /\ running' \in BOOLEAN /\ workers' \in SUBSET Worker /\ stopping' \in Stopping
      /\ UNCHANGED <<conf, starts, quitted, loading, refreshers, queues, inst, loops, reload>>
  <2>1. running \in BOOLEAN /\ workers \in SUBSET Worker
    BY DEF NotifierInv, NotifierTypeOK
  <2>2. CASE StopBegin
    <3>1. [pc |-> "close", left |-> workers] \in Stopping
      BY <2>1 DEF Stopping
    <3> QED
      BY <2>2, <3>1 DEF StopBegin
  <2>3. CASE StopEnds
    <3>1. NoStop \in Stopping
      BY DEF NoStop, Stopping
    <3> QED
      BY <2>1, <2>3, <3>1 DEF StopEnds
  <2> QED
    BY <2>2, <2>3
<1>2. PhasesOK' /\ \A w \in Worker : Owned(w)'
  <2>1. CASE StopBegin
    <3>1. /\ stopping.left = {} /\ workers' = {} /\ ~running' /\ stopping'.left = workers
          /\ stopping'.pc = "close" /\ starts > 0
      BY <2>1 DEF StopBegin, NotifierInv, PhasesOK
    <3> QED
      BY <1>1, <3>1 DEF NotifierInv, PhasesOK, Owned
  <2>2. CASE StopEnds
    <3>1. /\ \A w \in stopping.left : inst[w].pc = "done"
          /\ stopping'.pc = "no" /\ stopping'.left = {} /\ workers' = workers /\ running' = running
      BY <2>2 DEF StopEnds, NoStop
    <3> QED
      BY <1>1, <3>1 DEF NotifierInv, PhasesOK, Owned
  <2> QED
    BY <2>1, <2>2
<1> QED
  BY <1>1, <1>2, ControlKeeps DEF NotifierInv, NotifierTypeOK

\* What Stop counts out without emptying the queue.
LEMMA StopCloseKeeps ==
    ASSUME NotifierInv, StopClose
    PROVE  NotifierInv'
<1> USE DEF control, queues
<1>1. UNCHANGED <<conf, running, starts, loading, refreshers, ingress, offered, taken, workers, inst,
                  loops, reload>>
  BY DEF StopClose
<1>2. /\ ingress \in Seq(Nat) /\ offered \in Nat /\ taken \in Nat /\ ingressDropped \in Nat
      /\ recounted \in Nat /\ Len(ingress) \in Nat
      /\ offered + recounted = taken + ingressDropped + Len(ingress)
  BY DEF NotifierInv, NotifierTypeOK, IngressOK
<1>3. /\ ingressDropped' = ingressDropped + Len(ingress) /\ recounted' = recounted + Len(ingress)
      /\ stopping' = [stopping EXCEPT !.pc = "workers"] /\ quitted' = quitted \cup {starts}
      /\ stopping.pc = "close"
  BY DEF StopClose
<1>4. ingressDropped' \in Nat /\ recounted' \in Nat /\ IngressOK'
  BY <1>1, <1>2, <1>3 DEF IngressOK
<1>5. /\ stopping' \in Stopping /\ stopping'.pc = "workers" /\ stopping'.left = stopping.left
      /\ ~running
  BY <1>3 DEF NotifierInv, NotifierTypeOK, Stopping, PhasesOK
<1>6. quitted' \in SUBSET Epoch
  <2>1. starts \in 0 .. MaxStarts /\ starts > 0 /\ quitted \in SUBSET Epoch
    BY <1>3 DEF NotifierInv, NotifierTypeOK, PhasesOK
  <2>2. starts \in Epoch
    BY <2>1, NotifierAssumption DEF Epoch
  <2> QED
    BY <1>3, <2>1, <2>2
<1>7. NotifierTypeOK'
  BY <1>1, <1>2, <1>4, <1>5, <1>6 DEF NotifierInv, NotifierTypeOK
<1>8. PhasesOK' /\ \A w \in Worker : WorkerOK(inst[w])' /\ Owned(w)'
  BY <1>1, <1>3, <1>5 DEF NotifierInv, PhasesOK, Owned
<1> QED
  BY <1>4, <1>7, <1>8 DEF NotifierInv

\* Every step of the notifier's own goroutines and of its owner.
LEMMA NotifierStepKeeps ==
    ASSUME NotifierInv, NotifierStep
    PROVE  NotifierInv'
BY LoopKeeps, EnqueueKeeps, WorkerKeeps, LoadKeeps, ReloadKeeps, QuitKeeps, StartKeeps, StopKeeps,
   StopCloseKeeps DEF NotifierStep, FanoutStep

\* A notifier that has not been started: at first, and after the process has ended.
Unstarted ==
    /\ running = FALSE /\ starts = 0 /\ quitted = {} /\ loading = "no" /\ refreshers = 0
    /\ ingress = <<>> /\ offered = 0 /\ taken = 0 /\ ingressDropped = 0 /\ recounted = 0
    /\ workers = {} /\ inst = [w \in Worker |-> NotStarted]
    /\ loops = [e \in Epoch |-> NoLoop] /\ reload = NoReload /\ stopping = NoStop

\* The counters agree and nobody runs before the first Start.
LEMMA UnstartedKeeps == conf \in [Hook -> Nat] /\ Unstarted => NotifierInv
<1> SUFFICES ASSUME conf \in [Hook -> Nat], Unstarted PROVE NotifierInv
  OBVIOUS
<1>1. WorkerOK(NotStarted) /\ NotStarted.pc = "new" /\ NotStarted \in WorkerState
      /\ Len(NotStarted.q) <= QueueSize
  BY NewWorkerOK DEF WorkerOK
<1>2. inst \in [Worker -> WorkerState] /\ \A w \in Worker : inst[w] = NotStarted
  BY <1>1 DEF Unstarted
<1>3. /\ loops \in [Epoch -> Loop] /\ reload \in Reload /\ stopping \in Stopping
      /\ 0 \in 0 .. MaxStarts
  BY NotifierAssumption DEF Unstarted, NoLoop, Loop, NoReload, Reload, NoStop, Stopping
<1>4. Len(ingress) = 0 /\ ingress \in Seq(Nat) /\ IngressSize \in Nat
  BY NotifierAssumption DEF Unstarted
<1>5. NotifierTypeOK
  <2>1. {refreshers, offered, taken, ingressDropped, recounted} \subseteq Nat
    BY DEF Unstarted
  <2>2. Len(ingress) <= IngressSize
    BY <1>4
  <2> QED
    BY <1>1, <1>2, <1>3, <1>4, <2>1, <2>2 DEF Unstarted, NotifierTypeOK
<1>6. IngressOK
  BY <1>4 DEF Unstarted, IngressOK
<1>7. PhasesOK
  BY DEF Unstarted, PhasesOK, NoReload, NoStop
<1>8. \A w \in Worker : WorkerOK(inst[w]) /\ Owned(w)
  BY <1>1, <1>2 DEF Owned
<1> QED
  BY <1>5, <1>6, <1>7, <1>8 DEF NotifierInv

\* The invariant says what the runs check.
LEMMA NotifierIsRight ==
    ASSUME NotifierInv
    PROVE  Accounted /\ QuietAfterStop
<1>1. Accounted
  BY DEF NotifierInv, IngressOK, WorkerOK, Balanced, Held, Accounted
<1>2. QuietAfterStop
  <2> SUFFICES ASSUME stopping = NoStop, reload = NoReload, NEW w \in Worker
               PROVE  inst[w].pc \in {"new", "done"} \/ w \in workers
    BY DEF QuietAfterStop
  <2>1. stopping.left = {} /\ reload.next = {} /\ reload.stop = {}
    BY DEF NoStop, NoReload
  <2> QED
    BY <2>1 DEF NotifierInv, Owned
<1> QED
  BY <1>1, <1>2

-------------------------------------------------------------------------------
(***************************************************************************)
(* The pipeline.                                                           *)
(***************************************************************************)
Inv == TrackerInv /\ NotifierInv /\ plan \in Plan /\ admitted \in SUBSET Kind

-------------------------------------------------------------------------------
\* A bound that is used up by one is a bound.
LEMMA UseKeeps ==
    ASSUME plan \in Plan, NEW what \in {"rows", "faults", "requests", "edits", "restarts", "stops"}, Use(what)
    PROVE  plan' \in Plan
<1>1. plan[what] \in Nat /\ plan[what] > 0 /\ plan' = [plan EXCEPT ![what] = plan[what] - 1]
  BY DEF Use, Plan
<1>2. plan[what] - 1 \in Nat
  BY <1>1
<1> QED
  BY <1>1, <1>2 DEF Plan

\* A step of the notifier leaves the Trackers alone.
LEMMA TrackerUnchanged ==
    ASSUME TrackerInv, UNCHANGED trackerVars
    PROVE  TrackerInv'
<1>1. UNCHANGED <<st, table, handing, enabled, polled, was, clearing, began, stuck, blind, wiped, ghost>>
  BY DEF trackerVars, ledger
<1>2. TrackerTypeOK'
  BY <1>1 DEF TrackerInv, TrackerTypeOK
<1>3. ASSUME NEW u \in Target PROVE Right(u)'
  <2>1. ActiveRows(u)' = ActiveRows(u)
    BY <1>1 DEF ActiveRows
  <2> QED
    BY <1>1, <2>1 DEF TrackerInv, Right, Listed
<1> QED
  BY <1>2, <1>3 DEF TrackerInv

\* A step of the Trackers or of the services leaves the notifier alone.
LEMMA NotifierUnchanged ==
    ASSUME NotifierInv, UNCHANGED notifierVars
    PROVE  NotifierInv'
<1>1. UNCHANGED <<conf, running, starts, quitted, loading, refreshers, ingress, offered, taken,
                  ingressDropped, recounted, workers, inst, loops, reload, stopping>>
  BY DEF notifierVars
<1>2. NotifierTypeOK'
  BY <1>1 DEF NotifierInv, NotifierTypeOK
<1>3. IngressOK' /\ PhasesOK' /\ \A w \in Worker : WorkerOK(inst[w])' /\ Owned(w)'
  BY <1>1 DEF NotifierInv, IngressOK, PhasesOK, Owned
<1> QED
  BY <1>2, <1>3 DEF NotifierInv

-------------------------------------------------------------------------------
\* The invariant holds at first.
LEMMA InvInit == Init => Inv
<1> SUFFICES ASSUME Init PROVE Inv
  OBVIOUS
<1>1. plan \in Plan /\ admitted \in SUBSET Kind
  BY AlarmPipelineAssumption DEF Init
<1>2. TrackerInv
  BY InitRight DEF Init
<1>3. conf \in [Hook -> Nat] /\ Unstarted
  BY DEF Init, NotifierInit, Unstarted
<1> QED
  BY <1>1, <1>2, <1>3, UnstartedKeeps DEF Inv

\* Each action of the pipeline keeps the invariant of the half it changes.
LEMMA InvNext == Inv /\ [Next]_vars => Inv'
<1> SUFFICES ASSUME Inv, [Next]_vars PROVE Inv'
  OBVIOUS
<1> USE DEF Inv
<1>1. CASE Judge /\ UNCHANGED admitted
  <2>1. TrackerInv'
    BY <1>1, DevicePollRight, ScanRight DEF Judge
  <2> QED
    BY <1>1, <2>1, NotifierUnchanged DEF Judge
<1>2. CASE JudgeFaulty /\ UNCHANGED admitted
  <2>1. TrackerInv'
    <3>1. PICK t \in plan.targets, ok \in BOOLEAN : Faulty(t, ok)
      BY <1>2 DEF JudgeFaulty
    <3>2. t \in Target
      BY DEF Plan
    <3> QED
      BY <3>1, <3>2, FaultyRight
  <2>2. plan' \in Plan /\ UNCHANGED notifierVars
    BY <1>2, UseKeeps DEF JudgeFaulty
  <2> QED
    BY <1>2, <2>1, <2>2, NotifierUnchanged
<1>11. ASSUME NEW k \in Kind, Admit(k) PROVE Inv'
  BY <1>11, TrackerUnchanged, NotifierUnchanged DEF Admit
<1>3. ASSUME NEW k \in Kind, HandOver(k) PROVE Inv'
  <2>1. TrackerInv'
    BY <1>3, HandedRight DEF HandOver
  <2>2. handing[k] \in Nat
    BY DEF TrackerInv, TrackerTypeOK
  <2>3. NotifierInv' /\ plan' = plan /\ admitted' \in SUBSET Kind
    BY <1>3, <2>2, NotifyKeeps DEF HandOver
  <2> QED
    BY <2>1, <2>3
<1>4. CASE Request /\ UNCHANGED admitted
  <2>1. TrackerInv'
    <3>1. PICK t \in plan.targets : Disable(t) \/ Enable(t)
      BY <1>4 DEF Request
    <3>2. t \in Target
      BY DEF Plan
    <3> QED
      BY <3>1, <3>2, StatusRight
  <2>2. plan' \in Plan /\ UNCHANGED notifierVars
    BY <1>4, UseKeeps DEF Request
  <2> QED
    BY <1>4, <2>1, <2>2, NotifierUnchanged
<1>5. CASE FollowUp /\ UNCHANGED admitted
  <2>1. TrackerInv'
    BY <1>5, ServiceClearRight, StatusRight DEF FollowUp
  <2> QED
    BY <1>5, <2>1, NotifierUnchanged DEF FollowUp
<1>6. CASE FollowUpFails /\ UNCHANGED admitted
  <2>1. plan' \in Plan
    BY <1>6, UseKeeps DEF FollowUpFails
  <2>2. CASE (\E t \in Target : ServiceClearFails(t)) /\ UNCHANGED notifierVars
    BY <1>6, <2>1, <2>2, StatusRight, NotifierUnchanged
  <2>3. CASE LoadFails /\ UNCHANGED trackerVars
    BY <1>6, <2>1, <2>3, ReloadKeeps, TrackerUnchanged
  <2> QED
    BY <1>6, <2>2, <2>3 DEF FollowUpFails
<1>7. CASE EditHook /\ UNCHANGED admitted
  <2>1. NotifierInv'
    <3>1. PICK h \in Hook : \E version \in {0, conf[h] + 1} : Edit(h, version)
      BY <1>7 DEF EditHook
    <3>2. conf[h] \in Nat
      BY DEF NotifierInv, NotifierTypeOK
    <3>3. {0, conf[h] + 1} \subseteq Nat
      BY <3>2
    <3> QED
      BY <3>1, <3>3, EditKeeps
  <2>2. plan' \in Plan /\ UNCHANGED trackerVars
    BY <1>7, UseKeeps DEF EditHook
  <2> QED
    BY <1>7, <2>1, <2>2, TrackerUnchanged
<1>8. CASE Notifying /\ UNCHANGED admitted
  <2>1. plan' \in Plan
    BY <1>8, UseKeeps DEF Notifying
  <2> QED
    BY <1>8, <2>1, NotifierStepKeeps, TrackerUnchanged DEF Notifying
<1>9. CASE Restart
  <2>1. plan' \in Plan /\ TrackerInv' /\ admitted' = {}
    BY <1>9, UseKeeps, RestartRight DEF Restart
  <2>2. (conf \in [Hook -> Nat] /\ Unstarted)'
    BY <1>9 DEF Restart, Unstarted, NotifierInv, NotifierTypeOK
  <2>3. (conf \in [Hook -> Nat] /\ Unstarted => NotifierInv)'
    BY UnstartedKeeps, PTL
  <2> QED
    BY <2>1, <2>2, <2>3
<1>10. CASE UNCHANGED vars
  BY <1>10, TrackerUnchanged, NotifierUnchanged DEF vars
<1> QED
  BY <1>1, <1>2, <1>3, <1>4, <1>5, <1>6, <1>7, <1>8, <1>9, <1>10, <1>11 DEF Next, Aside

\* The invariant of the alarm pipeline.
LEMMA InvHolds == Spec => []Inv
BY InvInit, InvNext, PTL DEF Spec

-------------------------------------------------------------------------------
(***************************************************************************)
(* Type correctness, for any devices, channels and webhooks: what report   *)
(* (alarm/tracker.go) and the dispatcher and its workers (notify) keep     *)
(* stays of its type, and the two queues stay within their capacity.       *)
(***************************************************************************)
THEOREM TypeCorrect == Spec => []TypeOK
<1>1. Inv => TypeOK
  BY DEF Inv, TrackerInv, NotifierInv, TypeOK
<1> QED
  BY <1>1, InvHolds, PTL

(***************************************************************************)
(* The list of active alarms (the active rows of the alarm table) is that  *)
(* of the targets that are off line, whatever polls, scans, requests to    *)
(* disable and enable, failing statements and restarts come between:       *)
(* report, reconcile, raise and recover of alarm/tracker.go.               *)
(***************************************************************************)
THEOREM AlarmsListedRight == Spec => []ListIsTrue
<1>1. Inv => ListIsTrue
  BY RightIsTrue DEF Inv
<1> QED
  BY <1>1, InvHolds, PTL

(***************************************************************************)
(* Alarms and recoveries of a target alternate in the table, in the order  *)
(* in which raiseLocked and recoverLocked record them.                     *)
(***************************************************************************)
THEOREM EdgesAreAlternate == Spec => []EdgesAlternate
<1>1. Inv => EdgesAlternate
  BY RightIsTrue DEF Inv
<1> QED
  BY <1>1, InvHolds, PTL

(***************************************************************************)
(* The counters of the notifier account for every event, through Notify,   *)
(* the fanout loops of any number of Starts, full queues, retries, drained *)
(* and abandoned queues (notify/dispatcher.go, worker.go).                 *)
(***************************************************************************)
THEOREM EventsAccounted == Spec => []Accounted
<1>1. Inv => Accounted
  BY NotifierIsRight DEF Inv
<1> QED
  BY <1>1, InvHolds, PTL

(***************************************************************************)
(* When Dispatcher.Stop has returned and no reload is under way, a worker  *)
(* that still runs is one that a reload published after Stop.              *)
(***************************************************************************)
THEOREM StopIsQuiet == Spec => []QuietAfterStop
<1>1. Inv => QuietAfterStop
  BY NotifierIsRight DEF Inv
<1> QED
  BY <1>1, InvHolds, PTL

===============================================================================
