----------------------- MODULE TimeSeriesChannel_proofs -----------------------
(***************************************************************************)
(* Theorems about TimeSeriesChannel: the lemmas about the operators the    *)
(* Outbox is built from, type correctness, what Stop leaves behind, and    *)
(* that the channel implements Custody.                                    *)
(***************************************************************************)
EXTENDS TimeSeriesChannel, SequenceTheorems, FiniteSetTheorems, WellFoundedInduction, TLAPS

(***************************************************************************)
(* The batches of a buffer after a send, a receive and a clear.            *)
(***************************************************************************)
LEMMA RangeOfOne ==
    ASSUME NEW S, NEW e \in S
    PROVE  <<e>> \in Seq(S) /\ Range(<<e>>) = {e} /\ Range(<<>>) = {}
BY DEF Range

LEMMA RangeOfAppend ==
    ASSUME NEW S, NEW s \in Seq(S), NEW e \in S
    PROVE  /\ Append(s, e) \in Seq(S)
           /\ Range(Append(s, e)) = Range(s) \cup {e}
<1>1. DOMAIN Append(s, e) = 1..Len(s) + 1 /\ DOMAIN s = 1..Len(s) /\ Len(s) \in Nat
  BY AppendProperties, LenProperties
<1>2. Range(Append(s, e)) = Range(s) \cup {e}
  BY AppendProperties, <1>1 DEF Range
<1> QED
  BY <1>2, AppendProperties

LEMMA BatchAppended ==
    \A s \in Seq(Batch), b \in Batch :
       Append(s, b) \in Seq(Batch) /\ Range(Append(s, b)) = Range(s) \cup {b}
BY RangeOfAppend

LEMMA RangeOfTail ==
    ASSUME NEW S, NEW s \in Seq(S), s # <<>>
    PROVE  /\ Head(s) \in S
           /\ Tail(s) \in Seq(S)
           /\ Len(Tail(s)) = Len(s) - 1
           /\ Range(s) = {Head(s)} \cup Range(Tail(s))
<1>1. Head(s) \in S /\ Tail(s) \in Seq(S) /\ Len(Tail(s)) = Len(s) - 1
  BY HeadTailProperties
<1>2. <<Head(s)>> \in Seq(S) /\ Range(<<Head(s)>>) = {Head(s)}
  BY <1>1, RangeOfOne
<1>3. s = <<Head(s)>> \o Tail(s)
  BY <1>1
<1>4. \A t, u \in Seq(S) : Range(t \o u) = Range(t) \cup Range(u)
  BY RangeConcatenation
<1>5. Range(s) = {Head(s)} \cup Range(Tail(s))
  BY <1>1, <1>2, <1>3, <1>4, Zenon
<1> QED
  BY <1>1, <1>5

LEMMA EmptyIsLengthZero == \A s \in Seq(Batch) : s = <<>> <=> Len(s) = 0
<1> SUFFICES ASSUME NEW s \in Seq(Batch) PROVE s = <<>> <=> Len(s) = 0
  OBVIOUS
<1>1. s # <<>> => Len(s) # 0
  BY EmptySeq
<1>2. Len(<<>>) = 0
  OBVIOUS
<1> QED
  BY <1>1, <1>2, Zenon

LEMMA LengthIsNat == \A s \in Seq(Batch) : Len(s) \in Nat
BY LenProperties

LEMMA RangeInSet ==
    ASSUME NEW S, NEW s \in Seq(S)
    PROVE  /\ Range(s) \subseteq S
           /\ Range(s) = {} <=> s = <<>>
<1>1. Range(s) \subseteq S
  BY RangeOfSeq
<1>2. CASE s = <<>>
  <2>1. Range(s) = {}
    BY <1>2 DEF Range
  <2> QED
    BY <1>1, <1>2, <2>1
<1>3. CASE s # <<>>
  <2>1. Head(s) \in Range(s)
    BY <1>3, RangeOfTail
  <2> QED
    BY <1>1, <1>3, <2>1
<1> QED
  BY <1>2, <1>3

LEMMA RangeOfSingleton ==
    ASSUME NEW S, NEW s \in Seq(S), Len(s) = 1
    PROVE  s # <<>> /\ Head(s) \in S /\ Tail(s) = <<>> /\ Range(s) = {Head(s)}
<1>0. s # <<>>
  BY Len(<<>>) = 0
<1>1. s # <<>> /\ Head(s) \in S
  BY <1>0, HeadTailProperties
<1>2. Tail(s) \in Seq(S) /\ Len(Tail(s)) = 0
  BY <1>1, HeadTailProperties
<1>3. Tail(s) = <<>>
  BY <1>2, EmptySeq
<1>4. Range(s) = {Head(s)} \cup Range(Tail(s))
  BY <1>1, RangeOfTail
<1>5. Range(s) = {Head(s)}
  BY <1>1, <1>3, <1>4, RangeOfOne
<1> QED
  BY <1>1, <1>3, <1>5

(***************************************************************************)
(* What is in all hands together when one of them changes.                 *)
(***************************************************************************)
HandsOf(h) == UNION {Range(h[a]) : a \in DOMAIN h}

LEMMA HandsUpdate ==
    ASSUME NEW A, NEW h \in [A -> Seq(Batch)], NEW a \in A, NEW s \in Seq(Batch)
    PROVE  LET g == [h EXCEPT ![a] = s]
           IN  /\ g \in [A -> Seq(Batch)]
               /\ HandsOf(g) \subseteq HandsOf(h) \cup Range(s)
               /\ HandsOf(h) \subseteq HandsOf(g) \cup Range(h[a])
               /\ Range(s) \subseteq HandsOf(g)
               /\ Range(h[a]) \subseteq HandsOf(h)
<1> DEFINE g == [h EXCEPT ![a] = s]
<1>1. g \in [A -> Seq(Batch)] /\ g[a] = s /\ \A c \in A \ {a} : g[c] = h[c]
  OBVIOUS
<1>2. DOMAIN g = A /\ DOMAIN h = A
  BY <1>1
<1> HIDE DEF g
<1> QED
  BY <1>1, <1>2, Zenon DEF HandsOf

LEMMA NoHands ==
    ASSUME NEW A
    PROVE  HandsOf([a \in A |-> <<>>]) = {}
BY DEF HandsOf, Range

(***************************************************************************)
(* A nonempty set of rows has a first one.                                 *)
(***************************************************************************)
LEMMA FirstIsARow ==
    ASSUME NEW R \in SUBSET Row, R # {}
    PROVE  /\ First(R) \in R
           /\ \A q \in R : First(R).id <= q.id
<1> DEFINE Ids == {r.id : r \in R}
<1>1. Ids \subseteq Nat /\ Ids # {}
  BY DEF Row
<1>2. PICK n \in Ids : \A m \in Ids : ~(<<m, n>> \in OpToRel(<, Nat))
  BY <1>1, WFMin, NatLessThanWellFounded
<1>3. \A m \in Ids : n <= m
  <2> TAKE m \in Ids
  <2>1. m \in Nat /\ n \in Nat /\ ~(m < n)
    BY <1>1, <1>2 DEF OpToRel
  <2> QED
    BY <2>1
<1>4. \E r \in R : \A q \in R : r.id <= q.id
  BY <1>3
<1> QED
  BY <1>4 DEF First

(***************************************************************************)
(* The rows of one INSERT: as many as batches, with ids above n.           *)
(***************************************************************************)
Inserted(n, s) == {[id |-> n + i, batch |-> s[i]] : i \in 1..Len(s)}

LEMMA InsertedRows ==
    ASSUME NEW n \in Nat, NEW s \in Seq(Batch)
    PROVE  /\ Inserted(n, s) \subseteq Row
           /\ IsFiniteSet(Inserted(n, s))
           /\ Cardinality(Inserted(n, s)) = Len(s)
           /\ \A r \in Inserted(n, s) : n < r.id /\ r.id <= n + Len(s)
           /\ BatchesOf(Inserted(n, s)) = Range(s)
<1>1. Len(s) \in Nat /\ DOMAIN s = 1..Len(s) /\ \A i \in 1..Len(s) : s[i] \in Batch
  BY LenProperties, ElementOfSeq
<1> DEFINE f == [i \in 1..Len(s) |-> [id |-> n + i, batch |-> s[i]]]
<1>2. f \in Bijection(1..Len(s), Inserted(n, s))
  <2>1. f \in [1..Len(s) -> Inserted(n, s)]
    BY DEF Inserted
  <2>2. ASSUME NEW i \in 1..Len(s), NEW j \in 1..Len(s), f[i] = f[j]
        PROVE  i = j
    <3>1. f[i].id = n + i /\ f[j].id = n + j
      OBVIOUS
    <3> QED
      BY <1>1, <2>2, <3>1
  <2>3. \A r \in Inserted(n, s) : \E i \in 1..Len(s) : f[i] = r
    BY DEF Inserted
  <2> HIDE DEF f
  <2> QED
    BY <2>1, <2>2, <2>3 DEF Bijection, Injection, IsInjective, Surjection
<1>3. IsFiniteSet(1..Len(s)) /\ Cardinality(1..Len(s)) = Len(s)
  <2>1. \A k \in Nat : IsFiniteSet(1..k) /\ Cardinality(1..k) = k
    BY FS_Interval
  <2> QED
    BY <1>1, <2>1, Zenon
<1>4. IsFiniteSet(Inserted(n, s)) /\ Cardinality(Inserted(n, s)) = Len(s)
  BY <1>2, <1>3, FS_Bijection DEF ExistsBijection
<1>5. Inserted(n, s) \subseteq Row
  BY <1>1 DEF Inserted, Row
<1>6. \A r \in Inserted(n, s) : n < r.id /\ r.id <= n + Len(s)
  BY <1>1 DEF Inserted
<1>7. BatchesOf(Inserted(n, s)) = Range(s)
  <2>1. \A b : b \in BatchesOf(Inserted(n, s)) <=> \E i \in 1..Len(s) : b = s[i]
    <3>1. \A r \in Inserted(n, s) : \E i \in 1..Len(s) : r.batch = s[i]
      BY DEF Inserted
    <3>2. \A i \in 1..Len(s) : \E r \in Inserted(n, s) : r.batch = s[i]
      <4> TAKE i \in 1..Len(s)
      <4>1. [id |-> n + i, batch |-> s[i]] \in Inserted(n, s)
        BY DEF Inserted
      <4>2. [id |-> n + i, batch |-> s[i]].batch = s[i]
        OBVIOUS
      <4> QED
        BY <4>1, <4>2
    <3> QED
      BY <3>1, <3>2 DEF BatchesOf
  <2>2. \A b : b \in Range(s) <=> \E i \in 1..Len(s) : b = s[i]
    BY <1>1 DEF Range
  <2> QED
    BY <2>1, <2>2
<1> QED
  BY <1>4, <1>5, <1>6, <1>7

(***************************************************************************)
(* The batches of a set of rows.                                           *)
(***************************************************************************)
LEMMA BatchesOfRows ==
    /\ BatchesOf({}) = {}
    /\ \A r : BatchesOf({r}) = {r.batch}
    /\ \A R, T : R \subseteq T => BatchesOf(R) \subseteq BatchesOf(T)
    /\ \A R, T : BatchesOf(R \cup T) = BatchesOf(R) \cup BatchesOf(T)
    /\ \A R, T : BatchesOf(R) \subseteq BatchesOf(R \ T) \cup BatchesOf(T)
BY DEF BatchesOf

-------------------------------------------------------------------------------

(***************************************************************************)
(* The type invariant, by who owns the variables, strengthened so that it  *)
(* is inductive: whoever is about to write or store has something in hand. *)
(***************************************************************************)
QueueTypes ==
    outbox \in Seq(Batch) /\ spoolCh \in Seq(Batch)

RowTypes ==
    /\ rows \in SUBSET Row /\ IsFiniteSet(rows)
    /\ lastId \in Nat /\ count \in Int /\ dbFaults \in Nat

CallTypes ==
    /\ pc \in [Actor -> {"idle", "send", "evict", "resend", "spoolSend", "spoolEvict",
                         "spoolResend", "write", "sending", "exited"}]
    /\ hand \in [Actor -> Seq(Batch)]
    /\ CallersHoldBatches
    /\ \A w \in Worker : pc[w] \in {"write", "sending"} => hand[w] # <<>>
    /\ mode \in [Worker -> {"run", "drain", "last"}]
    /\ carry \in [Worker -> Seq(Batch)]

WriterTypes ==
    /\ wmode \in {"run", "sweep", "serve", "last", "done"}
    /\ wpc \in {"idle", "collect", "trim", "insert", "fallback"}
    /\ buf \in Seq(Batch) /\ trimTick \in Nat
    /\ wpc = "idle" <=> buf = <<>>

DrainTypes ==
    /\ dpc \in {"check", "fetch", "wait", "drain", "sending", "delete", "poison", "exited"}
    /\ pend \in SUBSET Row /\ group \in SUBSET Row
    /\ full \in BOOLEAN /\ poisonId \in Nat /\ narrow \in BOOLEAN
    /\ dpc \in {"drain", "sending", "delete"} => pend # {}
    /\ dpc \in {"sending", "delete"} => group \subseteq pend

LifeTypes ==
    /\ notify \in BOOLEAN /\ conn \in BOOLEAN
    /\ quit \in BOOLEAN /\ workersDone \in BOOLEAN
    /\ stop \in {"running", "joining", "waiting", "stopped"}
    /\ rpc \in {"idle", "notify", "exited"}
    /\ faults \in Nat /\ restarts \in Nat /\ uncounted \in Nat

TallyTypes ==
    /\ dropped \in Nat
    /\ accepted \in SUBSET Batch /\ onTime \in SUBSET Batch /\ bygone \in SUBSET Batch
    /\ delivered \in SUBSET Batch /\ shed \in SUBSET Batch
    /\ trimmed \in SUBSET Batch /\ unsaved \in SUBSET Batch /\ blamed \in SUBSET Batch

TypeInv ==
    /\ QueueTypes /\ RowTypes /\ CallTypes /\ WriterTypes /\ DrainTypes
    /\ LifeTypes /\ TallyTypes

LEMMA TypeInvImpliesTypeOK == TypeInv => TypeOK
BY DEF TypeInv, QueueTypes, RowTypes, CallTypes, WriterTypes, DrainTypes, LifeTypes,
       TallyTypes, TypeOK, OutboxTypeOK

USE DEF queues, dbVars, callVars, writerVars, drainVars, lifeVars, tally, losses,
        intake, outboxVars, channelVars, vars, writerFrame, drainFrame, waitFrame,
        workerFrame, drainCallFrame, reconnectFrame

LEMMA TypeInit == Init => TypeInv
<1> SUFFICES ASSUME Init PROVE TypeInv
  OBVIOUS
<1> USE DEF Init, OutboxInit
<1>1. QueueTypes
  BY DEF QueueTypes
<1>2. RowTypes
  BY FS_EmptySet DEF RowTypes
<1>3. CallTypes
  BY DEF CallTypes, CallersHoldBatches, Actor
<1>4. WriterTypes
  BY DEF WriterTypes
<1>5. DrainTypes
  BY DEF DrainTypes
<1>6. LifeTypes
  BY DEF LifeTypes
<1>7. TallyTypes
  BY DEF TallyTypes
<1> QED
  BY <1>1, <1>2, <1>3, <1>4, <1>5, <1>6, <1>7 DEF TypeInv

(***************************************************************************)
(* A caller a moves to step v with s in hand.                              *)
(***************************************************************************)
LEMMA CallerMoves ==
    ASSUME CallTypes, NEW a \in Actor, NEW s \in Seq(Batch),
           NEW v \in {"idle", "send", "evict", "resend", "spoolSend", "spoolEvict",
                      "spoolResend", "write", "sending", "exited"},
           v \notin {"idle", "exited"} => s # <<>>,
           hand' = [hand EXCEPT ![a] = s],
           pc' = [pc EXCEPT ![a] = v],
           mode' \in [Worker -> {"run", "drain", "last"}],
           carry' \in [Worker -> Seq(Batch)]
    PROVE  CallTypes'
<1>1. /\ hand' \in [Actor -> Seq(Batch)]
      /\ hand'[a] = s /\ \A c \in Actor \ {a} : hand'[c] = hand[c]
  BY DEF CallTypes
<1>2. /\ pc' \in [Actor -> {"idle", "send", "evict", "resend", "spoolSend", "spoolEvict",
                            "spoolResend", "write", "sending", "exited"}]
      /\ pc'[a] = v /\ \A c \in Actor \ {a} : pc'[c] = pc[c]
  BY DEF CallTypes
<1>3. CallersHoldBatches'
  BY <1>1, <1>2 DEF CallTypes, CallersHoldBatches
<1>4. \A w \in Worker : pc'[w] \in {"write", "sending"} => hand'[w] # <<>>
  BY <1>1, <1>2 DEF CallTypes, Actor
<1> QED
  BY <1>1, <1>2, <1>3, <1>4 DEF CallTypes

\* The same when the hand does not change.
LEMMA CallerWaits ==
    ASSUME CallTypes, NEW a \in Actor,
           NEW v \in {"idle", "send", "evict", "resend", "spoolSend", "spoolEvict",
                      "spoolResend", "write", "sending", "exited"},
           v \notin {"idle", "exited"} => hand[a] # <<>>,
           hand' = hand,
           pc' = [pc EXCEPT ![a] = v],
           mode' \in [Worker -> {"run", "drain", "last"}],
           carry' \in [Worker -> Seq(Batch)]
    PROVE  CallTypes'
<1>1. hand[a] \in Seq(Batch) /\ hand' = [hand EXCEPT ![a] = hand[a]]
  BY DEF CallTypes
<1> QED
  BY <1>1, CallerMoves

\* HandOver leaves a caller either done or with the rest of its window.
LEMMA TypeHandOver ==
    ASSUME CallTypes, NEW a \in Actor, hand[a] # <<>>, NEW after \in {"idle", "exited"},
           HandOver(a, after), UNCHANGED <<mode, carry>>
    PROVE  CallTypes'
<1>1. hand[a] \in Seq(Batch)
  BY DEF CallTypes
<1>2. Tail(hand[a]) \in Seq(Batch) /\ Len(Tail(hand[a])) = Len(hand[a]) - 1
  BY <1>1, RangeOfTail
<1>3. CASE Len(hand[a]) > 1
  <2>0. Len(hand[a]) - 1 # 0
    <3>1. Len(hand[a]) \in Nat
      BY <1>1, LengthIsNat, Zenon
    <3>2. \A n \in Nat : n > 1 => n - 1 # 0
      OBVIOUS
    <3> QED
      BY <1>3, <3>1, <3>2, Zenon
  <2>1. Tail(hand[a]) # <<>>
    BY <1>2, <2>0, EmptyIsLengthZero, Zenon
  <2> QED
    BY <1>2, <1>3, <2>1, CallerMoves DEF HandOver, CallTypes
<1>4. CASE ~(Len(hand[a]) > 1)
  BY <1>2, <1>4, CallerMoves DEF HandOver, CallTypes
<1> QED
  BY <1>3, <1>4

(***************************************************************************)
(* Enqueue and SpoolEnqueue.                                               *)
(***************************************************************************)
LEMMA TypeDrop ==
    ASSUME TallyTypes, NEW b \in Batch, Drop(b),
           UNCHANGED <<intake, delivered, losses, blamed>>
    PROVE  TallyTypes'
BY DEF Drop, TallyTypes

LEMMA TypeEnqueue ==
    ASSUME TypeInv, NEW p \in Producer,
           \/ \E b \in Batch : EnqueueStart(p, b)
           \/ EnqueueSend(p) \/ EnqueueEvict(p) \/ EnqueueResend(p),
           UNCHANGED channelVars
    PROVE  TypeInv'
<1>0. p \in Actor /\ p \notin Worker
  BY OutboxAssumption DEF Actor
<1>a. QueueTypes /\ CallTypes /\ TallyTypes /\ <<>> \in Seq(Batch)
  BY DEF TypeInv
<1>b. hand[p] \in Seq(Batch) /\ mode' \in [Worker -> {"run", "drain", "last"}]
      /\ carry' \in [Worker -> Seq(Batch)]
  BY <1>0, <1>a DEF CallTypes
<1>1. CASE \E b \in Batch : EnqueueStart(p, b)
  <2>1. PICK b \in Batch : EnqueueStart(p, b)
    BY <1>1
  <2>2. CallTypes'
    BY <2>1, <1>0, <1>a, <1>b, RangeOfOne, CallerMoves DEF EnqueueStart
  <2>3. TallyTypes'
    BY <2>1, <1>a DEF EnqueueStart, TallyTypes
  <2> QED
    BY <2>1, <2>2, <2>3 DEF EnqueueStart, TypeInv, QueueTypes, RowTypes, WriterTypes,
           DrainTypes, LifeTypes
<1>2. CASE EnqueueSend(p)
  <2>1. hand[p] # <<>> /\ Head(hand[p]) \in Batch
    BY <1>0, <1>2, <1>a, <1>b, RangeOfTail DEF EnqueueSend, CallTypes, CallersHoldBatches
  <2>2. QueueTypes'
    BY <1>2, <1>a, <2>1, BatchAppended DEF EnqueueSend, QueueTypes
  <2>3. CallTypes'
    <3>1. CASE Len(outbox) < QueueSize
      BY <1>0, <1>2, <1>a, <1>b, <3>1, CallerMoves DEF EnqueueSend
    <3>2. CASE ~(Len(outbox) < QueueSize)
      BY <1>0, <1>2, <1>a, <1>b, <2>1, <3>2, CallerWaits DEF EnqueueSend
    <3> QED
      BY <3>1, <3>2
  <2> QED
    BY <1>2, <2>2, <2>3 DEF EnqueueSend, TypeInv, RowTypes, WriterTypes,
           DrainTypes, LifeTypes, TallyTypes
<1>3. CASE EnqueueEvict(p)
  <2>1. hand[p] # <<>>
    BY <1>0, <1>3, <1>a DEF EnqueueEvict, CallTypes, CallersHoldBatches
  <2>2. QueueTypes' /\ TallyTypes'
    <3>1. CASE outbox = <<>>
      BY <1>3, <1>a, <3>1 DEF EnqueueEvict, QueueTypes, TallyTypes
    <3>2. CASE outbox # <<>>
      BY <1>3, <1>a, <3>2, RangeOfTail, TypeDrop DEF EnqueueEvict, QueueTypes
    <3> QED
      BY <3>1, <3>2
  <2>3. CallTypes'
    BY <1>0, <1>3, <1>a, <1>b, <2>1, CallerWaits DEF EnqueueEvict
  <2> QED
    BY <1>3, <2>2, <2>3 DEF EnqueueEvict, TypeInv, RowTypes, WriterTypes,
           DrainTypes, LifeTypes
<1>4. CASE EnqueueResend(p)
  <2>1. hand[p] # <<>> /\ Head(hand[p]) \in Batch
    BY <1>0, <1>4, <1>a, <1>b, RangeOfTail DEF EnqueueResend, CallTypes, CallersHoldBatches
  <2>2. QueueTypes' /\ TallyTypes'
    <3>1. CASE Len(outbox) < QueueSize
      BY <1>4, <1>a, <2>1, <3>1, BatchAppended DEF EnqueueResend, QueueTypes, TallyTypes
    <3>2. CASE ~(Len(outbox) < QueueSize)
      BY <1>4, <1>a, <2>1, <3>2, TypeDrop DEF EnqueueResend, QueueTypes
    <3> QED
      BY <3>1, <3>2
  <2>3. CallTypes'
    BY <1>0, <1>4, <1>a, <1>b, CallerMoves DEF EnqueueResend
  <2> QED
    BY <1>4, <2>2, <2>3 DEF EnqueueResend, TypeInv, RowTypes, WriterTypes,
           DrainTypes, LifeTypes
<1> QED
  BY <1>1, <1>2, <1>3, <1>4

LEMMA TypeSpoolEnqueue ==
    ASSUME TypeInv, NEW a \in Actor, NEW after \in {"idle", "exited"},
           SpoolSend(a, after) \/ SpoolEvict(a) \/ SpoolResend(a, after),
           UNCHANGED channelVars
    PROVE  TypeInv'
<1>a. QueueTypes /\ CallTypes /\ TallyTypes
  BY DEF TypeInv
<1>b. /\ hand[a] \in Seq(Batch) /\ hand[a] # <<>> /\ Head(hand[a]) \in Batch
      /\ mode' \in [Worker -> {"run", "drain", "last"}]
      /\ carry' \in [Worker -> Seq(Batch)]
  <2>1. hand[a] \in Seq(Batch) /\ hand[a] # <<>>
    BY <1>a DEF CallTypes, CallersHoldBatches, SpoolSend, SpoolEvict, SpoolResend
  <2> QED
    BY <1>a, <2>1, RangeOfTail DEF CallTypes
<1>1. CASE SpoolSend(a, after)
  <2>1. QueueTypes' /\ CallTypes'
    <3>1. CASE Len(spoolCh) < SpoolChSize
      BY <1>1, <1>a, <1>b, <3>1, BatchAppended, TypeHandOver DEF SpoolSend, QueueTypes
    <3>2. CASE ~(Len(spoolCh) < SpoolChSize)
      BY <1>1, <1>a, <1>b, <3>2, CallerWaits DEF SpoolSend, QueueTypes
    <3> QED
      BY <3>1, <3>2
  <2> QED
    BY <1>1, <2>1 DEF SpoolSend, TypeInv, RowTypes, WriterTypes, DrainTypes,
           LifeTypes, TallyTypes
<1>2. CASE SpoolEvict(a)
  <2>1. QueueTypes' /\ TallyTypes'
    <3>1. CASE spoolCh = <<>>
      BY <1>2, <1>a, <3>1 DEF SpoolEvict, QueueTypes, TallyTypes
    <3>2. CASE spoolCh # <<>>
      BY <1>2, <1>a, <3>2, RangeOfTail, TypeDrop DEF SpoolEvict, QueueTypes
    <3> QED
      BY <3>1, <3>2
  <2>2. CallTypes'
    BY <1>2, <1>a, <1>b, CallerWaits DEF SpoolEvict
  <2> QED
    BY <1>2, <2>1, <2>2 DEF SpoolEvict, TypeInv, RowTypes, WriterTypes, DrainTypes,
           LifeTypes
<1>3. CASE SpoolResend(a, after)
  <2>1. QueueTypes' /\ TallyTypes'
    <3>1. CASE Len(spoolCh) < SpoolChSize
      BY <1>3, <1>a, <1>b, <3>1, BatchAppended DEF SpoolResend, QueueTypes, TallyTypes
    <3>2. CASE ~(Len(spoolCh) < SpoolChSize)
      BY <1>3, <1>a, <1>b, <3>2, TypeDrop DEF SpoolResend, QueueTypes
    <3> QED
      BY <3>1, <3>2
  <2>2. CallTypes'
    BY <1>3, <1>a, <1>b, TypeHandOver DEF SpoolResend
  <2> QED
    BY <1>3, <2>1, <2>2 DEF SpoolResend, TypeInv, RowTypes, WriterTypes, DrainTypes,
           LifeTypes
<1> QED
  BY <1>1, <1>2, <1>3

(***************************************************************************)
(* spoolWriteLoop.                                                         *)
(***************************************************************************)
LEMMA TypeWriter ==
    ASSUME TypeInv, SpoolWriteLoop, UNCHANGED channelVars
    PROVE  TypeInv'
<1>a. QueueTypes /\ RowTypes /\ WriterTypes /\ TallyTypes
  BY DEF TypeInv
<1>b. buf # <<>> => Head(buf) \in Batch /\ Tail(buf) \in Seq(Batch)
                    /\ Len(Tail(buf)) = Len(buf) - 1
  BY <1>a, RangeOfTail DEF WriterTypes
<1>c. spoolCh # <<>> => Head(spoolCh) \in Batch /\ Tail(spoolCh) \in Seq(Batch)
  BY <1>a, RangeOfTail DEF QueueTypes
<1>d. Len(buf) \in Nat
  BY <1>a, LenProperties DEF WriterTypes
<1>1. CASE WriterTake
  <2>1. buf' \in Seq(Batch) /\ buf' # <<>>
    BY <1>1, <1>c, RangeOfOne DEF WriterTake
  <2> QED
    BY <1>1, <1>a, <1>c, <2>1 DEF WriterTake, TypeInv, QueueTypes, RowTypes, CallTypes,
           CallersHoldBatches, WriterTypes, DrainTypes, LifeTypes, TallyTypes
<1>2. CASE WriterCollect
  <2>1. buf' \in Seq(Batch) /\ buf' # <<>>
    BY <1>2, <1>a, <1>c, AppendProperties DEF WriterCollect, WriterTypes
  <2> QED
    BY <1>2, <1>a, <1>c, <2>1 DEF WriterCollect, TypeInv, QueueTypes, RowTypes, CallTypes,
           CallersHoldBatches, WriterTypes, DrainTypes, LifeTypes, TallyTypes
<1>3. CASE WriterCheckCap
  <2>1. WriterTypes'
    BY <1>3, <1>a, <1>d DEF WriterCheckCap, WriterTypes
  <2> QED
    BY <1>3, <2>1 DEF WriterCheckCap, TypeInv, QueueTypes, RowTypes, CallTypes,
           CallersHoldBatches, DrainTypes, LifeTypes, TallyTypes
<1>4. CASE WriterTrim
  <2>1. Oldest(rows, TrimChunk) \subseteq rows
    BY DEF Oldest
  <2>2. Cardinality(Oldest(rows, TrimChunk)) \in Nat
    BY <1>a, <2>1, FS_Subset, FS_CardinalityType DEF RowTypes
  <2>3. RowTypes'
    BY <1>4, <1>a, <2>2, FS_Subset DEF WriterTrim, RowTypes
  <2>4. BatchesOf(Oldest(rows, TrimChunk)) \subseteq Batch
    BY <1>a, <2>1 DEF RowTypes, BatchesOf, Row
  <2>5. TallyTypes'
    BY <1>4, <1>a, <2>4 DEF WriterTrim, TallyTypes
  <2> QED
    BY <1>4, <1>a, <2>3, <2>5 DEF WriterTrim, TypeInv, QueueTypes, CallTypes,
           CallersHoldBatches, WriterTypes, DrainTypes, LifeTypes
<1>5. CASE WriterInsert
  <2>1. RowTypes'
    <3>1. CASE rows' = rows
      BY <1>5, <1>a, <1>d, <3>1 DEF WriterInsert, RowTypes
    <3>2. CASE rows' = rows \cup Inserted(lastId, buf)
      <4>1. lastId \in Nat /\ buf \in Seq(Batch) /\ rows \in SUBSET Row /\ IsFiniteSet(rows)
        BY <1>a DEF RowTypes, WriterTypes
      <4>2. Inserted(lastId, buf) \subseteq Row /\ IsFiniteSet(Inserted(lastId, buf))
        BY <4>1, InsertedRows
      <4>3. IsFiniteSet(rows')
        BY <3>2, <4>1, <4>2, FS_Union
      <4> QED
        BY <1>5, <1>a, <1>d, <3>2, <4>1, <4>2, <4>3 DEF WriterInsert, RowTypes
    <3> QED
      BY <1>5, <3>1, <3>2 DEF WriterInsert, Inserted
  <2>2. WriterTypes'
    <3>1. /\ UNCHANGED <<wmode, trimTick>>
          /\ \/ buf' = <<>> /\ wpc' = "idle"
             \/ buf' = buf /\ wpc' = "fallback" /\ wpc = "insert"
      BY <1>5 DEF WriterInsert
    <3>2. <<>> \in Seq(Batch)
      OBVIOUS
    <3>3. CASE buf' = <<>> /\ wpc' = "idle"
      BY <1>a, <3>1, <3>2, <3>3 DEF WriterTypes
    <3>4. CASE buf' = buf /\ wpc' = "fallback" /\ wpc = "insert"
      BY <1>a, <3>1, <3>4 DEF WriterTypes
    <3> QED
      BY <3>1, <3>3, <3>4
  <2>3. LifeTypes'
    BY <1>5 DEF WriterInsert, TypeInv, LifeTypes
  <2> QED
    BY <1>5, <2>1, <2>2, <2>3 DEF WriterInsert, TypeInv, QueueTypes, CallTypes,
           CallersHoldBatches, DrainTypes, TallyTypes
<1>6. CASE WriterFallback
  <2>0. buf # <<>> /\ Head(buf) \in Batch
    BY <1>6, <1>a, <1>b DEF WriterFallback, WriterTypes
  <2>1. RowTypes'
    <3>1. [id |-> lastId + 1, batch |-> Head(buf)] \in Row
      BY <1>a, <2>0 DEF RowTypes, Row
    <3>2. IsFiniteSet(rows \cup {[id |-> lastId + 1, batch |-> Head(buf)]})
      BY <1>a, FS_AddElement DEF RowTypes
    <3>3. CASE rows' = rows
      BY <1>6, <1>a, <3>3 DEF WriterFallback, RowTypes
    <3>4. CASE rows' = rows \cup {[id |-> lastId + 1, batch |-> Head(buf)]}
      BY <1>6, <1>a, <3>1, <3>2, <3>4 DEF WriterFallback, RowTypes
    <3> QED
      BY <1>6, <3>3, <3>4 DEF WriterFallback
  <2>2. WriterTypes'
    <3>1. CASE Len(buf) = 1
      <4>1. Tail(buf) = <<>>
        BY <1>a, <3>1, RangeOfSingleton DEF WriterTypes
      <4> QED
        BY <1>6, <1>a, <1>b, <2>0, <3>1, <4>1 DEF WriterFallback, WriterTypes
    <3>2. CASE Len(buf) # 1
      <4>1. Len(buf) - 1 # 0
        BY <1>d, <3>2
      <4>2. Tail(buf) # <<>>
        BY <1>b, <2>0, <4>1, EmptyIsLengthZero, Zenon
      <4> QED
        BY <1>6, <1>a, <1>b, <2>0, <3>2, <4>2 DEF WriterFallback, WriterTypes
    <3> QED
      BY <3>1, <3>2
  <2>3. TallyTypes'
    BY <1>6, <1>a, <2>0 DEF WriterFallback, TallyTypes
  <2>4. LifeTypes'
    BY <1>6 DEF WriterFallback, TypeInv, LifeTypes
  <2> QED
    BY <1>6, <2>1, <2>2, <2>3, <2>4 DEF WriterFallback, TypeInv, QueueTypes, CallTypes,
           CallersHoldBatches, DrainTypes
<1>7. CASE WriterPhase
  BY <1>7 DEF WriterPhase, TypeInv, QueueTypes, RowTypes, CallTypes, CallersHoldBatches,
         WriterTypes, DrainTypes, LifeTypes, TallyTypes
<1> QED
  BY <1>1, <1>2, <1>3, <1>4, <1>5, <1>6, <1>7 DEF SpoolWriteLoop

(***************************************************************************)
(* A write that fails.                                                     *)
(***************************************************************************)
LEMMA TypeWriteFails ==
    ASSUME LifeTypes, TallyTypes, NEW S \in SUBSET Batch,
           WriteBreaks(S) \/ WriteRefused(S)
    PROVE  conn' \in BOOLEAN /\ faults' \in Nat /\ delivered' \in SUBSET Batch
<1>1. CASE WriteBreaks(S)
  <2>1. conn' \in BOOLEAN
    BY <1>1, Zenon DEF WriteBreaks
  <2>2. faults' \in Nat
    BY <1>1 DEF WriteBreaks, LifeTypes
  <2>3. delivered' \in SUBSET Batch
    BY <1>1 DEF WriteBreaks, TallyTypes
  <2> QED
    BY <2>1, <2>2, <2>3
<1>2. CASE WriteRefused(S)
  <2>1. conn' \in BOOLEAN
    BY <1>2, Zenon DEF WriteRefused
  <2> QED
    BY <1>2, <2>1 DEF WriteRefused, LifeTypes, TallyTypes
<1> QED
  BY <1>1, <1>2

(***************************************************************************)
(* DrainLoop and the channel's DrainFunc.                                  *)
(***************************************************************************)
LEMMA TypeDeleteRows ==
    ASSUME RowTypes, NEW R, DeleteRows(R), lastId' = lastId
    PROVE  RowTypes'
<1>1. CASE rows' = rows \ R /\ count' = count - Cardinality(rows \cap R) /\ dbFaults' = dbFaults
  <2>1. IsFiniteSet(rows \ R) /\ Cardinality(rows \cap R) \in Nat
    BY FS_Subset, FS_CardinalityType DEF RowTypes
  <2> QED
    BY <1>1, <2>1 DEF RowTypes
<1>2. CASE dbFaults' = dbFaults + 1 /\ rows' = rows /\ count' = count
  BY <1>2 DEF RowTypes
<1> QED
  BY <1>1, <1>2 DEF DeleteRows

LEMMA TypeDrainFail ==
    ASSUME DrainTypes, TallyTypes, DrainFail, dpc \in {"drain", "sending"},
           UNCHANGED <<intake, losses>>, delivered' \in SUBSET Batch
    PROVE  DrainTypes' /\ TallyTypes'
<1>1. First(pend) \in pend /\ First(pend) \in Row
  BY FirstIsARow DEF DrainTypes
<1>2. First(pend).id \in Nat /\ First(pend).batch \in Batch
  BY <1>1 DEF Row
<1>3. CASE PoisonPolicy /\ poisonId = First(pend).id
  <2>1. /\ poisonId' = 0 /\ dpc' = "poison" /\ pend' = {First(pend)} /\ full' = FALSE
        /\ narrow' = narrow /\ group' = {}
        /\ dropped' = dropped + 1 /\ shed' = shed \cup {First(pend).batch}
        /\ blamed' = blamed \cup {First(pend).batch}
    BY <1>3 DEF DrainFail, DrainFails, Drop
  <2>2. DrainTypes'
    BY <1>1, <2>1 DEF DrainTypes
  <2>3. TallyTypes'
    BY <1>2, <2>1 DEF TallyTypes
  <2> QED
    BY <2>2, <2>3
<1>4. CASE ~(PoisonPolicy /\ poisonId = First(pend).id)
  <2>1. narrow' \in BOOLEAN
    BY <1>4, OutboxAssumption DEF DrainFail, DrainFails, DrainTypes
  <2> QED
    BY <1>2, <1>4, <2>1 DEF DrainFail, DrainFails, DrainTypes, TallyTypes
<1> QED
  BY <1>3, <1>4

LEMMA TypeDrain ==
    ASSUME TypeInv, \/ DrainLoopStep /\ UNCHANGED channelVars
                    \/ DrainCall
    PROVE  TypeInv'
<1>a. RowTypes /\ DrainTypes /\ TallyTypes /\ LifeTypes
  BY DEF TypeInv
<1>1. CASE DrainCheck /\ UNCHANGED channelVars
  BY <1>1 DEF DrainCheck, TypeInv, QueueTypes, RowTypes, CallTypes, CallersHoldBatches,
         WriterTypes, DrainTypes, LifeTypes, TallyTypes
<1>2. CASE DrainFetch /\ UNCHANGED channelVars
  <2>1. RowTypes'
    BY <1>2, <1>a DEF DrainFetch, RowTypes
  <2>2. Oldest(rows, DrainWindow) \subseteq Row
    BY <1>a DEF Oldest, RowTypes
  <2>3. DrainTypes'
    <3>1. CASE pend' = pend /\ full' = full /\ dpc' = "wait"
      BY <1>2, <1>a, <3>1 DEF DrainFetch, DrainTypes
    <3>2. CASE pend' = Oldest(rows, DrainWindow) /\ full' \in BOOLEAN
               /\ dpc' = IF pend' = {} THEN "wait" ELSE "drain"
      BY <1>2, <1>a, <2>2, <3>2 DEF DrainFetch, DrainTypes
    <3> QED
      BY <1>2, <3>1, <3>2 DEF DrainFetch
  <2> QED
    BY <1>2, <2>1, <2>3 DEF DrainFetch, TypeInv, QueueTypes, CallTypes,
           CallersHoldBatches, WriterTypes, LifeTypes, TallyTypes
<1>3. CASE DrainDeletePoison /\ UNCHANGED channelVars
  <2>1. RowTypes'
    BY <1>3, <1>a, TypeDeleteRows DEF DrainDeletePoison
  <2>2. DrainTypes'
    BY <1>3, <1>a DEF DrainDeletePoison, DrainTypes
  <2> QED
    BY <1>3, <2>1, <2>2 DEF DrainDeletePoison, TypeInv, QueueTypes, CallTypes,
           CallersHoldBatches, WriterTypes, LifeTypes, TallyTypes
<1>4. CASE (DrainQuit \/ DrainNotified \/ DrainBackstop) /\ UNCHANGED channelVars
  <2>1. /\ UNCHANGED <<waitFrame, channelVars>>
        /\ dpc' \in {"exited", "check"} /\ notify' \in {notify, FALSE}
    BY <1>4 DEF DrainQuit, DrainNotified, DrainBackstop
  <2>2. DrainTypes' /\ LifeTypes'
    BY <1>a, <2>1 DEF DrainTypes, LifeTypes
  <2> QED
    BY <2>1, <2>2 DEF TypeInv, QueueTypes, RowTypes, CallTypes, CallersHoldBatches,
           WriterTypes, TallyTypes
<1>5. CASE DrainWrite
  <2>1. DrainTypes' /\ TallyTypes'
    <3>1. CASE conn
      <4>1. Group(pend) \subseteq pend
        BY DEF Group
      <4> QED
        BY <1>5, <1>a, <3>1, <4>1 DEF DrainWrite, DrainTypes, TallyTypes
    <3>2. CASE ~conn
      BY <1>5, <1>a, <3>2, TypeDrainFail DEF DrainWrite, TallyTypes
    <3> QED
      BY <3>1, <3>2
  <2> QED
    BY <1>5, <2>1 DEF DrainWrite, TypeInv, QueueTypes, RowTypes, CallTypes,
           CallersHoldBatches, WriterTypes, LifeTypes
<1>6. CASE DrainWritten
  <2>1. BatchesOf(group) \subseteq Batch
    BY <1>a DEF DrainTypes, BatchesOf, Row
  <2>2. TallyTypes'
    BY <1>6, <1>a, <2>1 DEF DrainWritten, WriteSucceeds, TallyTypes
  <2> QED
    BY <1>6, <2>2 DEF DrainWritten, WriteSucceeds, TypeInv, QueueTypes, RowTypes, CallTypes,
           CallersHoldBatches, WriterTypes, DrainTypes, LifeTypes
<1>7. CASE DrainWriteFailed
  <2>1. BatchesOf(group) \subseteq Batch
    BY <1>a DEF DrainTypes, BatchesOf, Row
  <2>2. delivered' \in SUBSET Batch
    BY <1>7, <1>a, <2>1, TypeWriteFails DEF DrainWriteFailed
  <2>3. DrainTypes' /\ TallyTypes'
    BY <1>7, <1>a, <2>2, TypeDrainFail DEF DrainWriteFailed
  <2>4. LifeTypes'
    <3>1. conn' \in BOOLEAN /\ faults' \in Nat
      BY <1>7, <1>a, <2>1, TypeWriteFails DEF DrainWriteFailed
    <3> QED
      BY <1>7, <1>a, <3>1 DEF DrainWriteFailed, LifeTypes
  <2> QED
    BY <1>7, <2>3, <2>4 DEF DrainWriteFailed, TypeInv, QueueTypes, RowTypes, CallTypes,
           CallersHoldBatches, WriterTypes
<1>8. CASE DrainDeleteSent
  <2>1. RowTypes'
    BY <1>8, <1>a, TypeDeleteRows DEF DrainDeleteSent
  <2>2. DrainTypes'
    <3>1. CASE pend = group
      <4>1. /\ pend' = {} /\ dpc' \in {"check", "wait"} /\ group' = {}
            /\ full' = FALSE /\ poisonId' = 0 /\ narrow' = FALSE
        BY <1>8, <3>1 DEF DrainDeleteSent, DrainSucceeds
      <4> QED
        BY <4>1 DEF DrainTypes
    <3>2. CASE pend # group
      <4>1. /\ pend' = pend \ group /\ pend' # {} /\ dpc' = "drain" /\ group' = {}
            /\ UNCHANGED <<full, poisonId, narrow>>
        BY <1>8, <1>a, <3>2 DEF DrainDeleteSent, DrainTypes
      <4> QED
        BY <1>a, <4>1 DEF DrainTypes
    <3> QED
      BY <3>1, <3>2
  <2> QED
    BY <1>8, <2>1, <2>2 DEF DrainDeleteSent, TypeInv, QueueTypes, CallTypes,
           CallersHoldBatches, WriterTypes, LifeTypes, TallyTypes
<1> QED
  BY <1>1, <1>2, <1>3, <1>4, <1>5, <1>6, <1>7, <1>8 DEF DrainLoopStep, DrainCall

(***************************************************************************)
(* The workers.                                                            *)
(***************************************************************************)
LEMMA TypeFlushFailed ==
    ASSUME CallTypes, TallyTypes, NEW w \in Worker, hand[w] # <<>>, FlushFailed(w),
           UNCHANGED <<intake, losses, blamed, mode, carry>>, delivered' \in SUBSET Batch
    PROVE  CallTypes' /\ TallyTypes'
<1>0. w \in Actor /\ <<>> \in Seq(Batch)
  BY DEF Actor
<1>1. CASE SpoolEnabled
  <2>1. CallTypes'
    BY <1>0, <1>1, CallerWaits DEF FlushFailed, CallTypes
  <2>2. TallyTypes'
    BY <1>1 DEF FlushFailed, TallyTypes
  <2> QED
    BY <2>1, <2>2
<1>2. CASE ~SpoolEnabled
  <2>1. CallTypes'
    BY <1>0, <1>2, CallerMoves DEF FlushFailed, AfterFlush, CallTypes
  <2>2. hand[w] \in Seq(Batch)
    BY <1>0 DEF CallTypes
  <2>3. Len(hand[w]) \in Nat /\ Range(hand[w]) \subseteq Batch
    BY <2>2, LengthIsNat, RangeInSet
  <2>4. TallyTypes'
    BY <1>2, <2>3 DEF FlushFailed, TallyTypes
  <2> QED
    BY <2>1, <2>4
<1> QED
  BY <1>1, <1>2

LEMMA TypeWorker ==
    ASSUME TypeInv, NEW w \in Worker, WorkerStep(w)
    PROVE  TypeInv'
<1>a. QueueTypes /\ CallTypes /\ TallyTypes /\ LifeTypes
  BY DEF TypeInv
<1>b. w \in Actor /\ hand[w] \in Seq(Batch) /\ carry[w] \in Seq(Batch) /\ <<>> \in Seq(Batch)
  BY <1>a DEF Actor, CallTypes
<1>c. mode \in [Worker -> {"run", "drain", "last"}] /\ carry \in [Worker -> Seq(Batch)]
  BY <1>a DEF CallTypes
<1>1. CASE WorkerTake(w)
  <2>1. outbox # <<>> /\ Head(outbox) \in Batch /\ Tail(outbox) \in Seq(Batch)
    BY <1>1, <1>a, RangeOfTail DEF WorkerTake, QueueTypes
  <2>2. CallTypes'
    <3>1. CASE Conflicts(Head(outbox), Range(hand[w]))
      <4>1. hand[w] # <<>>
        BY <1>b, <3>1, RangeInSet DEF Conflicts
      <4>2. carry' \in [Worker -> Seq(Batch)]
        <5>1. <<Head(outbox)>> \in Seq(Batch)
          BY <2>1
        <5>2. carry' = [carry EXCEPT ![w] = <<Head(outbox)>>]
          BY <1>1, <3>1 DEF WorkerTake
        <5> QED
          BY <1>c, <5>1, <5>2
      <4> QED
        BY <1>1, <1>a, <1>b, <1>c, <3>1, <4>1, <4>2, CallerWaits DEF WorkerTake
    <3>2. CASE ~Conflicts(Head(outbox), Range(hand[w]))
      <4>1. Append(hand[w], Head(outbox)) \in Seq(Batch) /\ Append(hand[w], Head(outbox)) # <<>>
        BY <1>b, <2>1, AppendProperties
      <4>2. hand' = [hand EXCEPT ![w] = Append(hand[w], Head(outbox))]
        BY <1>1, <3>2 DEF WorkerTake
      <4>3. \/ pc' = [pc EXCEPT ![w] = "write"]
            \/ pc' = [pc EXCEPT ![w] = "idle"]
        BY <1>1, <3>2 DEF WorkerTake
      <4>4. mode' = mode /\ carry' = carry
        BY <1>1, <3>2 DEF WorkerTake
      <4> QED
        BY <1>a, <1>b, <1>c, <4>1, <4>2, <4>3, <4>4, CallerMoves
    <3> QED
      BY <3>1, <3>2
  <2> QED
    BY <1>1, <1>a, <2>1, <2>2 DEF WorkerTake, TypeInv, QueueTypes, RowTypes, WriterTypes,
           DrainTypes, LifeTypes, TallyTypes
<1>2. CASE WorkerAppendCarry(w)
  <2>1. carry' \in [Worker -> Seq(Batch)]
    BY <1>2, <1>c DEF WorkerAppendCarry
  <2>2. CallTypes'
    BY <1>2, <1>a, <1>b, <1>c, <2>1, CallerMoves DEF WorkerAppendCarry
  <2> QED
    BY <1>2, <2>2 DEF WorkerAppendCarry, TypeInv, QueueTypes, RowTypes, WriterTypes,
           DrainTypes, LifeTypes, TallyTypes
<1>3. CASE WorkerTick(w)
  <2>1. CallTypes'
    BY <1>3, <1>a, <1>b, <1>c, CallerWaits DEF WorkerTick
  <2> QED
    BY <1>3, <2>1 DEF WorkerTick, TypeInv, QueueTypes, RowTypes, WriterTypes,
           DrainTypes, LifeTypes, TallyTypes
<1>4. CASE WorkerQuit(w)
  <2>1. CallTypes'
    BY <1>4, <1>a, <1>c DEF WorkerQuit, CallTypes, CallersHoldBatches
  <2> QED
    BY <1>4, <2>1 DEF WorkerQuit, TypeInv, QueueTypes, RowTypes, WriterTypes,
           DrainTypes, LifeTypes, TallyTypes
<1>5. CASE WorkerLast(w)
  <2>1. mode' \in [Worker -> {"run", "drain", "last"}]
    BY <1>5, <1>c DEF WorkerLast
  <2>2. CallTypes'
    BY <1>5, <1>a, <1>b, <1>c, <2>1, CallerWaits DEF WorkerLast
  <2> QED
    BY <1>5, <2>2 DEF WorkerLast, TypeInv, QueueTypes, RowTypes, WriterTypes,
           DrainTypes, LifeTypes, TallyTypes
<1>6. CASE WorkerWrite(w)
  <2>1. hand[w] # <<>>
    BY <1>6, <1>a DEF WorkerWrite, CallTypes
  <2>2. CallTypes' /\ TallyTypes'
    <3>1. CASE conn
      <4>1. CallTypes'
        BY <1>6, <1>a, <1>b, <1>c, <2>1, <3>1, CallerWaits DEF WorkerWrite
      <4> QED
        BY <1>6, <1>a, <3>1, <4>1 DEF WorkerWrite, TallyTypes
    <3>2. CASE ~conn
      BY <1>6, <1>a, <2>1, <3>2, TypeFlushFailed DEF WorkerWrite, TallyTypes
    <3> QED
      BY <3>1, <3>2
  <2> QED
    BY <1>6, <2>2 DEF WorkerWrite, TypeInv, QueueTypes, RowTypes, WriterTypes,
           DrainTypes, LifeTypes
<1>7. CASE WorkerWritten(w)
  <2>1. CallTypes'
    BY <1>7, <1>a, <1>b, <1>c, CallerMoves DEF WorkerWritten, AfterFlush
  <2>2. Range(hand[w]) \subseteq Batch
    BY <1>b, RangeInSet
  <2>3. TallyTypes'
    BY <1>7, <1>a, <2>2 DEF WorkerWritten, WriteSucceeds, TallyTypes
  <2> QED
    BY <1>7, <2>1, <2>3 DEF WorkerWritten, WriteSucceeds, TypeInv, QueueTypes, RowTypes,
           WriterTypes, DrainTypes, LifeTypes
<1>8. CASE WorkerWriteFailed(w)
  <2>1. hand[w] # <<>> /\ Range(hand[w]) \subseteq Batch
    BY <1>8, <1>a, <1>b, RangeInSet DEF WorkerWriteFailed, CallTypes
  <2>2. delivered' \in SUBSET Batch /\ conn' \in BOOLEAN /\ faults' \in Nat
    BY <1>8, <1>a, <2>1, TypeWriteFails DEF WorkerWriteFailed
  <2>3. CallTypes' /\ TallyTypes'
    BY <1>8, <1>a, <2>1, <2>2, TypeFlushFailed DEF WorkerWriteFailed
  <2>4. LifeTypes'
    BY <1>8, <1>a, <2>2 DEF WorkerWriteFailed, LifeTypes
  <2> QED
    BY <1>8, <2>3, <2>4 DEF WorkerWriteFailed, TypeInv, QueueTypes, RowTypes, WriterTypes,
           DrainTypes
<1> QED
  BY <1>1, <1>2, <1>3, <1>4, <1>5, <1>6, <1>7, <1>8 DEF WorkerStep

(***************************************************************************)
(* ReconnectLoop, Stop and restart.                                        *)
(***************************************************************************)
LEMMA TypeReconnect ==
    ASSUME TypeInv, Reconnect
    PROVE  TypeInv'
<1>1. LifeTypes'
  <2>1. CASE TryConnect
    BY <2>1 DEF TryConnect, TypeInv, LifeTypes
  <2>2. CASE TryConnectNotify
    BY <2>2, OutboxAssumption DEF TryConnectNotify, TypeInv, LifeTypes
  <2>3. CASE ReconnectQuit
    BY <2>3 DEF ReconnectQuit, TypeInv, LifeTypes
  <2> QED
    BY <2>1, <2>2, <2>3 DEF Reconnect
<1>2. UNCHANGED reconnectFrame
  BY DEF Reconnect, TryConnect, TryConnectNotify, ReconnectQuit
<1> QED
  BY <1>1, <1>2 DEF TypeInv, QueueTypes, RowTypes, CallTypes, CallersHoldBatches,
         WriterTypes, DrainTypes, TallyTypes

LEMMA TypeStop ==
    ASSUME TypeInv, Close \/ WaitStart(GroupExited) \/ WaitReturn, UNCHANGED channelVars
    PROVE  TypeInv'
<1>1. LifeTypes'
  BY DEF Close, WaitStart, WaitReturn, TypeInv, LifeTypes
<1>2. TallyTypes'
  BY DEF Close, WaitStart, WaitReturn, TypeInv, TallyTypes
<1>3. UNCHANGED <<queues, dbVars, callVars, writerVars, drainVars, mode, carry, group>>
  BY DEF Close, WaitStart, WaitReturn
<1> QED
  BY <1>1, <1>2, <1>3 DEF TypeInv, QueueTypes, RowTypes, CallTypes, CallersHoldBatches,
         WriterTypes, DrainTypes

LEMMA InMemoryIsBatches == TypeInv => InMemory \subseteq Batch /\ Carried \subseteq Batch
<1> SUFFICES ASSUME TypeInv PROVE InMemory \subseteq Batch /\ Carried \subseteq Batch
  OBVIOUS
<1>1. \A s \in Seq(Batch) : Range(s) \subseteq Batch
  BY RangeInSet
<1> QED
  BY <1>1 DEF TypeInv, QueueTypes, CallTypes, WriterTypes, InMemory, Carried

LEMMA TypeRestart ==
    ASSUME TypeInv, Restart
    PROVE  TypeInv'
<1> USE DEF Restart, Reboot
<1>1. QueueTypes'
  BY DEF QueueTypes
<1>2. RowTypes'
  BY FS_CardinalityType DEF TypeInv, RowTypes
<1>3. CallTypes'
  BY DEF CallTypes, CallersHoldBatches, Actor
<1>4. WriterTypes'
  BY DEF WriterTypes
<1>5. DrainTypes'
  BY DEF DrainTypes
<1>6. LifeTypes'
  <2>1. faults' \in Nat /\ restarts' \in Nat
    BY DEF TypeInv, LifeTypes
  <2>2. uncounted' \in Nat
    BY FS_CardinalityType DEF TypeInv, RowTypes
  <2> QED
    BY <2>1, <2>2 DEF LifeTypes
<1>7. TallyTypes'
  BY InMemoryIsBatches DEF TypeInv, TallyTypes
<1> QED
  BY <1>1, <1>2, <1>3, <1>4, <1>5, <1>6, <1>7 DEF TypeInv

LEMMA TypeNext == TypeInv /\ [Next]_vars => TypeInv'
<1> SUFFICES ASSUME TypeInv, [Next]_vars PROVE TypeInv'
  OBVIOUS
<1>1. ASSUME OutboxStep PROVE TypeInv'
  <2>1. ASSUME NEW p \in Producer, Enqueue(p), UNCHANGED channelVars PROVE TypeInv'
    <3>1. p \in Actor
      BY DEF Actor
    <3> QED
      BY <2>1, <3>1, TypeEnqueue, TypeSpoolEnqueue DEF Enqueue
  <2>2. ASSUME SpoolWriteLoop, UNCHANGED channelVars PROVE TypeInv'
    BY <2>2, TypeWriter
  <2>3. ASSUME DrainLoopStep, UNCHANGED channelVars PROVE TypeInv'
    BY <2>3, TypeDrain
  <2> QED
    BY <1>1, <2>1, <2>2, <2>3, TypeStop DEF OutboxStep
<1>2. ASSUME NEW w \in Worker, WorkerStep(w) \/ WorkerSpool(w) PROVE TypeInv'
  <2>1. w \in Actor /\ AfterFlush(w) \in {"idle", "exited"}
    BY DEF Actor, AfterFlush
  <2> QED
    BY <1>2, <2>1, TypeWorker, TypeSpoolEnqueue DEF WorkerSpool
<1>3. CASE UNCHANGED vars
  BY <1>3 DEF TypeInv, QueueTypes, RowTypes, CallTypes, CallersHoldBatches, WriterTypes,
         DrainTypes, LifeTypes, TallyTypes
<1> QED
  BY <1>1, <1>2, <1>3, TypeDrain, TypeReconnect, TypeRestart DEF Next

(***************************************************************************)
(* Type correctness, for any number of batches, callers and workers and    *)
(* any capacity of the buffers (Outbox, AggregateWriter, GroupedDrainer).  *)
(***************************************************************************)
THEOREM TypeCorrect == Spec => []TypeOK
<1>1. Spec => []TypeInv
  BY TypeInit, TypeNext, PTL DEF Spec
<1> QED
  BY <1>1, TypeInvImpliesTypeOK, PTL

-------------------------------------------------------------------------------
(***************************************************************************)
(* Stop.                                                                   *)
(***************************************************************************)
\* The phases of Stop.
PhaseInv ==
    /\ quit <=> stop # "running"
    /\ workersDone <=> stop \in {"waiting", "stopped"}
    /\ workersDone => GroupExited
    /\ stop = "stopped" => wmode = "done"
    /\ wmode \in {"last", "done"} /\ SpoolEnabled => workersDone
    /\ wmode = "done" => wpc = "idle"

\* A worker that has seen quit takes nothing more; one that is gone left nothing.
RetireInv ==
    \A w \in Worker :
       /\ mode[w] # "run" => quit
       /\ mode[w] = "last" => pc[w] # "idle" /\ carry[w] = <<>>
       /\ pc[w] = "exited" => mode[w] = "last" /\ hand[w] = <<>>

\* Without a spool its goroutines do not run and nobody stores.
NoSpoolInv ==
    ~SpoolEnabled =>
       /\ spoolCh = <<>> /\ wmode = "done" /\ dpc = "exited"
       /\ \A a \in Actor : pc[a] \notin {"spoolSend", "spoolEvict", "spoolResend"}

\* Where a batch that was taken before Close cannot be any more.
OnTimeInv ==
    /\ onTime \subseteq accepted
    /\ \A p \in Producer : Range(hand[p]) \cap onTime = {}
    /\ (\E w \in Worker : mode[w] = "last") => Range(outbox) \cap onTime = {}
    /\ wmode = "done" => Range(spoolCh) \cap onTime = {}

StopInv == TypeInv /\ PhaseInv /\ RetireInv /\ NoSpoolInv /\ OnTimeInv

LEMMA StopInit == Init => StopInv
<1> SUFFICES ASSUME Init PROVE StopInv
  OBVIOUS
<1> USE DEF Init, OutboxInit
<1>1. TypeInv
  BY TypeInit
<1>2. PhaseInv /\ RetireInv
  BY DEF PhaseInv, RetireInv, Actor
<1>3. NoSpoolInv
  BY DEF NoSpoolInv
<1>4. OnTimeInv
  BY DEF OnTimeInv
<1> QED
  BY <1>1, <1>2, <1>3, <1>4 DEF StopInv

\* The types the steps below rely on.
LEMMA StopTypes ==
    ASSUME TypeInv
    PROVE  /\ outbox \in Seq(Batch) /\ spoolCh \in Seq(Batch) /\ buf \in Seq(Batch)
           /\ hand \in [Actor -> Seq(Batch)] /\ carry \in [Worker -> Seq(Batch)]
           /\ DOMAIN pc = Actor /\ DOMAIN mode = Worker
           /\ CallersHoldBatches
           /\ wpc = "idle" => buf = <<>>
           /\ Worker \subseteq Actor /\ Producer \subseteq Actor
           /\ \A p \in Producer : p \notin Worker
BY OutboxAssumption DEF TypeInv, QueueTypes, CallTypes, WriterTypes, Actor

(***************************************************************************)
(* Enqueue: the callers of a stopping channel bring only late batches.     *)
(***************************************************************************)
LEMMA StopEnqueue ==
    ASSUME StopInv, NEW p \in Producer, Enqueue(p), UNCHANGED channelVars
    PROVE  PhaseInv' /\ RetireInv' /\ NoSpoolInv' /\ OnTimeInv'
<1>a. /\ p \in Actor /\ p \notin Worker /\ hand[p] \in Seq(Batch)
      /\ outbox \in Seq(Batch) /\ spoolCh \in Seq(Batch)
      /\ hand \in [Actor -> Seq(Batch)] /\ DOMAIN pc = Actor
      /\ Worker \subseteq Actor /\ Producer \subseteq Actor
  BY StopTypes DEF StopInv
<1>b. /\ pc[p] \in {"send", "evict", "resend", "spoolSend", "spoolEvict", "spoolResend"}
           => /\ hand[p] # <<>> /\ Head(hand[p]) \in Batch
              /\ Range(hand[p]) = {Head(hand[p])} \cup Range(Tail(hand[p]))
  BY <1>a, StopTypes, RangeOfTail DEF StopInv, CallersHoldBatches
<1>c. PhaseInv /\ RetireInv /\ NoSpoolInv /\ OnTimeInv
  BY DEF StopInv
<1>1. /\ UNCHANGED <<quit, workersDone, stop, wmode, wpc, dpc, rpc, mode, carry, onTime>>
      /\ accepted \subseteq accepted'
      /\ \A a \in Actor : a # p => pc'[a] = pc[a] /\ hand'[a] = hand[a]
  BY <1>a DEF Enqueue, EnqueueStart, EnqueueSend, EnqueueEvict, EnqueueResend, SpoolSend,
         SpoolEvict, SpoolResend, HandOver
<1>2. PhaseInv' /\ RetireInv'
  BY <1>a, <1>c, <1>1 DEF PhaseInv, RetireInv, GroupExited
<1>3. NoSpoolInv'
  BY <1>a, <1>c, <1>1 DEF NoSpoolInv, Enqueue, EnqueueStart, EnqueueSend, EnqueueEvict,
         EnqueueResend, SpoolSend, SpoolEvict, SpoolResend
\* What p holds afterwards, and what it put into the queues, is late.
<1>4. Range(hand'[p]) \cap onTime = {}
  <2>1. CASE \E b \in Batch : EnqueueStart(p, b)
    <3>1. PICK b \in Batch : EnqueueStart(p, b)
      BY <2>1
    <3>2. hand'[p] = <<b>> /\ b \notin accepted
      BY <1>a, <3>1 DEF EnqueueStart
    <3> QED
      BY <1>c, <3>2, RangeOfOne DEF OnTimeInv
  <2>2. CASE EnqueueSend(p) \/ EnqueueEvict(p) \/ EnqueueResend(p) \/ SpoolEvict(p)
    <3>1. hand'[p] = hand[p] \/ hand'[p] = <<>>
      BY <1>a, <2>2 DEF EnqueueSend, EnqueueEvict, EnqueueResend, SpoolEvict
    <3> QED
      BY <1>c, <3>1 DEF OnTimeInv, Range
  <2>3. CASE SpoolSend(p, "idle") \/ SpoolResend(p, "idle")
    <3>1. hand'[p] = hand[p] \/ hand'[p] = Tail(hand[p])
      BY <1>a, <2>3 DEF SpoolSend, SpoolResend, HandOver
    <3>2. Range(Tail(hand[p])) \subseteq Range(hand[p])
      BY <1>b, <2>3 DEF SpoolSend, SpoolResend
    <3> QED
      BY <1>c, <3>1, <3>2 DEF OnTimeInv
  <2> QED
    BY <2>1, <2>2, <2>3 DEF Enqueue
<1>5. /\ Range(outbox') \subseteq Range(outbox) \cup Range(hand[p])
      /\ Range(spoolCh') \subseteq Range(spoolCh) \cup Range(hand[p])
  <2>1. CASE (\E b \in Batch : EnqueueStart(p, b)) \/ EnqueueEvict(p) \/ SpoolEvict(p)
    <3>1. /\ outbox' = outbox \/ (outbox # <<>> /\ outbox' = Tail(outbox))
          /\ \/ spoolCh' = spoolCh
             \/ spoolCh # <<>> /\ spoolCh' = Tail(spoolCh)
      BY <2>1 DEF EnqueueStart, EnqueueEvict, SpoolEvict
    <3> QED
      BY <1>a, <3>1, RangeOfTail
  <2>2. CASE EnqueueSend(p) \/ EnqueueResend(p) \/ SpoolSend(p, "idle") \/ SpoolResend(p, "idle")
    <3>1. Head(hand[p]) \in Batch /\ Head(hand[p]) \in Range(hand[p])
      BY <1>b, <2>2 DEF EnqueueSend, EnqueueResend, SpoolSend, SpoolResend
    <3>2. /\ Range(Append(outbox, Head(hand[p]))) = Range(outbox) \cup {Head(hand[p])}
          /\ Range(Append(spoolCh, Head(hand[p]))) = Range(spoolCh) \cup {Head(hand[p])}
      BY <1>a, <3>1, BatchAppended
    <3>3. /\ outbox' = outbox \/ outbox' = Append(outbox, Head(hand[p]))
          /\ spoolCh' = spoolCh \/ spoolCh' = Append(spoolCh, Head(hand[p]))
      BY <2>2 DEF EnqueueSend, EnqueueResend, SpoolSend, SpoolResend
    <3> QED
      BY <3>1, <3>2, <3>3
  <2> QED
    BY <2>1, <2>2 DEF Enqueue
<1>6. OnTimeInv'
  BY <1>a, <1>c, <1>1, <1>4, <1>5 DEF OnTimeInv
<1> QED
  BY <1>2, <1>3, <1>6

(***************************************************************************)
(* The workers.                                                            *)
(***************************************************************************)
\* A worker that steps has not exited, so Wait still waits for it.
LEMMA StopWorkerFrame ==
    ASSUME StopInv, NEW w \in Worker, pc[w] # "exited",
           UNCHANGED <<quit, workersDone, stop, wmode, wpc, dpc>>,
           \A a \in Actor : a # w => pc'[a] = pc[a],
           pc'[w] \in {"spoolSend", "spoolEvict", "spoolResend"} => SpoolEnabled,
           ~SpoolEnabled => spoolCh' = spoolCh
    PROVE  PhaseInv' /\ NoSpoolInv'
<1>a. w \in Actor /\ ~GroupExited
  BY StopTypes DEF StopInv, GroupExited
<1>1. PhaseInv'
  BY <1>a DEF StopInv, PhaseInv
<1>2. NoSpoolInv'
  BY <1>a DEF StopInv, NoSpoolInv
<1> QED
  BY <1>1, <1>2

LEMMA StopWorker ==
    ASSUME StopInv, NEW w \in Worker, WorkerStep(w)
    PROVE  PhaseInv' /\ RetireInv' /\ NoSpoolInv' /\ OnTimeInv'
<1>a. /\ w \in Actor /\ w \notin Producer /\ hand[w] \in Seq(Batch)
      /\ outbox \in Seq(Batch) /\ DOMAIN pc = Actor /\ DOMAIN mode = Worker
      /\ DOMAIN hand = Actor /\ DOMAIN carry = Worker
      /\ Worker \subseteq Actor /\ Producer \subseteq Actor
  BY StopTypes DEF StopInv
<1>c. PhaseInv /\ RetireInv /\ NoSpoolInv /\ OnTimeInv
  BY DEF StopInv
<1>1. /\ UNCHANGED <<quit, workersDone, stop, wmode, wpc, dpc, rpc, onTime, accepted, spoolCh>>
      /\ \A a \in Actor : a # w => pc'[a] = pc[a] /\ hand'[a] = hand[a]
      /\ \A v \in Worker : v # w => mode'[v] = mode[v] /\ carry'[v] = carry[v]
      /\ pc[w] \in {"idle", "write", "sending"}
      /\ pc'[w] \in {"spoolSend", "spoolEvict", "spoolResend"} => SpoolEnabled
  BY <1>a DEF WorkerStep, WorkerTake, WorkerAppendCarry, WorkerTick, WorkerQuit, WorkerLast,
         WorkerWrite, WorkerWritten, WorkerWriteFailed, FlushFailed, WriteSucceeds, AfterFlush
<1>2. PhaseInv' /\ NoSpoolInv'
  BY <1>1, StopWorkerFrame
<1>3. outbox' = outbox \/ (outbox # <<>> /\ outbox' = Tail(outbox))
  BY DEF WorkerStep, WorkerTake, WorkerAppendCarry, WorkerTick, WorkerQuit, WorkerLast,
         WorkerWrite, WorkerWritten, WorkerWriteFailed
<1>4. /\ mode'[w] # "run" => quit
      /\ mode'[w] = "last" => pc'[w] # "idle" /\ carry'[w] = <<>>
      /\ pc'[w] = "exited" => mode'[w] = "last" /\ hand'[w] = <<>>
  <2>1. CASE WorkerTake(w) \/ WorkerAppendCarry(w) \/ WorkerTick(w) \/ WorkerQuit(w)
    BY <1>a, <1>c, <2>1 DEF RetireInv, WorkerTake, WorkerAppendCarry, WorkerTick, WorkerQuit
  <2>2. CASE WorkerLast(w)
    BY <1>a, <1>c, <2>2 DEF RetireInv, WorkerLast
  <2>3. CASE WorkerWrite(w) \/ WorkerWritten(w) \/ WorkerWriteFailed(w)
    BY <1>a, <1>c, <2>3 DEF RetireInv, WorkerWrite, WorkerWritten, WorkerWriteFailed,
           FlushFailed, AfterFlush
  <2> QED
    BY <2>1, <2>2, <2>3 DEF WorkerStep
<1>5. RetireInv'
  BY <1>a, <1>c, <1>1, <1>4 DEF RetireInv
<1>6. mode'[w] = "last" => mode[w] = "last" \/ outbox' = <<>>
  BY <1>a DEF WorkerStep, WorkerTake, WorkerAppendCarry, WorkerTick, WorkerQuit, WorkerLast,
         WorkerWrite, WorkerWritten, WorkerWriteFailed
<1>7. Range(outbox') \subseteq Range(outbox) /\ Range(<<>>) = {}
  BY <1>a, <1>3, RangeOfTail DEF Range
<1>8. OnTimeInv'
  BY <1>a, <1>c, <1>1, <1>6, <1>7 DEF OnTimeInv
<1> QED
  BY <1>2, <1>5, <1>8

LEMMA StopWorkerSpool ==
    ASSUME StopInv, NEW w \in Worker, WorkerSpool(w)
    PROVE  PhaseInv' /\ RetireInv' /\ NoSpoolInv' /\ OnTimeInv'
<1>a. /\ w \in Actor /\ w \notin Producer /\ hand[w] \in Seq(Batch)
      /\ spoolCh \in Seq(Batch) /\ DOMAIN pc = Actor /\ DOMAIN hand = Actor
      /\ Worker \subseteq Actor /\ Producer \subseteq Actor
  BY StopTypes DEF StopInv
<1>c. PhaseInv /\ RetireInv /\ NoSpoolInv /\ OnTimeInv
  BY DEF StopInv
<1>1. /\ UNCHANGED <<quit, workersDone, stop, wmode, wpc, dpc, rpc, onTime, accepted, outbox>>
      /\ UNCHANGED <<mode, carry>>
      /\ \A a \in Actor : a # w => pc'[a] = pc[a] /\ hand'[a] = hand[a]
      /\ pc[w] \in {"spoolSend", "spoolEvict", "spoolResend"}
  BY <1>a DEF WorkerSpool, SpoolSend, SpoolEvict, SpoolResend, HandOver
<1>2. SpoolEnabled
  BY <1>a, <1>c, <1>1 DEF NoSpoolInv
<1>3. PhaseInv' /\ NoSpoolInv'
  BY <1>1, <1>2, StopWorkerFrame
<1>4. hand[w] # <<>>
  BY <1>a, <1>1, StopTypes DEF StopInv, CallersHoldBatches
<1>5. /\ mode[w] = "last" => pc'[w] # "idle"
      /\ pc'[w] = "exited" => mode[w] = "last" /\ hand'[w] = <<>>
  <2>1. ASSUME HandOver(w, AfterFlush(w)) 
        PROVE  /\ mode[w] = "last" => pc'[w] # "idle"
               /\ pc'[w] = "exited" => mode[w] = "last" /\ hand'[w] = <<>>
    <3>1. CASE Len(hand[w]) > 1
      BY <1>a, <2>1, <3>1 DEF HandOver
    <3>2. CASE ~(Len(hand[w]) > 1)
      <4>1. Len(hand[w]) = 1
        <5>1. Len(hand[w]) \in Nat /\ Len(hand[w]) # 0
          BY <1>a, <1>4, LengthIsNat, EmptyIsLengthZero
        <5>2. \A n \in Nat : n # 0 /\ ~(n > 1) => n = 1
          OBVIOUS
        <5> QED
          BY <3>2, <5>1, <5>2, Zenon
      <4>2. hand'[w] = <<>>
        BY <1>a, <2>1, <4>1, RangeOfSingleton DEF HandOver
      <4>3. pc'[w] = AfterFlush(w)
        BY <1>a, <2>1, <3>2 DEF HandOver
      <4> QED
        BY <4>2, <4>3 DEF AfterFlush
    <3> QED
      BY <3>1, <3>2
  <2> QED
    BY <1>a, <2>1 DEF WorkerSpool, SpoolSend, SpoolEvict, SpoolResend
<1>6. RetireInv'
  BY <1>a, <1>c, <1>1, <1>5 DEF RetireInv
\* wmode is not "done" yet: w has not exited.
<1>7. wmode # "done"
  BY <1>a, <1>c, <1>1, <1>2 DEF PhaseInv, GroupExited
<1>8. OnTimeInv'
  BY <1>a, <1>c, <1>1, <1>7 DEF OnTimeInv
<1> QED
  BY <1>3, <1>6, <1>8

(***************************************************************************)
(* spoolWriteLoop, DrainLoop, ReconnectLoop.                               *)
(***************************************************************************)
LEMMA StopWriter ==
    ASSUME StopInv, SpoolWriteLoop, UNCHANGED channelVars
    PROVE  PhaseInv' /\ RetireInv' /\ NoSpoolInv' /\ OnTimeInv'
<1>c. PhaseInv /\ RetireInv /\ NoSpoolInv /\ OnTimeInv /\ spoolCh \in Seq(Batch)
      /\ wmode \in {"run", "sweep", "serve", "last", "done"}
  BY StopTypes DEF StopInv, TypeInv, WriterTypes
<1>1. UNCHANGED <<outbox, pc, hand, mode, carry, quit, workersDone, stop, dpc, rpc, onTime, accepted>>
  BY DEF SpoolWriteLoop, WriterTake, WriterCollect, WriterCheckCap, WriterTrim,
         WriterInsert, WriterFallback, WriterPhase
\* A step is taken before the loop is done, so the spool is enabled.
<1>2. wmode # "done" /\ SpoolEnabled
  BY <1>c DEF PhaseInv, NoSpoolInv, SpoolWriteLoop, WriterTake, WriterCollect,
         WriterCheckCap, WriterTrim, WriterInsert, WriterFallback, WriterPhase
<1>3. \/ wmode' = wmode
      \/ wpc' = "idle" /\ wmode' \in {"sweep", "serve"}
      \/ wpc' = "idle" /\ wmode' = "last" /\ workersDone
      \/ wpc' = "idle" /\ wmode' = "done" /\ wmode = "last" /\ spoolCh' = <<>>
  BY DEF SpoolWriteLoop, WriterTake, WriterCollect, WriterCheckCap, WriterTrim,
         WriterInsert, WriterFallback, WriterPhase
<1>4. PhaseInv'
  <2>1. stop # "stopped" /\ (wmode = "last" => workersDone)
    BY <1>c, <1>2 DEF PhaseInv
  <2>2. GroupExited' = GroupExited
    BY <1>1 DEF GroupExited
  <2> QED
    BY <1>c, <1>1, <1>2, <1>3, <2>1, <2>2 DEF PhaseInv
<1>5. RetireInv' /\ NoSpoolInv'
  BY <1>c, <1>1, <1>2 DEF RetireInv, NoSpoolInv
<1>6. OnTimeInv'
  BY <1>c, <1>1, <1>2, <1>3, RangeOfOne DEF OnTimeInv, Range
<1> QED
  BY <1>4, <1>5, <1>6

LEMMA StopDrain ==
    ASSUME StopInv, (DrainLoopStep /\ UNCHANGED channelVars) \/ DrainCall \/ Reconnect
    PROVE  PhaseInv' /\ RetireInv' /\ NoSpoolInv' /\ OnTimeInv'
<1>c. PhaseInv /\ RetireInv /\ NoSpoolInv /\ OnTimeInv
  BY DEF StopInv
<1>1. /\ UNCHANGED <<outbox, spoolCh, pc, hand, mode, carry, quit, workersDone, stop>>
      /\ UNCHANGED <<wmode, wpc, onTime, accepted>>
      /\ dpc = "exited" => dpc' = "exited"
      /\ rpc = "exited" => rpc' = "exited"
  BY DEF DrainLoopStep, DrainCheck, DrainFetch, DrainDeletePoison, DrainQuit, DrainNotified,
         DrainBackstop, DrainCall, DrainWrite, DrainWritten, DrainWriteFailed,
         DrainDeleteSent, DrainFail, Reconnect, TryConnect, TryConnectNotify, ReconnectQuit
<1>2. PhaseInv'
  BY <1>c, <1>1 DEF PhaseInv, GroupExited
<1>3. RetireInv' /\ NoSpoolInv' /\ OnTimeInv'
  BY <1>c, <1>1 DEF RetireInv, NoSpoolInv, OnTimeInv
<1> QED
  BY <1>2, <1>3

(***************************************************************************)
(* Close, Wait and a restart.                                              *)
(***************************************************************************)
LEMMA StopLife ==
    ASSUME StopInv, Close \/ WaitStart(GroupExited) \/ WaitReturn, UNCHANGED channelVars
    PROVE  PhaseInv' /\ RetireInv' /\ NoSpoolInv' /\ OnTimeInv'
<1>c. PhaseInv /\ RetireInv /\ NoSpoolInv /\ OnTimeInv
  BY DEF StopInv
<1>1. UNCHANGED <<outbox, spoolCh, pc, hand, mode, carry, dpc, rpc, wmode, wpc, accepted>>
  BY DEF Close, WaitStart, WaitReturn
<1>2. GroupExited' = GroupExited
  BY <1>1 DEF GroupExited
<1>3. PhaseInv'
  BY <1>c, <1>1, <1>2 DEF PhaseInv, Close, WaitStart, WaitReturn
<1>4. RetireInv' /\ NoSpoolInv'
  BY <1>c, <1>1 DEF RetireInv, NoSpoolInv, Close, WaitStart, WaitReturn
<1>5. CASE Close
  <2>1. /\ ~quit /\ onTime' \subseteq accepted
        /\ \A p \in Producer : Range(hand[p]) \cap onTime' = {}
    BY <1>c, <1>5 DEF Close, PhaseInv
  <2>2. \A w \in Worker : mode[w] # "last"
    BY <1>c, <2>1 DEF RetireInv
  <2>3. wmode = "done" => spoolCh = <<>>
    BY <1>c, <2>1 DEF PhaseInv, NoSpoolInv
  <2> QED
    BY <1>1, <1>3, <1>4, <2>1, <2>2, <2>3 DEF OnTimeInv, Range
<1>6. CASE WaitStart(GroupExited) \/ WaitReturn
  <2>1. onTime' = onTime
    BY <1>6 DEF WaitStart, WaitReturn
  <2> QED
    BY <1>c, <1>1, <1>3, <1>4, <2>1 DEF OnTimeInv
<1> QED
  BY <1>5, <1>6

LEMMA StopRestart ==
    ASSUME StopInv, Restart
    PROVE  PhaseInv' /\ RetireInv' /\ NoSpoolInv' /\ OnTimeInv'
<1>1. PhaseInv' /\ RetireInv'
  BY DEF Restart, Reboot, PhaseInv, RetireInv, Actor
<1>2. NoSpoolInv' /\ OnTimeInv'
  BY DEF Restart, Reboot, NoSpoolInv, OnTimeInv, Actor
<1> QED
  BY <1>1, <1>2

LEMMA StopNext == StopInv /\ [Next]_vars => StopInv'
<1> SUFFICES ASSUME StopInv, [Next]_vars PROVE StopInv'
  OBVIOUS
<1>1. TypeInv'
  BY TypeNext DEF StopInv
<1>2. CASE UNCHANGED vars
  BY <1>1, <1>2 DEF StopInv, PhaseInv, RetireInv, NoSpoolInv, OnTimeInv, GroupExited
<1>3. CASE Next
  <2>1. CASE OutboxStep
    BY <1>1, <2>1, StopEnqueue, StopWriter, StopDrain, StopLife DEF OutboxStep, StopInv
  <2>2. CASE \E w \in Worker : WorkerStep(w) \/ WorkerSpool(w)
    BY <1>1, <2>2, StopWorker, StopWorkerSpool DEF StopInv
  <2>3. CASE DrainCall \/ Reconnect \/ Restart
    BY <1>1, <2>3, StopDrain, StopRestart DEF StopInv
  <2> QED
    BY <1>3, <2>1, <2>2, <2>3 DEF Next
<1> QED
  BY <1>2, <1>3

\* Once Wait has returned, only callers that came late hold anything.
LEMMA StoppedIsEmpty ==
    ASSUME StopInv, stop = "stopped"
    PROVE  /\ GroupExited /\ wmode = "done" /\ wpc = "idle"
           /\ onTime \cap (InMemory \cup Carried) = {}
<1>1. GroupExited /\ wmode = "done" /\ wpc = "idle"
  BY DEF StopInv, PhaseInv
<1>2. \A w \in Worker : hand[w] = <<>> /\ carry[w] = <<>> /\ mode[w] = "last"
  BY <1>1 DEF StopInv, RetireInv, GroupExited
<1>3. buf = <<>> /\ Range(<<>>) = {}
  BY <1>1, StopTypes DEF StopInv, Range
<1>4. Range(outbox) \cap onTime = {} /\ Range(spoolCh) \cap onTime = {}
  BY <1>1, <1>2, OutboxAssumption DEF StopInv, OnTimeInv
<1>5. \A a \in Actor : Range(hand[a]) \cap onTime = {}
  BY <1>2, <1>3 DEF StopInv, OnTimeInv, Actor
<1>6. Carried = {}
  BY <1>2, <1>3 DEF Carried
<1> QED
  BY <1>1, <1>3, <1>4, <1>5, <1>6 DEF InMemory

(***************************************************************************)
(* "No batch is left unsaved once Wait returns" (outbox.go, Wait): every   *)
(* batch whose Enqueue had returned when Close was called has left memory, *)
(* although workers may still spool after quit and callers still arrive.   *)
(***************************************************************************)
THEOREM StopLeavesNothing == Spec => []StopSavesAll
<1>1. StopInv => StopSavesAll
  BY StoppedIsEmpty DEF StopSavesAll
<1> QED
  BY <1>1, StopInit, StopNext, PTL DEF Spec

(***************************************************************************)
(* A stopped channel neither writes downstream nor touches its rows:       *)
(* whoever could has exited, and late callers of Enqueue only fill queues. *)
(***************************************************************************)
THEOREM StoppedStaysQuiet == Spec => StoppedIsQuiet
<1> DEFINE Quiet == stop = "stopped" => UNCHANGED <<rows, delivered>>
<1>1. StopInv /\ [Next]_vars => [Quiet]_vars
  <2> SUFFICES ASSUME StopInv, Next, stop = "stopped" PROVE UNCHANGED <<rows, delivered>>
    OBVIOUS
  <2>1. GroupExited /\ wmode = "done" /\ wpc = "idle"
    BY StoppedIsEmpty
  <2>2. CASE OutboxStep
    BY <2>1, <2>2 DEF OutboxStep, GroupExited, Enqueue, EnqueueStart, EnqueueSend, EnqueueEvict,
           EnqueueResend, SpoolSend, SpoolEvict, SpoolResend, SpoolWriteLoop, WriterTake,
           WriterCollect, WriterCheckCap, WriterTrim, WriterInsert, WriterFallback,
           WriterPhase, DrainLoopStep, DrainCheck, DrainFetch, DrainDeletePoison, DrainQuit,
           DrainNotified, DrainBackstop, Close, WaitStart, WaitReturn
  <2>3. CASE \E w \in Worker : WorkerStep(w) \/ WorkerSpool(w)
    BY <2>1, <2>3 DEF GroupExited, WorkerStep, WorkerTake, WorkerAppendCarry, WorkerTick,
           WorkerQuit, WorkerLast, WorkerWrite, WorkerWritten, WorkerWriteFailed,
           WorkerSpool, SpoolSend, SpoolEvict, SpoolResend
  <2>4. CASE DrainCall \/ Reconnect
    BY <2>1, <2>4 DEF GroupExited, DrainCall, DrainWrite, DrainWritten, DrainWriteFailed,
           DrainDeleteSent, Reconnect, TryConnect, TryConnectNotify, ReconnectQuit
  <2>5. CASE Restart
    BY <2>5 DEF Restart, Reboot
  <2> QED
    BY <2>2, <2>3, <2>4, <2>5 DEF Next
<1> QED
  BY <1>1, StopInit, StopNext, PTL DEF Spec, StoppedIsQuiet

-------------------------------------------------------------------------------
(***************************************************************************)
(* TimeSeriesChannel implements Custody: every step is one the promise     *)
(* allows, or changes nothing the promise speaks of.  That no accepted     *)
(* batch vanishes follows from the promise.                                *)
(***************************************************************************)
\* What the refinement maps `held' and `excused' to.
Held == InMemory \cup Carried \cup BatchesOf(rows) \cup BatchesOf(pend)
Excused == shed \cup trimmed \cup unsaved \cup bygone

\* No hand is overwritten while it holds a batch.
HandsInv ==
    /\ \A a \in Actor : pc[a] \in {"send", "evict", "resend"} => Len(hand[a]) = 1
    /\ \A p \in Producer : pc[p] = "idle" => hand[p] = <<>>
    /\ \A w \in Worker : pc[w] = "idle" /\ carry[w] # <<>> => hand[w] = <<>>

\* A row of the replay window is stored, or its batch is settled.
WindowInv ==
    /\ dpc = "delete" => BatchesOf(group) \subseteq delivered
    /\ dpc = "poison" => BatchesOf(pend) \subseteq shed
    /\ BatchesOf(pend) \subseteq BatchesOf(rows) \cup Settled

CustodyInv == TypeInv /\ HandsInv /\ WindowInv

\* A step that accepts nothing: what it applies or excuses was held, and
\* what it lets go of is applied or excused.
SettleStep ==
    /\ accepted' = accepted
    /\ delivered \subseteq delivered' /\ delivered' \subseteq delivered \cup Held
    /\ Excused \subseteq Excused' /\ Excused' \subseteq Excused \cup Held
    /\ Held' \subseteq Held /\ Held \subseteq Held' \cup delivered' \cup Excused'

LEMMA SettleStepSettles == SettleStep => Promise!Settle
<1> SUFFICES ASSUME SettleStep PROVE Promise!Settle
  OBVIOUS
<1> DEFINE D == delivered' \ delivered
           X == Excused' \ Excused
           R == Held \ Held'
<1>1. D \in SUBSET Held /\ X \in SUBSET Held /\ R \in SUBSET Held
  BY DEF SettleStep
<1>2. delivered' = delivered \cup D /\ Excused' = Excused \cup X /\ Held' = Held \ R
  BY DEF SettleStep
<1>3. R \subseteq delivered' \cup Excused' /\ accepted' = accepted
  BY DEF SettleStep
<1> HIDE DEF D, X, R
<1> QED
  BY <1>1, <1>2, <1>3 DEF Promise!Settle, Held, Excused

\* The parts of Held, one per place.
LEMMA HeldParts ==
    ASSUME TypeInv
    PROVE  Held = Range(outbox) \cup Range(spoolCh) \cup Range(buf) \cup HandsOf(hand)
                     \cup HandsOf(carry) \cup BatchesOf(rows) \cup BatchesOf(pend)
<1>1. DOMAIN hand = Actor /\ DOMAIN carry = Worker
  BY DEF TypeInv, CallTypes
<1> QED
  BY <1>1 DEF Held, InMemory, Carried, HandsOf

LEMMA HeldPartsNext ==
    ASSUME TypeInv'
    PROVE  Held' = Range(outbox') \cup Range(spoolCh') \cup Range(buf') \cup HandsOf(hand')
                     \cup HandsOf(carry') \cup BatchesOf(rows') \cup BatchesOf(pend')
<1>1. DOMAIN hand' = Actor /\ DOMAIN carry' = Worker
  BY DEF TypeInv, CallTypes
<1> QED
  BY <1>1 DEF Held, InMemory, Carried, HandsOf, BatchesOf

(***************************************************************************)
(* No hand is overwritten.                                                 *)
(***************************************************************************)
\* A caller a moves to step v with s in hand.
LEMMA HandsMove ==
    ASSUME TypeInv, HandsInv, NEW a \in Actor, NEW s \in Seq(Batch), NEW v,
           hand' = [hand EXCEPT ![a] = s], pc' = [pc EXCEPT ![a] = v],
           \A w \in Worker : w # a => carry'[w] = carry[w],
           v \in {"send", "evict", "resend"} => Len(s) = 1,
           v = "idle" => s = <<>> \/ (a \notin Producer /\ carry'[a] = <<>>)
    PROVE  HandsInv'
<1>1. /\ hand'[a] = s /\ pc'[a] = v
      /\ \A c \in Actor \ {a} : hand'[c] = hand[c] /\ pc'[c] = pc[c]
  BY DEF TypeInv, CallTypes
<1>2. Worker \subseteq Actor /\ Producer \subseteq Actor
  BY DEF Actor
<1>3. \A c \in Actor : pc'[c] \in {"send", "evict", "resend"} => Len(hand'[c]) = 1
  BY <1>1 DEF HandsInv
<1>4. \A p \in Producer : pc'[p] = "idle" => hand'[p] = <<>>
  BY <1>1, <1>2 DEF HandsInv
<1>5. \A w \in Worker : pc'[w] = "idle" /\ carry'[w] # <<>> => hand'[w] = <<>>
  BY <1>1, <1>2 DEF HandsInv
<1> QED
  BY <1>3, <1>4, <1>5 DEF HandsInv

\* The same when the hand does not change.
LEMMA HandsWait ==
    ASSUME TypeInv, HandsInv, NEW a \in Actor, NEW v,
           hand' = hand, pc' = [pc EXCEPT ![a] = v],
           \A w \in Worker : w # a => carry'[w] = carry[w],
           v \in {"send", "evict", "resend"} => Len(hand[a]) = 1,
           v = "idle" => hand[a] = <<>> \/ (a \notin Producer /\ carry'[a] = <<>>)
    PROVE  HandsInv'
<1>1. hand[a] \in Seq(Batch) /\ hand' = [hand EXCEPT ![a] = hand[a]]
  BY DEF TypeInv, CallTypes
<1> QED
  BY <1>1, HandsMove

LEMMA HandsHandOver ==
    ASSUME TypeInv, HandsInv, NEW a \in Actor, hand[a] # <<>>, NEW after \in {"idle", "exited"},
           HandOver(a, after), carry' = carry
    PROVE  HandsInv'
<1>1. hand[a] \in Seq(Batch)
  BY DEF TypeInv, CallTypes
<1>2. Tail(hand[a]) \in Seq(Batch) /\ Len(Tail(hand[a])) = Len(hand[a]) - 1
      /\ Len(hand[a]) \in Nat /\ Len(hand[a]) # 0
  BY <1>1, RangeOfTail, LengthIsNat, EmptyIsLengthZero
<1>3. CASE Len(hand[a]) > 1
  BY <1>2, <1>3, HandsMove DEF HandOver
<1>4. CASE ~(Len(hand[a]) > 1)
  <2>1. Len(Tail(hand[a])) = 0
    <3>1. \A n \in Nat : n # 0 /\ ~(n > 1) => n - 1 = 0
      OBVIOUS
    <3> QED
      BY <1>2, <1>4, <3>1, Zenon
  <2>2. Tail(hand[a]) = <<>>
    BY <1>2, <2>1, EmptyIsLengthZero, Zenon
  <2> QED
    BY <1>2, <1>4, <2>2, HandsMove DEF HandOver
<1> QED
  BY <1>3, <1>4

LEMMA HandsNext == TypeInv /\ HandsInv /\ Next => HandsInv'
<1> SUFFICES ASSUME TypeInv, HandsInv, Next PROVE HandsInv'
  OBVIOUS
<1>a. Worker \subseteq Actor /\ Producer \subseteq Actor /\ <<>> \in Seq(Batch)
      /\ \A p \in Producer : p \notin Worker
  BY OutboxAssumption DEF Actor
<1>b. /\ pc \in [Actor -> {"idle", "send", "evict", "resend", "spoolSend", "spoolEvict",
                           "spoolResend", "write", "sending", "exited"}]
      /\ hand \in [Actor -> Seq(Batch)] /\ carry \in [Worker -> Seq(Batch)]
      /\ CallersHoldBatches
      /\ \A w \in Worker : pc[w] \in {"write", "sending"} => hand[w] # <<>>
  BY DEF TypeInv, CallTypes
<1>1. ASSUME NEW p \in Producer, Enqueue(p), UNCHANGED channelVars PROVE HandsInv'
  <2>0. p \in Actor /\ p \in Producer /\ hand[p] \in Seq(Batch)
    BY <1>a, <1>b
  <2>1. ASSUME NEW b \in Batch, EnqueueStart(p, b) PROVE HandsInv'
    <3>1. <<b>> \in Seq(Batch) /\ Len(<<b>>) = 1
      OBVIOUS
    <3>2. hand' = [hand EXCEPT ![p] = <<b>>]
      BY <2>1 DEF EnqueueStart
    <3>3. \/ pc' = [pc EXCEPT ![p] = "spoolSend"]
          \/ pc' = [pc EXCEPT ![p] = "send"]
      BY <2>1 DEF EnqueueStart
    <3> QED
      BY <1>1, <2>0, <3>1, <3>2, <3>3, HandsMove
  <2>2. CASE EnqueueSend(p)
    BY <1>1, <1>a, <2>0, <2>2, HandsMove, HandsWait DEF EnqueueSend, HandsInv
  <2>3. CASE EnqueueEvict(p)
    BY <1>1, <2>0, <2>3, HandsWait DEF EnqueueEvict, HandsInv
  <2>4. CASE EnqueueResend(p)
    BY <1>1, <1>a, <2>0, <2>4, HandsMove DEF EnqueueResend
  <2>5. CASE SpoolSend(p, "idle")
    BY <1>1, <1>b, <2>0, <2>5, HandsHandOver, HandsWait DEF SpoolSend, CallersHoldBatches
  <2>6. CASE SpoolEvict(p)
    BY <1>1, <2>0, <2>6, HandsWait DEF SpoolEvict
  <2>7. CASE SpoolResend(p, "idle")
    BY <1>1, <1>b, <2>0, <2>7, HandsHandOver DEF SpoolResend, CallersHoldBatches
  <2> QED
    BY <1>1, <2>1, <2>2, <2>3, <2>4, <2>5, <2>6, <2>7 DEF Enqueue
<1>2. ASSUME NEW w \in Worker, WorkerSpool(w) PROVE HandsInv'
  <2>0. w \in Actor /\ AfterFlush(w) \in {"idle", "exited"}
    BY <1>a DEF AfterFlush
  <2>1. CASE SpoolSend(w, AfterFlush(w))
    BY <1>2, <1>b, <2>0, <2>1, HandsHandOver, HandsWait DEF SpoolSend, CallersHoldBatches, WorkerSpool
  <2>2. CASE SpoolEvict(w)
    BY <1>2, <2>0, <2>2, HandsWait DEF SpoolEvict, WorkerSpool
  <2>3. CASE SpoolResend(w, AfterFlush(w))
    BY <1>2, <1>b, <2>0, <2>3, HandsHandOver DEF SpoolResend, CallersHoldBatches, WorkerSpool
  <2> QED
    BY <1>2, <2>1, <2>2, <2>3 DEF WorkerSpool
<1>3. ASSUME NEW w \in Worker, WorkerStep(w) PROVE HandsInv'
  <2>0. w \in Actor /\ w \notin Producer /\ hand[w] \in Seq(Batch)
    BY <1>a, <1>b
  <2>f. ASSUME FlushFailed(w), carry' = carry PROVE HandsInv'
    <3>1. CASE SpoolEnabled
      BY <2>0, <2>f, <3>1, HandsWait DEF FlushFailed
    <3>2. CASE ~SpoolEnabled
      <4>1. hand' = [hand EXCEPT ![w] = <<>>] /\ pc' = [pc EXCEPT ![w] = AfterFlush(w)]
        BY <2>f, <3>2 DEF FlushFailed
      <4>2. AfterFlush(w) \in {"idle", "exited"}
        BY DEF AfterFlush
      <4> QED
        BY <1>a, <2>0, <2>f, <4>1, <4>2, HandsMove
    <3> QED
      BY <3>1, <3>2
  <2>1. CASE WorkerTake(w)
    <3>1. CASE Conflicts(Head(outbox), Range(hand[w]))
      BY <1>b, <2>0, <2>1, <3>1, HandsWait DEF WorkerTake
    <3>2. CASE ~Conflicts(Head(outbox), Range(hand[w]))
      <4>1. /\ hand' = [hand EXCEPT ![w] = Append(hand[w], Head(outbox))]
            /\ carry' = carry /\ carry[w] = <<>> /\ outbox # <<>>
        BY <2>1, <3>2 DEF WorkerTake
      <4>2. \/ pc' = [pc EXCEPT ![w] = "write"]
            \/ pc' = [pc EXCEPT ![w] = "idle"]
        BY <2>1, <3>2 DEF WorkerTake
      <4>3. Append(hand[w], Head(outbox)) \in Seq(Batch)
        BY <2>0, <4>1, RangeOfTail, BatchAppended DEF TypeInv, QueueTypes
      <4> QED
        BY <2>0, <4>1, <4>2, <4>3, HandsMove
    <3> QED
      BY <3>1, <3>2
  <2>2. CASE WorkerAppendCarry(w)
    <3>1. carry[w] \in Seq(Batch) /\ carry'[w] = <<>>
          /\ \A c \in Worker : c # w => carry'[c] = carry[c]
      BY <1>b, <2>2 DEF WorkerAppendCarry
    <3>2. \/ pc' = [pc EXCEPT ![w] = "write"]
          \/ pc' = [pc EXCEPT ![w] = "idle"]
      BY <2>2 DEF WorkerAppendCarry
    <3>3. hand' = [hand EXCEPT ![w] = carry[w]]
      BY <2>2 DEF WorkerAppendCarry
    <3> QED
      BY <2>0, <3>1, <3>2, <3>3, HandsMove
  <2>3. CASE WorkerTick(w)
    BY <2>0, <2>3, HandsWait DEF WorkerTick
  <2>4. CASE WorkerQuit(w)
    BY <2>4 DEF WorkerQuit, HandsInv
  <2>5. CASE WorkerLast(w)
    BY <2>0, <2>5, HandsWait DEF WorkerLast
  <2>6. CASE WorkerWrite(w)
    BY <2>0, <2>6, <2>f, HandsWait DEF WorkerWrite
  <2>7. CASE WorkerWritten(w)
    <3>1. AfterFlush(w) \in {"idle", "exited"}
      BY DEF AfterFlush
    <3> QED
      BY <1>a, <2>0, <2>7, <3>1, HandsMove DEF WorkerWritten
  <2>8. CASE WorkerWriteFailed(w)
    BY <2>8, <2>f DEF WorkerWriteFailed
  <2> QED
    BY <1>3, <2>1, <2>2, <2>3, <2>4, <2>5, <2>6, <2>7, <2>8 DEF WorkerStep
<1>4. CASE SpoolWriteLoop /\ UNCHANGED channelVars
  <2>1. UNCHANGED <<pc, hand, carry>>
    BY <1>4 DEF SpoolWriteLoop, WriterTake, WriterCollect, WriterCheckCap, WriterTrim,
           WriterInsert, WriterFallback, WriterPhase
  <2> QED
    BY <2>1 DEF HandsInv
<1>5. CASE (DrainLoopStep /\ UNCHANGED channelVars) \/ DrainCall \/ Reconnect
  <2>1. UNCHANGED <<pc, hand, carry>>
    BY <1>5 DEF DrainLoopStep, DrainCheck, DrainFetch, DrainDeletePoison, DrainQuit,
           DrainNotified, DrainBackstop, DrainCall, DrainWrite, DrainWritten,
           DrainWriteFailed, DrainDeleteSent, Reconnect, TryConnect, TryConnectNotify,
           ReconnectQuit
  <2> QED
    BY <2>1 DEF HandsInv
<1>6. CASE (Close \/ WaitStart(GroupExited) \/ WaitReturn) /\ UNCHANGED channelVars
  <2>1. UNCHANGED <<pc, hand, carry>>
    BY <1>6 DEF Close, WaitStart, WaitReturn
  <2> QED
    BY <2>1 DEF HandsInv
<1>7. CASE Restart
  BY <1>7, <1>a DEF Restart, Reboot, HandsInv
<1> QED
  BY <1>1, <1>2, <1>3, <1>4, <1>5, <1>6, <1>7 DEF Next, OutboxStep

(***************************************************************************)
(* What a step does to the batches held.                                   *)
(***************************************************************************)
\* What one hand may change while the others stay as they are.
LEMMA HandChanges ==
    ASSUME TypeInv, NEW a \in Actor, NEW s \in Seq(Batch), hand' = [hand EXCEPT ![a] = s]
    PROVE  /\ HandsOf(hand') \subseteq HandsOf(hand) \cup Range(s)
           /\ HandsOf(hand) \subseteq HandsOf(hand') \cup Range(hand[a])
           /\ Range(s) \subseteq HandsOf(hand')
           /\ Range(hand[a]) \subseteq HandsOf(hand)
<1>1. hand \in [Actor -> Seq(Batch)]
  BY DEF TypeInv, CallTypes
<1> QED
  BY <1>1, HandsUpdate

LEMMA CarryChanges ==
    ASSUME TypeInv, NEW w \in Worker, NEW s \in Seq(Batch), carry' = [carry EXCEPT ![w] = s]
    PROVE  /\ HandsOf(carry') \subseteq HandsOf(carry) \cup Range(s)
           /\ HandsOf(carry) \subseteq HandsOf(carry') \cup Range(carry[w])
           /\ Range(s) \subseteq HandsOf(carry')
           /\ Range(carry[w]) \subseteq HandsOf(carry)
<1>1. carry \in [Worker -> Seq(Batch)]
  BY DEF TypeInv, CallTypes
<1> QED
  BY <1>1, HandsUpdate

\* A step of a caller that leaves the carries, the rows and the window alone.
callerFrame == <<buf, carry, rows, pend, accepted, delivered, losses, bygone>>

LEMMA SettleEnqueue ==
    ASSUME CustodyInv, TypeInv', NEW p \in Producer, UNCHANGED channelVars,
           \/ \E b \in Batch : EnqueueStart(p, b)
           \/ EnqueueSend(p) \/ EnqueueEvict(p) \/ EnqueueResend(p)
    PROVE  Promise!Accept \/ SettleStep
<1>a. TypeInv /\ HandsInv /\ p \in Actor /\ hand[p] \in Seq(Batch)
      /\ outbox \in Seq(Batch) /\ <<>> \in Seq(Batch) /\ Range(<<>>) = {}
  BY RangeOfOne DEF CustodyInv, Actor, TypeInv, CallTypes, QueueTypes, Range
<1>1. ASSUME NEW b \in Batch, EnqueueStart(p, b)
      PROVE  Promise!Accept
  <2>1. hand[p] = <<>> /\ <<b>> \in Seq(Batch) /\ hand' = [hand EXCEPT ![p] = <<b>>]
        /\ Range(<<b>>) = {b}
    BY <1>1, <1>a, RangeOfOne DEF EnqueueStart, HandsInv
  <2>2. HandsOf(hand') = HandsOf(hand) \cup {b}
    BY <1>a, <2>1, HandChanges
  <2>3. UNCHANGED <<outbox, spoolCh, buf, carry, rows, pend>>
    BY <1>1 DEF EnqueueStart
  <2>4. Held' = Held \cup {b}
    BY <1>a, <2>2, <2>3, HeldParts, HeldPartsNext
  <2>5. accepted' = accepted \cup {b} /\ b \in Batch \ accepted /\ delivered' = delivered
        /\ Excused' = Excused
    BY <1>1 DEF EnqueueStart, Excused
  <2> QED
    BY <2>4, <2>5 DEF Promise!Accept, Held, Excused
<1>2. CASE EnqueueSend(p)
  <2>1. UNCHANGED <<spoolCh, callerFrame, tally>>
    BY <1>2 DEF EnqueueSend, callerFrame
  <2>2. CASE Len(outbox) < QueueSize
    <3>1. hand[p] # <<>> /\ Range(hand[p]) = {Head(hand[p])} /\ Head(hand[p]) \in Batch
      BY <1>2, <1>a, RangeOfSingleton DEF EnqueueSend, HandsInv
    <3>2. Range(outbox') = Range(outbox) \cup {Head(hand[p])} /\ hand' = [hand EXCEPT ![p] = <<>>]
      BY <1>2, <1>a, <2>2, <3>1, BatchAppended DEF EnqueueSend
    <3> QED
      BY <1>a, <2>1, <3>1, <3>2, HandChanges, HeldParts, HeldPartsNext DEF SettleStep, Excused, callerFrame
  <2>3. CASE ~(Len(outbox) < QueueSize)
    BY <1>2, <1>a, <2>1, <2>3, HeldParts, HeldPartsNext DEF EnqueueSend, SettleStep, Excused, callerFrame
  <2> QED
    BY <2>2, <2>3
<1>3. CASE EnqueueEvict(p)
  <2>1. UNCHANGED <<spoolCh, callerFrame, hand>>
    BY <1>3 DEF EnqueueEvict, callerFrame
  <2>2. CASE outbox = <<>>
    BY <1>3, <1>a, <2>1, <2>2, HeldParts, HeldPartsNext DEF EnqueueEvict, SettleStep, Excused, callerFrame
  <2>3. CASE outbox # <<>>
    <3>1. Range(outbox) = {Head(outbox)} \cup Range(outbox') /\ shed' = shed \cup {Head(outbox)}
      BY <1>3, <1>a, <2>3, RangeOfTail DEF EnqueueEvict, Drop
    <3> QED
      BY <1>a, <2>1, <3>1, HeldParts, HeldPartsNext DEF SettleStep, Excused, callerFrame
  <2> QED
    BY <2>2, <2>3
<1>4. CASE EnqueueResend(p)
  <2>1. UNCHANGED <<spoolCh, callerFrame>> /\ hand' = [hand EXCEPT ![p] = <<>>]
    BY <1>4 DEF EnqueueResend, callerFrame
  <2>2. hand[p] # <<>> /\ Range(hand[p]) = {Head(hand[p])} /\ Head(hand[p]) \in Batch
    BY <1>4, <1>a, RangeOfSingleton DEF EnqueueResend, HandsInv
  <2>3. \/ Range(outbox') = Range(outbox) \cup {Head(hand[p])} /\ shed' = shed
        \/ outbox' = outbox /\ shed' = shed \cup {Head(hand[p])}
    BY <1>4, <1>a, <2>2, BatchAppended DEF EnqueueResend, Drop
  <2> QED
    BY <1>a, <2>1, <2>2, <2>3, HandChanges, HeldParts, HeldPartsNext DEF SettleStep, Excused, callerFrame
<1> QED
  BY <1>1, <1>2, <1>3, <1>4

LEMMA SettleSpoolEnqueue ==
    ASSUME CustodyInv, TypeInv', NEW a \in Actor, NEW after, UNCHANGED channelVars,
           SpoolSend(a, after) \/ SpoolEvict(a) \/ SpoolResend(a, after)
    PROVE  SettleStep
<1>a. TypeInv /\ HandsInv /\ hand[a] \in Seq(Batch) /\ hand[a] # <<>> /\ spoolCh \in Seq(Batch)
  BY DEF CustodyInv, TypeInv, CallTypes, CallersHoldBatches, QueueTypes, SpoolSend,
         SpoolEvict, SpoolResend
<1>b. /\ Tail(hand[a]) \in Seq(Batch) /\ Head(hand[a]) \in Batch
      /\ Range(hand[a]) = {Head(hand[a])} \cup Range(Tail(hand[a]))
  BY <1>a, RangeOfTail
<1>c. UNCHANGED <<outbox, callerFrame>>
  BY DEF SpoolSend, SpoolEvict, SpoolResend, callerFrame
<1>1. CASE SpoolSend(a, after)
  <2>1. CASE Len(spoolCh) < SpoolChSize
    <3>1. Range(spoolCh') = Range(spoolCh) \cup {Head(hand[a])} /\ shed' = shed
          /\ hand' = [hand EXCEPT ![a] = Tail(hand[a])]
      BY <1>1, <1>a, <1>b, <2>1, BatchAppended DEF SpoolSend, HandOver
    <3> QED
      BY <1>a, <1>b, <1>c, <3>1, HandChanges, HeldParts, HeldPartsNext DEF SettleStep, Excused, callerFrame
  <2>2. CASE ~(Len(spoolCh) < SpoolChSize)
    BY <1>1, <1>a, <1>c, <2>2, HeldParts, HeldPartsNext DEF SpoolSend, SettleStep, Excused, callerFrame
  <2> QED
    BY <2>1, <2>2
<1>2. CASE SpoolEvict(a)
  <2>1. hand' = hand
    BY <1>2 DEF SpoolEvict
  <2>2. CASE spoolCh = <<>>
    BY <1>2, <1>a, <1>c, <2>1, <2>2, HeldParts, HeldPartsNext DEF SpoolEvict, SettleStep, Excused, callerFrame
  <2>3. CASE spoolCh # <<>>
    <3>1. Range(spoolCh) = {Head(spoolCh)} \cup Range(spoolCh') /\ shed' = shed \cup {Head(spoolCh)}
      BY <1>2, <1>a, <2>3, RangeOfTail DEF SpoolEvict, Drop
    <3> QED
      BY <1>a, <1>c, <2>1, <3>1, HeldParts, HeldPartsNext DEF SettleStep, Excused, callerFrame
  <2> QED
    BY <2>2, <2>3
<1>3. CASE SpoolResend(a, after)
  <2>1. hand' = [hand EXCEPT ![a] = Tail(hand[a])]
    BY <1>3 DEF SpoolResend, HandOver
  <2>2. \/ Range(spoolCh') = Range(spoolCh) \cup {Head(hand[a])} /\ shed' = shed
        \/ spoolCh' = spoolCh /\ shed' = shed \cup {Head(hand[a])}
    BY <1>3, <1>a, <1>b, BatchAppended DEF SpoolResend, Drop
  <2> QED
    BY <1>a, <1>b, <1>c, <2>1, <2>2, HandChanges, HeldParts, HeldPartsNext DEF SettleStep, Excused, callerFrame
<1> QED
  BY <1>1, <1>2, <1>3

LEMMA SettleWriter ==
    ASSUME CustodyInv, TypeInv', SpoolWriteLoop, UNCHANGED channelVars
    PROVE  SettleStep
<1>a. TypeInv /\ spoolCh \in Seq(Batch) /\ buf \in Seq(Batch) /\ lastId \in Nat
      /\ (wpc = "idle" <=> buf = <<>>) /\ Range(<<>>) = {}
  BY DEF CustodyInv, TypeInv, QueueTypes, WriterTypes, RowTypes, Range
<1>b. UNCHANGED <<outbox, hand, carry, pend, accepted, delivered, shed, bygone>>
  BY DEF SpoolWriteLoop, WriterTake, WriterCollect, WriterCheckCap, WriterTrim,
         WriterInsert, WriterFallback, WriterPhase
<1>c. buf # <<>> => /\ Head(buf) \in Batch /\ Tail(buf) \in Seq(Batch)
                    /\ Range(buf) = {Head(buf)} \cup Range(Tail(buf))
  BY <1>a, RangeOfTail
<1>d. spoolCh # <<>> => /\ Head(spoolCh) \in Batch
                        /\ Range(spoolCh) = {Head(spoolCh)} \cup Range(Tail(spoolCh))
  BY <1>a, RangeOfTail
<1>1. CASE WriterTake \/ WriterCollect
  <2>1. UNCHANGED <<rows, trimmed, unsaved>> /\ spoolCh # <<>> /\ spoolCh' = Tail(spoolCh)
    BY <1>1 DEF WriterTake, WriterCollect
  <2>2. Head(spoolCh) \in Batch /\ Range(spoolCh) = {Head(spoolCh)} \cup Range(spoolCh')
    BY <1>d, <2>1
  <2>3. Range(buf') = Range(buf) \cup {Head(spoolCh)}
    <3>1. CASE WriterCollect
      BY <3>1, <1>a, <2>2, BatchAppended DEF WriterCollect
    <3>2. CASE WriterTake
      BY <3>2, <1>a, <2>2, RangeOfOne DEF WriterTake
    <3> QED
      BY <1>1, <3>1, <3>2
  <2> QED
    BY <1>a, <1>b, <1>d, <2>1, <2>2, <2>3, HeldParts, HeldPartsNext DEF SettleStep, Excused
<1>2. CASE WriterCheckCap \/ WriterPhase
  <2>1. UNCHANGED <<rows, trimmed, unsaved, spoolCh, buf>>
    BY <1>2 DEF WriterCheckCap, WriterPhase
  <2> QED
    BY <1>a, <1>b, <2>1, HeldParts, HeldPartsNext DEF SettleStep, Excused
<1>3. CASE WriterTrim
  <2>1. UNCHANGED <<unsaved, spoolCh, buf>> /\ Oldest(rows, TrimChunk) \subseteq rows
    BY <1>3 DEF WriterTrim, Oldest
  <2>2. \/ rows' = rows /\ trimmed' = trimmed
        \/ /\ rows' = rows \ Oldest(rows, TrimChunk)
           /\ trimmed' = trimmed \cup BatchesOf(Oldest(rows, TrimChunk))
    BY <1>3 DEF WriterTrim
  <2>3. /\ BatchesOf(Oldest(rows, TrimChunk)) \subseteq BatchesOf(rows)
        /\ BatchesOf(rows \ Oldest(rows, TrimChunk)) \subseteq BatchesOf(rows)
        /\ BatchesOf(rows) \subseteq BatchesOf(rows \ Oldest(rows, TrimChunk))
                                       \cup BatchesOf(Oldest(rows, TrimChunk))
    BY <2>1, BatchesOfRows, Zenon
  <2> QED
    BY <1>a, <1>b, <2>1, <2>2, <2>3, HeldParts, HeldPartsNext DEF SettleStep, Excused
<1>4. CASE WriterInsert
  <2>1. UNCHANGED <<unsaved, trimmed, spoolCh>>
    BY <1>4 DEF WriterInsert
  <2>2. \/ rows' = rows /\ buf' = buf
        \/ rows' = rows \cup Inserted(lastId, buf) /\ buf' = <<>>
    BY <1>4 DEF WriterInsert, Inserted
  <2>3. BatchesOf(rows \cup Inserted(lastId, buf)) = BatchesOf(rows) \cup Range(buf)
    <3>1. BatchesOf(Inserted(lastId, buf)) = Range(buf)
      BY <1>a, InsertedRows
    <3> QED
      BY <3>1, BatchesOfRows
  <2> QED
    BY <1>a, <1>b, <2>1, <2>2, <2>3, HeldParts, HeldPartsNext DEF SettleStep, Excused
<1>5. CASE WriterFallback
  <2> DEFINE row == [id |-> lastId + 1, batch |-> Head(buf)]
  <2>1. UNCHANGED <<trimmed, spoolCh>> /\ buf' = Tail(buf) /\ buf # <<>>
    BY <1>5, <1>a DEF WriterFallback
  <2>2. \/ rows' = rows /\ unsaved' = unsaved \cup {Head(buf)}
        \/ rows' = rows \cup {row} /\ unsaved' = unsaved
    BY <1>5 DEF WriterFallback
  <2>3. BatchesOf(rows \cup {row}) = BatchesOf(rows) \cup {Head(buf)}
    <3>1. row.batch = Head(buf)
      OBVIOUS
    <3> HIDE DEF row
    <3>2. BatchesOf(rows \cup {row}) = BatchesOf(rows) \cup BatchesOf({row})
      BY BatchesOfRows
    <3>3. BatchesOf({row}) = {row.batch}
      BY BatchesOfRows
    <3> QED
      BY <3>1, <3>2, <3>3
  <2> HIDE DEF row
  <2> QED
    BY <1>a, <1>b, <1>c, <2>1, <2>2, <2>3, HeldParts, HeldPartsNext DEF SettleStep, Excused
<1> QED
  BY <1>1, <1>2, <1>3, <1>4, <1>5 DEF SpoolWriteLoop

LEMMA SettleWorker ==
    ASSUME CustodyInv, TypeInv', NEW w \in Worker, WorkerStep(w)
    PROVE  SettleStep
<1>a. /\ TypeInv /\ w \in Actor /\ hand[w] \in Seq(Batch) /\ carry[w] \in Seq(Batch)
      /\ <<>> \in Seq(Batch) /\ Range(<<>>) = {} /\ outbox \in Seq(Batch)
  BY DEF CustodyInv, TypeInv, CallTypes, QueueTypes, Actor, Range
<1>b. UNCHANGED <<spoolCh, buf, rows, pend, accepted, losses, bygone>>
  BY DEF WorkerStep, WorkerTake, WorkerAppendCarry, WorkerTick, WorkerQuit, WorkerLast,
         WorkerWrite, WorkerWritten, WorkerWriteFailed, WriteSucceeds
<1>f. ASSUME FlushFailed(w), outbox' = outbox, carry' = carry,
             delivered \subseteq delivered', delivered' \subseteq delivered \cup Range(hand[w])
      PROVE  SettleStep
  <2>1. CASE SpoolEnabled
    <3>1. hand' = hand /\ shed' = shed
      BY <1>f, <2>1 DEF FlushFailed
    <3>2. hand' = [hand EXCEPT ![w] = hand[w]]
      BY <1>a, <3>1 DEF TypeInv, CallTypes
    <3>3. Range(hand[w]) \subseteq HandsOf(hand)
      BY <1>a, <3>2, HandChanges
    <3> QED
      BY <1>a, <1>b, <1>f, <3>1, <3>3, HeldParts, HeldPartsNext DEF SettleStep, Excused
  <2>2. CASE ~SpoolEnabled
    <3>1. hand' = [hand EXCEPT ![w] = <<>>] /\ shed' = shed \cup Range(hand[w])
      BY <1>f, <2>2 DEF FlushFailed
    <3> QED
      BY <1>a, <1>b, <1>f, <3>1, HandChanges, HeldParts, HeldPartsNext DEF SettleStep, Excused
  <2> QED
    BY <2>1, <2>2
<1>1. CASE WorkerTake(w)
  <2>1. outbox # <<>> /\ outbox' = Tail(outbox) /\ delivered' = delivered /\ shed' = shed
        /\ carry[w] = <<>>
    BY <1>1 DEF WorkerTake
  <2>2. Head(outbox) \in Batch /\ Range(outbox) = {Head(outbox)} \cup Range(outbox')
    BY <1>a, <2>1, RangeOfTail
  <2>3. CASE Conflicts(Head(outbox), Range(hand[w]))
    <3>1. hand' = hand /\ carry' = [carry EXCEPT ![w] = <<Head(outbox)>>]
      BY <1>1, <2>3 DEF WorkerTake
    <3>2. <<Head(outbox)>> \in Seq(Batch) /\ Range(<<Head(outbox)>>) = {Head(outbox)}
      BY <2>2, RangeOfOne
    <3>3. HandsOf(carry') = HandsOf(carry) \cup {Head(outbox)}
      BY <1>a, <2>1, <3>1, <3>2, CarryChanges
    <3> QED
      BY <1>a, <1>b, <2>1, <2>2, <3>1, <3>3, HeldParts, HeldPartsNext DEF SettleStep, Excused
  <2>4. CASE ~Conflicts(Head(outbox), Range(hand[w]))
    <3>1. hand' = [hand EXCEPT ![w] = Append(hand[w], Head(outbox))] /\ carry' = carry
      BY <1>1, <2>4 DEF WorkerTake
    <3>2. /\ Append(hand[w], Head(outbox)) \in Seq(Batch)
          /\ Range(Append(hand[w], Head(outbox))) = Range(hand[w]) \cup {Head(outbox)}
      BY <1>a, <2>2, BatchAppended
    <3>3. HandsOf(hand') = HandsOf(hand) \cup {Head(outbox)}
      BY <1>a, <3>1, <3>2, HandChanges
    <3> QED
      BY <1>a, <1>b, <2>1, <2>2, <3>1, <3>3, HeldParts, HeldPartsNext DEF SettleStep, Excused
  <2> QED
    BY <2>3, <2>4
<1>2. CASE WorkerAppendCarry(w)
  <2>1. /\ hand' = [hand EXCEPT ![w] = carry[w]] /\ carry' = [carry EXCEPT ![w] = <<>>]
        /\ UNCHANGED <<outbox, delivered, shed>>
    BY <1>2 DEF WorkerAppendCarry
  <2>2. hand[w] = <<>>
    BY <1>2 DEF WorkerAppendCarry, CustodyInv, HandsInv
  <2>3. HandsOf(hand') = HandsOf(hand) \cup Range(carry[w])
    BY <1>a, <2>1, <2>2, HandChanges
  <2>4. /\ HandsOf(carry') \subseteq HandsOf(carry) /\ Range(carry[w]) \subseteq HandsOf(carry)
        /\ HandsOf(carry) \subseteq HandsOf(carry') \cup Range(carry[w])
    BY <1>a, <2>1, CarryChanges
  <2> QED
    BY <1>a, <1>b, <2>1, <2>3, <2>4, HeldParts, HeldPartsNext DEF SettleStep, Excused
<1>3. CASE WorkerTick(w) \/ WorkerQuit(w) \/ WorkerLast(w) \/ (WorkerWrite(w) /\ conn)
  <2>1. UNCHANGED <<outbox, hand, carry, delivered, shed>>
    BY <1>3 DEF WorkerTick, WorkerQuit, WorkerLast, WorkerWrite
  <2> QED
    BY <1>a, <1>b, <2>1, HeldParts, HeldPartsNext DEF SettleStep, Excused
<1>4. CASE WorkerWrite(w) /\ ~conn
  BY <1>4, <1>f DEF WorkerWrite
<1>5. CASE WorkerWritten(w)
  <2>1. /\ hand' = [hand EXCEPT ![w] = <<>>] /\ delivered' = delivered \cup Range(hand[w])
        /\ UNCHANGED <<outbox, carry, shed>>
    BY <1>5 DEF WorkerWritten, WriteSucceeds
  <2> QED
    BY <1>a, <1>b, <2>1, HandChanges, HeldParts, HeldPartsNext DEF SettleStep, Excused
<1>6. CASE WorkerWriteFailed(w)
  <2>1. delivered \subseteq delivered' /\ delivered' \subseteq delivered \cup Range(hand[w])
    BY <1>6 DEF WorkerWriteFailed, WriteBreaks, WriteRefused
  <2> QED
    BY <1>6, <1>f, <2>1 DEF WorkerWriteFailed
<1> QED
  BY <1>1, <1>2, <1>3, <1>4, <1>5, <1>6 DEF WorkerStep

\* A step of DrainLoop: only the rows, the window and the tally change.
drainStepFrame == <<outbox, spoolCh, buf, hand, carry, accepted, losses, bygone>>

LEMMA SettleDrain ==
    ASSUME CustodyInv, TypeInv', \/ DrainLoopStep /\ UNCHANGED channelVars
                                 \/ DrainCall
    PROVE  SettleStep /\ WindowInv'
<1>a. /\ TypeInv /\ BatchesOf(pend) \subseteq BatchesOf(rows) \cup Settled
      /\ BatchesOf({}) = {} /\ Settled = delivered \cup Excused
      /\ (dpc \in {"drain", "sending", "delete"} => pend # {}) /\ pend \in SUBSET Row
      /\ (dpc \in {"sending", "delete"} => group \subseteq pend)
  BY BatchesOfRows DEF CustodyInv, WindowInv, TypeInv, DrainTypes, Settled, Excused
<1>b. UNCHANGED drainStepFrame
  BY DEF DrainLoopStep, DrainCheck, DrainFetch, DrainDeletePoison, DrainQuit,
         DrainNotified, DrainBackstop, DrainCall, DrainWrite, DrainWritten,
         DrainWriteFailed, DrainDeleteSent, WriteSucceeds, drainStepFrame
<1>c. ASSUME BatchesOf(rows') \subseteq BatchesOf(rows),
             BatchesOf(pend') \subseteq BatchesOf(rows) \cup BatchesOf(pend),
             BatchesOf(rows) \subseteq BatchesOf(rows') \cup delivered' \cup shed',
             delivered \subseteq delivered', delivered' \subseteq delivered \cup Held,
             shed \subseteq shed', shed' \subseteq shed \cup Held
      PROVE  SettleStep /\ BatchesOf(pend') \subseteq BatchesOf(rows') \cup Settled'
  <2>1. BatchesOf(rows) \subseteq Held /\ BatchesOf(pend) \subseteq Held
        /\ Held' \subseteq Held /\ Held \subseteq Held' \cup delivered' \cup Excused'
    BY <1>a, <1>b, <1>c, HeldParts, HeldPartsNext DEF drainStepFrame, Excused
  <2>2. Excused \subseteq Excused' /\ Excused' \subseteq Excused \cup Held
        /\ accepted' = accepted
    BY <1>b, <1>c DEF drainStepFrame, Excused
  <2>3. delivered' \subseteq Settled' /\ shed' \subseteq Settled' /\ Settled \subseteq Settled'
    BY <1>a, <1>c, <2>2 DEF Settled, Excused
  <2>4. BatchesOf(pend') \subseteq BatchesOf(rows') \cup Settled'
    BY <1>a, <1>c, <2>3
  <2>5. SettleStep
    BY <1>c, <2>1, <2>2 DEF SettleStep
  <2> QED
    BY <2>4, <2>5
<1>f. ASSUME DrainFail, dpc \in {"drain", "sending"}, rows' = rows,
             delivered \subseteq delivered', delivered' \subseteq delivered \cup Held
      PROVE  SettleStep /\ WindowInv'
  <2>1. First(pend) \in pend
    BY <1>a, <1>f, FirstIsARow
  <2>2. First(pend).batch \in BatchesOf(pend) /\ BatchesOf({First(pend)}) = {First(pend).batch}
    BY <2>1 DEF BatchesOf
  <2>3. BatchesOf(pend) \subseteq Held
    BY <1>a, HeldParts
  <2>4. CASE PoisonPolicy /\ poisonId = First(pend).id
    <3>1. /\ pend' = {First(pend)} /\ dpc' = "poison"
          /\ shed' = shed \cup {First(pend).batch}
      BY <1>f, <2>4 DEF DrainFail, DrainFails, Drop
    <3>2. SettleStep /\ BatchesOf(pend') \subseteq BatchesOf(rows') \cup Settled'
      BY <1>c, <1>f, <2>2, <2>3, <3>1
    <3>3. BatchesOf(pend') \subseteq shed'
      BY <2>2, <3>1
    <3> QED
      BY <3>1, <3>2, <3>3 DEF WindowInv
  <2>5. CASE ~(PoisonPolicy /\ poisonId = First(pend).id)
    <3>1. pend' = {} /\ dpc' = "wait" /\ shed' = shed
      BY <1>f, <2>5 DEF DrainFail, DrainFails
    <3>2. SettleStep /\ BatchesOf(pend') \subseteq BatchesOf(rows') \cup Settled'
      BY <1>a, <1>c, <1>f, <3>1
    <3> QED
      BY <3>1, <3>2 DEF WindowInv
  <2> QED
    BY <2>4, <2>5
<1>1. CASE (DrainCheck \/ DrainQuit \/ DrainNotified \/ DrainBackstop) /\ UNCHANGED channelVars
  <2>1. UNCHANGED <<rows, pend, delivered, shed>> /\ dpc' \in {"fetch", "wait", "check", "exited"}
    BY <1>1 DEF DrainCheck, DrainQuit, DrainNotified, DrainBackstop
  <2>2. SettleStep /\ BatchesOf(pend') \subseteq BatchesOf(rows') \cup Settled'
    BY <1>c, <2>1
  <2> QED
    BY <2>1, <2>2 DEF WindowInv
<1>2. CASE DrainFetch /\ UNCHANGED channelVars
  <2>1. /\ UNCHANGED <<rows, delivered, shed>> /\ dpc' \in {"wait", "drain"}
        /\ pend' = pend \/ pend' = Oldest(rows, DrainWindow)
    BY <1>2 DEF DrainFetch
  <2>2. BatchesOf(Oldest(rows, DrainWindow)) \subseteq BatchesOf(rows)
    BY BatchesOfRows DEF Oldest
  <2>3. SettleStep /\ BatchesOf(pend') \subseteq BatchesOf(rows') \cup Settled'
    BY <1>c, <2>1, <2>2
  <2> QED
    BY <2>1, <2>3 DEF WindowInv
<1>3. CASE DrainDeletePoison /\ UNCHANGED channelVars
  <2>1. /\ UNCHANGED <<delivered, shed>> /\ dpc' = "check" /\ pend' = {}
        /\ rows' = rows \/ rows' = rows \ pend
        /\ BatchesOf(pend) \subseteq shed
    BY <1>3 DEF DrainDeletePoison, DeleteRows, CustodyInv, WindowInv
  <2>2. /\ BatchesOf(rows \ pend) \subseteq BatchesOf(rows)
        /\ BatchesOf(rows) \subseteq BatchesOf(rows \ pend) \cup BatchesOf(pend)
    BY BatchesOfRows
  <2>3. SettleStep /\ BatchesOf(pend') \subseteq BatchesOf(rows') \cup Settled'
    BY <1>a, <1>c, <2>1, <2>2
  <2> QED
    BY <2>1, <2>3 DEF WindowInv
<1>4. CASE DrainWrite /\ conn
  <2>1. UNCHANGED <<rows, pend, delivered, shed>> /\ dpc' = "sending"
    BY <1>4 DEF DrainWrite
  <2>2. SettleStep /\ BatchesOf(pend') \subseteq BatchesOf(rows') \cup Settled'
    BY <1>c, <2>1
  <2> QED
    BY <2>1, <2>2 DEF WindowInv
<1>5. CASE DrainWrite /\ ~conn
  BY <1>5, <1>f DEF DrainWrite
<1>6. CASE DrainWritten
  <2>1. /\ UNCHANGED <<rows, pend, shed, group>> /\ dpc' = "delete" /\ dpc = "sending"
        /\ delivered' = delivered \cup BatchesOf(group)
    BY <1>6 DEF DrainWritten, WriteSucceeds
  <2>2. BatchesOf(group) \subseteq Held
    <3>1. BatchesOf(group) \subseteq BatchesOf(pend)
      BY <1>a, <2>1, BatchesOfRows
    <3> QED
      BY <1>a, <3>1, HeldParts
  <2>3. SettleStep /\ BatchesOf(pend') \subseteq BatchesOf(rows') \cup Settled'
    BY <1>c, <2>1, <2>2
  <2> QED
    BY <2>1, <2>3 DEF WindowInv
<1>7. CASE DrainWriteFailed
  <2>1. dpc = "sending" /\ rows' = rows /\ delivered \subseteq delivered'
        /\ delivered' \subseteq delivered \cup BatchesOf(group)
    BY <1>7 DEF DrainWriteFailed, WriteBreaks, WriteRefused
  <2>2. BatchesOf(group) \subseteq Held
    <3>1. BatchesOf(group) \subseteq BatchesOf(pend)
      BY <1>a, <2>1, BatchesOfRows
    <3> QED
      BY <1>a, <3>1, HeldParts
  <2> QED
    BY <1>7, <1>f, <2>1, <2>2 DEF DrainWriteFailed
<1>8. CASE DrainDeleteSent
  <2>1. /\ UNCHANGED <<delivered, shed>> /\ dpc = "delete"
        /\ rows' = rows \/ rows' = rows \ group
        /\ BatchesOf(group) \subseteq delivered
    BY <1>8 DEF DrainDeleteSent, DeleteRows, CustodyInv, WindowInv
  <2>2. dpc' \in {"check", "wait", "drain"} /\ (pend' = {} \/ pend' = pend \ group)
    BY <1>8 DEF DrainDeleteSent, DrainSucceeds
  <2>3. /\ BatchesOf(rows \ group) \subseteq BatchesOf(rows)
        /\ BatchesOf(rows) \subseteq BatchesOf(rows \ group) \cup BatchesOf(group)
        /\ BatchesOf(pend \ group) \subseteq BatchesOf(pend)
    BY BatchesOfRows
  <2>4. SettleStep /\ BatchesOf(pend') \subseteq BatchesOf(rows') \cup Settled'
    BY <1>a, <1>c, <2>1, <2>2, <2>3
  <2> QED
    BY <2>2, <2>4 DEF WindowInv
<1> QED
  BY <1>1, <1>2, <1>3, <1>4, <1>5, <1>6, <1>7, <1>8 DEF DrainLoopStep, DrainCall

LEMMA SettleRestart ==
    ASSUME CustodyInv, TypeInv', Restart
    PROVE  SettleStep /\ WindowInv'
<1> DEFINE lost == (InMemory \cup Carried) \ (BatchesOf(rows) \cup delivered)
<1>a. /\ TypeInv /\ BatchesOf(pend) \subseteq BatchesOf(rows) \cup Settled
      /\ BatchesOf({}) = {} /\ Range(<<>>) = {}
  BY BatchesOfRows DEF CustodyInv, WindowInv, Range
<1>1. /\ outbox' = <<>> /\ spoolCh' = <<>> /\ buf' = <<>> /\ pend' = {} /\ dpc' \in {"check", "exited"}
      /\ hand' = [a \in Actor |-> <<>>] /\ carry' = [w \in Worker |-> <<>>]
      /\ shed' = {} /\ bygone' = bygone \cup lost \cup shed
      /\ UNCHANGED <<rows, trimmed, unsaved, accepted, delivered>>
  BY DEF Restart, Reboot
<1>2. HandsOf(hand') = {} /\ HandsOf(carry') = {}
  BY <1>1, NoHands
<1>3. Held' = BatchesOf(rows)
  BY <1>a, <1>1, <1>2, HeldPartsNext
<1>4. Excused' = Excused \cup lost /\ lost \subseteq Held
  BY <1>1 DEF Excused, Held
<1>5. Held \subseteq BatchesOf(rows) \cup delivered \cup Excused \cup lost
  BY <1>a DEF Held, Settled, Excused
<1> HIDE DEF lost
<1>6. SettleStep
  BY <1>1, <1>3, <1>4, <1>5 DEF SettleStep, Held
<1>7. WindowInv'
  BY <1>a, <1>1 DEF WindowInv
<1> QED
  BY <1>6, <1>7

(***************************************************************************)
(* The inductive invariant, and what every step means for the promise.     *)
(***************************************************************************)
LEMMA CustodyInit == Init => CustodyInv /\ Promise!Init
<1> SUFFICES ASSUME Init PROVE CustodyInv /\ Promise!Init
  OBVIOUS
<1>1. TypeInv
  BY TypeInit
<1>2. HandsInv
  BY DEF Init, OutboxInit, HandsInv, Actor
<1>3. WindowInv
  BY BatchesOfRows DEF Init, OutboxInit, WindowInv
<1>4. /\ outbox = <<>> /\ spoolCh = <<>> /\ buf = <<>> /\ rows = {} /\ pend = {}
      /\ hand = [a \in Actor |-> <<>>] /\ carry = [w \in Worker |-> <<>>]
  BY DEF Init, OutboxInit
<1>5. HandsOf(hand) = {} /\ HandsOf(carry) = {} /\ Range(<<>>) = {} /\ BatchesOf({}) = {}
  BY <1>4, NoHands, BatchesOfRows DEF Range
<1>6. Held = {}
  BY <1>1, <1>4, <1>5, HeldParts
<1>7. Promise!Init
  BY <1>6 DEF Promise!Init, Held, Init, OutboxInit
<1> QED
  BY <1>1, <1>2, <1>3, <1>7 DEF CustodyInv

\* Steps that leave the window alone and store what they take out of rows.
LEMMA WindowKept ==
    ASSUME CustodyInv, UNCHANGED <<dpc, pend, group>>,
           delivered \subseteq delivered', shed \subseteq shed', Settled \subseteq Settled',
           BatchesOf(rows) \subseteq BatchesOf(rows') \cup Settled'
    PROVE  WindowInv'
<1>1. /\ (dpc = "delete" => BatchesOf(group) \subseteq delivered)
      /\ (dpc = "poison" => BatchesOf(pend) \subseteq shed)
      /\ BatchesOf(pend) \subseteq BatchesOf(rows) \cup Settled
  BY DEF CustodyInv, WindowInv
<1> QED
  BY <1>1 DEF WindowInv

LEMMA WriterKeepsWindow ==
    ASSUME CustodyInv, SpoolWriteLoop, UNCHANGED channelVars
    PROVE  WindowInv'
<1>1. /\ UNCHANGED <<dpc, pend, group, delivered, shed, bygone>>
      /\ trimmed \subseteq trimmed' /\ unsaved \subseteq unsaved'
      /\ rows \subseteq rows' \/ /\ rows' = rows \ Oldest(rows, TrimChunk)
                                 /\ BatchesOf(Oldest(rows, TrimChunk)) \subseteq trimmed'
  BY DEF SpoolWriteLoop, WriterTake, WriterCollect, WriterCheckCap, WriterTrim,
         WriterInsert, WriterFallback, WriterPhase
<1>2. /\ BatchesOf(rows) \subseteq BatchesOf(rows \ Oldest(rows, TrimChunk))
                                     \cup BatchesOf(Oldest(rows, TrimChunk))
      /\ rows \subseteq rows' => BatchesOf(rows) \subseteq BatchesOf(rows')
  BY BatchesOfRows
<1>3. Settled \subseteq Settled' /\ trimmed' \subseteq Settled'
  BY <1>1 DEF Settled
<1>4. BatchesOf(rows) \subseteq BatchesOf(rows') \cup Settled'
  BY <1>1, <1>2, <1>3
<1> QED
  BY <1>1, <1>3, <1>4, WindowKept

LEMMA CustodyNext ==
    ASSUME CustodyInv, [Next]_vars
    PROVE  CustodyInv' /\ (Promise!Accept \/ SettleStep)
<1>1. TypeInv /\ TypeInv' /\ HandsInv /\ WindowInv
  BY TypeNext DEF CustodyInv
<1>2. CASE UNCHANGED vars
  <2>1. HandsInv' /\ WindowInv'
    BY <1>1, <1>2 DEF HandsInv, WindowInv, BatchesOf, Settled
  <2>2. SettleStep
    BY <1>1, <1>2, HeldParts, HeldPartsNext DEF SettleStep, Excused
  <2> QED
    BY <1>1, <2>1, <2>2 DEF CustodyInv
<1>3. CASE Next
  <2>1. HandsInv'
    BY <1>1, <1>3, HandsNext
  <2>2. ASSUME UNCHANGED <<rows, dpc, pend, group>>, Promise!Accept \/ SettleStep,
               delivered \subseteq delivered', shed \subseteq shed'
        PROVE  WindowInv'
    <3>1. Settled \subseteq Settled'
      BY <2>2 DEF Promise!Accept, SettleStep, Settled, Excused
    <3> QED
      BY <2>2, <3>1, WindowKept
  <2>3. ASSUME NEW p \in Producer, Enqueue(p), UNCHANGED channelVars
        PROVE  WindowInv' /\ (Promise!Accept \/ SettleStep)
    <3>1. p \in Actor
      BY DEF Actor
    <3>2. Promise!Accept \/ SettleStep
      BY <1>1, <2>3, <3>1, SettleEnqueue, SettleSpoolEnqueue DEF Enqueue
    <3>3. UNCHANGED <<rows, dpc, pend, group, delivered>> /\ shed \subseteq shed'
      BY <2>3 DEF Enqueue, EnqueueStart, EnqueueSend, EnqueueEvict, EnqueueResend,
             SpoolSend, SpoolEvict, SpoolResend, Drop
    <3> QED
      BY <2>2, <3>2, <3>3
  <2>4. ASSUME NEW w \in Worker, WorkerStep(w) \/ WorkerSpool(w)
        PROVE  WindowInv' /\ SettleStep
    <3>1. w \in Actor
      BY DEF Actor
    <3>2. SettleStep
      BY <1>1, <2>4, <3>1, SettleWorker, SettleSpoolEnqueue DEF WorkerSpool
    <3>3. UNCHANGED <<rows, dpc, pend, group>> /\ shed \subseteq shed'
      BY <2>4 DEF WorkerStep, WorkerTake, WorkerAppendCarry, WorkerTick, WorkerQuit,
             WorkerLast, WorkerWrite, WorkerWritten, WorkerWriteFailed, FlushFailed,
             WorkerSpool, SpoolSend, SpoolEvict, SpoolResend, Drop
    <3> QED
      BY <2>2, <3>2, <3>3 DEF SettleStep
  <2>5. ASSUME SpoolWriteLoop, UNCHANGED channelVars
        PROVE  WindowInv' /\ SettleStep
    BY <1>1, <2>5, SettleWriter, WriterKeepsWindow
  <2>6. ASSUME (DrainLoopStep /\ UNCHANGED channelVars) \/ DrainCall
        PROVE  WindowInv' /\ SettleStep
    BY <1>1, <2>6, SettleDrain
  <2>7. ASSUME \/ Reconnect
               \/ (Close \/ WaitStart(GroupExited) \/ WaitReturn) /\ UNCHANGED channelVars
        PROVE  WindowInv' /\ SettleStep
    <3>1. /\ UNCHANGED <<outbox, spoolCh, buf, hand, carry, rows, pend, dpc, group>>
          /\ UNCHANGED <<accepted, delivered, shed, trimmed, unsaved, bygone>>
      BY <2>7 DEF Reconnect, TryConnect, TryConnectNotify, ReconnectQuit, Close,
             WaitStart, WaitReturn
    <3>2. SettleStep
      BY <1>1, <3>1, HeldParts, HeldPartsNext DEF SettleStep, Excused
    <3> QED
      BY <2>2, <3>1, <3>2
  <2>8. ASSUME Restart
        PROVE  WindowInv' /\ SettleStep
    BY <1>1, <2>8, SettleRestart
  <2>9. WindowInv' /\ (Promise!Accept \/ SettleStep)
    <3>1. CASE OutboxStep
      <4>1. /\ UNCHANGED channelVars
            /\ \/ \E p \in Producer : Enqueue(p)
               \/ SpoolWriteLoop
               \/ DrainLoopStep
               \/ Close \/ WaitStart(GroupExited) \/ WaitReturn
        BY <3>1, Zenon DEF OutboxStep
      <4>2. CASE \E p \in Producer : Enqueue(p)
        BY <4>1, <4>2, <2>3, Zenon
      <4>3. CASE SpoolWriteLoop
        BY <4>1, <4>3, <2>5, Zenon
      <4>4. CASE DrainLoopStep
        BY <4>1, <4>4, <2>6, Zenon
      <4>5. CASE Close \/ WaitStart(GroupExited) \/ WaitReturn
        BY <4>1, <4>5, <2>7, Zenon
      <4> QED
        BY <4>1, <4>2, <4>3, <4>4, <4>5, Zenon
    <3>2. CASE DrainCall
      BY <3>2, <2>6
    <3>3. CASE Reconnect
      BY <3>3, <2>7
    <3>4. CASE Restart
      BY <3>4, <2>8
    <3> QED
      BY <1>3, <2>4, <3>1, <3>2, <3>3, <3>4, Zenon DEF Next
  <2> QED
    BY <1>1, <2>1, <2>9 DEF CustodyInv
<1> QED
  BY <1>2, <1>3

(***************************************************************************)
(* The channel implements the promise: a batch it took (Enqueue) is held   *)
(* until it is applied downstream or its loss is accounted for, through    *)
(* every interleaving of callers, workers, writer and drainer, failed      *)
(* writes, failed SQLite operations, Stop and restarts.                    *)
(***************************************************************************)
THEOREM ChannelKeepsCustody == Spec => KeepsCustody
<1>1. CustodyInv /\ [Next]_vars => [Promise!Next]_(Promise!vars)
  <2> SUFFICES ASSUME CustodyInv, [Next]_vars PROVE Promise!Next
    OBVIOUS
  <2> QED
    BY CustodyNext, SettleStepSettles DEF Promise!Next
<1>2. CustodyInv /\ [Next]_vars => CustodyInv'
  BY CustodyNext
<1> QED
  BY <1>1, <1>2, CustodyInit, PTL DEF Spec, KeepsCustody, Promise!Spec

(***************************************************************************)
(* No accepted batch vanishes (Enqueue, spoolWriteLoop, AggregateWriter,   *)
(* GroupedDrainer, Wait): it follows from the promise, since every step    *)
(* that lets go of a batch has settled it.                                 *)
(***************************************************************************)
THEOREM BatchesNeverVanish == Spec => []NothingVanishes
<1> DEFINE Accounted == accepted \subseteq Held \cup delivered \cup Excused
<1>1. Init => CustodyInv /\ Accounted
  BY CustodyInit DEF Init, OutboxInit
<1>2. CustodyInv /\ Accounted /\ [Next]_vars => CustodyInv' /\ Accounted'
  <2> SUFFICES ASSUME CustodyInv, Accounted, [Next]_vars PROVE CustodyInv' /\ Accounted'
    OBVIOUS
  <2>1. CASE Promise!Accept
    <3>1. PICK b \in Batch : /\ accepted' = accepted \cup {b} /\ Held' = Held \cup {b}
                             /\ delivered' = delivered /\ Excused' = Excused
      BY <2>1 DEF Promise!Accept, Held, Excused
    <3> QED
      BY <3>1, CustodyNext
  <2>2. CASE SettleStep
    BY <2>2, CustodyNext DEF SettleStep
  <2> QED
    BY <2>1, <2>2, CustodyNext
<1>3. CustodyInv /\ Accounted => NothingVanishes
  BY DEF CustodyInv, WindowInv, NothingVanishes, Held, Excused, Settled
<1> QED
  BY <1>1, <1>2, <1>3, PTL DEF Spec

===============================================================================
