---------------------- MODULE TimeSeriesChannel_custodian ----------------------
(***************************************************************************)
(* Where a batch is, and what follows from its being in one place only:    *)
(* no batch is stored or queued twice, the counters are exact, the replay  *)
(* is in order and a poison batch is blamed alone.                         *)
(***************************************************************************)
EXTENDS TimeSeriesChannel_proofs

USE DEF queues, dbVars, callVars, writerVars, drainVars, lifeVars, tally, losses,
        intake, outboxVars, channelVars, vars, writerFrame, drainFrame, waitFrame,
        workerFrame, drainCallFrame, reconnectFrame

\* The kinds of place a batch can be in; each caller has a hand and a carry of its own.
Kind == {"outbox", "spoolCh", "buf", "stored", "hand", "carry"}

At(k, a) ==
    CASE k = "outbox"  -> Range(outbox)
      [] k = "spoolCh" -> Range(spoolCh)
      [] k = "buf"     -> Range(buf)
      [] k = "stored"  -> BatchesOf(rows \cup pend)
      [] k = "hand"    -> Range(hand[a])
      [] k = "carry"   -> IF a \in Worker THEN Range(carry[a]) ELSE {}

\* Place k of a is not place l of c.
Apart(k, a, l, c) == k # l \/ (k \in {"hand", "carry"} /\ a # c)

\* A batch is in one place at a time.
PlaceInv ==
    /\ \A k, l \in Kind : \A a, c \in Actor :
          Apart(k, a, l, c) => At(k, a) \cap At(l, c) = {}
    /\ \A k \in Kind : \A a \in Actor : At(k, a) \subseteq accepted

\* No buffer holds a batch twice.
DistinctInv ==
    /\ IsInjective(outbox) /\ IsInjective(spoolCh) /\ IsInjective(buf)
    /\ \A a \in Actor : IsInjective(hand[a])
    /\ \A w \in Worker : IsInjective(carry[w])

\* Nor do the rows, counting those of the replay window; ids only go up.
StoredInv ==
    /\ \A r, q \in rows \cup pend : r.id = q.id \/ r.batch = q.batch => r = q
    /\ \A r \in rows \cup pend : r.id <= lastId

PlacesInv == CustodyInv /\ PlaceInv /\ DistinctInv /\ StoredInv

(***************************************************************************)
(* Sequences that hold nothing twice.                                      *)
(***************************************************************************)
LEMMA DistinctOne == \A e : IsInjective(<<e>>) /\ IsInjective(<<>>)
BY DEF IsInjective

LEMMA DistinctAppend ==
    ASSUME NEW S, NEW s \in Seq(S), NEW e \in S, IsInjective(s), e \notin Range(s)
    PROVE  IsInjective(Append(s, e))
<1>1. /\ DOMAIN Append(s, e) = 1..Len(s) + 1 /\ DOMAIN s = 1..Len(s) /\ Len(s) \in Nat
      /\ \A i \in 1..Len(s) : Append(s, e)[i] = s[i]
      /\ Append(s, e)[Len(s) + 1] = e
  BY AppendProperties, LenProperties
<1>2. \A i \in 1..Len(s) : s[i] # e
  BY <1>1 DEF Range
<1> QED
  BY <1>1, <1>2 DEF IsInjective

LEMMA DistinctTail ==
    ASSUME NEW S, NEW s \in Seq(S), s # <<>>, IsInjective(s)
    PROVE  /\ IsInjective(Tail(s))
           /\ Range(Tail(s)) = Range(s) \ {Head(s)}
<1>1. /\ DOMAIN s = 1..Len(s) /\ Len(s) \in Nat /\ Tail(s) \in Seq(S)
      /\ Len(Tail(s)) = Len(s) - 1 /\ DOMAIN Tail(s) = 1..Len(Tail(s))
      /\ Head(s) = s[1] /\ Len(s) # 0
      /\ \A i \in 1..Len(Tail(s)) : Tail(s)[i] = s[i + 1]
  BY HeadTailProperties, LenProperties, EmptySeq
<1>2. \A i \in 1..Len(Tail(s)) : i + 1 \in 1..Len(s) /\ i + 1 # 1 /\ 1 \in 1..Len(s)
  BY <1>1
<1>3. IsInjective(Tail(s))
  BY <1>1, <1>2 DEF IsInjective
<1>4. Head(s) \notin Range(Tail(s))
  BY <1>1, <1>2 DEF IsInjective, Range
<1> QED
  BY <1>3, <1>4, RangeOfTail

\* As many batches as places.
LEMMA DistinctLength ==
    ASSUME NEW s \in Seq(Batch), IsInjective(s)
    PROVE  IsFiniteSet(Range(s)) /\ Cardinality(Range(s)) = Len(s)
<1>1. Len(s) \in Nat /\ DOMAIN s = 1..Len(s) /\ s \in [1..Len(s) -> Batch]
  BY LenProperties
<1>2. s \in Bijection(1..Len(s), Range(s))
  BY <1>1 DEF Bijection, Injection, Surjection, IsInjective, Range
<1>3. IsFiniteSet(1..Len(s)) /\ Cardinality(1..Len(s)) = Len(s)
  <2>1. \A k \in Nat : IsFiniteSet(1..k) /\ Cardinality(1..k) = k
    BY FS_Interval
  <2> QED
    BY <1>1, <2>1, Zenon
<1> QED
  BY <1>2, <1>3, FS_Bijection DEF ExistsBijection

LEMMA DistinctInserted ==
    ASSUME NEW n \in Nat, NEW s \in Seq(Batch), IsInjective(s)
    PROVE  \A r, q \in Inserted(n, s) : r.id = q.id \/ r.batch = q.batch => r = q
<1>1. Len(s) \in Nat /\ DOMAIN s = 1..Len(s)
  BY LenProperties
<1> SUFFICES ASSUME NEW i \in 1..Len(s), NEW j \in 1..Len(s),
                    n + i = n + j \/ s[i] = s[j]
             PROVE  [id |-> n + i, batch |-> s[i]] = [id |-> n + j, batch |-> s[j]]
  BY DEF Inserted
<1>2. i = j
  BY <1>1 DEF IsInjective
<1> QED
  BY <1>2

(***************************************************************************)
(* The batches X end up in place l of c, and are in no other place; the    *)
(* other places do not grow.                                               *)
(***************************************************************************)
Passed(k, a, l, c, X) == IF Apart(k, a, l, c) THEN At(k, a) \ X ELSE At(k, a) \cup X

LEMMA PlacePassed ==
    ASSUME PlaceInv, accepted \subseteq accepted',
           NEW l \in Kind, NEW c \in Actor, NEW X \in SUBSET accepted',
           \A k \in Kind : \A a \in Actor : At(k, a)' \subseteq Passed(k, a, l, c, X)
    PROVE  PlaceInv'
<1>1. ASSUME NEW k \in Kind, NEW m \in Kind, NEW a \in Actor, NEW e \in Actor,
             Apart(k, a, m, e)
      PROVE  At(k, a)' \cap At(m, e)' = {}
  <2>1. At(k, a) \cap At(m, e) = {}
    BY <1>1 DEF PlaceInv
  <2>2. At(k, a)' \subseteq Passed(k, a, l, c, X) /\ At(m, e)' \subseteq Passed(m, e, l, c, X)
    BY <1>1
  <2>3. Apart(k, a, l, c) \/ Apart(m, e, l, c)
    BY <1>1 DEF Apart
  <2> QED
    BY <2>1, <2>2, <2>3 DEF Passed
<1>2. ASSUME NEW k \in Kind, NEW a \in Actor PROVE At(k, a)' \subseteq accepted'
  <2>1. At(k, a) \subseteq accepted /\ At(k, a)' \subseteq Passed(k, a, l, c, X)
    BY <1>2 DEF PlaceInv
  <2> QED
    BY <2>1 DEF Passed
<1>3. \A k, m \in Kind : \A a, e \in Actor : Apart(k, a, m, e)' <=> Apart(k, a, m, e)
  BY DEF Apart
<1> QED
  BY <1>1, <1>2, <1>3 DEF PlaceInv

\* Nothing moves: batches only leave.
LEMMA PlaceShrinks ==
    ASSUME PlaceInv, accepted' = accepted,
           \A k \in Kind : \A a \in Actor : At(k, a)' \subseteq At(k, a)
    PROVE  PlaceInv'
<1>1. \A k, m \in Kind : \A a, e \in Actor : Apart(k, a, m, e)' <=> Apart(k, a, m, e)
  BY DEF Apart
<1> QED
  BY <1>1 DEF PlaceInv

LEMMA StoredKept ==
    ASSUME StoredInv, rows' \cup pend' \subseteq rows \cup pend, lastId' = lastId
    PROVE  StoredInv'
BY DEF StoredInv

(***************************************************************************)
(* The same, place by place.                                               *)
(***************************************************************************)
Moves(l, c, X) ==
    /\ Range(outbox') \subseteq IF l = "outbox" THEN Range(outbox) \cup X ELSE Range(outbox) \ X
    /\ Range(spoolCh') \subseteq IF l = "spoolCh" THEN Range(spoolCh) \cup X ELSE Range(spoolCh) \ X
    /\ Range(buf') \subseteq IF l = "buf" THEN Range(buf) \cup X ELSE Range(buf) \ X
    /\ BatchesOf(rows' \cup pend') \subseteq
          IF l = "stored" THEN BatchesOf(rows \cup pend) \cup X ELSE BatchesOf(rows \cup pend) \ X
    /\ \A a \in Actor : Range(hand'[a]) \subseteq
          IF l = "hand" /\ a = c THEN Range(hand[a]) \cup X ELSE Range(hand[a]) \ X
    /\ \A w \in Worker : Range(carry'[w]) \subseteq
          IF l = "carry" /\ w = c THEN Range(carry[w]) \cup X ELSE Range(carry[w]) \ X

LEMMA Passing ==
    ASSUME PlaceInv, accepted \subseteq accepted',
           NEW l \in Kind, NEW c \in Actor, NEW X \in SUBSET accepted', Moves(l, c, X)
    PROVE  PlaceInv'
<1>1. ASSUME NEW k \in Kind, NEW a \in Actor
      PROVE  At(k, a)' \subseteq Passed(k, a, l, c, X)
  <2>1. CASE k = "outbox"
    BY <2>1 DEF At, Passed, Apart, Moves
  <2>2. CASE k = "spoolCh"
    BY <2>2 DEF At, Passed, Apart, Moves
  <2>3. CASE k = "buf"
    BY <2>3 DEF At, Passed, Apart, Moves
  <2>4. CASE k = "stored"
    BY <2>4 DEF At, Passed, Apart, Moves, BatchesOf
  <2>5. CASE k = "hand"
    BY <2>5 DEF At, Passed, Apart, Moves
  <2>6. CASE k = "carry"
    BY <2>6 DEF At, Passed, Apart, Moves
  <2> QED
    BY <2>1, <2>2, <2>3, <2>4, <2>5, <2>6 DEF Kind
<1> QED
  BY <1>1, PlacePassed

LEMMA Shrinking ==
    ASSUME PlaceInv, accepted' = accepted,
           Range(outbox') \subseteq Range(outbox), Range(spoolCh') \subseteq Range(spoolCh),
           Range(buf') \subseteq Range(buf),
           BatchesOf(rows' \cup pend') \subseteq BatchesOf(rows \cup pend),
           \A a \in Actor : Range(hand'[a]) \subseteq Range(hand[a]),
           \A w \in Worker : Range(carry'[w]) \subseteq Range(carry[w])
    PROVE  PlaceInv'
<1>1. ASSUME NEW k \in Kind, NEW a \in Actor
      PROVE  At(k, a)' \subseteq At(k, a)
  BY <1>1 DEF At, Kind, BatchesOf
<1> QED
  BY <1>1, PlaceShrinks

\* What PlaceInv says, place by place.
LEMMA PlacesApart ==
    ASSUME PlaceInv, NEW a \in Actor
    PROVE  /\ Range(outbox) \cap Range(spoolCh) = {} /\ Range(outbox) \cap Range(buf) = {}
           /\ Range(outbox) \cap BatchesOf(rows \cup pend) = {}
           /\ Range(spoolCh) \cap Range(buf) = {}
           /\ Range(spoolCh) \cap BatchesOf(rows \cup pend) = {}
           /\ Range(buf) \cap BatchesOf(rows \cup pend) = {}
           /\ Range(hand[a]) \cap Range(outbox) = {} /\ Range(hand[a]) \cap Range(spoolCh) = {}
           /\ Range(hand[a]) \cap Range(buf) = {}
           /\ Range(hand[a]) \cap BatchesOf(rows \cup pend) = {}
           /\ \A c \in Actor : c # a => Range(hand[a]) \cap Range(hand[c]) = {}
           /\ \A w \in Worker :
                 /\ Range(carry[w]) \cap Range(outbox) = {} /\ Range(carry[w]) \cap Range(spoolCh) = {}
                 /\ Range(carry[w]) \cap Range(buf) = {}
                 /\ Range(carry[w]) \cap BatchesOf(rows \cup pend) = {}
                 /\ Range(carry[w]) \cap Range(hand[a]) = {}
                 /\ \A v \in Worker : v # w => Range(carry[w]) \cap Range(carry[v]) = {}
<1>a. Worker \subseteq Actor
  BY DEF Actor
<1>1. /\ At("outbox", a) = Range(outbox) /\ At("spoolCh", a) = Range(spoolCh)
      /\ At("buf", a) = Range(buf) /\ At("stored", a) = BatchesOf(rows \cup pend)
      /\ \A c \in Actor : At("hand", c) = Range(hand[c])
      /\ \A w \in Worker : At("carry", w) = Range(carry[w])
  BY DEF At
<1>2. \A k, l \in Kind : \A c, e \in Actor :
         k # l \/ (k \in {"hand", "carry"} /\ c # e) => At(k, c) \cap At(l, e) = {}
  BY DEF PlaceInv, Apart
<1>3. /\ At("outbox", a) \cap At("spoolCh", a) = {} /\ At("outbox", a) \cap At("buf", a) = {}
      /\ At("outbox", a) \cap At("stored", a) = {} /\ At("spoolCh", a) \cap At("buf", a) = {}
      /\ At("spoolCh", a) \cap At("stored", a) = {} /\ At("buf", a) \cap At("stored", a) = {}
      /\ At("hand", a) \cap At("outbox", a) = {} /\ At("hand", a) \cap At("spoolCh", a) = {}
      /\ At("hand", a) \cap At("buf", a) = {} /\ At("hand", a) \cap At("stored", a) = {}
  BY <1>2 DEF Kind
<1>4. \A c \in Actor : c # a => At("hand", a) \cap At("hand", c) = {}
  BY <1>2 DEF Kind
<1>5. \A w \in Worker :
         /\ At("carry", w) \cap At("outbox", a) = {} /\ At("carry", w) \cap At("spoolCh", a) = {}
         /\ At("carry", w) \cap At("buf", a) = {} /\ At("carry", w) \cap At("stored", a) = {}
         /\ At("carry", w) \cap At("hand", a) = {}
         /\ \A v \in Worker : v # w => At("carry", w) \cap At("carry", v) = {}
  BY <1>2, <1>a DEF Kind
<1> QED
  BY <1>1, <1>3, <1>4, <1>5

\* What is held was accepted.
LEMMA PlacesAccepted ==
    ASSUME PlaceInv, NEW a \in Actor
    PROVE  /\ Range(outbox) \subseteq accepted /\ Range(spoolCh) \subseteq accepted
           /\ Range(buf) \subseteq accepted /\ BatchesOf(rows \cup pend) \subseteq accepted
           /\ Range(hand[a]) \subseteq accepted
           /\ \A w \in Worker : Range(carry[w]) \subseteq accepted
<1>1. /\ At("outbox", a) = Range(outbox) /\ At("spoolCh", a) = Range(spoolCh)
      /\ At("buf", a) = Range(buf) /\ At("stored", a) = BatchesOf(rows \cup pend)
      /\ At("hand", a) = Range(hand[a])
      /\ \A w \in Worker : At("carry", w) = Range(carry[w]) /\ w \in Actor
  BY DEF At, Actor
<1> QED
  BY <1>1 DEF PlaceInv, Kind

(***************************************************************************)
(* Enqueue and SpoolEnqueue.                                               *)
(***************************************************************************)
\* The types the steps below rely on.
LEMMA PlaceTypes ==
    ASSUME PlacesInv
    PROVE  /\ outbox \in Seq(Batch) /\ spoolCh \in Seq(Batch) /\ buf \in Seq(Batch)
           /\ hand \in [Actor -> Seq(Batch)] /\ carry \in [Worker -> Seq(Batch)]
           /\ rows \in SUBSET Row /\ pend \in SUBSET Row /\ lastId \in Nat
           /\ <<>> \in Seq(Batch) /\ Range(<<>>) = {}
           /\ Worker \subseteq Actor /\ Producer \subseteq Actor
           /\ \A p \in Producer : p \notin Worker
BY OutboxAssumption DEF PlacesInv, CustodyInv, TypeInv, QueueTypes, CallTypes, WriterTypes,
   RowTypes, DrainTypes, Actor, Range

\* A buffer from which the head was taken, and one to which b was appended.
LEMMA HeadTaken ==
    ASSUME NEW s \in Seq(Batch), s # <<>>, IsInjective(s)
    PROVE  /\ Head(s) \in Batch /\ Head(s) \in Range(s) /\ Tail(s) \in Seq(Batch)
           /\ IsInjective(Tail(s)) /\ Range(Tail(s)) = Range(s) \ {Head(s)}
BY DistinctTail, RangeOfTail

LEMMA BatchPut ==
    ASSUME NEW s \in Seq(Batch), NEW b \in Batch, IsInjective(s), b \notin Range(s)
    PROVE  /\ Append(s, b) \in Seq(Batch) /\ IsInjective(Append(s, b))
           /\ Range(Append(s, b)) = Range(s) \cup {b}
BY DistinctAppend, RangeOfAppend

LEMMA PlaceEnqueue ==
    ASSUME PlacesInv, NEW p \in Producer, UNCHANGED channelVars,
           \/ \E b \in Batch : EnqueueStart(p, b)
           \/ EnqueueSend(p) \/ EnqueueEvict(p) \/ EnqueueResend(p)
    PROVE  PlaceInv' /\ DistinctInv' /\ StoredInv'
<1>a. /\ p \in Actor /\ hand[p] \in Seq(Batch) /\ hand \in [Actor -> Seq(Batch)]
      /\ outbox \in Seq(Batch) /\ <<>> \in Seq(Batch) /\ Range(<<>>) = {}
  BY PlaceTypes
<1>b. PlaceInv /\ DistinctInv /\ StoredInv /\ HandsInv
  BY DEF PlacesInv, CustodyInv
<1>c. UNCHANGED <<spoolCh, buf, carry, rows, pend, lastId>>
  BY DEF EnqueueStart, EnqueueSend, EnqueueEvict, EnqueueResend
<1>d. StoredInv'
  BY <1>b, <1>c, StoredKept
<1>1. CASE \E b \in Batch : EnqueueStart(p, b)
  <2>1. PICK b \in Batch : EnqueueStart(p, b)
    BY <1>1
  <2>2. /\ hand[p] = <<>> /\ hand'[p] = <<b>> /\ \A a \in Actor \ {p} : hand'[a] = hand[a]
        /\ accepted' = accepted \cup {b} /\ b \notin accepted /\ outbox' = outbox
        /\ Range(<<b>>) = {b}
    BY <1>a, <1>b, <2>1, RangeOfOne DEF EnqueueStart, HandsInv
  <2>3. PlaceInv'
    <3>1. \A a \in Actor : Range(hand[a]) \subseteq accepted
      BY <1>b, PlacesAccepted
    <3>2. /\ Range(outbox) \subseteq accepted /\ Range(spoolCh) \subseteq accepted
          /\ Range(buf) \subseteq accepted /\ BatchesOf(rows \cup pend) \subseteq accepted
          /\ \A w \in Worker : Range(carry[w]) \subseteq accepted
      BY <1>a, <1>b, PlacesAccepted
    <3>3. "hand" \in Kind /\ {b} \in SUBSET accepted'
      BY <2>2 DEF Kind
    <3>4. Moves("hand", p, {b})
      BY <1>a, <1>c, <2>2, <3>1, <3>2 DEF Moves
    <3> QED
      BY <1>a, <1>b, <2>2, <3>3, <3>4, Passing
  <2>4. DistinctInv'
    BY <1>b, <1>c, <2>2, DistinctOne DEF DistinctInv
  <2> QED
    BY <1>d, <2>3, <2>4
<1>2. CASE EnqueueSend(p) \/ EnqueueResend(p)
  <2> DEFINE b == Head(hand[p])
  <2>1. CASE hand' = hand /\ outbox' = outbox
    <3>1. PlaceInv'
      BY <1>2, <1>b, <1>c, <2>1, Shrinking DEF EnqueueSend, EnqueueResend
    <3>2. DistinctInv'
      BY <1>b, <1>c, <2>1 DEF DistinctInv
    <3> QED
      BY <1>d, <3>1, <3>2
  <2>2. CASE ~(hand' = hand /\ outbox' = outbox)
    <3>1. Len(hand[p]) = 1
      BY <1>2, <1>a, <1>b DEF EnqueueSend, EnqueueResend, HandsInv
    <3>2. b \in Batch /\ Range(hand[p]) = {b}
      BY <1>a, <3>1, RangeOfSingleton
    <3>3. /\ hand'[p] = <<>> /\ \A a \in Actor \ {p} : hand'[a] = hand[a]
          /\ outbox' = outbox \/ outbox' = Append(outbox, b)
          /\ accepted' = accepted
      BY <1>2, <1>a, <2>2 DEF EnqueueSend, EnqueueResend
    <3>4. /\ b \notin Range(outbox) /\ b \notin Range(spoolCh) /\ b \notin Range(buf)
          /\ b \notin BatchesOf(rows \cup pend) /\ b \in accepted
          /\ \A c \in Actor \ {p} : b \notin Range(hand[c])
          /\ \A w \in Worker : b \notin Range(carry[w])
      BY <1>a, <1>b, <3>2, PlacesApart, PlacesAccepted
    <3> HIDE DEF b
    <3>5. IsInjective(outbox') /\ Range(outbox') \subseteq Range(outbox) \cup {b}
      <4>1. IsInjective(outbox)
        BY <1>b DEF DistinctInv
      <4>2. IsInjective(Append(outbox, b)) /\ Range(Append(outbox, b)) = Range(outbox) \cup {b}
        BY <1>a, <3>2, <3>4, <4>1, BatchPut
      <4> QED
        BY <3>3, <4>1, <4>2
    <3>6. PlaceInv'
      <4>1. "outbox" \in Kind /\ {b} \in SUBSET accepted'
        BY <3>3, <3>4 DEF Kind
      <4>2. Moves("outbox", p, {b})
        BY <1>a, <1>c, <3>2, <3>3, <3>4, <3>5 DEF Moves
      <4> QED
        BY <1>a, <1>b, <3>3, <4>1, <4>2, Passing
    <3>7. DistinctInv'
      BY <1>b, <1>c, <3>3, <3>5, DistinctOne DEF DistinctInv
    <3> QED
      BY <1>d, <3>6, <3>7
  <2> QED
    BY <2>1, <2>2
<1>3. CASE EnqueueEvict(p)
  <2>1. /\ hand' = hand /\ accepted' = accepted
        /\ outbox' = outbox \/ (outbox # <<>> /\ outbox' = Tail(outbox))
    BY <1>3 DEF EnqueueEvict
  <2>2. IsInjective(outbox') /\ Range(outbox') \subseteq Range(outbox)
    BY <1>a, <1>b, <2>1, HeadTaken DEF DistinctInv
  <2>3. PlaceInv'
    BY <1>b, <1>c, <2>1, <2>2, Shrinking
  <2>4. DistinctInv'
    BY <1>b, <1>c, <2>1, <2>2 DEF DistinctInv
  <2> QED
    BY <1>d, <2>3, <2>4
<1> QED
  BY <1>1, <1>2, <1>3

LEMMA PlaceSpoolEnqueue ==
    ASSUME PlacesInv, NEW a \in Actor, NEW after, UNCHANGED channelVars,
           SpoolSend(a, after) \/ SpoolEvict(a) \/ SpoolResend(a, after)
    PROVE  PlaceInv' /\ DistinctInv' /\ StoredInv'
<1>a. /\ hand[a] \in Seq(Batch) /\ hand \in [Actor -> Seq(Batch)] /\ hand[a] # <<>>
      /\ spoolCh \in Seq(Batch)
  BY PlaceTypes DEF PlacesInv, CustodyInv, TypeInv, CallTypes, CallersHoldBatches,
     SpoolSend, SpoolEvict, SpoolResend
<1>b. PlaceInv /\ DistinctInv /\ StoredInv
  BY DEF PlacesInv
<1>c. UNCHANGED <<outbox, buf, carry, rows, pend, lastId, accepted>>
  BY DEF SpoolSend, SpoolEvict, SpoolResend
<1>d. StoredInv'
  BY <1>b, <1>c, StoredKept
<1>1. CASE SpoolSend(a, after) \/ SpoolResend(a, after)
  <2> DEFINE b == Head(hand[a])
  <2>1. CASE hand' = hand /\ spoolCh' = spoolCh
    <3>1. PlaceInv'
      BY <1>b, <1>c, <2>1, Shrinking
    <3>2. DistinctInv'
      BY <1>b, <1>c, <2>1 DEF DistinctInv
    <3> QED
      BY <1>d, <3>1, <3>2
  <2>2. CASE ~(hand' = hand /\ spoolCh' = spoolCh)
    <3>1. /\ hand'[a] = Tail(hand[a]) /\ \A c \in Actor \ {a} : hand'[c] = hand[c]
          /\ spoolCh' = spoolCh \/ spoolCh' = Append(spoolCh, b)
      BY <1>1, <1>a, <2>2 DEF SpoolSend, SpoolResend, HandOver
    <3>2. /\ b \in Batch /\ b \in Range(hand[a])
          /\ IsInjective(Tail(hand[a])) /\ Range(Tail(hand[a])) = Range(hand[a]) \ {b}
      BY <1>a, <1>b, HeadTaken DEF DistinctInv
    <3>3. /\ b \notin Range(outbox) /\ b \notin Range(spoolCh) /\ b \notin Range(buf)
          /\ b \notin BatchesOf(rows \cup pend) /\ b \in accepted
          /\ \A c \in Actor \ {a} : b \notin Range(hand[c])
          /\ \A w \in Worker : b \notin Range(carry[w])
      BY <1>b, <3>2, PlacesApart, PlacesAccepted
    <3> HIDE DEF b
    <3>4. IsInjective(spoolCh') /\ Range(spoolCh') \subseteq Range(spoolCh) \cup {b}
      <4>1. IsInjective(spoolCh)
        BY <1>b DEF DistinctInv
      <4>2. IsInjective(Append(spoolCh, b)) /\ Range(Append(spoolCh, b)) = Range(spoolCh) \cup {b}
        BY <1>a, <3>2, <3>3, <4>1, BatchPut
      <4> QED
        BY <3>1, <4>1, <4>2
    <3>5. PlaceInv'
      <4>1. "spoolCh" \in Kind /\ {b} \in SUBSET accepted'
        BY <1>c, <3>3 DEF Kind
      <4>2. Moves("spoolCh", a, {b})
        BY <1>c, <3>1, <3>2, <3>3, <3>4 DEF Moves
      <4> QED
        BY <1>b, <1>c, <4>1, <4>2, Passing
    <3>6. DistinctInv'
      BY <1>b, <1>c, <3>1, <3>2, <3>4 DEF DistinctInv
    <3> QED
      BY <1>d, <3>5, <3>6
  <2> QED
    BY <2>1, <2>2
<1>2. CASE SpoolEvict(a)
  <2>1. /\ hand' = hand
        /\ \/ spoolCh' = spoolCh
           \/ spoolCh # <<>> /\ spoolCh' = Tail(spoolCh)
    BY <1>2 DEF SpoolEvict
  <2>2. IsInjective(spoolCh') /\ Range(spoolCh') \subseteq Range(spoolCh)
    BY <1>a, <1>b, <2>1, HeadTaken DEF DistinctInv
  <2>3. PlaceInv'
    BY <1>b, <1>c, <2>1, <2>2, Shrinking
  <2>4. DistinctInv'
    BY <1>b, <1>c, <2>1, <2>2 DEF DistinctInv
  <2> QED
    BY <1>d, <2>3, <2>4
<1> QED
  BY <1>1, <1>2

(***************************************************************************)
(* spoolWriteLoop.                                                         *)
(***************************************************************************)
LEMMA PlaceWriter ==
    ASSUME PlacesInv, SpoolWriteLoop, UNCHANGED channelVars
    PROVE  PlaceInv' /\ DistinctInv' /\ StoredInv'
<1>a. /\ spoolCh \in Seq(Batch) /\ buf \in Seq(Batch) /\ <<>> \in Seq(Batch) /\ Range(<<>>) = {}
      /\ rows \in SUBSET Row /\ pend \in SUBSET Row /\ lastId \in Nat
      /\ (wpc = "idle" <=> buf = <<>>)
  BY PlaceTypes DEF PlacesInv, CustodyInv, TypeInv, WriterTypes
<1>b. PlaceInv /\ DistinctInv /\ StoredInv
  BY DEF PlacesInv
<1>c. UNCHANGED <<outbox, hand, carry, pend, accepted>>
  BY DEF SpoolWriteLoop, WriterTake, WriterCollect, WriterCheckCap, WriterTrim,
         WriterInsert, WriterFallback, WriterPhase
\* Some actor, to speak of the places that are not an actor's own.
<1>e. PICK e \in Actor : TRUE
  BY OutboxAssumption DEF Actor
<1>1. CASE WriterTake \/ WriterCollect
  <2> DEFINE b == Head(spoolCh)
  <2>1. /\ spoolCh # <<>> /\ spoolCh' = Tail(spoolCh) /\ UNCHANGED <<rows, lastId>>
        /\ buf' = Append(buf, b) \/ (buf = <<>> /\ buf' = <<b>>)
    BY <1>1, <1>a DEF WriterTake, WriterCollect
  <2>2. /\ b \in Batch /\ b \in Range(spoolCh)
        /\ IsInjective(spoolCh') /\ Range(spoolCh') = Range(spoolCh) \ {b}
    BY <1>a, <1>b, <2>1, HeadTaken DEF DistinctInv
  <2>3. /\ b \notin Range(outbox) /\ b \notin Range(buf)
        /\ b \notin BatchesOf(rows \cup pend) /\ b \in accepted
        /\ \A c \in Actor : b \notin Range(hand[c])
        /\ \A w \in Worker : b \notin Range(carry[w])
    BY <1>b, <1>e, <2>2, PlacesApart, PlacesAccepted
  <2> HIDE DEF b
  <2>4. IsInjective(buf') /\ Range(buf') = Range(buf) \cup {b}
    <3>1. IsInjective(buf)
      BY <1>b DEF DistinctInv
    <3>2. IsInjective(Append(buf, b)) /\ Range(Append(buf, b)) = Range(buf) \cup {b}
      BY <1>a, <2>2, <2>3, <3>1, BatchPut
    <3>3. IsInjective(<<b>>) /\ Range(<<b>>) = {b}
      BY <2>2, DistinctOne, RangeOfOne
    <3> QED
      BY <1>a, <2>1, <3>2, <3>3
  <2>5. PlaceInv'
    <3>1. "buf" \in Kind /\ {b} \in SUBSET accepted'
      BY <1>c, <2>3 DEF Kind
    <3>2. Moves("buf", e, {b})
      BY <1>c, <2>1, <2>2, <2>3, <2>4 DEF Moves
    <3> QED
      BY <1>b, <1>c, <1>e, <3>1, <3>2, Passing
  <2>6. DistinctInv' /\ StoredInv'
    BY <1>b, <1>c, <2>1, <2>2, <2>4, StoredKept DEF DistinctInv
  <2> QED
    BY <2>5, <2>6
<1>2. CASE WriterCheckCap \/ WriterPhase
  <2>1. UNCHANGED <<rows, lastId, spoolCh, buf>>
    BY <1>2 DEF WriterCheckCap, WriterPhase
  <2> QED
    BY <1>b, <1>c, <2>1, Shrinking, StoredKept DEF DistinctInv
<1>3. CASE WriterTrim
  <2>1. UNCHANGED <<lastId, spoolCh, buf>> /\ rows' \cup pend' \subseteq rows \cup pend
    BY <1>3, <1>c DEF WriterTrim
  <2>2. BatchesOf(rows' \cup pend') \subseteq BatchesOf(rows \cup pend)
    BY <2>1, BatchesOfRows
  <2>3. PlaceInv'
    BY <1>b, <1>c, <2>1, <2>2, Shrinking
  <2>4. DistinctInv' /\ StoredInv'
    BY <1>b, <1>c, <2>1, StoredKept DEF DistinctInv
  <2> QED
    BY <2>3, <2>4
\* The rows of New, with ids above the last, take the batches X out of the buffer.
<1>4. ASSUME NEW New \in SUBSET Row, NEW n \in Nat, NEW X \in SUBSET Range(buf),
             rows' = rows \cup New, lastId' = lastId + n, spoolCh' = spoolCh,
             BatchesOf(New) = X,
             \A r \in New : lastId < r.id /\ r.id <= lastId + n,
             \A r, q \in New : r.id = q.id \/ r.batch = q.batch => r = q,
             Range(buf') \subseteq Range(buf) \ X, IsInjective(buf')
      PROVE  PlaceInv' /\ DistinctInv' /\ StoredInv'
  <2>1. /\ X \cap Range(outbox) = {} /\ X \cap Range(spoolCh) = {}
        /\ X \cap BatchesOf(rows \cup pend) = {} /\ X \subseteq accepted
        /\ \A c \in Actor : X \cap Range(hand[c]) = {}
        /\ \A w \in Worker : X \cap Range(carry[w]) = {}
    BY <1>b, <1>e, <1>4, PlacesApart, PlacesAccepted
  <2>2. BatchesOf(rows' \cup pend') = BatchesOf(rows \cup pend) \cup X
    <3>1. rows' \cup pend' = (rows \cup pend) \cup New
      BY <1>4, <1>c
    <3> QED
      BY <1>4, <3>1, BatchesOfRows
  <2>3. PlaceInv'
    <3>1. "stored" \in Kind /\ X \in SUBSET accepted'
      BY <1>c, <2>1 DEF Kind
    <3>2. Moves("stored", e, X)
      BY <1>c, <1>4, <2>1, <2>2 DEF Moves
    <3> QED
      BY <1>b, <1>c, <1>e, <3>1, <3>2, Passing
  <2>4. DistinctInv'
    BY <1>b, <1>c, <1>4 DEF DistinctInv
  <2>5. StoredInv'
    <3>1. \A r \in rows \cup pend, q \in New : r.id # q.id /\ r.batch # q.batch
      <4> TAKE r \in rows \cup pend, q \in New
      <4>1. r.id <= lastId /\ lastId < q.id /\ r.id \in Nat /\ q.id \in Nat
        BY <1>a, <1>b, <1>4 DEF StoredInv, Row
      <4>2. r.batch \in BatchesOf(rows \cup pend) /\ q.batch \in X
        BY <1>4 DEF BatchesOf
      <4> QED
        BY <1>a, <2>1, <4>1, <4>2
    <3>2. rows' \cup pend' = (rows \cup pend) \cup New
      BY <1>4, <1>c
    <3>3. \A r \in rows \cup pend : r.id <= lastId + n
      <4> TAKE r \in rows \cup pend
      <4>1. r.id <= lastId /\ r.id \in Nat
        BY <1>a, <1>b DEF StoredInv, Row
      <4> QED
        BY <1>a, <4>1
    <3> QED
      BY <1>b, <1>4, <3>1, <3>2, <3>3 DEF StoredInv
  <2> QED
    BY <2>3, <2>4, <2>5
<1>5. CASE WriterInsert
  <2>1. CASE rows' = rows
    <3>1. UNCHANGED <<rows, lastId, spoolCh, buf>>
      <4>1. CASE UNCHANGED <<rows, lastId, count, buf, notify>>
        BY <1>5, <4>1 DEF WriterInsert
      <4>2. CASE rows' = rows \cup Inserted(lastId, buf) /\ lastId' = lastId + Len(buf)
                 /\ buf' = <<>>
        <5>1. buf # <<>>
          BY <1>5, <1>a DEF WriterInsert
        <5>2. Inserted(lastId, buf) = {}
          <6>1. \A r \in Inserted(lastId, buf) : r \notin rows
            <7> TAKE r \in Inserted(lastId, buf)
            <7>1. lastId < r.id /\ r.id \in Nat
              BY <1>a, InsertedRows DEF Row
            <7> QED
              BY <1>a, <1>b, <7>1 DEF StoredInv
          <6> QED
            BY <2>1, <4>2, <6>1
        <5>3. Range(buf) = {}
          BY <1>a, <5>2, InsertedRows, BatchesOfRows
        <5> QED
          BY <1>a, <5>1, <5>3, RangeInSet
      <4> QED
        BY <1>5, <4>1, <4>2 DEF WriterInsert, Inserted
    <3> QED
      BY <1>b, <1>c, <3>1, Shrinking, StoredKept DEF DistinctInv
  <2>2. CASE rows' # rows
    <3>1. /\ rows' = rows \cup Inserted(lastId, buf) /\ lastId' = lastId + Len(buf)
          /\ buf' = <<>> /\ spoolCh' = spoolCh
      BY <1>5, <2>2 DEF WriterInsert, Inserted
    <3>2. /\ Inserted(lastId, buf) \in SUBSET Row /\ Len(buf) \in Nat
          /\ BatchesOf(Inserted(lastId, buf)) = Range(buf)
          /\ \A r \in Inserted(lastId, buf) : lastId < r.id /\ r.id <= lastId + Len(buf)
      BY <1>a, InsertedRows, LengthIsNat
    <3>3. \A r, q \in Inserted(lastId, buf) : r.id = q.id \/ r.batch = q.batch => r = q
      BY <1>a, <1>b, DistinctInserted DEF DistinctInv
    <3>4. Range(buf') \subseteq Range(buf) \ Range(buf) /\ IsInjective(buf')
      BY <1>a, <3>1, DistinctOne
    <3> QED
      BY <1>4, <3>1, <3>2, <3>3, <3>4
  <2> QED
    BY <2>1, <2>2
<1>6. CASE WriterFallback
  <2> DEFINE b == Head(buf)
             row == [id |-> lastId + 1, batch |-> b]
  <2>1. buf # <<>> /\ buf' = Tail(buf) /\ spoolCh' = spoolCh
    BY <1>6, <1>a DEF WriterFallback
  <2>2. /\ b \in Batch /\ b \in Range(buf)
        /\ IsInjective(buf') /\ Range(buf') = Range(buf) \ {b}
    BY <1>a, <1>b, <2>1, HeadTaken DEF DistinctInv
  <2>3. CASE UNCHANGED <<rows, lastId>>
    <3>1. PlaceInv'
      BY <1>b, <1>c, <2>1, <2>2, <2>3, Shrinking
    <3>2. DistinctInv' /\ StoredInv'
      BY <1>b, <1>c, <2>1, <2>2, <2>3, StoredKept DEF DistinctInv
    <3> QED
      BY <3>1, <3>2
  <2>4. CASE ~UNCHANGED <<rows, lastId>>
    <3>1. rows' = rows \cup {row} /\ lastId' = lastId + 1
      BY <1>6, <2>4 DEF WriterFallback
    <3>2. row \in Row /\ row.id = lastId + 1 /\ row.batch = b
      BY <1>a, <2>2 DEF Row
    <3> HIDE DEF row, b
    <3>3. BatchesOf({row}) = {b} /\ {row} \in SUBSET Row /\ {b} \in SUBSET Range(buf) /\ 1 \in Nat
      BY <2>2, <3>2, BatchesOfRows
    <3>4. \A r \in {row} : lastId < r.id /\ r.id <= lastId + 1
      BY <1>a, <3>2
    <3> QED
      BY <1>4, <2>1, <2>2, <3>1, <3>3, <3>4
  <2> QED
    BY <2>3, <2>4
<1> QED
  BY <1>1, <1>2, <1>3, <1>5, <1>6 DEF SpoolWriteLoop

(***************************************************************************)
(* The workers.                                                            *)
(***************************************************************************)
LEMMA PlaceWorker ==
    ASSUME PlacesInv, NEW w \in Worker, WorkerStep(w)
    PROVE  PlaceInv' /\ DistinctInv' /\ StoredInv'
<1>a. /\ w \in Actor /\ hand[w] \in Seq(Batch) /\ hand \in [Actor -> Seq(Batch)]
      /\ carry \in [Worker -> Seq(Batch)] /\ carry[w] \in Seq(Batch)
      /\ outbox \in Seq(Batch) /\ <<>> \in Seq(Batch) /\ Range(<<>>) = {}
  BY PlaceTypes
<1>b. PlaceInv /\ DistinctInv /\ StoredInv /\ HandsInv
  BY DEF PlacesInv, CustodyInv
<1>c. UNCHANGED <<spoolCh, buf, rows, pend, lastId, accepted>>
  BY DEF WorkerStep, WorkerTake, WorkerAppendCarry, WorkerTick, WorkerQuit, WorkerLast,
         WorkerWrite, WorkerWritten, WorkerWriteFailed, WriteSucceeds
<1>d. StoredInv'
  BY <1>b, <1>c, StoredKept
<1>1. CASE WorkerTake(w)
  <2> DEFINE b == Head(outbox)
  <2>1. outbox # <<>> /\ outbox' = Tail(outbox) /\ carry[w] = <<>>
    BY <1>1 DEF WorkerTake
  <2>2. /\ b \in Batch /\ b \in Range(outbox)
        /\ IsInjective(outbox') /\ Range(outbox') = Range(outbox) \ {b}
    BY <1>a, <1>b, <2>1, HeadTaken DEF DistinctInv
  <2>3. /\ b \notin Range(spoolCh) /\ b \notin Range(buf)
        /\ b \notin BatchesOf(rows \cup pend) /\ b \in accepted
        /\ \A c \in Actor : b \notin Range(hand[c])
        /\ \A v \in Worker : b \notin Range(carry[v])
    BY <1>a, <1>b, <2>2, PlacesApart, PlacesAccepted
  <2>4. \/ hand' = hand /\ carry' = [carry EXCEPT ![w] = <<b>>]
        \/ hand' = [hand EXCEPT ![w] = Append(hand[w], b)] /\ carry' = carry
    BY <1>1 DEF WorkerTake
  <2> HIDE DEF b
  <2>5. CASE hand' = hand /\ carry' = [carry EXCEPT ![w] = <<b>>]
    <3>1. IsInjective(<<b>>) /\ Range(<<b>>) = {b}
      BY <2>2, DistinctOne, RangeOfOne
    <3>2. carry'[w] = <<b>> /\ \A v \in Worker \ {w} : carry'[v] = carry[v]
      BY <1>a, <2>5
    <3>3. Moves("carry", w, {b}) /\ "carry" \in Kind /\ {b} \in SUBSET accepted'
      BY <1>c, <2>2, <2>3, <2>5, <3>1, <3>2 DEF Moves, Kind
    <3>4. PlaceInv'
      BY <1>a, <1>b, <1>c, <3>3, Passing
    <3>5. DistinctInv'
      BY <1>b, <1>c, <2>2, <2>5, <3>1, <3>2 DEF DistinctInv
    <3> QED
      BY <1>d, <3>4, <3>5
  <2>6. CASE hand' = [hand EXCEPT ![w] = Append(hand[w], b)] /\ carry' = carry
    <3>1. IsInjective(hand[w])
      BY <1>a, <1>b DEF DistinctInv
    <3>2. /\ IsInjective(Append(hand[w], b))
          /\ Range(Append(hand[w], b)) = Range(hand[w]) \cup {b}
      BY <1>a, <2>2, <2>3, <3>1, BatchPut
    <3>3. hand'[w] = Append(hand[w], b) /\ \A c \in Actor \ {w} : hand'[c] = hand[c]
      BY <1>a, <2>6
    <3>4. Moves("hand", w, {b}) /\ "hand" \in Kind /\ {b} \in SUBSET accepted'
      BY <1>c, <2>2, <2>3, <2>6, <3>2, <3>3 DEF Moves, Kind
    <3>5. PlaceInv'
      BY <1>a, <1>b, <1>c, <3>4, Passing
    <3>6. DistinctInv'
      BY <1>b, <1>c, <2>2, <2>6, <3>2, <3>3 DEF DistinctInv
    <3> QED
      BY <1>d, <3>5, <3>6
  <2> QED
    BY <2>4, <2>5, <2>6
<1>2. CASE WorkerAppendCarry(w)
  <2>1. /\ hand[w] = <<>> /\ outbox' = outbox
        /\ hand'[w] = carry[w] /\ \A c \in Actor \ {w} : hand'[c] = hand[c]
        /\ carry'[w] = <<>> /\ \A v \in Worker \ {w} : carry'[v] = carry[v]
    BY <1>2, <1>a, <1>b DEF WorkerAppendCarry, HandsInv
  <2> DEFINE X == Range(carry[w])
  <2>2. /\ X \cap Range(outbox) = {} /\ X \cap Range(spoolCh) = {} /\ X \cap Range(buf) = {}
        /\ X \cap BatchesOf(rows \cup pend) = {} /\ X \subseteq accepted
        /\ \A c \in Actor : X \cap Range(hand[c]) = {}
        /\ \A v \in Worker \ {w} : X \cap Range(carry[v]) = {}
    BY <1>a, <1>b, PlacesApart, PlacesAccepted
  <2>3. Range(hand'[w]) = X /\ Range(carry'[w]) = {}
    BY <1>a, <2>1
  <2>4. IsInjective(carry[w])
    BY <1>b DEF DistinctInv
  <2> HIDE DEF X
  <2>5. Moves("hand", w, X) /\ "hand" \in Kind /\ X \in SUBSET accepted'
    BY <1>c, <2>1, <2>2, <2>3 DEF Moves, Kind
  <2>6. PlaceInv'
    BY <1>a, <1>b, <1>c, <2>5, Passing
  <2>7. DistinctInv'
    BY <1>b, <1>c, <2>1, <2>4, DistinctOne DEF DistinctInv
  <2> QED
    BY <1>d, <2>6, <2>7
<1>3. CASE ~WorkerTake(w) /\ ~WorkerAppendCarry(w)
  <2>1. /\ UNCHANGED <<outbox, carry>>
        /\ \A c \in Actor \ {w} : hand'[c] = hand[c]
        /\ hand'[w] = hand[w] \/ hand'[w] = <<>>
    BY <1>3, <1>a DEF WorkerStep, WorkerTick, WorkerQuit, WorkerLast, WorkerWrite,
           WorkerWritten, WorkerWriteFailed, FlushFailed
  <2>2. PlaceInv'
    BY <1>a, <1>b, <1>c, <2>1, Shrinking
  <2>3. DistinctInv'
    BY <1>b, <1>c, <2>1, DistinctOne DEF DistinctInv
  <2> QED
    BY <1>d, <2>2, <2>3
<1> QED
  BY <1>1, <1>2, <1>3

(***************************************************************************)
(* DrainLoop, ReconnectLoop, Close, Wait and a restart only let go.        *)
(***************************************************************************)
LEMMA PlaceDrain ==
    ASSUME PlacesInv, (DrainLoopStep /\ UNCHANGED channelVars) \/ DrainCall
    PROVE  PlaceInv' /\ DistinctInv' /\ StoredInv'
<1>b. PlaceInv /\ DistinctInv /\ StoredInv
  BY DEF PlacesInv
<1>c. UNCHANGED <<outbox, spoolCh, buf, hand, carry, lastId, accepted>>
  BY DEF DrainLoopStep, DrainCheck, DrainFetch, DrainDeletePoison, DrainQuit,
         DrainNotified, DrainBackstop, DrainCall, DrainWrite, DrainWritten,
         DrainWriteFailed, DrainDeleteSent, WriteSucceeds
<1>1. rows' \cup pend' \subseteq rows \cup pend
  <2>1. CASE DrainLoopStep
    BY <2>1 DEF DrainLoopStep, DrainCheck, DrainFetch, DrainDeletePoison, DrainQuit,
         DrainNotified, DrainBackstop, DeleteRows, Oldest
  <2>2. ASSUME DrainFail, dpc \in {"drain", "sending"}, rows' = rows
        PROVE  rows' \cup pend' \subseteq rows \cup pend
    <3>1. pend # {} /\ pend \in SUBSET Row
      BY <2>2 DEF PlacesInv, CustodyInv, TypeInv, DrainTypes
    <3>2. First(pend) \in pend
      BY <3>1, FirstIsARow
    <3> QED
      BY <2>2, <3>2 DEF DrainFail, DrainFails
  <2>3. CASE DrainCall
    BY <2>2, <2>3 DEF DrainCall, DrainWrite, DrainWritten, DrainWriteFailed,
         DrainDeleteSent, DeleteRows, DrainSucceeds
  <2> QED
    BY <2>1, <2>3
<1>2. BatchesOf(rows' \cup pend') \subseteq BatchesOf(rows \cup pend)
  BY <1>1, BatchesOfRows
<1>3. PlaceInv'
  BY <1>b, <1>c, <1>2, Shrinking
<1>4. DistinctInv' /\ StoredInv'
  BY <1>b, <1>c, <1>1, StoredKept DEF DistinctInv
<1> QED
  BY <1>3, <1>4

LEMMA PlaceLife ==
    ASSUME PlacesInv, \/ Reconnect
                      \/ (Close \/ WaitStart(GroupExited) \/ WaitReturn) /\ UNCHANGED channelVars
                      \/ UNCHANGED vars
    PROVE  PlaceInv' /\ DistinctInv' /\ StoredInv'
<1>b. PlaceInv /\ DistinctInv /\ StoredInv
  BY DEF PlacesInv
<1>c. UNCHANGED <<outbox, spoolCh, buf, hand, carry, rows, pend, lastId, accepted>>
  BY DEF Reconnect, TryConnect, TryConnectNotify, ReconnectQuit, Close, WaitStart, WaitReturn
<1> QED
  BY <1>b, <1>c, Shrinking, StoredKept DEF DistinctInv

LEMMA PlaceRestart ==
    ASSUME PlacesInv, Restart
    PROVE  PlaceInv' /\ DistinctInv' /\ StoredInv'
<1>b. PlaceInv /\ DistinctInv /\ StoredInv /\ Range(<<>>) = {} /\ Worker \subseteq Actor
  BY PlaceTypes DEF PlacesInv
<1>c. /\ outbox' = <<>> /\ spoolCh' = <<>> /\ buf' = <<>> /\ pend' = {}
      /\ \A a \in Actor : hand'[a] = <<>>
      /\ \A w \in Worker : carry'[w] = <<>>
      /\ UNCHANGED <<rows, lastId, accepted>>
  BY <1>b DEF Restart, Reboot
<1>1. BatchesOf(rows' \cup pend') \subseteq BatchesOf(rows \cup pend)
  BY <1>c, BatchesOfRows
<1>2. PlaceInv'
  BY <1>b, <1>c, <1>1, Shrinking
<1>3. DistinctInv' /\ StoredInv'
  BY <1>b, <1>c, StoredKept, DistinctOne DEF DistinctInv
<1> QED
  BY <1>2, <1>3

(***************************************************************************)
(* The inductive invariant.                                                *)
(***************************************************************************)
LEMMA PlacesInit == Init => PlacesInv
<1> SUFFICES ASSUME Init PROVE PlacesInv
  OBVIOUS
<1>1. CustodyInv
  BY CustodyInit
<1>2. /\ outbox = <<>> /\ spoolCh = <<>> /\ buf = <<>> /\ pend = {} /\ rows = {}
      /\ \A a \in Actor : hand[a] = <<>>
      /\ \A w \in Worker : carry[w] = <<>>
      /\ Range(<<>>) = {} /\ BatchesOf({}) = {}
  BY BatchesOfRows DEF Init, OutboxInit, Range
<1>3. \A k \in Kind : \A a \in Actor : At(k, a) = {}
  BY <1>2 DEF At, Kind
<1>4. PlaceInv
  BY <1>3 DEF PlaceInv
<1>5. DistinctInv /\ StoredInv
  BY <1>2, DistinctOne DEF DistinctInv, StoredInv
<1> QED
  BY <1>1, <1>4, <1>5 DEF PlacesInv

LEMMA PlacesNext == PlacesInv /\ [Next]_vars => PlacesInv'
<1> SUFFICES ASSUME PlacesInv, [Next]_vars PROVE PlacesInv'
  OBVIOUS
<1>1. CustodyInv'
  BY CustodyNext DEF PlacesInv
<1>2. ASSUME NEW p \in Producer, Enqueue(p), UNCHANGED channelVars
      PROVE  PlaceInv' /\ DistinctInv' /\ StoredInv'
  <2>1. p \in Actor
    BY DEF Actor
  <2> QED
    BY <1>2, <2>1, PlaceEnqueue, PlaceSpoolEnqueue DEF Enqueue
<1>3. ASSUME NEW w \in Worker, WorkerStep(w) \/ WorkerSpool(w)
      PROVE  PlaceInv' /\ DistinctInv' /\ StoredInv'
  <2>1. w \in Actor
    BY DEF Actor
  <2> QED
    BY <1>3, <2>1, PlaceWorker, PlaceSpoolEnqueue DEF WorkerSpool
<1>4. CASE OutboxStep
  <2>1. /\ UNCHANGED channelVars
        /\ \/ \E p \in Producer : Enqueue(p)
           \/ SpoolWriteLoop
           \/ DrainLoopStep
           \/ Close \/ WaitStart(GroupExited) \/ WaitReturn
    BY <1>4, Zenon DEF OutboxStep
  <2> QED
    BY <2>1, <1>1, <1>2, PlaceWriter, PlaceDrain, PlaceLife DEF PlacesInv
<1>5. CASE DrainCall \/ Reconnect \/ Restart \/ UNCHANGED vars
  BY <1>5, <1>1, PlaceDrain, PlaceLife, PlaceRestart DEF PlacesInv
<1> QED
  BY <1>1, <1>3, <1>4, <1>5 DEF Next, PlacesInv

(***************************************************************************)
(* A batch is in one place at a time (Enqueue, SpoolEnqueue,               *)
(* collectSpoolBatch, InsertMany, AggregateWriter): the hand-offs between  *)
(* goroutines never leave a batch with both, so only a lost                *)
(* acknowledgement can make the channel send it twice.                     *)
(***************************************************************************)
THEOREM BatchHasOneCustodian == Spec => []OneCustodian
<1>1. PlacesInv => OneCustodian
  <2> SUFFICES ASSUME PlacesInv PROVE OneCustodian
    OBVIOUS
  <2>1. PlaceInv /\ StoredInv
    BY DEF PlacesInv
  <2>2. BatchesOf(rows) \subseteq BatchesOf(rows \cup pend)
    BY BatchesOfRows
  <2>3. PICK e \in Actor : TRUE
    BY OutboxAssumption DEF Actor
  <2>4. BatchesOf(rows) \cap (InMemory \cup Carried) = {}
    <3>1. /\ BatchesOf(rows) \cap Range(outbox) = {} /\ BatchesOf(rows) \cap Range(spoolCh) = {}
          /\ BatchesOf(rows) \cap Range(buf) = {}
          /\ \A w \in Worker : BatchesOf(rows) \cap Range(carry[w]) = {}
      BY <2>1, <2>2, <2>3, PlacesApart
    <3>2. \A a \in Actor : BatchesOf(rows) \cap Range(hand[a]) = {}
      BY <2>1, <2>2, PlacesApart
    <3> QED
      BY <3>1, <3>2 DEF InMemory, Carried
  <2>5. Range(outbox) \cap Range(spoolCh) = {}
    BY <2>1, <2>3, PlacesApart
  <2>6. \A a \in Actor : Range(hand[a]) \cap (Range(outbox) \cup Range(spoolCh) \cup Range(buf)) = {}
    BY <2>1, PlacesApart
  <2>7. \A a, c \in Actor : a # c => Range(hand[a]) \cap Range(hand[c]) = {}
    BY <2>1, PlacesApart
  <2> QED
    BY <2>1, <2>4, <2>5, <2>6, <2>7 DEF OneCustodian, StoredInv
<1> QED
  BY <1>1, PlacesInit, PlacesNext, PTL DEF Spec

-------------------------------------------------------------------------------

(***************************************************************************)
(* What the writer adds to the rows, and who else changes them.            *)
(***************************************************************************)
\* New rows are younger than all others and come from the write buffer.
LEMMA WriterAdds ==
    ASSUME PlacesInv, SpoolWriteLoop
    PROVE  /\ \A q \in rows' \ rows : lastId < q.id /\ q.batch \in Range(buf)
           /\ lastId <= lastId'
<1>a. /\ buf \in Seq(Batch) /\ lastId \in Nat /\ (wpc = "idle" <=> buf = <<>>)
  BY PlaceTypes DEF PlacesInv, CustodyInv, TypeInv, WriterTypes
<1>1. CASE WriterTake \/ WriterCollect \/ WriterCheckCap \/ WriterPhase \/ WriterTrim
  BY <1>1, <1>a DEF WriterTake, WriterCollect, WriterCheckCap, WriterPhase, WriterTrim
<1>2. CASE WriterInsert
  <2>1. \/ rows' = rows /\ lastId' = lastId
        \/ rows' = rows \cup Inserted(lastId, buf) /\ lastId' = lastId + Len(buf)
    BY <1>2 DEF WriterInsert, Inserted
  <2>2. /\ BatchesOf(Inserted(lastId, buf)) = Range(buf) /\ Len(buf) \in Nat
        /\ \A r \in Inserted(lastId, buf) : lastId < r.id
    BY <1>a, InsertedRows, LengthIsNat
  <2>3. \A r \in Inserted(lastId, buf) : r.batch \in Range(buf)
    BY <2>2 DEF BatchesOf
  <2> QED
    BY <1>a, <2>1, <2>2, <2>3
<1>3. CASE WriterFallback
  <2> DEFINE row == [id |-> lastId + 1, batch |-> Head(buf)]
  <2>1. buf # <<>>
    BY <1>3, <1>a DEF WriterFallback
  <2>2. Head(buf) \in Range(buf)
    BY <1>a, <2>1, RangeOfTail
  <2>3. row.id = lastId + 1 /\ row.batch = Head(buf)
    OBVIOUS
  <2>4. rows' \subseteq rows \cup {row} /\ lastId' \in {lastId, lastId + 1}
    BY <1>3 DEF WriterFallback
  <2> HIDE DEF row
  <2>5. \A q \in rows' \ rows : lastId < q.id /\ q.batch \in Range(buf)
    BY <1>a, <2>2, <2>3, <2>4
  <2>6. lastId <= lastId'
    BY <1>a, <2>4
  <2> QED
    BY <2>5, <2>6
<1> QED
  BY <1>1, <1>2, <1>3 DEF SpoolWriteLoop

\* The steps that do not touch the rows or the replay.
replayVars == <<rows, lastId, count, uncounted, pend, group, dpc, poisonId, narrow, blamed>>

LEMMA CallersLeaveRows ==
    ASSUME \/ \E p \in Producer : Enqueue(p) /\ UNCHANGED channelVars
           \/ \E w \in Worker : WorkerStep(w) \/ WorkerSpool(w)
           \/ Reconnect
           \/ (Close \/ WaitStart(GroupExited) \/ WaitReturn) /\ UNCHANGED channelVars
           \/ UNCHANGED vars
    PROVE  UNCHANGED replayVars
<1>1. CASE \E p \in Producer : Enqueue(p) /\ UNCHANGED channelVars
  BY <1>1 DEF Enqueue, EnqueueStart, EnqueueSend, EnqueueEvict, EnqueueResend, SpoolSend,
         SpoolEvict, SpoolResend, replayVars
<1>2. CASE \E w \in Worker : WorkerStep(w)
  BY <1>2 DEF WorkerStep, WorkerTake, WorkerAppendCarry, WorkerTick, WorkerQuit, WorkerLast,
         WorkerWrite, WorkerWritten, WorkerWriteFailed, replayVars
<1>3. CASE \E w \in Worker : WorkerSpool(w)
  BY <1>3 DEF WorkerSpool, SpoolSend, SpoolEvict, SpoolResend, replayVars
<1>4. CASE Reconnect
  BY <1>4 DEF Reconnect, TryConnect, TryConnectNotify, ReconnectQuit, replayVars
<1>5. CASE (Close \/ WaitStart(GroupExited) \/ WaitReturn) /\ UNCHANGED channelVars
  BY <1>5 DEF Close, WaitStart, WaitReturn, replayVars
<1>6. CASE UNCHANGED vars
  BY <1>6 DEF replayVars
<1> QED
  BY <1>1, <1>2, <1>3, <1>4, <1>5, <1>6

\* A step, sorted by what it may do to the rows and the replay.
LEMMA StepsOnRows ==
    ASSUME [Next]_vars
    PROVE  \/ UNCHANGED replayVars
           \/ SpoolWriteLoop /\ UNCHANGED channelVars
           \/ DrainLoopStep /\ UNCHANGED channelVars
           \/ DrainCall
           \/ Restart
BY CallersLeaveRows, Zenon DEF Next, OutboxStep

(***************************************************************************)
(* The in-memory count.                                                    *)
(***************************************************************************)
LEMMA RowsDeleted ==
    ASSUME IsFiniteSet(rows), NEW R
    PROVE  /\ Cardinality(rows \ R) = Cardinality(rows) - Cardinality(rows \cap R)
           /\ Cardinality(rows \cap R) \in Nat
BY FS_Difference, FS_Intersection, FS_CardinalityType

LEMMA RowsInserted ==
    ASSUME IsFiniteSet(rows), NEW R, IsFiniteSet(R), rows \cap R = {}
    PROVE  Cardinality(rows \cup R) = Cardinality(rows) + Cardinality(R) /\ Cardinality(R) \in Nat
<1>1. /\ Cardinality(rows \cup R) = Cardinality(rows) + Cardinality(R) - Cardinality(rows \cap R)
      /\ Cardinality(rows) \in Nat /\ Cardinality(R) \in Nat
  BY FS_Union, FS_CardinalityType
<1>2. Cardinality(rows \cap R) = 0
  BY FS_EmptySet
<1> QED
  BY <1>1, <1>2

LEMMA StillShort ==
    ASSUME NEW c \in Int, NEW u \in Nat, NEW n \in Nat, NEW k \in Nat, c + u = n
    PROVE  (c - k) + u = n - k
OBVIOUS

LEMMA CountNext ==
    ASSUME PlacesInv, CountIsRows, [Next]_vars
    PROVE  CountIsRows'
<1>a. /\ rows \in SUBSET Row /\ IsFiniteSet(rows) /\ lastId \in Nat /\ buf \in Seq(Batch)
      /\ (wpc = "idle" <=> buf = <<>>) /\ StoredInv /\ count + uncounted = Cardinality(rows)
      /\ Cardinality(rows) \in Nat /\ count \in Int /\ uncounted \in Nat
  BY FS_CardinalityType DEF PlacesInv, CustodyInv, TypeInv, RowTypes, WriterTypes, LifeTypes, CountIsRows
<1>b. SpoolWriteLoop \/ DrainLoopStep \/ DrainCall => uncounted' = uncounted
  BY DEF SpoolWriteLoop, WriterTake, WriterCollect, WriterCheckCap, WriterPhase, WriterTrim,
         WriterInsert, WriterFallback, DrainLoopStep, DrainCheck, DrainFetch, DrainDeletePoison,
         DrainQuit, DrainNotified, DrainBackstop, DrainCall, DrainWrite, DrainWritten,
         DrainWriteFailed, DrainDeleteSent
<1>1. CASE UNCHANGED replayVars
  BY <1>1, <1>a DEF replayVars, CountIsRows
<1>2. ASSUME NEW R, DeleteRows(R), uncounted' = uncounted PROVE CountIsRows'
  <2>1. /\ Cardinality(rows \ R) = Cardinality(rows) - Cardinality(rows \cap R)
        /\ Cardinality(rows \cap R) \in Nat
    BY <1>a, RowsDeleted
  <2>2. \/ rows' = rows \ R /\ count' = count - Cardinality(rows \cap R)
        \/ UNCHANGED <<rows, count>>
    BY <1>2 DEF DeleteRows
  <2>3. (count - Cardinality(rows \cap R)) + uncounted = Cardinality(rows) - Cardinality(rows \cap R)
    BY <1>a, <2>1, StillShort
  <2> QED
    BY <1>a, <1>2, <2>1, <2>2, <2>3 DEF CountIsRows
<1>3. CASE SpoolWriteLoop
  <2>1. CASE WriterTake \/ WriterCollect \/ WriterCheckCap \/ WriterPhase
    BY <2>1, <1>a, <1>b, <1>3 DEF WriterTake, WriterCollect, WriterCheckCap, WriterPhase, CountIsRows
  <2>2. CASE WriterTrim
    <3>1. rows \cap Oldest(rows, TrimChunk) = Oldest(rows, TrimChunk)
      BY DEF Oldest
    <3>2. \/ rows' = rows /\ count' = count
          \/ /\ rows' = rows \ Oldest(rows, TrimChunk)
             /\ count' = count - Cardinality(Oldest(rows, TrimChunk))
      BY <2>2 DEF WriterTrim
    <3>3. /\ Cardinality(rows \ Oldest(rows, TrimChunk))
                = Cardinality(rows) - Cardinality(Oldest(rows, TrimChunk))
          /\ Cardinality(Oldest(rows, TrimChunk)) \in Nat
      BY <1>a, <3>1, RowsDeleted
    <3>4. (count - Cardinality(Oldest(rows, TrimChunk))) + uncounted
             = Cardinality(rows) - Cardinality(Oldest(rows, TrimChunk))
      BY <1>a, <3>3, StillShort
    <3> QED
      BY <1>a, <1>b, <1>3, <3>2, <3>3, <3>4 DEF CountIsRows
  <2>3. ASSUME NEW R \in SUBSET Row, IsFiniteSet(R), \A r \in R : lastId < r.id,
               rows' = rows \cup R, count' = count + Cardinality(R)
        PROVE  CountIsRows'
    <3>1. rows \cap R = {}
      <4> SUFFICES ASSUME NEW r \in rows, r \in R PROVE FALSE
        OBVIOUS
      <4>1. r.id <= lastId /\ lastId < r.id /\ r.id \in Nat
        BY <1>a, <2>3 DEF StoredInv, Row
      <4> QED
        BY <1>a, <4>1
    <3> QED
      BY <1>a, <1>b, <1>3, <2>3, <3>1, RowsInserted DEF CountIsRows
  <2>4. CASE WriterInsert
    <3>1. \/ rows' = rows /\ count' = count
          \/ rows' = rows \cup Inserted(lastId, buf) /\ count' = count + Len(buf)
      BY <2>4 DEF WriterInsert, Inserted
    <3>2. /\ Inserted(lastId, buf) \in SUBSET Row /\ IsFiniteSet(Inserted(lastId, buf))
          /\ Cardinality(Inserted(lastId, buf)) = Len(buf)
          /\ \A r \in Inserted(lastId, buf) : lastId < r.id
      BY <1>a, InsertedRows
    <3>3. CASE rows' = rows /\ count' = count
      BY <1>a, <1>b, <1>3, <3>3 DEF CountIsRows
    <3>4. CASE rows' = rows \cup Inserted(lastId, buf) /\ count' = count + Len(buf)
      <4> DEFINE R == Inserted(lastId, buf)
      <4>1. /\ R \in SUBSET Row /\ IsFiniteSet(R) /\ \A r \in R : lastId < r.id
            /\ rows' = rows \cup R /\ count' = count + Cardinality(R)
        BY <3>2, <3>4
      <4> HIDE DEF R
      <4> QED
        BY <2>3, <4>1
    <3> QED
      BY <3>1, <3>3, <3>4
  <2>5. CASE WriterFallback
    <3> DEFINE row == [id |-> lastId + 1, batch |-> Head(buf)]
    <3>1. \/ rows' = rows /\ count' = count
          \/ rows' = rows \cup {row} /\ count' = count + 1
      BY <2>5 DEF WriterFallback
    <3>2. row \in Row /\ row.id = lastId + 1
      <4>1. buf # <<>>
        BY <2>5, <1>a DEF WriterFallback
      <4>2. Head(buf) \in Batch
        BY <1>a, <4>1, RangeOfTail
      <4> QED
        BY <1>a, <4>2 DEF Row
    <3> HIDE DEF row
    <3>3. /\ {row} \in SUBSET Row /\ IsFiniteSet({row}) /\ Cardinality({row}) = 1
          /\ \A r \in {row} : lastId < r.id
      <4>1. IsFiniteSet({row}) /\ Cardinality({row}) = 1
        BY FS_Singleton
      <4>2. lastId < row.id
        BY <1>a, <3>2
      <4> QED
        BY <3>2, <4>1, <4>2
    <3>4. CASE rows' = rows /\ count' = count
      BY <1>a, <1>b, <1>3, <3>4 DEF CountIsRows
    <3>5. CASE rows' = rows \cup {row} /\ count' = count + 1
      <4> DEFINE R == {row}
      <4>1. /\ R \in SUBSET Row /\ IsFiniteSet(R) /\ \A r \in R : lastId < r.id
            /\ rows' = rows \cup R /\ count' = count + Cardinality(R)
        BY <3>3, <3>5
      <4> HIDE DEF R
      <4> QED
        BY <2>3, <4>1
    <3> QED
      BY <3>1, <3>4, <3>5
  <2> QED
    BY <1>3, <2>1, <2>2, <2>4, <2>5 DEF SpoolWriteLoop
<1>4. CASE DrainLoopStep
  <2>1. CASE DrainDeletePoison
    BY <1>b, <1>2, <1>4, <2>1 DEF DrainDeletePoison
  <2>2. CASE ~DrainDeletePoison
    BY <1>4, <2>2, <1>a, <1>b DEF DrainLoopStep, DrainCheck, DrainFetch, DrainQuit, DrainNotified,
           DrainBackstop, CountIsRows
  <2> QED
    BY <2>1, <2>2
<1>5. CASE DrainCall
  <2>1. CASE DrainDeleteSent
    BY <1>b, <1>2, <1>5, <2>1 DEF DrainDeleteSent
  <2>2. CASE ~DrainDeleteSent
    BY <1>5, <2>2, <1>a, <1>b DEF DrainCall, DrainWrite, DrainWritten, DrainWriteFailed, CountIsRows
  <2> QED
    BY <2>1, <2>2
<1>6. CASE Restart
  BY <1>6, <1>a DEF Restart, Reboot, CountIsRows
<1> QED
  BY <1>1, <1>3, <1>4, <1>5, <1>6, StepsOnRows

(***************************************************************************)
(* SqliteSpool.count is the number of rows but for those it could not      *)
(* count when it started (spool.go, NewSqliteSpool): inserts, trims and    *)
(* deletes interleave, a delete may find its rows already trimmed, and the *)
(* count follows RowsAffected throughout.                                  *)
(***************************************************************************)
THEOREM CountFollowsRows == Spec => []CountIsRows
<1>1. Init => PlacesInv /\ CountIsRows
  BY PlacesInit, FS_EmptySet DEF Init, OutboxInit, CountIsRows
<1>2. PlacesInv /\ CountIsRows /\ [Next]_vars => PlacesInv' /\ CountIsRows'
  BY PlacesNext, CountNext
<1> QED
  BY <1>1, <1>2, PTL DEF Spec

(***************************************************************************)
(* The replay: the window holds the oldest rows that are not applied yet,  *)
(* and a payload the oldest of the window.                                 *)
(***************************************************************************)
WindowIsOldest ==
    /\ IsFiniteSet(pend)
    /\ dpc \in {"drain", "sending", "delete"} =>
          \A r \in pend, q \in rows : q.id < r.id => q \in pend \/ q.batch \in delivered
    /\ dpc \in {"sending", "delete"} =>
          \A r \in group, q \in pend : q.id < r.id => q \in group

\* GroupedDrainer's payload is a prefix of the window.
LEMMA GroupIsPrefix ==
    ASSUME pend \in SUBSET Row, IsFiniteSet(pend), NEW r \in Group(pend), NEW q \in pend,
           q.id < r.id
    PROVE  q \in Group(pend)
<1> DEFINE UpTo(s) == {x \in pend : x.id <= s.id}
           Fits(s) == /\ Cardinality(UpTo(s)) <= (IF narrow THEN 1 ELSE MaxRows)
                      /\ \A x \in UpTo(s) : ~Conflicts(x.batch, BatchesOf(UpTo(s) \ {x}))
<1>1. Group(pend) = {s \in pend : Fits(s)}
  BY DEF Group
<1>2. r \in pend /\ Fits(r)
  BY <1>1
<1>3. UpTo(q) \subseteq UpTo(r)
  <2> SUFFICES ASSUME NEW x \in pend, x.id <= q.id PROVE x.id <= r.id
    OBVIOUS
  <2>1. x.id \in Nat /\ q.id \in Nat /\ r.id \in Nat
    BY <1>2 DEF Row
  <2> QED
    BY <2>1
<1>4. Cardinality(UpTo(q)) <= (IF narrow THEN 1 ELSE MaxRows)
  <2>1. IsFiniteSet(UpTo(r))
    BY FS_Subset
  <2>2. /\ Cardinality(UpTo(q)) <= Cardinality(UpTo(r))
        /\ Cardinality(UpTo(q)) \in Nat /\ Cardinality(UpTo(r)) \in Nat
    BY <1>3, <2>1, FS_Subset, FS_CardinalityType
  <2>3. Cardinality(UpTo(r)) <= (IF narrow THEN 1 ELSE MaxRows)
    BY <1>2
  <2>4. (IF narrow THEN 1 ELSE MaxRows) \in Nat
    BY ChannelAssumption
  <2> HIDE DEF UpTo
  <2> QED
    BY <2>2, <2>3, <2>4
<1>5. \A x \in UpTo(q) : ~Conflicts(x.batch, BatchesOf(UpTo(q) \ {x}))
  <2> SUFFICES ASSUME NEW x \in UpTo(q) PROVE ~Conflicts(x.batch, BatchesOf(UpTo(q) \ {x}))
    OBVIOUS
  <2>1. ~Conflicts(x.batch, BatchesOf(UpTo(r) \ {x}))
    BY <1>2, <1>3
  <2>2. BatchesOf(UpTo(q) \ {x}) \subseteq BatchesOf(UpTo(r) \ {x})
    <3>1. UpTo(q) \ {x} \subseteq UpTo(r) \ {x}
      BY <1>3
    <3> HIDE DEF UpTo
    <3> QED
      BY <3>1, BatchesOfRows
  <2> HIDE DEF UpTo
  <2> QED
    BY <2>1, <2>2 DEF Conflicts
<1> QED
  BY <1>1, <1>4, <1>5

\* The first payload of a narrowed call is the oldest row and nothing else.
LEMMA NarrowGroup ==
    ASSUME pend \in SUBSET Row, IsFiniteSet(pend), pend # {}, narrow = TRUE,
           \A r, q \in pend : r.id = q.id => r = q
    PROVE  Group(pend) = {First(pend)}
<1> DEFINE UpTo(s) == {x \in pend : x.id <= s.id}
           Fits(s) == /\ Cardinality(UpTo(s)) <= 1
                      /\ \A x \in UpTo(s) : ~Conflicts(x.batch, BatchesOf(UpTo(s) \ {x}))
           f == First(pend)
<1>1. Group(pend) = {s \in pend : Fits(s)}
  BY DEF Group
<1>2. f \in pend /\ \A q \in pend : f.id <= q.id
  BY FirstIsARow
<1> HIDE DEF f
<1>3. UpTo(f) = {f}
  <2>1. \A x \in pend : x.id <= f.id => x.id = f.id
    <3> TAKE x \in pend
    <3>1. x.id \in Nat /\ f.id \in Nat /\ f.id <= x.id
      BY <1>2 DEF Row
    <3> QED
      BY <3>1
  <2>2. f.id <= f.id
    BY <1>2
  <2> QED
    BY <1>2, <2>1, <2>2
<1>4. Fits(f)
  <2>1. Cardinality({f}) = 1
    BY FS_Singleton
  <2>2. UpTo(f) \ {f} = {}
    BY <1>3
  <2>3. BatchesOf({}) = {}
    BY BatchesOfRows
  <2>4. ~Conflicts(f.batch, {})
    BY DEF Conflicts
  <2> HIDE DEF UpTo
  <2>5. Cardinality(UpTo(f)) <= 1
    BY <1>3, <2>1
  <2> QED
    BY <1>3, <2>2, <2>3, <2>4, <2>5
<1>5. ASSUME NEW s \in pend, Fits(s) PROVE s = f
  <2>1. f \in UpTo(s) /\ s \in UpTo(s)
    <3>1. s.id \in Nat
      BY DEF Row
    <3> QED
      BY <1>2, <3>1
  <2>2. IsFiniteSet(UpTo(s))
    BY FS_Subset
  <2>3. Cardinality(UpTo(s)) <= 1
    BY <1>5
  <2> HIDE DEF UpTo
  <2> SUFFICES ASSUME s # f PROVE FALSE
    OBVIOUS
  <2>4. Cardinality({f} \cup {s}) = 2
    <3>1. IsFiniteSet({f}) /\ Cardinality({f}) = 1
      BY FS_Singleton
    <3>2. Cardinality({f} \cup {s}) = Cardinality({f}) + 1
      BY <3>1, FS_AddElement
    <3> QED
      BY <3>1, <3>2
  <2>5. /\ Cardinality({f} \cup {s}) <= Cardinality(UpTo(s))
        /\ Cardinality(UpTo(s)) \in Nat
    BY <2>1, <2>2, FS_Subset, FS_CardinalityType
  <2> QED
    BY <2>3, <2>4, <2>5
<1> HIDE DEF UpTo
<1>6. Group(pend) = {f}
  BY <1>1, <1>2, <1>4, <1>5
<1> QED
  BY <1>6 DEF f

LEMMA ReplayNext ==
    ASSUME PlacesInv, WindowIsOldest, [Next]_vars
    PROVE  WindowIsOldest'
<1>a. /\ rows \in SUBSET Row /\ pend \in SUBSET Row /\ IsFiniteSet(rows) /\ lastId \in Nat
      /\ StoredInv /\ IsFiniteSet(pend)
      /\ (dpc \in {"drain", "sending", "delete"} => pend # {})
  BY DEF PlacesInv, CustodyInv, TypeInv, RowTypes, DrainTypes, WindowIsOldest
<1>b. delivered \subseteq delivered'
  BY CustodyNext DEF PlacesInv, Promise!Accept, SettleStep
<1>1. CASE UNCHANGED replayVars
  BY <1>1, <1>b DEF replayVars, WindowIsOldest
<1>2. CASE SpoolWriteLoop /\ UNCHANGED channelVars
  <2>1. UNCHANGED <<pend, group, dpc, delivered>>
    BY <1>2 DEF SpoolWriteLoop, WriterTake, WriterCollect, WriterCheckCap, WriterTrim,
           WriterInsert, WriterFallback, WriterPhase
  <2>2. \A r \in pend, q \in rows' : q.id < r.id => q \in rows
    <3> SUFFICES ASSUME NEW r \in pend, NEW q \in rows', q.id < r.id, q \notin rows PROVE FALSE
      OBVIOUS
    <3>1. lastId < q.id /\ r.id <= lastId
      BY <1>2, <1>a, WriterAdds DEF StoredInv
    <3>2. q.id \in Nat /\ r.id \in Nat
      <4>1. rows' \in SUBSET Row
        BY PlacesNext DEF PlacesInv, CustodyInv, TypeInv, RowTypes
      <4> QED
        BY <1>a, <4>1 DEF Row
    <3> QED
      BY <1>a, <3>1, <3>2
  <2> QED
    BY <2>1, <2>2 DEF WindowIsOldest
<1>3. CASE DrainLoopStep
  <2>1. CASE DrainFetch
    <3>1. /\ rows' = rows /\ dpc' \in {"wait", "drain"}
          /\ \/ pend' = pend /\ dpc' = "wait"
             \/ pend' = Oldest(rows, DrainWindow)
      BY <2>1 DEF DrainFetch
    <3>2. CASE pend' = Oldest(rows, DrainWindow)
      <4>1. IsFiniteSet(pend')
        BY <1>a, <3>2, FS_Subset DEF Oldest
      <4>2. \A r \in pend', q \in rows : q.id < r.id => q \in pend'
        <5> SUFFICES ASSUME NEW r \in Oldest(rows, DrainWindow), NEW q \in rows, q.id < r.id
                     PROVE  q \in Oldest(rows, DrainWindow)
          BY <3>2
        <5> DEFINE Before(s) == {x \in rows : x.id < s.id}
        <5>1. Before(q) \subseteq Before(r)
          <6> SUFFICES ASSUME NEW x \in rows, x.id < q.id PROVE x.id < r.id
            OBVIOUS
          <6>1. x.id \in Nat /\ q.id \in Nat /\ r.id \in Nat
            BY <1>a DEF Row, Oldest
          <6> QED
            BY <6>1
        <5>2. IsFiniteSet(Before(r))
          BY <1>a, FS_Subset
        <5>3. /\ Cardinality(Before(q)) <= Cardinality(Before(r))
              /\ Cardinality(Before(q)) \in Nat /\ Cardinality(Before(r)) \in Nat
          BY <5>1, <5>2, FS_Subset, FS_CardinalityType
        <5>4. Cardinality(Before(r)) < DrainWindow /\ DrainWindow \in Nat
          BY OutboxAssumption DEF Oldest
        <5>5. Cardinality(Before(q)) < DrainWindow
          <6> HIDE DEF Before
          <6> QED
            BY <5>3, <5>4
        <5> QED
          BY <5>5 DEF Oldest
      <4> QED
        BY <3>1, <4>1, <4>2 DEF WindowIsOldest
    <3>3. CASE pend' = pend /\ dpc' = "wait"
      BY <1>a, <3>3 DEF WindowIsOldest
    <3> QED
      BY <3>1, <3>2, <3>3
  <2>2. CASE ~DrainFetch
    <3>1. dpc' \in {"fetch", "wait", "check", "exited"} /\ pend' \in {pend, {}}
      BY <1>3, <2>2 DEF DrainLoopStep, DrainCheck, DrainDeletePoison, DrainQuit, DrainNotified,
             DrainBackstop
    <3> QED
      BY <1>a, <3>1, FS_EmptySet DEF WindowIsOldest
  <2> QED
    BY <2>1, <2>2
<1>4. CASE DrainCall
  <2>f. ASSUME DrainFail PROVE WindowIsOldest'
    <3>1. dpc' \in {"poison", "wait"} /\ (pend' = {} \/ pend' = {First(pend)})
      BY <2>f DEF DrainFail, DrainFails
    <3>2. IsFiniteSet({First(pend)}) /\ IsFiniteSet({})
      BY FS_EmptySet, FS_Singleton, Zenon
    <3>3. IsFiniteSet(pend')
      BY <3>1, <3>2
    <3> QED
      BY <3>1, <3>3 DEF WindowIsOldest
  <2>1. CASE DrainWrite /\ conn
    <3>1. UNCHANGED <<rows, pend, delivered>> /\ group' = Group(pend) /\ dpc = "drain"
      BY <2>1 DEF DrainWrite
    <3>2. \A r \in Group(pend), q \in pend : q.id < r.id => q \in Group(pend)
      BY <1>a, GroupIsPrefix
    <3> QED
      BY <3>1, <3>2 DEF WindowIsOldest
  <2>2. CASE (DrainWrite /\ ~conn) \/ DrainWriteFailed
    BY <2>2, <2>f DEF DrainWrite, DrainWriteFailed
  <2>3. CASE DrainWritten
    BY <1>b, <2>3 DEF DrainWritten, WindowIsOldest
  <2>4. CASE DrainDeleteSent
    <3>1. /\ dpc = "delete" /\ rows' \subseteq rows /\ delivered' = delivered
          /\ BatchesOf(group) \subseteq delivered
          /\ \/ dpc' \in {"check", "wait"} /\ pend' = {}
             \/ dpc' = "drain" /\ pend' = pend \ group
      BY <2>4 DEF DrainDeleteSent, DeleteRows, DrainSucceeds, PlacesInv, CustodyInv, WindowInv
    <3>2. CASE pend' = {} /\ dpc' \in {"check", "wait"}
      BY <3>2, FS_EmptySet DEF WindowIsOldest
    <3>3. CASE pend' = pend \ group /\ dpc' = "drain"
      <4>1. IsFiniteSet(pend')
        BY <1>a, <3>3, FS_Subset
      <4>2. \A q \in group : q.batch \in delivered
        BY <3>1 DEF BatchesOf
      <4> QED
        BY <3>1, <3>3, <4>1, <4>2 DEF WindowIsOldest
    <3> QED
      BY <3>1, <3>2, <3>3
  <2> QED
    BY <1>4, <2>1, <2>2, <2>3, <2>4 DEF DrainCall
<1>5. CASE Restart
  <2>1. pend' = {} /\ dpc' \in {"check", "exited"}
    BY <1>5 DEF Restart, Reboot
  <2> QED
    BY <2>1, FS_EmptySet DEF WindowIsOldest
<1> QED
  BY <1>1, <1>2, <1>3, <1>4, <1>5, StepsOnRows

(***************************************************************************)
(* Replay is in insertion order (FetchOldest, GroupedDrainer): a row is    *)
(* applied downstream only when every older row has been, across windows,  *)
(* groups, failed groups, failed deletes, trims and restarts.  What the    *)
(* workers write in between is never a stored batch.                       *)
(***************************************************************************)
THEOREM ReplayKeepsOrder == Spec => ReplayInOrder
<1> DEFINE InOrder == \A r \in rows : r.batch \in delivered' \ delivered =>
                         \A q \in rows : q.id < r.id => q.batch \in delivered'
           Inv == PlacesInv /\ WindowIsOldest
<1>1. Init => Inv
  BY PlacesInit, FS_EmptySet DEF Init, OutboxInit, WindowIsOldest
<1>2. Inv /\ [Next]_vars => Inv'
  BY PlacesNext, ReplayNext
<1>3. Inv /\ [Next]_vars => [InOrder]_vars
  <2> SUFFICES ASSUME Inv, Next, NEW r \in rows, r.batch \in delivered' \ delivered,
                      NEW q \in rows, q.id < r.id
               PROVE  q.batch \in delivered'
    OBVIOUS
  <2>a. PlaceInv /\ StoredInv /\ pend \in SUBSET Row
        /\ (dpc \in {"sending", "delete"} => group \subseteq pend)
        /\ r.batch \in BatchesOf(rows \cup pend)
    BY DEF PlacesInv, CustodyInv, TypeInv, DrainTypes, BatchesOf
  <2>b. delivered \subseteq delivered'
    BY CustodyNext DEF PlacesInv, Promise!Accept, SettleStep
  <2>1. ASSUME NEW w \in Worker, WorkerStep(w) PROVE FALSE
    <3>1. delivered' = delivered \/ delivered' = delivered \cup Range(hand[w])
      BY <2>1 DEF WorkerStep, WorkerTake, WorkerAppendCarry, WorkerTick, WorkerQuit, WorkerLast,
             WorkerWrite, WorkerWritten, WorkerWriteFailed, WriteSucceeds, WriteBreaks,
             WriteRefused
    <3>2. r.batch \in Range(hand[w]) /\ w \in Actor
      BY <3>1 DEF Actor
    <3> QED
      BY <2>a, <3>2, PlacesApart
  <2>2. CASE DrainWritten \/ DrainWriteFailed
    <3>1. /\ dpc = "sending"
          /\ delivered' = delivered \/ delivered' = delivered \cup BatchesOf(group)
      BY <2>2 DEF DrainWritten, DrainWriteFailed, WriteSucceeds, WriteBreaks, WriteRefused
    <3>2. r.batch \in BatchesOf(group) /\ BatchesOf(group) \subseteq delivered'
      BY <3>1
    <3>3. PICK g \in group : g.batch = r.batch
      BY <3>2 DEF BatchesOf
    <3>4. g = r
      BY <2>a, <3>1, <3>3 DEF StoredInv
    <3>5. q \in pend \/ q.batch \in delivered
      BY <2>a, <3>1, <3>4 DEF WindowIsOldest
    <3>6. q \in pend => q \in group
      BY <3>1, <3>4 DEF WindowIsOldest
    <3> QED
      BY <2>b, <3>2, <3>5, <3>6 DEF BatchesOf
  <2>3. ASSUME delivered' = delivered PROVE FALSE
    BY <2>3
  <2>4. \/ \E w \in Worker : WorkerStep(w)
        \/ DrainWritten \/ DrainWriteFailed
        \/ delivered' = delivered
    <3>1. CASE OutboxStep
      BY <3>1 DEF OutboxStep, Enqueue, EnqueueStart, EnqueueSend, EnqueueEvict,
             EnqueueResend, SpoolSend, SpoolEvict, SpoolResend, SpoolWriteLoop, WriterTake,
             WriterCollect, WriterCheckCap, WriterTrim, WriterInsert, WriterFallback,
             WriterPhase, DrainLoopStep, DrainCheck, DrainFetch, DrainDeletePoison, DrainQuit,
             DrainNotified, DrainBackstop, Close, WaitStart, WaitReturn
    <3>2. CASE \E w \in Worker : WorkerSpool(w)
      BY <3>2 DEF WorkerSpool, SpoolSend, SpoolEvict, SpoolResend
    <3>3. CASE Reconnect \/ Restart \/ DrainWrite \/ DrainDeleteSent
      BY <3>3 DEF Reconnect, TryConnect, TryConnectNotify, ReconnectQuit, Restart, Reboot,
             DrainWrite, DrainDeleteSent
    <3> QED
      BY <3>1, <3>2, <3>3 DEF Next, DrainCall
  <2> QED
    BY <2>1, <2>2, <2>3, <2>4
<1> HIDE DEF Inv
<1> QED
  BY <1>1, <1>2, <1>3, PTL DEF Spec, ReplayInOrder

(***************************************************************************)
(* Poison.                                                                 *)
(***************************************************************************)
\* Between a failure and its verdict a narrowing channel is narrowed.
NarrowedInv == NarrowPolicy /\ poisonId # 0 => narrow = TRUE

LEMMA NarrowedNext ==
    ASSUME PlacesInv, NarrowedInv, [Next]_vars
    PROVE  NarrowedInv'
<1>a. narrow \in BOOLEAN /\ NarrowPolicy \in BOOLEAN
  BY OutboxAssumption DEF PlacesInv, CustodyInv, TypeInv, DrainTypes
<1>1. CASE UNCHANGED replayVars
  BY <1>1 DEF replayVars, NarrowedInv
<1>2. CASE UNCHANGED <<poisonId, narrow>>
  BY <1>2 DEF NarrowedInv
<1>3. ASSUME DrainFail PROVE NarrowedInv'
  BY <1>3, <1>a DEF DrainFail, DrainFails, NarrowedInv
<1>4. CASE SpoolWriteLoop
  BY <1>2, <1>4 DEF SpoolWriteLoop, WriterTake, WriterCollect, WriterCheckCap, WriterTrim,
         WriterInsert, WriterFallback, WriterPhase
<1>5. CASE DrainLoopStep
  BY <1>2, <1>5 DEF DrainLoopStep, DrainCheck, DrainFetch, DrainDeletePoison, DrainQuit,
         DrainNotified, DrainBackstop
<1>6. CASE DrainCall
  BY <1>2, <1>3, <1>6 DEF DrainCall, DrainWrite, DrainWritten, DrainWriteFailed,
         DrainDeleteSent, DrainSucceeds, NarrowedInv
<1>7. CASE Restart
  BY <1>7 DEF Restart, Reboot, NarrowedInv
<1> QED
  BY <1>1, <1>4, <1>5, <1>6, <1>7, StepsOnRows

(***************************************************************************)
(* A channel that narrows after a failure (influxdb, drain.go) drops a     *)
(* batch as poison only after a failure of a payload that held nothing     *)
(* else: no good batch goes down with a bad one of its group, whatever     *)
(* else arrives, is trimmed or disconnects between the two failures.       *)
(***************************************************************************)
THEOREM BadBatchIsAlone == NarrowPolicy => (Spec => BlameIsIsolated)
<1> SUFFICES ASSUME NarrowPolicy PROVE Spec => BlameIsIsolated
  OBVIOUS
<1> DEFINE Isolated == \A b \in blamed' \ blamed : BatchesOf(Group(pend)) = {b}
           Inv == PlacesInv /\ WindowIsOldest /\ NarrowedInv
<1>1. Init => Inv
  BY PlacesInit, FS_EmptySet DEF Init, OutboxInit, WindowIsOldest, NarrowedInv
<1>2. Inv /\ [Next]_vars => Inv'
  BY PlacesNext, ReplayNext, NarrowedNext
<1>3. Inv /\ [Next]_vars => [Isolated]_vars
  <2> SUFFICES ASSUME Inv, Next, NEW b \in blamed' \ blamed
               PROVE  BatchesOf(Group(pend)) = {b}
    OBVIOUS
  <2>1. DrainFail /\ dpc \in {"drain", "sending"}
    <3>1. CASE UNCHANGED replayVars
      BY <3>1 DEF replayVars
    <3>2. CASE UNCHANGED channelVars
      BY <3>2
    <3>3. CASE DrainCall
      BY <3>3 DEF DrainCall, DrainWrite, DrainWritten, DrainWriteFailed, DrainDeleteSent
    <3>4. CASE Restart
      BY <3>4 DEF Restart
    <3> QED
      BY <3>1, <3>2, <3>3, <3>4, StepsOnRows
  <2>2. b = First(pend).batch /\ poisonId = First(pend).id
    BY <2>1 DEF DrainFail
  <2>3. pend \in SUBSET Row /\ pend # {} /\ \A r, q \in pend : r.id = q.id => r = q
    BY <2>1 DEF PlacesInv, CustodyInv, TypeInv, DrainTypes, StoredInv
  <2>4. First(pend) \in pend
    BY <2>3, FirstIsARow
  <2>5. First(pend).id # 0
    BY <2>3, <2>4 DEF Row
  <2>6. narrow = TRUE
    BY <2>2, <2>5 DEF NarrowedInv
  <2>7. Group(pend) = {First(pend)}
    BY <2>3, <2>6, NarrowGroup DEF WindowIsOldest
  <2> QED
    BY <2>2, <2>7 DEF BatchesOf
<1> HIDE DEF Inv
<1> QED
  BY <1>1, <1>2, <1>3, PTL DEF Spec, BlameIsIsolated

-------------------------------------------------------------------------------

(***************************************************************************)
(* droppedCount.  A batch that was dropped is in no place any more, so it  *)
(* cannot be dropped again.  The one exception is the row of a poison      *)
(* batch between its verdict and its deletion: were the deletion to fail,  *)
(* the row would come back in a later window and be counted once more.     *)
(***************************************************************************)
\* The DELETE of a poison row succeeds.
PoisonStaysDeleted == PoisonPolicy => "delete" \notin DbFaultOps

\* Batches in a buffer or a hand, and rows that may still be replayed.
Waiting == Range(outbox) \cup Range(spoolCh) \cup Range(buf) \cup HandsOf(hand)
              \cup HandsOf(carry)
Live == IF dpc = "poison" THEN rows \ pend ELSE rows \cup pend
Alive == Waiting \cup BatchesOf(Live)

ShedInv ==
    /\ IsFiniteSet(shed) /\ dropped = Cardinality(shed)
    /\ shed \subseteq accepted /\ Alive \cap shed = {}
    /\ dpc = "poison" => PoisonPolicy

LEMMA AliveIsHeld ==
    ASSUME PlacesInv
    PROVE  /\ Alive \subseteq accepted
           /\ Held = Waiting \cup BatchesOf(rows \cup pend)
           /\ Waiting \cap BatchesOf(rows \cup pend) = {}
           /\ BatchesOf(Live) \subseteq BatchesOf(rows \cup pend)
<1>a. /\ PlaceInv /\ TypeInv /\ DOMAIN hand = Actor /\ DOMAIN carry = Worker
      /\ Worker \subseteq Actor
  BY DEF PlacesInv, CustodyInv, TypeInv, CallTypes, Actor
<1>b. PICK e \in Actor : TRUE
  BY OutboxAssumption DEF Actor
<1>1. BatchesOf(Live) \subseteq BatchesOf(rows \cup pend)
  <2>1. Live \subseteq rows \cup pend
    BY DEF Live
  <2> QED
    BY <2>1, BatchesOfRows
<1>2. Held = Waiting \cup BatchesOf(rows \cup pend)
  BY <1>a, HeldParts, BatchesOfRows DEF Waiting
<1> DEFINE S == BatchesOf(rows \cup pend)
<1>3. /\ Range(outbox) \cap S = {} /\ Range(spoolCh) \cap S = {} /\ Range(buf) \cap S = {}
      /\ \A w \in Worker : Range(carry[w]) \cap S = {}
      /\ Range(outbox) \subseteq accepted /\ Range(spoolCh) \subseteq accepted
      /\ Range(buf) \subseteq accepted /\ S \subseteq accepted
      /\ \A w \in Worker : Range(carry[w]) \subseteq accepted
  BY <1>a, <1>b, PlacesApart, PlacesAccepted
<1>4. \A a \in Actor : Range(hand[a]) \cap S = {} /\ Range(hand[a]) \subseteq accepted
  BY <1>a, PlacesApart, PlacesAccepted
<1> HIDE DEF S
<1>5. Waiting \cap S = {} /\ Waiting \subseteq accepted
  BY <1>a, <1>3, <1>4 DEF Waiting, HandsOf
<1> QED
  BY <1>1, <1>2, <1>3, <1>5 DEF Alive, S

\* X is dropped and counted; apart from new batches nothing comes into the channel.
Sheds(X) ==
    /\ IsFiniteSet(X) /\ X \subseteq Alive
    /\ dropped' = dropped + Cardinality(X) /\ shed' = shed \cup X
    /\ accepted \subseteq accepted'
    /\ Alive' \subseteq (Alive \ X) \cup (accepted' \ accepted)
    /\ dpc' = "poison" => PoisonPolicy

LEMMA ShedStep ==
    ASSUME PlacesInv, ShedInv, NEW X, Sheds(X)
    PROVE  ShedInv'
<1>1. X \cap shed = {} /\ X \subseteq accepted
  BY AliveIsHeld DEF Sheds, ShedInv
<1>2. IsFiniteSet(shed') /\ dropped' = Cardinality(shed')
  <2>1. /\ IsFiniteSet(shed \cup X)
        /\ Cardinality(shed \cup X) =
              Cardinality(shed) + Cardinality(X) - Cardinality(shed \cap X)
        /\ Cardinality(shed) \in Nat /\ Cardinality(X) \in Nat
    BY FS_Union, FS_CardinalityType DEF Sheds, ShedInv
  <2>2. Cardinality(shed \cap X) = 0
    BY <1>1, FS_EmptySet
  <2> QED
    BY <2>1, <2>2 DEF Sheds, ShedInv
<1>3. shed' \subseteq accepted' /\ Alive' \cap shed' = {}
  BY <1>1 DEF Sheds, ShedInv
<1> QED
  BY <1>2, <1>3 DEF Sheds, ShedInv

\* The same when nothing is dropped.
LEMMA NothingShed ==
    ASSUME PlacesInv, ShedInv, UNCHANGED tally, accepted \subseteq accepted',
           Alive' \subseteq Alive \cup (accepted' \ accepted),
           dpc' = "poison" => PoisonPolicy
    PROVE  ShedInv'
<1>1. IsFiniteSet({}) /\ Cardinality({}) = 0 /\ dropped \in Nat
  BY FS_EmptySet DEF PlacesInv, CustodyInv, TypeInv, TallyTypes
<1>2. Sheds({})
  BY <1>1 DEF Sheds
<1> QED
  BY <1>2, ShedStep

\* Half of AliveIsHeld after a step.
LEMMA WaitingNext ==
    ASSUME PlacesInv'
    PROVE  /\ Waiting' \subseteq Held'
           /\ Waiting' \cap BatchesOf(rows \cup pend)' = {}
<1>a. /\ TypeInv' /\ DOMAIN hand' = Actor /\ DOMAIN carry' = Worker /\ Worker \subseteq Actor
  BY DEF PlacesInv, CustodyInv, TypeInv, CallTypes, Actor
<1>b. PICK e \in Actor : TRUE
  BY OutboxAssumption DEF Actor
<1>1. Waiting' \subseteq Held'
  BY <1>a, HeldPartsNext DEF Waiting
<1>2. \A k \in Kind \ {"stored"} : \A a \in Actor : At(k, a)' \cap At("stored", a)' = {}
  BY DEF PlacesInv, PlaceInv, Apart, Kind
<1>3. /\ Range(outbox') = At("outbox", e)' /\ Range(spoolCh') = At("spoolCh", e)'
      /\ Range(buf') = At("buf", e)'
      /\ \A a \in Actor : /\ Range(hand'[a]) = At("hand", a)'
                          /\ BatchesOf(rows \cup pend)' = At("stored", a)'
      /\ \A w \in Worker : Range(carry'[w]) = At("carry", w)'
  BY DEF At
<1> DEFINE S == BatchesOf(rows \cup pend)'
<1>4. /\ Range(outbox') \cap S = {} /\ Range(spoolCh') \cap S = {} /\ Range(buf') \cap S = {}
      /\ \A a \in Actor : Range(hand'[a]) \cap S = {}
      /\ \A w \in Worker : Range(carry'[w]) \cap S = {}
  BY <1>a, <1>b, <1>2, <1>3 DEF Kind
<1> HIDE DEF S
<1>5. Waiting' \cap S = {}
  BY <1>a, <1>4 DEF Waiting, HandsOf
<1> QED
  BY <1>1, <1>5 DEF S

\* What only callers do brings nothing back.
LEMMA CallersBringNothing ==
    ASSUME PlacesInv, [Next]_vars, UNCHANGED replayVars
    PROVE  /\ accepted \subseteq accepted'
           /\ Alive' \subseteq Alive \cup (accepted' \ accepted)
           /\ BatchesOf(Live)' = BatchesOf(Live)
<1>1. PlacesInv' /\ (Promise!Accept \/ SettleStep)
  BY PlacesNext, CustodyNext DEF PlacesInv
<1>2. BatchesOf(Live)' = BatchesOf(Live) /\ BatchesOf(rows \cup pend)' = BatchesOf(rows \cup pend)
  BY DEF replayVars, Live, BatchesOf
<1>3. /\ accepted \subseteq accepted'
      /\ Held' \subseteq Held \cup (accepted' \ accepted)
  BY <1>1 DEF Promise!Accept, SettleStep, Held
<1>4. /\ Held = Waiting \cup BatchesOf(rows \cup pend)
      /\ Waiting \cap BatchesOf(rows \cup pend) = {}
  BY AliveIsHeld
<1>5. /\ Waiting' \subseteq Held'
      /\ Waiting' \cap BatchesOf(rows \cup pend)' = {}
  BY <1>1, WaitingNext
<1>6. Waiting' \subseteq Waiting \cup (accepted' \ accepted)
  BY <1>2, <1>3, <1>4, <1>5
<1> QED
  BY <1>2, <1>3, <1>6 DEF Alive


(***************************************************************************)
(* The five places where a batch is dropped.                               *)
(***************************************************************************)
\* What the parts of Waiting say together.
LEMMA WaitingParts ==
    ASSUME PlacesInv
    PROVE  \A b : b \in Waiting <=> \/ b \in Range(outbox) \/ b \in Range(spoolCh)
                                    \/ b \in Range(buf)
                                    \/ \E a \in Actor : b \in Range(hand[a])
                                    \/ \E w \in Worker : b \in Range(carry[w])
<1>1. DOMAIN hand = Actor /\ DOMAIN carry = Worker
  BY DEF PlacesInv, CustodyInv, TypeInv, CallTypes
<1> QED
  BY <1>1, Zenon DEF Waiting, HandsOf

LEMMA WaitingPartsNext ==
    ASSUME PlacesInv'
    PROVE  \A b : b \in Waiting' <=> \/ b \in Range(outbox') \/ b \in Range(spoolCh')
                                     \/ b \in Range(buf')
                                     \/ \E a \in Actor : b \in Range(hand'[a])
                                     \/ \E w \in Worker : b \in Range(carry'[w])
<1>1. DOMAIN hand' = Actor /\ DOMAIN carry' = Worker
  BY DEF PlacesInv, CustodyInv, TypeInv, CallTypes
<1> QED
  BY <1>1, Zenon DEF Waiting, HandsOf

\* A caller discards X, which was in one place and leaves it.
LEMMA CallerSheds ==
    ASSUME PlacesInv, ShedInv, [Next]_vars, UNCHANGED replayVars,
           NEW X, IsFiniteSet(X), X \subseteq Waiting, X \cap Waiting' = {},
           dropped' = dropped + Cardinality(X), shed' = shed \cup X
    PROVE  ShedInv'
<1>1. /\ accepted \subseteq accepted'
      /\ Alive' \subseteq Alive \cup (accepted' \ accepted)
      /\ BatchesOf(Live)' = BatchesOf(Live)
  BY CallersBringNothing
<1>2. X \cap BatchesOf(Live) = {}
  BY AliveIsHeld
<1>3. X \cap Alive' = {} /\ X \subseteq Alive
  BY <1>1, <1>2 DEF Alive
<1>4. dpc' = "poison" => PoisonPolicy
  BY DEF replayVars, ShedInv
<1>5. Sheds(X)
  BY <1>1, <1>3, <1>4 DEF Sheds
<1> QED
  BY <1>5, ShedStep

\* The head of the memory queue makes room.
LEMMA ShedEvict ==
    ASSUME PlacesInv, ShedInv, [Next]_vars, UNCHANGED replayVars,
           outbox # <<>>, outbox' = Tail(outbox), Drop(Head(outbox)),
           UNCHANGED <<spoolCh, buf, hand, carry>>
    PROVE  ShedInv'
<1> DEFINE b == Head(outbox)
<1>a. PlaceInv /\ DistinctInv /\ PlacesInv' /\ outbox \in Seq(Batch)
  BY PlaceTypes, PlacesNext DEF PlacesInv
<1>1. /\ b \in Batch /\ b \in Range(outbox) /\ Range(outbox') = Range(outbox) \ {b}
  BY <1>a, HeadTaken DEF DistinctInv
<1>2. /\ dropped' = dropped + 1 /\ shed' = shed \cup {b}
      /\ IsFiniteSet({b}) /\ Cardinality({b}) = 1
  BY FS_Singleton DEF Drop
<1> HIDE DEF b
<1>3. PICK e \in Actor : TRUE
  BY OutboxAssumption DEF Actor
<1>4. /\ b \notin Range(spoolCh) /\ b \notin Range(buf)
      /\ \A w \in Worker : b \notin Range(carry[w])
      /\ \A a \in Actor : b \notin Range(hand[a])
  BY <1>a, <1>1, <1>3, PlacesApart
<1>5. b \in Waiting /\ b \notin Waiting'
  BY <1>a, <1>1, <1>4, WaitingParts, WaitingPartsNext
<1> QED
  BY <1>2, <1>5, CallerSheds

\* The head of the spool's write buffer makes room.
LEMMA ShedSpoolEvict ==
    ASSUME PlacesInv, ShedInv, [Next]_vars, UNCHANGED replayVars,
           spoolCh # <<>>, spoolCh' = Tail(spoolCh), Drop(Head(spoolCh)),
           UNCHANGED <<outbox, buf, hand, carry>>
    PROVE  ShedInv'
<1> DEFINE b == Head(spoolCh)
<1>a. PlaceInv /\ DistinctInv /\ PlacesInv' /\ spoolCh \in Seq(Batch)
  BY PlaceTypes, PlacesNext DEF PlacesInv
<1>1. /\ b \in Batch /\ b \in Range(spoolCh) /\ Range(spoolCh') = Range(spoolCh) \ {b}
  BY <1>a, HeadTaken DEF DistinctInv
<1>2. /\ dropped' = dropped + 1 /\ shed' = shed \cup {b}
      /\ IsFiniteSet({b}) /\ Cardinality({b}) = 1
  BY FS_Singleton DEF Drop
<1> HIDE DEF b
<1>3. PICK e \in Actor : TRUE
  BY OutboxAssumption DEF Actor
<1>4. /\ b \notin Range(outbox) /\ b \notin Range(buf)
      /\ \A w \in Worker : b \notin Range(carry[w])
      /\ \A a \in Actor : b \notin Range(hand[a])
  BY <1>a, <1>1, <1>3, PlacesApart
<1>5. b \in Waiting /\ b \notin Waiting'
  BY <1>a, <1>1, <1>4, WaitingParts, WaitingPartsNext
<1> QED
  BY <1>2, <1>5, CallerSheds

\* A caller gives up what leaves its hand.
LEMMA ShedFromHand ==
    ASSUME PlacesInv, ShedInv, [Next]_vars, UNCHANGED replayVars,
           NEW a \in Actor, NEW s \in Seq(Batch), hand' = [hand EXCEPT ![a] = s],
           NEW X, IsFiniteSet(X), X \subseteq Range(hand[a]), Range(s) \cap X = {},
           dropped' = dropped + Cardinality(X), shed' = shed \cup X,
           UNCHANGED <<outbox, spoolCh, buf, carry>>
    PROVE  ShedInv'
<1>a. PlaceInv /\ PlacesInv' /\ hand \in [Actor -> Seq(Batch)]
  BY PlaceTypes, PlacesNext DEF PlacesInv
<1>1. hand'[a] = s /\ \A c \in Actor \ {a} : hand'[c] = hand[c]
  BY <1>a
<1>2. /\ X \cap Range(outbox) = {} /\ X \cap Range(spoolCh) = {} /\ X \cap Range(buf) = {}
      /\ \A w \in Worker : X \cap Range(carry[w]) = {}
      /\ \A c \in Actor : c # a => X \cap Range(hand[c]) = {}
  BY <1>a, PlacesApart
<1>3. X \subseteq Waiting
  BY WaitingParts
<1>4. X \cap Waiting' = {}
  BY <1>a, <1>1, <1>2, WaitingPartsNext
<1> QED
  BY <1>3, <1>4, CallerSheds

\* In particular the batch the caller is about.
LEMMA ShedFirst ==
    ASSUME PlacesInv, ShedInv, [Next]_vars, UNCHANGED replayVars,
           NEW a \in Actor, hand[a] # <<>>, Drop(Head(hand[a])),
           \/ hand' = [hand EXCEPT ![a] = Tail(hand[a])]
           \/ hand' = [hand EXCEPT ![a] = <<>>],
           UNCHANGED <<outbox, spoolCh, buf, carry>>
    PROVE  ShedInv'
<1> DEFINE b == Head(hand[a])
<1>a. /\ hand[a] \in Seq(Batch) /\ IsInjective(hand[a])
      /\ <<>> \in Seq(Batch) /\ Range(<<>>) = {}
  BY PlaceTypes DEF PlacesInv, DistinctInv
<1>1. /\ b \in Range(hand[a]) /\ Tail(hand[a]) \in Seq(Batch)
      /\ Range(Tail(hand[a])) = Range(hand[a]) \ {b}
  BY <1>a, HeadTaken
<1>2. /\ dropped' = dropped + 1 /\ shed' = shed \cup {b}
      /\ IsFiniteSet({b}) /\ Cardinality({b}) = 1
  BY FS_Singleton DEF Drop
<1>3. PICK s \in Seq(Batch) : hand' = [hand EXCEPT ![a] = s] /\ Range(s) \cap {b} = {}
  BY <1>a, <1>1
<1> HIDE DEF b
<1> DEFINE X == {b}
<1>4. /\ IsFiniteSet(X) /\ X \subseteq Range(hand[a]) /\ Range(s) \cap X = {}
      /\ dropped' = dropped + Cardinality(X) /\ shed' = shed \cup X
  BY <1>1, <1>2, <1>3
<1> HIDE DEF X
<1> QED
  BY <1>3, <1>4, ShedFromHand


LEMMA ShedCallers ==
    ASSUME PlacesInv, ShedInv, [Next]_vars,
           \/ \E p \in Producer : Enqueue(p) /\ UNCHANGED channelVars
           \/ \E w \in Worker : WorkerStep(w) \/ WorkerSpool(w)
    PROVE  ShedInv'
<1>a. UNCHANGED replayVars
  BY CallersLeaveRows
<1>b. UNCHANGED tally => ShedInv'
  <2>1. dpc' = "poison" => PoisonPolicy
    BY <1>a DEF replayVars, ShedInv
  <2> QED
    BY <1>a, <2>1, CallersBringNothing, NothingShed
<1>c. TypeInv /\ hand \in [Actor -> Seq(Batch)] /\ Worker \subseteq Actor
      /\ Producer \subseteq Actor
  BY PlaceTypes DEF PlacesInv, CustodyInv
<1>1. ASSUME NEW a \in Actor, NEW after, SpoolSend(a, after) \/ SpoolEvict(a)
                                            \/ SpoolResend(a, after), UNCHANGED channelVars
      PROVE  ShedInv'
  <2>1. CASE UNCHANGED tally
    BY <1>b, <2>1
  <2>2. CASE SpoolEvict(a) /\ ~UNCHANGED tally
    <3>1. /\ spoolCh # <<>> /\ spoolCh' = Tail(spoolCh) /\ Drop(Head(spoolCh))
          /\ UNCHANGED <<outbox, buf, hand, carry>>
      BY <1>1, <2>2 DEF SpoolEvict
    <3> QED
      BY <1>a, <3>1, ShedSpoolEvict
  <2>3. CASE SpoolResend(a, after) /\ ~UNCHANGED tally
    <3>1. /\ Drop(Head(hand[a])) /\ UNCHANGED <<outbox, spoolCh, buf, carry>>
          /\ hand' = [hand EXCEPT ![a] = Tail(hand[a])]
      BY <1>1, <2>3 DEF SpoolResend, HandOver
    <3>2. hand[a] # <<>>
      BY <1>c, <2>3 DEF SpoolResend, TypeInv, CallTypes, CallersHoldBatches
    <3> QED
      BY <1>a, <3>1, <3>2, ShedFirst
  <2>4. SpoolSend(a, after) => UNCHANGED tally
    BY DEF SpoolSend
  <2> QED
    BY <1>1, <2>1, <2>2, <2>3, <2>4
<1>2. ASSUME NEW p \in Producer, Enqueue(p), UNCHANGED channelVars PROVE ShedInv'
  <2>1. CASE UNCHANGED tally
    BY <1>b, <2>1
  <2>2. CASE EnqueueEvict(p) /\ ~UNCHANGED tally
    <3>1. /\ outbox # <<>> /\ outbox' = Tail(outbox) /\ Drop(Head(outbox))
          /\ UNCHANGED <<spoolCh, buf, hand, carry>>
      BY <1>2, <2>2 DEF EnqueueEvict
    <3> QED
      BY <1>a, <3>1, ShedEvict
  <2>3. CASE EnqueueResend(p) /\ ~UNCHANGED tally
    <3>1. /\ Drop(Head(hand[p])) /\ UNCHANGED <<outbox, spoolCh, buf, carry>>
          /\ hand' = [hand EXCEPT ![p] = <<>>]
      BY <1>2, <2>3 DEF EnqueueResend
    <3>2. hand[p] # <<>> /\ p \in Actor
      BY <1>c, <2>3 DEF EnqueueResend, TypeInv, CallTypes, CallersHoldBatches
    <3> QED
      BY <1>a, <3>1, <3>2, ShedFirst
  <2>4. CASE SpoolSend(p, "idle") \/ SpoolEvict(p) \/ SpoolResend(p, "idle")
    BY <1>1, <1>2, <1>c, <2>4
  <2>5. (\E b \in Batch : EnqueueStart(p, b)) \/ EnqueueSend(p) => UNCHANGED tally
    BY DEF EnqueueStart, EnqueueSend
  <2> QED
    BY <1>2, <2>1, <2>2, <2>3, <2>4, <2>5 DEF Enqueue
<1>3. ASSUME NEW w \in Worker, WorkerSpool(w) PROVE ShedInv'
  BY <1>1, <1>3, <1>c DEF WorkerSpool
<1>4. ASSUME NEW w \in Worker, WorkerStep(w) PROVE ShedInv'
  <2>1. CASE UNCHANGED tally
    BY <1>b, <2>1
  <2>2. CASE ~UNCHANGED tally
    <3>1. FlushFailed(w) /\ ~SpoolEnabled /\ UNCHANGED <<outbox, spoolCh, buf, carry>>
      BY <1>4, <2>2 DEF WorkerStep, WorkerTake, WorkerAppendCarry, WorkerTick, WorkerQuit,
             WorkerLast, WorkerWrite, WorkerWritten, WorkerWriteFailed, FlushFailed
    <3>2. /\ hand' = [hand EXCEPT ![w] = <<>>] /\ dropped' = dropped + Len(hand[w])
          /\ shed' = shed \cup Range(hand[w])
      BY <3>1 DEF FlushFailed
    <3> DEFINE X == Range(hand[w])
    <3>3. w \in Actor /\ <<>> \in Seq(Batch) /\ Range(<<>>) = {} /\ hand[w] \in Seq(Batch)
          /\ IsInjective(hand[w])
      BY <1>c, PlaceTypes DEF PlacesInv, DistinctInv
    <3>4. IsFiniteSet(X) /\ Cardinality(X) = Len(hand[w])
      BY <3>3, DistinctLength
    <3>5. /\ dropped' = dropped + Cardinality(X) /\ shed' = shed \cup X
          /\ X \subseteq Range(hand[w]) /\ Range(<<>>) \cap X = {}
      BY <3>2, <3>3, <3>4
    <3> HIDE DEF X
    <3> QED
      BY <1>a, <3>1, <3>2, <3>3, <3>4, <3>5, ShedFromHand
  <2> QED
    BY <2>1, <2>2
<1> QED
  BY <1>2, <1>3, <1>4

(***************************************************************************)
(* The writer and the drainer.                                             *)
(***************************************************************************)
LEMMA ShedWriter ==
    ASSUME PlacesInv, ShedInv, [Next]_vars, SpoolWriteLoop, UNCHANGED channelVars
    PROVE  ShedInv'
<1>a. UNCHANGED <<tally, accepted, dpc, pend, outbox, hand, carry>>
  BY DEF SpoolWriteLoop, WriterTake, WriterCollect, WriterCheckCap, WriterTrim,
         WriterInsert, WriterFallback, WriterPhase
<1>1. \A q \in rows' \ rows : q.batch \in Range(buf)
  BY WriterAdds
<1>2. BatchesOf(Live)' \subseteq BatchesOf(Live) \cup Range(buf)
  <2>1. \A q \in Live' : q \in Live \/ q.batch \in Range(buf)
    BY <1>a, <1>1 DEF Live
  <2> QED
    BY <2>1 DEF BatchesOf
<1>3. Range(buf) \subseteq Alive
  BY DEF Alive, Waiting
<1>4. Waiting' \subseteq Waiting
  <2>1. Range(spoolCh') \cup Range(buf') \subseteq Range(spoolCh) \cup Range(buf)
    <3>a. /\ spoolCh \in Seq(Batch) /\ buf \in Seq(Batch) /\ Range(<<>>) = {}
          /\ (wpc = "idle" <=> buf = <<>>)
      BY PlaceTypes DEF PlacesInv, CustodyInv, TypeInv, WriterTypes
    <3>b. \A s \in Seq(Batch) : s # <<>> => /\ Head(s) \in Batch
                                            /\ Range(s) = {Head(s)} \cup Range(Tail(s))
      BY RangeOfTail
    <3>1. CASE WriterTake
      <4>1. Range(<<Head(spoolCh)>>) = {Head(spoolCh)} /\ spoolCh # <<>>
        BY <3>1, <3>a, <3>b, RangeOfOne DEF WriterTake
      <4> QED
        BY <3>1, <3>a, <3>b, <4>1 DEF WriterTake
    <3>2. CASE WriterCollect
      <4>1. /\ spoolCh # <<>>
            /\ Range(Append(buf, Head(spoolCh))) = Range(buf) \cup {Head(spoolCh)}
        BY <3>2, <3>a, <3>b, RangeOfAppend DEF WriterCollect
      <4> QED
        BY <3>2, <3>a, <3>b, <4>1 DEF WriterCollect
    <3>3. CASE WriterFallback
      BY <3>3, <3>a, <3>b DEF WriterFallback
    <3>4. CASE WriterInsert
      BY <3>4, <3>a DEF WriterInsert
    <3>5. CASE WriterCheckCap \/ WriterTrim \/ WriterPhase
      BY <3>5 DEF WriterCheckCap, WriterTrim, WriterPhase
    <3> QED
      BY <3>1, <3>2, <3>3, <3>4, <3>5 DEF SpoolWriteLoop
  <2>2. HandsOf(hand)' = HandsOf(hand) /\ HandsOf(carry)' = HandsOf(carry)
    BY <1>a DEF HandsOf
  <2> QED
    BY <1>a, <2>1, <2>2 DEF Waiting
<1>5. Alive' \subseteq Alive
  BY <1>2, <1>3, <1>4 DEF Alive
<1>6. dpc' = "poison" => PoisonPolicy
  BY <1>a DEF ShedInv
<1> QED
  BY <1>a, <1>5, <1>6, NothingShed


\* A step of DrainLoop leaves the callers and the writer alone.
LEMMA DrainLeavesWaiting ==
    ASSUME (DrainLoopStep /\ UNCHANGED channelVars) \/ DrainCall
    PROVE  Waiting' = Waiting /\ accepted' = accepted
<1>1. UNCHANGED <<outbox, spoolCh, buf, hand, carry, accepted>>
  BY DEF DrainLoopStep, DrainCheck, DrainFetch, DrainDeletePoison, DrainQuit,
         DrainNotified, DrainBackstop, DrainCall, DrainWrite, DrainWritten,
         DrainWriteFailed, DrainDeleteSent, WriteSucceeds
<1> QED
  BY <1>1 DEF Waiting, HandsOf

LEMMA ShedDrain ==
    ASSUME PoisonStaysDeleted, PlacesInv, ShedInv,
           (DrainLoopStep /\ UNCHANGED channelVars) \/ DrainCall
    PROVE  ShedInv'
<1>a. Waiting' = Waiting /\ accepted' = accepted
  BY DrainLeavesWaiting
<1>b. /\ PlaceInv /\ StoredInv /\ pend \in SUBSET Row
      /\ (dpc \in {"drain", "sending", "delete"} => pend # {})
  BY DEF PlacesInv, CustodyInv, TypeInv, DrainTypes
<1>c. ASSUME UNCHANGED tally, Live' \subseteq Live, dpc' # "poison" PROVE ShedInv'
  <2>1. BatchesOf(Live)' \subseteq BatchesOf(Live)
    BY <1>c DEF BatchesOf
  <2>2. Alive' \subseteq Alive
    BY <1>a, <2>1 DEF Alive
  <2> QED
    BY <1>a, <1>c, <2>2, NothingShed
<1>1. CASE DrainDeletePoison
  <2>1. "delete" \notin DbFaultOps
    BY <1>1 DEF DrainDeletePoison, ShedInv, PoisonStaysDeleted
  <2>2. dpc = "poison" /\ dpc' = "check" /\ rows' = rows \ pend /\ pend' = {} /\ UNCHANGED tally
    BY <1>1, <2>1 DEF DrainDeletePoison, DeleteRows, DbMayFail
  <2> QED
    BY <1>c, <2>2 DEF Live
<1>2. CASE DrainLoopStep /\ ~DrainDeletePoison
  <2>1. /\ UNCHANGED tally /\ dpc # "poison" /\ dpc' # "poison" /\ rows' = rows
        /\ pend' \subseteq rows \cup pend
    BY <1>2 DEF DrainLoopStep, DrainCheck, DrainFetch, DrainQuit, DrainNotified,
           DrainBackstop, Oldest
  <2> QED
    BY <1>c, <2>1 DEF Live
<1>3. ASSUME DrainFail, dpc \in {"drain", "sending"}, rows' = rows PROVE ShedInv'
  <2> DEFINE f == First(pend)
  <2>1. f \in pend
    BY <1>b, <1>3, FirstIsARow
  <2>2. CASE ~(PoisonPolicy /\ poisonId = f.id)
    <3>1. UNCHANGED tally /\ pend' = {} /\ dpc' = "wait" /\ dpc # "poison"
      BY <1>3, <2>2 DEF DrainFail, DrainFails
    <3> QED
      BY <1>3, <1>c, <3>1 DEF Live
  <2>3. CASE PoisonPolicy /\ poisonId = f.id
    <3>1. /\ dropped' = dropped + 1 /\ shed' = shed \cup {f.batch}
          /\ dpc' = "poison" /\ dpc # "poison" /\ pend' = {f}
      BY <1>3, <2>3 DEF DrainFail, DrainFails, Drop
    <3> HIDE DEF f
    <3>2. Live = rows \cup pend /\ Live' = rows \ {f}
      BY <1>3, <3>1 DEF Live
    <3>3. \A q \in Live' : q \in Live /\ q.batch # f.batch
      BY <1>b, <2>1, <3>2 DEF StoredInv
    <3>4. BatchesOf(Live)' \subseteq BatchesOf(Live) \ {f.batch}
      BY <3>3 DEF BatchesOf
    <3>5. f.batch \in BatchesOf(rows \cup pend) /\ BatchesOf(Live) = BatchesOf(rows \cup pend)
      BY <2>1, <3>2 DEF BatchesOf
    <3>6. f.batch \notin Waiting
      BY <3>5, AliveIsHeld
    <3>7. IsFiniteSet({f.batch}) /\ Cardinality({f.batch}) = 1
      BY FS_Singleton
    <3>8. Alive' \subseteq Alive \ {f.batch} /\ f.batch \in Alive
      BY <1>a, <3>4, <3>5, <3>6 DEF Alive
    <3> DEFINE X == {f.batch}
    <3>9. Sheds(X)
      BY <1>a, <2>3, <3>1, <3>7, <3>8 DEF Sheds
    <3> HIDE DEF X
    <3> QED
      BY <3>9, ShedStep
  <2> QED
    BY <2>2, <2>3
<1>4. CASE DrainCall
  <2>1. CASE DrainFail /\ (DrainWrite \/ DrainWriteFailed)
    <3>1. dpc \in {"drain", "sending"} /\ rows' = rows
      BY <2>1 DEF DrainWrite, DrainWriteFailed
    <3> QED
      BY <1>3, <2>1, <3>1
  <2>2. CASE ~(DrainFail /\ (DrainWrite \/ DrainWriteFailed))
    <3>1. /\ UNCHANGED tally /\ dpc \in {"drain", "sending", "delete"} /\ dpc' # "poison"
          /\ rows' \subseteq rows /\ pend' \subseteq pend
      BY <1>4, <2>2 DEF DrainCall, DrainWrite, DrainWritten, DrainWriteFailed,
             DrainDeleteSent, DeleteRows, DrainSucceeds
    <3>2. Live' \subseteq Live
      BY <3>1 DEF Live
    <3> QED
      BY <1>c, <3>1, <3>2
  <2> QED
    BY <2>1, <2>2
<1> QED
  BY <1>1, <1>2, <1>4

LEMMA ShedNext ==
    ASSUME PoisonStaysDeleted, PlacesInv, ShedInv, [Next]_vars
    PROVE  ShedInv'
<1>1. CASE \/ Reconnect
           \/ (Close \/ WaitStart(GroupExited) \/ WaitReturn) /\ UNCHANGED channelVars
           \/ UNCHANGED vars
  <2>1. UNCHANGED tally
    BY <1>1 DEF Reconnect, TryConnect, TryConnectNotify, ReconnectQuit, Close, WaitStart,
           WaitReturn
  <2>2. UNCHANGED replayVars
    BY <1>1, CallersLeaveRows
  <2>3. dpc' = "poison" => PoisonPolicy
    BY <2>2 DEF replayVars, ShedInv
  <2> QED
    BY <2>1, <2>2, <2>3, CallersBringNothing, NothingShed
<1>2. CASE Restart
  <2>1. dropped' = 0 /\ shed' = {} /\ dpc' # "poison"
    BY <1>2 DEF Restart, Reboot
  <2> QED
    BY <2>1, FS_EmptySet DEF ShedInv
<1>3. CASE \/ \E p \in Producer : Enqueue(p) /\ UNCHANGED channelVars
           \/ \E w \in Worker : WorkerStep(w) \/ WorkerSpool(w)
  BY <1>3, ShedCallers
<1>4. CASE SpoolWriteLoop /\ UNCHANGED channelVars
  BY <1>4, ShedWriter
<1>5. CASE (DrainLoopStep /\ UNCHANGED channelVars) \/ DrainCall
  BY <1>5, ShedDrain
<1> QED
  BY <1>1, <1>2, <1>3, <1>4, <1>5, Zenon DEF Next, OutboxStep

(***************************************************************************)
(* droppedCount is exact (Enqueue's eviction, SpoolEnqueue's, a window     *)
(* that failed without a spool, DrainLoop's poison rows): every discarded  *)
(* batch is counted, and once, as long as a poison row that was counted is *)
(* also deleted.                                                           *)
(***************************************************************************)
THEOREM DroppedIsExact == PoisonStaysDeleted => (Spec => []DroppedExact)
<1> SUFFICES ASSUME PoisonStaysDeleted PROVE Spec => []DroppedExact
  OBVIOUS
<1>1. Init => PlacesInv /\ ShedInv
  <2> SUFFICES ASSUME Init PROVE ShedInv
    BY PlacesInit
  <2>1. dropped = 0 /\ shed = {} /\ dpc # "poison"
    BY DEF Init, OutboxInit
  <2> QED
    BY <2>1, FS_EmptySet DEF ShedInv
<1>2. PlacesInv /\ ShedInv /\ [Next]_vars => PlacesInv' /\ ShedInv'
  BY PlacesNext, ShedNext
<1>3. ShedInv => DroppedExact
  BY DEF ShedInv, DroppedExact
<1> QED
  BY <1>1, <1>2, <1>3, PTL DEF Spec

===============================================================================
