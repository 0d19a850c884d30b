------------------------------ MODULE ScanPage_view -----------------------------
(***************************************************************************)
(* Proofs about ScanPage: what the scan page shows.  Polls get lost, and   *)
(* answers and clicks come in any order; here is why the page nevertheless *)
(* keeps polling, ends up showing all that was found, and goes on by       *)
(* itself, as long as it takes no answer that is out of date (~late): such *)
(* a one may stop the polling or put an old state back.                    *)
(***************************************************************************)
EXTENDS ScanPage_proofs

(***************************************************************************)
(* What the page knows or is about to learn, and what it asks for.         *)
(***************************************************************************)

Tells(p, x) ==
    \/ p.step \in {"told", "askAll", "toldAll"} /\ p.light = x
    \/ p.step = "toldAll" /\ p.full = x

\* The snapshots that may be shown: that of the job, and those of the answers under way.
Known == {x \in Snapshot : \/ job.id # 0 /\ x = SnapshotOf(job)
                           \/ starting.step = "ok" /\ x = starting.snap
                           \/ continuing.step = "ok" /\ x = continuing.snap
                           \/ \E s \in Slot : Tells(polls[s], x)}

\* The jobs that the page asks for.
Asked == {i \in Nat : \/ i = timer
                      \/ \E s \in Slot : polls[s] # Idle /\ polls[s].id = i
                      \/ /\ continuing.step \in {"sent", "waiting", "ok", "failed", "cancel", "canceled"}
                         /\ continuing.id = i}

\* What the engine tells of job i.
Told(i) == IF Found(i) THEN SnapshotOf(job) ELSE Gone

\* A poll is asked, told, asked for the list and told again, or is over.
PollMoves(q) ==
    \/ polls'[q] = polls[q]
    \/ polls'[q] = Idle
    \/ \E i \in Nat : polls'[q] = Ask(i) /\ (i \in Asked \/ i = shown'.id)
    \/ /\ polls[q].step = "ask" /\ Lookup(polls[q].id)
       /\ polls'[q] = [step |-> "told", id |-> polls[q].id, light |-> Told(polls[q].id)]
    \/ /\ polls[q].step = "told" /\ polls[q].light \in Snapshot
       /\ polls'[q] = [step |-> "askAll", id |-> polls[q].id, light |-> polls[q].light]
    \/ /\ polls[q].step = "askAll" /\ Lookup(polls[q].id)
       /\ polls'[q] = [step |-> "toldAll", id |-> polls[q].id, light |-> polls[q].light,
                       full |-> Told(polls[q].id)]

\* A poll moves in no other way.
LEMMA PollStep ==
    ASSUME PageTypes, NEW q \in Slot, [Next]_vars
    PROVE  PollMoves(q)
<1>p. polls \in [Slot -> Poll] BY DEF PageTypes
<1>u. ASSUME polls' = polls PROVE PollMoves(q) BY <1>u DEF PollMoves
<1>s. ASSUME NEW i, i = shown'.id, i \in Nat, startPolling(i) PROVE PollMoves(q)
  <2>1. FreeTicks \subseteq Slot BY DEF FreeTicks, Slot
  <2>2. polls' = polls \/ \E s \in Slot : polls' = [polls EXCEPT ![s] = Ask(i)]
    BY <1>s, <2>1 DEF startPolling
  <2>3. polls'[q] = polls[q] \/ polls'[q] = Ask(i) BY <2>2, <1>p
  <2>4. QED BY <1>s, <2>3 DEF PollMoves
<1>1. CASE EngineStep \/ JobExpires \/ OtherClient
  BY <1>1, <1>u DEF EngineStep, JobExpires, OtherClient, pageVars
<1>2. CASE Serve
  <2>1. ASSUME NEW s \in Slot, ServePoll(s) PROVE PollMoves(q)
    <3>1. CASE s # q
      <4>1. polls'[q] = polls[q] BY <2>1, <3>1, <1>p DEF ServePoll
      <4>2. QED BY <4>1 DEF PollMoves
    <3>2. CASE s = q
      <4>1. polls'[q] = IF polls[q].step = "ask"
                        THEN [step |-> "told", id |-> polls[q].id, light |-> Told(polls[q].id)]
                        ELSE [step |-> "toldAll", id |-> polls[q].id, light |-> polls[q].light,
                              full |-> Told(polls[q].id)]
        BY <2>1, <3>2, <1>p DEF ServePoll, Told
      <4>2. polls[q].step \in {"ask", "askAll"} /\ Lookup(polls[q].id)
        BY <2>1, <3>2 DEF ServePoll
      <4>3. QED BY <4>1, <4>2 DEF PollMoves
    <3>3. QED BY <3>1, <3>2
  <2>2. CASE ServeStart \/ ServeContinue \/ ServeCancel
    BY <2>2, <1>u DEF ServeStart, ServeContinue, ServeCancel
  <2>3. QED BY <1>2, <2>1, <2>2 DEF Serve
<1>3. CASE Answer
  <2>1. ASSUME NEW s \in Slot, PollAnswer(s) PROVE PollMoves(q)
    <3>1. CASE PollOver(s) BY <3>1, <1>p DEF PollOver, PollMoves
    <3>2. CASE /\ polls[s].step = "told" /\ polls[s].light # Gone
               /\ polls' = [polls EXCEPT ![s].step = "askAll"]
      <4>1. CASE s # q
        <5>1. polls'[q] = polls[q] BY <3>2, <4>1, <1>p
        <5>2. QED BY <5>1 DEF PollMoves
      <4>2. CASE s = q
        <5>1. polls[q] \in [step : {"told"}, id : Nat, light : Snapshot \cup {Gone}]
          BY <1>p, <3>2, <4>2 DEF Poll, Idle
        <5>2. polls'[q] = [polls[q] EXCEPT !.step = "askAll"] BY <3>2, <4>2, <1>p
        <5>3. polls'[q] = [step |-> "askAll", id |-> polls[q].id, light |-> polls[q].light]
          BY <5>1, <5>2
        <5>4. polls[q].light \in Snapshot BY <3>2, <4>2, <5>1
        <5>5. QED BY <3>2, <4>2, <5>3, <5>4 DEF PollMoves
      <4>3. QED BY <4>1, <4>2
    <3>3. QED BY <2>1, <3>1, <3>2, PollEffect DEF PollAnswer, PollGone, PollLost, PollApplies
  <2>2. CASE StartAnswer
    <3>1. CASE polls' = polls BY <3>1, <1>u
    <3>2. CASE /\ starting.step = "ok" /\ shown'.id = starting.snap.id
               /\ startPolling(starting.snap.id)
      <4>1. starting.snap.id \in Nat BY <3>2, CallParts DEF PageTypes, Snapshot
      <4>2. QED BY <3>2, <4>1, <1>s
    <3>3. QED BY <2>2, <3>1, <3>2 DEF StartAnswer
  <2>3. CASE ContinueAnswer
    <3>1. CASE continuing.step = "ok" /\ ContinueAnswered
      <4>1. continuing.snap.id \in Nat /\ shown'.id = continuing.snap.id
        BY <3>1, CallParts DEF PageTypes, Snapshot, ContinueAnswered, applySnapshot
      <4>2. QED BY <3>1, <4>1, <1>s DEF ContinueAnswered
    <3>2. CASE polls' = polls BY <3>2, <1>u
    <3>3. CASE ContinueCanceled
      <4>1. continuing.step \in {"cancel", "canceled"} BY <3>3 DEF ContinueCanceled
      <4>2. continuing.id \in Nat BY <4>1, CallParts DEF PageTypes
      <4>3. continuing.id \in Asked BY <4>1, <4>2 DEF Asked
      <4>4. polls'[q] = polls[q] \/ polls'[q] = Ask(continuing.id)
        BY <3>3, <1>p DEF ContinueCanceled
      <4>5. QED BY <4>2, <4>3, <4>4 DEF PollMoves
    <3>4. QED BY <2>3, <3>1, <3>2, <3>3 DEF ContinueAnswer
  <2>4. CASE CancelAnswer
    <3>1. polls'[q] = polls[q] \/ polls'[q] = Ask(shown.id) BY <2>4, <1>p DEF CancelAnswer
    <3>2. shown' = shown /\ shown.id \in Nat
      BY <2>4 DEF CancelAnswer, PageTypes, ShownTypes, Shown
    <3>3. QED BY <3>1, <3>2 DEF PollMoves
  <2>5. QED BY <1>3, <2>1, <2>2, <2>3, <2>4 DEF Answer
<1>4. CASE Tick
  <2>1. polls'[q] = polls[q] \/ polls'[q] = Ask(timer) BY <1>4, <1>p DEF Tick
  <2>2. timer \in Asked /\ timer \in Nat BY DEF Asked, PageTypes, ShownTypes
  <2>3. QED BY <2>1, <2>2 DEF PollMoves
<1>5. CASE PollDeadline BY <1>5, <1>u DEF PollDeadline
<1>6. CASE User
  BY <1>6, <1>u DEF User, handleStart, handleContinue, handleCancel, handleProtocolChange, Leave
<1>7. CASE UNCHANGED vars BY <1>7, <1>u DEF vars, pageVars
<1>8. QED BY <1>1, <1>2, <1>3, <1>4, <1>5, <1>6, <1>7 DEF Next

\* The answer to a start changes only when the engine serves it.
LEMMA StartingStep ==
    ASSUME EngineInv, [Next]_vars
    PROVE  \/ starting' = starting
           \/ starting'.step # "ok"
           \/ /\ starting' = [step |-> "ok", snap |-> SnapshotOf(job')]
              /\ job'.id = jobs + 1 /\ job'.id # 0 /\ job'.state = "running"
<1>d. Idle.step # "ok" BY DEF Idle
<1>1. CASE EngineStep \/ JobExpires \/ OtherClient
  BY <1>1 DEF EngineStep, JobExpires, OtherClient, pageVars
<1>2. CASE Serve
  <2>1. CASE ServeStart
    <3>1. CASE /\ Submit(plan.targets, plan.prefilter)
               /\ starting' = [step |-> "ok", snap |-> SnapshotOf(job')]
      BY <3>1 DEF Submit, EngineInv, ScanTypeOK
    <3>2. CASE starting' = [step |-> "failed"] BY <3>2
    <3>3. QED BY <2>1, <3>1, <3>2 DEF ServeStart
  <2>2. CASE ~ServeStart BY <1>2, <2>2 DEF Serve, ServePoll, ServeContinue, ServeCancel
  <2>3. QED BY <2>1, <2>2
<1>3. CASE Answer BY <1>3, <1>d DEF Answer, PollAnswer, StartAnswer, ContinueAnswer, CancelAnswer
<1>4. CASE Tick \/ PollDeadline BY <1>4 DEF Tick, PollDeadline
<1>5. CASE User
  BY <1>5 DEF User, handleStart, handleContinue, handleCancel, handleProtocolChange, Leave
<1>6. CASE UNCHANGED vars BY <1>6 DEF vars, pageVars
<1>7. QED BY <1>1, <1>2, <1>3, <1>4, <1>5, <1>6 DEF Next

\* How a continue goes on.
ContinueMoves ==
    \/ continuing' = continuing
    \/ continuing'.step = "idle"
    \/ continuing.step \in {"cancel", "canceled"} /\ continuing'.step = "polling"
    \/ /\ continuing'.step = "sent"
       /\ starting = Idle /\ continuing'.id \in Nat /\ continuing'.id = shown'.id
    \/ /\ continuing.step \in {"sent", "waiting"} /\ continuing'.step = "failed"
       /\ continuing'.id = continuing.id
    \/ /\ continuing.step = "sent" /\ continuing'.step = "waiting"
       /\ continuing'.id = continuing.id /\ ContinueBegin(ThisPage, continuing.id)
    \/ /\ continuing.step = "waiting"
       /\ \/ ContinueBatch(ThisPage) /\ continuing' = Continued(SnapshotOf(job'))
          \/ ContinueNothingLeft(ThisPage) /\ continuing' = Continued(SnapshotOf(job))
    \/ /\ continuing.step = "ok" /\ continuing'.step = "cancel" /\ autoStopped
       /\ continuing'.id = continuing.snap.id /\ continuing'.id = shown'.id
    \/ continuing.step = "cancel" /\ continuing'.step = "canceled" /\ continuing'.id = continuing.id

\* It goes on in no other way.
LEMMA ContinueStepMoves ==
    ASSUME PageTypes, [Next]_vars
    PROVE  ContinueMoves
<1>d. Idle.step = "idle" BY DEF Idle
<1>i. shown.id \in Nat BY DEF PageTypes, ShownTypes, Shown
<1>u. ASSUME continuing' = continuing PROVE ContinueMoves BY <1>u DEF ContinueMoves
<1>1. CASE EngineStep \/ JobExpires \/ OtherClient
  BY <1>1, <1>u DEF EngineStep, JobExpires, OtherClient, pageVars
<1>2. CASE Serve
  <2>1. CASE ServeContinue
    <3>c. continuing.step \in {"sent", "waiting"} BY <2>1 DEF ServeContinue
    <3>i. continuing \in [step : {"sent", "waiting", "failed"}, id : Nat, auto : BOOLEAN]
      BY <3>c DEF PageTypes, CallTypes, ContinueCall, Idle
    <3>1. CASE /\ continuing.step = "sent" /\ ContinueBegin(ThisPage, continuing.id)
               /\ continuing' = [continuing EXCEPT !.step = "waiting"]
      BY <3>1, <3>i DEF ContinueMoves
    <3>2. CASE continuing' = [continuing EXCEPT !.step = "failed"] BY <3>2, <3>i, <3>c DEF ContinueMoves
    <3>3. CASE /\ continuing.step = "waiting"
               /\ \/ ContinueBatch(ThisPage) /\ continuing' = Continued(SnapshotOf(job'))
                  \/ ContinueNothingLeft(ThisPage) /\ continuing' = Continued(SnapshotOf(job))
      BY <3>3 DEF ContinueMoves
    <3>4. QED BY <2>1, <3>1, <3>2, <3>3 DEF ServeContinue
  <2>2. CASE ServeCancel
    <3>1. CASE continuing' = continuing BY <3>1, <1>u
    <3>2. CASE continuing.step = "cancel" /\ continuing' = [continuing EXCEPT !.step = "canceled"]
      <4>1. continuing \in [step : {"cancel", "canceled"}, id : Nat]
        BY <3>2 DEF PageTypes, CallTypes, ContinueCall, Idle
      <4>2. QED BY <3>2, <4>1 DEF ContinueMoves
    <3>3. QED BY <2>2, <3>1, <3>2 DEF ServeCancel
  <2>3. CASE (\E s \in Slot : ServePoll(s)) \/ ServeStart
    BY <2>3, <1>u DEF ServePoll, ServeStart
  <2>4. QED BY <1>2, <2>1, <2>2, <2>3 DEF Serve
<1>3. CASE Answer
  <2>1. ASSUME NEW s \in Slot, PollAnswer(s) PROVE ContinueMoves
    <3>1. ASSUME continuing' = Awaited(s) PROVE ContinueMoves
      BY <3>1, <1>d DEF Awaited, ContinueMoves
    <3>2. CASE continuing' = continuing BY <3>2, <1>u
    <3>3. ASSUME NEW x \in Snapshot, NEW w, PollApplies(s, x, w) PROVE ContinueMoves
      <4>1. CASE continuing' = Awaited(s) BY <4>1, <3>1
      <4>2. CASE continuing' = [step |-> "sent", id |-> x.id, auto |-> TRUE] /\ starting = Idle
        <5>1. shown'.id = x.id /\ x.id \in Nat BY <3>3 DEF PollApplies, applySnapshot, Snapshot
        <5>2. QED BY <4>2, <5>1 DEF ContinueMoves
      <4>3. QED BY <3>3, <4>1, <4>2 DEF PollApplies, canAutoContinue
    <3>4. QED BY <2>1, <3>1, <3>2, <3>3, PollEffect DEF PollAnswer, PollGone, PollLost
  <2>2. CASE StartAnswer \/ CancelAnswer BY <2>2, <1>u DEF StartAnswer, CancelAnswer
  <2>3. CASE ContinueAnswer
    <3>1. CASE continuing.step = "ok" /\ ContinueAnswered
      <4>1. shown'.id = continuing.snap.id BY <3>1 DEF ContinueAnswered, applySnapshot
      <4>2. QED BY <3>1, <4>1, <1>d DEF ContinueAnswered, ContinueMoves
    <3>2. CASE ContinueFailed BY <3>2, <1>d DEF ContinueFailed, ContinueMoves
    <3>3. CASE ContinueCanceled BY <3>3 DEF ContinueCanceled, ContinueMoves
    <3>4. QED BY <2>3, <3>1, <3>2, <3>3 DEF ContinueAnswer
  <2>5. QED BY <1>3, <2>1, <2>2, <2>3 DEF Answer
<1>4. CASE Tick \/ PollDeadline BY <1>4, <1>u DEF Tick, PollDeadline
<1>5. CASE User
  <2>1. CASE handleContinue BY <2>1, <1>i DEF handleContinue, ContinueMoves
  <2>2. CASE handleStart \/ handleCancel \/ handleProtocolChange \/ Leave
    BY <2>2, <1>u DEF handleStart, handleCancel, handleProtocolChange, Leave
  <2>3. QED BY <1>5, <2>1, <2>2 DEF User
<1>6. CASE UNCHANGED vars BY <1>6, <1>u DEF vars, pageVars
<1>7. QED BY <1>1, <1>2, <1>3, <1>4, <1>5, <1>6 DEF Next

\* The interval is for the scan that is shown then.
LEMMA TimerStep ==
    ASSUME [Next]_vars
    PROVE  timer' \in {timer, 0, shown'.id}
<1>1. CASE EngineStep \/ JobExpires \/ OtherClient
  BY <1>1 DEF EngineStep, JobExpires, OtherClient, pageVars
<1>2. CASE Serve BY <1>2 DEF Serve, ServePoll, ServeStart, ServeContinue, ServeCancel
<1>3. CASE Answer
  BY <1>3 DEF Answer, PollAnswer, PollGone, PollLight, PollFull, PollLost, PollApplies, StartAnswer,
              ContinueAnswer, ContinueAnswered, applySnapshot, startPolling, CancelAnswer
<1>4. CASE Tick \/ PollDeadline BY <1>4 DEF Tick, PollDeadline
<1>5. CASE User
  BY <1>5 DEF User, handleStart, handleContinue, handleCancel, handleProtocolChange, Leave
<1>6. CASE UNCHANGED vars BY <1>6 DEF vars, pageVars
<1>7. QED BY <1>1, <1>2, <1>3, <1>4, <1>5, <1>6 DEF Next

\* How what is shown changes: by the answer to a poll, a continue or a start, or it is cleared.
ShownByPoll(s, x, w) ==
    /\ PollAnswer(s) /\ Tells(polls[s], x) /\ PollApplies(s, x, w)
    /\ \/ w
       \/ Len(x.devices) = Len(rows)
       \/ polls[s].step = "toldAll" /\ polls[s].full = Gone /\ polls[s].light = x
ShownByContinue ==
    /\ ContinueAnswer /\ continuing.step = "ok" /\ ContinueAnswered
    /\ UNCHANGED <<broken, waiting, autoStopped>>
ShownByStart ==
    /\ StartAnswer /\ starting.step = "ok" /\ UNCHANGED broken
    /\ shown' = [id |-> starting.snap.id, batch |-> starting.snap.batch,
                 state |-> starting.snap.state, more |-> starting.snap.more]
    /\ rows' = starting.snap.devices /\ given' = starting.snap.id - 1
    /\ startPolling(starting.snap.id)
ShownMoves ==
    \/ UNCHANGED <<shown, rows, given>>
    \/ \E s \in Slot, x \in Known, w \in BOOLEAN : ShownByPoll(s, x, w)
    \/ ShownByContinue \/ ShownByStart \/ handleProtocolChange

\* What is shown changes in no other way, and what was out of date once stays so.
LEMMA ShownStep ==
    ASSUME PageTypes, [Next]_vars
    PROVE  ShownMoves /\ (late => late')
<1> USE DEF ShownMoves
<1>1. CASE EngineStep \/ JobExpires \/ OtherClient
  BY <1>1 DEF EngineStep, JobExpires, OtherClient, pageVars, pastVars
<1>2. CASE Serve BY <1>2 DEF Serve, ServePoll, ServeStart, ServeContinue, ServeCancel, pastVars
<1>3. CASE Answer
  <2>1. ASSUME NEW s \in Slot, PollAnswer(s) PROVE ShownMoves /\ (late => late')
    <3>g. given' = given BY <2>1 DEF PollAnswer
    <3>1. ASSUME NEW x \in Snapshot, NEW w \in BOOLEAN, ShownByPoll(s, x, w)
          PROVE  ShownMoves /\ (late => late')
      <4>1. x \in Known BY <3>1 DEF ShownByPoll, Known
      <4>2. late => late' BY <3>1 DEF ShownByPoll, PollApplies, applySnapshot
      <4>3. QED BY <3>1, <4>1, <4>2
    <3>2. CASE UNCHANGED <<shown, rows, late>> BY <3>2, <3>g
    <3>3. CASE PollGone(s) BY <3>3, <3>g DEF PollGone
    <3>4. CASE /\ polls[s].step = "told" /\ polls[s].light \in Snapshot
               /\ Len(polls[s].light.devices) = Len(rows)
               /\ PollApplies(s, polls[s].light, FALSE)
      <4>1. ShownByPoll(s, polls[s].light, FALSE) BY <2>1, <3>4 DEF ShownByPoll, Tells
      <4>2. QED BY <3>4, <4>1, <3>1
    <3>5. CASE /\ polls[s].step = "toldAll" /\ polls[s].full = Gone /\ polls[s].light \in Snapshot
               /\ PollApplies(s, polls[s].light, FALSE)
      <4>1. ShownByPoll(s, polls[s].light, FALSE) BY <2>1, <3>5 DEF ShownByPoll, Tells
      <4>2. QED BY <3>5, <4>1, <3>1
    <3>6. CASE /\ polls[s].step = "toldAll" /\ polls[s].full \in Snapshot
               /\ PollApplies(s, polls[s].full, TRUE)
      <4>1. ShownByPoll(s, polls[s].full, TRUE) BY <2>1, <3>6 DEF ShownByPoll, Tells
      <4>2. QED BY <3>6, <4>1, <3>1
    <3>7. QED BY <2>1, <3>2, <3>3, <3>4, <3>5, <3>6, PollEffect DEF PollAnswer, PollLost
  <2>2. CASE StartAnswer BY <2>2 DEF StartAnswer, ShownByStart
  <2>3. CASE ContinueAnswer
    <3>0. given' = given BY <2>3 DEF ContinueAnswer
    <3>1. CASE /\ continuing.step = "ok" /\ ContinueAnswered
               /\ UNCHANGED <<broken, waiting, autoStopped>>
      <4>1. ShownByContinue BY <2>3, <3>1 DEF ShownByContinue
      <4>2. late => late' BY <3>1 DEF ContinueAnswered, applySnapshot
      <4>3. QED BY <4>1, <4>2
    <3>2. CASE UNCHANGED <<shown, rows, late>> BY <3>0, <3>2
    <3>3. QED BY <2>3, <3>1, <3>2 DEF ContinueAnswer
  <2>4. CASE CancelAnswer BY <2>4 DEF CancelAnswer
  <2>5. QED BY <1>3, <2>1, <2>2, <2>3, <2>4 DEF Answer
<1>4. CASE Tick \/ PollDeadline BY <1>4 DEF Tick, PollDeadline, pastVars
<1>5. CASE User
  BY <1>5 DEF User, handleStart, handleContinue, handleCancel, handleProtocolChange, Leave, pastVars
<1>6. CASE UNCHANGED vars BY <1>6 DEF vars, pageVars, pastVars
<1>7. QED BY <1>1, <1>2, <1>3, <1>4, <1>5, <1>6 DEF Next

\* What is known anew is what the job is like now.
LEMMA KnownStep ==
    ASSUME EngineInv, PageTypes, [Next]_vars, NEW x \in Known'
    PROVE  x \in Known \/ (job'.id # 0 /\ x = SnapshotOf(job'))
<1>x. x \in Snapshot BY DEF Known
<1>g. x # Gone BY <1>x DEF Snapshot, Gone
<1>1. CASE job'.id # 0 /\ x = SnapshotOf(job') BY <1>1
<1>2. CASE starting'.step = "ok" /\ x = starting'.snap BY <1>2, <1>x, StartingStep DEF Known
<1>3. CASE continuing'.step = "ok" /\ x = continuing'.snap
  <2>1. CASE continuing' = continuing BY <1>3, <2>1, <1>x DEF Known
  <2>2. CASE ContinueBatch(ThisPage) /\ continuing' = Continued(SnapshotOf(job'))
    <3>1. job'.id # 0 BY <2>2 DEF ContinueBatch, MayContinue, Found, EngineInv, ScanTypeOK, Job
    <3>2. QED BY <3>1, <2>2, <1>3 DEF Continued
  <2>3. CASE ContinueNothingLeft(ThisPage) /\ continuing' = Continued(SnapshotOf(job))
    <3>1. job.id # 0 BY <2>3 DEF ContinueNothingLeft, MayContinue, Found
    <3>2. QED BY <3>1, <2>3, <1>3, <1>x DEF Continued, Known
  <2>4. QED BY <1>3, <2>1, <2>2, <2>3, ContinueStepMoves DEF ContinueMoves
<1>4. ASSUME NEW q \in Slot, Tells(polls'[q], x) PROVE x \in Known
  <2>1. CASE polls'[q] = polls[q] BY <1>4, <2>1, <1>x DEF Known
  <2>2. ASSUME x = Told(polls[q].id) PROVE x \in Known
    <3>1. job.id # 0 /\ x = SnapshotOf(job) BY <2>2, <1>g DEF Told, Found
    <3>2. QED BY <3>1, <1>x DEF Known
  <2>3. ASSUME polls[q].step \in {"told", "askAll"}, x = polls[q].light PROVE x \in Known
    <3>1. Tells(polls[q], x) BY <2>3 DEF Tells
    <3>2. QED BY <3>1, <1>x DEF Known
  <2>4. ASSUME polls'[q].step \in {"idle", "ask"} PROVE FALSE BY <1>4, <2>4 DEF Tells
  <2>i. ASSUME polls'[q] = Idle PROVE FALSE
    <3>1. polls'[q].step = "idle" BY <2>i DEF Idle
    <3>2. QED BY <3>1, <2>4
  <2>a. ASSUME NEW i \in Nat, polls'[q] = Ask(i) PROVE FALSE
    <3>1. polls'[q].step = "ask" BY <2>a DEF Ask
    <3>2. QED BY <3>1, <2>4
  <2>5. CASE polls'[q] = [step |-> "told", id |-> polls[q].id, light |-> Told(polls[q].id)]
    BY <1>4, <2>5, <2>2 DEF Tells
  <2>6. CASE /\ polls[q].step = "told"
             /\ polls'[q] = [step |-> "askAll", id |-> polls[q].id, light |-> polls[q].light]
    BY <1>4, <2>6, <2>3 DEF Tells
  <2>7. CASE /\ polls[q].step = "askAll"
             /\ polls'[q] = [step |-> "toldAll", id |-> polls[q].id, light |-> polls[q].light,
                             full |-> Told(polls[q].id)]
    BY <1>4, <2>7, <2>2, <2>3 DEF Tells
  <2>8. QED BY <2>1, <2>i, <2>a, <2>5, <2>6, <2>7, PollStep DEF PollMoves
<1>5. QED BY <1>1, <1>2, <1>3, <1>4 DEF Known, SnapshotOf

\* The page only begins to ask for what it shows.
LEMMA AskedStep ==
    ASSUME PageTypes, [Next]_vars, NEW i \in Asked'
    PROVE  i \in Asked \/ i = shown'.id \/ i = 0
<1>i. i \in Nat BY DEF Asked
<1>d. Idle.step = "idle" BY DEF Idle
<1>1. CASE i = timer' BY <1>1, <1>i, TimerStep DEF Asked
<1>2. ASSUME NEW q \in Slot, polls'[q] # Idle, polls'[q].id = i PROVE i \in Asked \/ i = shown'.id
  <2>1. CASE polls[q] # Idle /\ polls'[q].id = polls[q].id BY <1>2, <2>1, <1>i DEF Asked
  <2>2. CASE \E j \in Nat : polls'[q] = Ask(j) /\ (j \in Asked \/ j = shown'.id)
    BY <1>2, <2>2 DEF Ask
  <2>3. CASE /\ polls[q].step \in {"ask", "told", "askAll"}
             /\ \/ polls'[q] = [step |-> "told", id |-> polls[q].id, light |-> Told(polls[q].id)]
                \/ polls'[q] = [step |-> "askAll", id |-> polls[q].id, light |-> polls[q].light]
                \/ polls'[q] = [step |-> "toldAll", id |-> polls[q].id, light |-> polls[q].light,
                                full |-> Told(polls[q].id)]
    <3>1. polls[q] # Idle BY <2>3, <1>d
    <3>2. polls'[q].id = polls[q].id BY <2>3
    <3>3. QED BY <3>1, <3>2, <2>1
  <2>4. CASE polls'[q] = polls[q] BY <1>2, <2>1, <2>4
  <2>5. QED BY <1>2, <2>2, <2>3, <2>4, PollStep DEF PollMoves
<1>3. ASSUME continuing'.step \in {"sent", "waiting", "ok", "failed", "cancel", "canceled"},
             continuing'.id = i
      PROVE  i \in Asked \/ i = shown'.id
  <2>1. CASE /\ continuing.step \in {"sent", "waiting", "ok", "failed", "cancel", "canceled"}
             /\ continuing'.id = continuing.id
    BY <1>3, <2>1, <1>i DEF Asked
  <2>2. CASE continuing'.id = shown'.id BY <1>3, <2>2
  <2>3. QED BY <1>3, <2>1, <2>2, ContinueStepMoves DEF ContinueMoves, Continued
<1>4. QED BY <1>1, <1>2, <1>3 DEF Asked

\* Jobs are counted up; the job is forgotten, kept or replaced by a new one.
LEMMA JobMoves ==
    ASSUME plan \in Plan, EngineInv, [Next]_vars
    PROVE  /\ jobs' \in Nat /\ jobs <= jobs'
           /\ \/ job' = NoJob
              \/ job'.id = job.id
              \/ job'.id = jobs + 1
<1>j. jobs \in Nat /\ job \in Job BY DEF EngineInv, ScanTypeOK
<1>1. CASE Calm BY <1>1, <1>j, CalmStep
<1>2. ASSUME NEW n \in Position, NEW prefilter \in BOOLEAN, Submit(n, prefilter)
      PROVE  jobs' = jobs + 1 /\ job'.id = jobs + 1
  BY <1>2 DEF Submit
<1>3. ASSUME NEW c \in Caller, ContinueBatch(c) PROVE jobs' = jobs /\ job'.id = job.id
  BY <1>3, <1>j DEF ContinueBatch, Job
<1>4. CASE OwnStart \/ OtherStart BY <1>4, <1>2, <1>j DEF OwnStart, OtherStart
<1>5. CASE OwnContinue \/ OtherContinue
  <2>1. \E c \in Caller : ContinueBatch(c)
    BY <1>5, ScanPageAssumption DEF OwnContinue, OtherContinue, Other
  <2>2. QED BY <2>1, <1>3, <1>j
<1>6. QED BY <1>1, <1>4, <1>5, BatchStarts

\* Only the page itself changes what it waits for at the engine.
LEMMA WaitingStep ==
    ASSUME EngineInv, [Next]_vars
    PROVE  \/ waiting'[ThisPage] = waiting[ThisPage]
           \/ ServeContinue
           \/ ContinueAnswer /\ continuing' = Idle /\ waiting'[ThisPage] = None
<1>w. ThisPage \in Caller /\ ThisPage \notin Other /\ waiting \in [Caller -> [job : Nat, batch : Nat]]
  BY ScanPageAssumption DEF EngineInv, ScanTypeOK, Other
<1>1. CASE EngineStep
  BY <1>1 DEF EngineStep, RunStep, PrefilterKeep, PrefilterDead, PrefilterDone, Dispatch,
              BreakDispatch, ProbeOne, Finish, CloseDone, batchFrame
<1>2. CASE JobExpires BY <1>2 DEF JobExpires, Expire
<1>3. CASE OtherClient
  <2>1. ASSUME NEW c \in Other, \/ ContinueBegin(c, job.id) \/ ContinueBatch(c) \/ ContinueNothingLeft(c)
                                \/ ContinueRefused(c) \/ ContinueTimeout(c)
        PROVE  waiting'[ThisPage] = waiting[ThisPage]
    <3>1. \E v : waiting' = [waiting EXCEPT ![c] = v]
      BY <2>1 DEF ContinueBegin, ContinueBatch, ContinueNothingLeft, ContinueRefused, ContinueTimeout,
                  ContinueGoesOn
    <3>2. QED BY <3>1, <1>w
  <2>2. QED BY <1>3, <2>1 DEF OtherClient, Submit, Cancel, StopBegin, StopReturn
<1>4. CASE Serve
  BY <1>4 DEF Serve, ServePoll, ServeStart, ServeCancel, Lookup, Submit, Cancel, scanVars
<1>5. CASE Answer
  <2>1. CASE ContinueAnswer
    BY <2>1, <1>w DEF ContinueAnswer, ContinueFailed
  <2>2. QED BY <1>5, <2>1 DEF Answer, PollAnswer, StartAnswer, CancelAnswer, scanVars
<1>6. CASE Tick \/ PollDeadline BY <1>6 DEF Tick, PollDeadline, scanVars
<1>7. CASE User
  BY <1>7 DEF User, handleStart, handleContinue, handleCancel, handleProtocolChange, Leave, scanVars
<1>8. CASE UNCHANGED vars BY <1>8 DEF vars, scanVars
<1>9. QED BY <1>1, <1>2, <1>3, <1>4, <1>5, <1>6, <1>7, <1>8 DEF Next

(***************************************************************************)
(* Jobs are numbered: what is shown, asked for or known is no job to come. *)
(***************************************************************************)
IdsBound ==
    /\ shown.id <= jobs /\ given <= jobs /\ waiting[ThisPage].job <= jobs
    /\ \A i \in Asked : i <= jobs
    /\ \A x \in Known : x.id <= jobs

\* The calls that may change what this page waits for at the engine.
WaitMoves ==
    \/ waiting'[ThisPage] = waiting[ThisPage]
    \/ waiting'[ThisPage] = None
    \/ /\ waiting'[ThisPage] = [job |-> continuing.id, batch |-> job.batch]
       /\ continuing.id = job.id /\ continuing.step = "sent"

\* What the page waits for at the engine changes in no other way.
LEMMA WaitStep ==
    ASSUME EngineInv, [Next]_vars
    PROVE  WaitMoves
<1>w. ThisPage \in Caller /\ waiting \in [Caller -> [job : Nat, batch : Nat]]
  BY ScanPageAssumption DEF EngineInv, ScanTypeOK
<1>1. CASE ServeContinue
  <2>1. CASE ContinueBegin(ThisPage, continuing.id) /\ continuing.step = "sent"
    BY <2>1, <1>w DEF ContinueBegin, MayContinue, Found, WaitMoves
  <2>2. CASE Lookup(continuing.id) BY <2>2 DEF Lookup, WaitMoves
  <2>3. CASE ContinueBatch(ThisPage) \/ ContinueNothingLeft(ThisPage) \/ ContinueRefused(ThisPage)
    BY <2>3, <1>w DEF ContinueBatch, ContinueNothingLeft, ContinueRefused, ContinueGoesOn, WaitMoves
  <2>4. QED BY <1>1, <2>1, <2>2, <2>3 DEF ServeContinue
<1>2. QED BY <1>1, WaitingStep DEF WaitMoves

\* New jobs get new numbers.
LEMMA IdsBoundStep ==
    ASSUME plan \in Plan, EngineInv, EngineInv', PageTypes, IdsBound, [Next]_vars
    PROVE  IdsBound'
<1>j. jobs \in Nat /\ jobs' \in Nat /\ jobs <= jobs' BY JobMoves DEF EngineInv, ScanTypeOK
<1>k. \A x \in Known : x.id \in Nat \ {0} /\ x.id <= jobs' BY <1>j DEF IdsBound, Known, Snapshot
<1>t. shown.id \in Nat /\ given \in Nat /\ Asked \subseteq Nat
  BY DEF PageTypes, ShownTypes, FlagTypes, Shown, Asked
<1>1. shown'.id <= jobs' /\ given' <= jobs'
  <2>0. shown.id <= jobs' /\ given <= jobs' BY <1>j, <1>t DEF IdsBound
  <2>1. CASE UNCHANGED <<shown, rows, given>> BY <2>1, <2>0
  <2>2. ASSUME NEW s \in Slot, NEW x \in Known, NEW w \in BOOLEAN, ShownByPoll(s, x, w)
        PROVE  shown'.id <= jobs' /\ given' <= jobs'
    <3>1. shown'.id = x.id /\ given' = given
      BY <2>2 DEF ShownByPoll, PollAnswer, PollApplies, applySnapshot
    <3>2. QED BY <3>1, <2>0, <1>k
  <2>3. CASE ShownByContinue
    <3>1. continuing.snap \in Known BY <2>3, CallParts DEF ShownByContinue, PageTypes, Known
    <3>2. shown'.id = continuing.snap.id /\ given' = given
      BY <2>3 DEF ShownByContinue, ContinueAnswer, ContinueAnswered, applySnapshot
    <3>3. QED BY <3>1, <3>2, <2>0, <1>k
  <2>4. CASE ShownByStart
    <3>1. starting.snap \in Known BY <2>4, CallParts DEF ShownByStart, PageTypes, Known
    <3>2. shown'.id = starting.snap.id /\ given' = starting.snap.id - 1 BY <2>4 DEF ShownByStart
    <3>3. QED BY <3>1, <3>2, <1>k, <1>j
  <2>5. CASE handleProtocolChange
    BY <2>5, <2>0, <1>j DEF handleProtocolChange, NothingShown
  <2>6. QED BY <2>1, <2>2, <2>3, <2>4, <2>5, ShownStep DEF ShownMoves
<1>2. waiting'[ThisPage].job <= jobs'
  <2>1. waiting[ThisPage].job \in Nat /\ job.id \in Nat
    BY ScanPageAssumption DEF EngineInv, ScanTypeOK, Job
  <2>2. job.id <= jobs BY <1>j DEF EngineInv, JobInv
  <2>3. waiting'[ThisPage].job \in {waiting[ThisPage].job, 0, job.id} BY WaitStep DEF WaitMoves, None
  <2>4. QED BY <1>j, <2>1, <2>2, <2>3 DEF IdsBound
<1>3. ASSUME NEW i \in Asked' PROVE i <= jobs'
  <2>1. i \in Asked \/ i = shown'.id \/ i = 0 BY AskedStep
  <2>2. ASSUME i \in Asked PROVE i <= jobs'
    <3>1. i \in Nat /\ i <= jobs BY <2>2, <1>t DEF IdsBound
    <3>2. QED BY <3>1, <1>j
  <2>3. QED BY <2>1, <2>2, <1>1, <1>j
<1>4. ASSUME NEW x \in Known' PROVE x.id <= jobs'
  <2>1. CASE x \in Known BY <2>1, <1>k
  <2>2. CASE job'.id # 0 /\ x = SnapshotOf(job')
    <3>1. job'.id = jobs' BY <2>2 DEF EngineInv, JobInv
    <3>2. QED BY <2>2, <3>1, <1>j DEF SnapshotOf
  <2>3. QED BY <2>1, <2>2, KnownStep
<1>5. QED BY <1>1, <1>2, <1>3, <1>4 DEF IdsBound

(***************************************************************************)
(* An answer is an answer to what was asked.                               *)
(***************************************************************************)
AnswersInv ==
    /\ \A s \in Slot, x \in Snapshot : Tells(polls[s], x) => x.id = polls[s].id
    /\ \A s \in Slot : polls[s].step = "toldAll" /\ polls[s].full = Gone => polls[s].light.id # job.id
    /\ continuing.step = "waiting" => waiting[ThisPage].job = continuing.id
    /\ continuing.step = "ok" => /\ continuing.snap.id = continuing.id
                                 /\ ~(continuing.snap.state = "done" /\ continuing.snap.more)
    /\ starting.step = "ok" => starting.snap.state = "running"
    /\ shown.id = 0 => shown = NothingShown /\ rows = <<>>

\* What the engine told stays an answer to what was asked, though the job goes on.
LEMMA AnswersStep ==
    ASSUME plan \in Plan, EngineInv, EngineInv', PageTypes, IdsBound, AnswersInv, [Next]_vars
    PROVE  AnswersInv'
<1>j. jobs \in Nat /\ job \in Job BY DEF EngineInv, ScanTypeOK
<1>t. Told(0) = Gone /\ \A i : Told(i) \in Snapshot => i # 0 /\ Told(i).id = i
  BY DEF Told, Found, Gone, Snapshot, SnapshotOf
<1>1. ASSUME NEW s \in Slot, NEW x \in Snapshot, Tells(polls'[s], x) PROVE x.id = polls'[s].id
  <2>0. Tells(polls[s], x) => x.id = polls[s].id BY DEF AnswersInv
  <2>1. CASE polls'[s] = polls[s] BY <2>0, <2>1, <1>1
  <2>i. ASSUME polls'[s] = Idle PROVE FALSE
    <3>1. polls'[s].step = "idle" BY <2>i DEF Idle
    <3>2. QED BY <3>1, <1>1 DEF Tells
  <2>a. ASSUME NEW i \in Nat, polls'[s] = Ask(i) PROVE FALSE
    <3>1. polls'[s].step = "ask" BY <2>a DEF Ask
    <3>2. QED BY <3>1, <1>1 DEF Tells
  <2>2. CASE polls'[s] = [step |-> "told", id |-> polls[s].id, light |-> Told(polls[s].id)]
    BY <2>2, <1>1, <1>t DEF Tells
  <2>3. CASE /\ polls[s].step = "told"
             /\ polls'[s] = [step |-> "askAll", id |-> polls[s].id, light |-> polls[s].light]
    BY <2>3, <2>0, <1>1 DEF Tells
  <2>4. CASE /\ polls[s].step = "askAll"
             /\ polls'[s] = [step |-> "toldAll", id |-> polls[s].id, light |-> polls[s].light,
                             full |-> Told(polls[s].id)]
    <3>1. x = polls[s].light \/ x = Told(polls[s].id) BY <2>4, <1>1 DEF Tells
    <3>2. x = polls[s].light => Tells(polls[s], x) BY <2>4 DEF Tells
    <3>3. polls'[s].id = polls[s].id BY <2>4
    <3>4. QED BY <3>1, <3>2, <3>3, <2>0, <1>t
  <2>5. QED BY <2>1, <2>i, <2>a, <2>2, <2>3, <2>4, PollStep DEF PollMoves
<1>2. ASSUME NEW s \in Slot, polls'[s].step = "toldAll", polls'[s].full = Gone
      PROVE  polls'[s].light.id # job'.id
  <2>p. polls[s] \in Poll BY DEF PageTypes
  <2>l. ASSUME polls[s].step \in {"askAll", "toldAll"}
        PROVE  polls[s].light \in Known /\ polls[s].light.id = polls[s].id
               /\ polls[s].light.id \in Nat \ {0} /\ polls[s].light.id <= jobs
    <3>1. polls[s].light \in Snapshot /\ Tells(polls[s], polls[s].light)
      BY <2>l, <2>p, PollParts DEF Tells
    <3>2. QED BY <3>1 DEF Known, AnswersInv, IdsBound, Snapshot
  <2>1. CASE polls'[s] = polls[s]
    <3>1. polls[s].light.id # job.id BY <1>2, <2>1 DEF AnswersInv
    <3>2. polls[s].light.id \in Nat \ {0} /\ polls[s].light.id <= jobs BY <2>l, <2>1, <1>2
    <3>3. CASE job' = NoJob BY <3>3, <3>2, <2>1 DEF NoJob
    <3>4. QED BY <3>1, <3>2, <3>3, <2>1, <1>j, JobMoves
  <2>i. ASSUME polls'[s] = Idle PROVE FALSE
    <3>1. polls'[s].step = "idle" BY <2>i DEF Idle
    <3>2. QED BY <3>1, <1>2
  <2>2. CASE /\ polls[s].step = "askAll" /\ Lookup(polls[s].id)
             /\ polls'[s] = [step |-> "toldAll", id |-> polls[s].id, light |-> polls[s].light,
                             full |-> Told(polls[s].id)]
    <3>1. polls[s].light.id = polls[s].id /\ polls[s].light.id # 0 BY <2>2, <2>l
    <3>2. ~Found(polls[s].id)
      <4>1. ASSUME Found(polls[s].id) PROVE FALSE
        <5>1. Told(polls[s].id) = SnapshotOf(job) /\ job.id # 0 BY <4>1 DEF Told, Found
        <5>2. Told(polls[s].id) \in Snapshot BY <5>1, JobSnapshot
        <5>3. Told(polls[s].id) = Gone BY <2>2, <1>2
        <5>4. QED BY <5>2, <5>3 DEF Snapshot, Gone
      <4>2. QED BY <4>1
    <3>3. polls'[s].light = polls[s].light BY <2>2
    <3>4. CASE job.id = polls[s].id
      <4>1. job' = NoJob BY <2>2, <3>1, <3>2, <3>4 DEF Lookup, Found
      <4>2. QED BY <3>1, <3>3, <4>1 DEF NoJob
    <3>5. CASE job.id # polls[s].id
      <4>1. job' = job BY <2>2, <3>5 DEF Lookup
      <4>2. QED BY <3>1, <3>3, <3>5, <4>1
    <3>6. QED BY <3>4, <3>5
  <2>3. ASSUME polls'[s].step \in {"ask", "told", "askAll"} PROVE FALSE BY <2>3, <1>2
  <2>4. ASSUME NEW i \in Nat, polls'[s] = Ask(i) PROVE FALSE
    <3>1. polls'[s].step = "ask" BY <2>4 DEF Ask
    <3>2. QED BY <3>1, <2>3
  <2>5. ASSUME \/ polls'[s] = [step |-> "told", id |-> polls[s].id, light |-> Told(polls[s].id)]
               \/ polls'[s] = [step |-> "askAll", id |-> polls[s].id, light |-> polls[s].light]
        PROVE  FALSE
    BY <2>5, <2>3
  <2>6. QED BY <2>1, <2>i, <2>2, <2>4, <2>5, PollStep DEF PollMoves
<1>3. ASSUME continuing'.step = "waiting" PROVE waiting'[ThisPage].job = continuing'.id
  <2>1. CASE continuing' = continuing
    <3>1. waiting[ThisPage].job = continuing.id BY <1>3, <2>1 DEF AnswersInv
    <3>2. ~ServeContinue
      <4>1. ASSUME ServeContinue PROVE FALSE
        <5>1. continuing.step = "waiting" BY <1>3, <2>1
        <5>2. continuing'.step \in {"ok", "failed"}
          <6>1. \A x : Continued(x).step = "ok" BY DEF Continued
          <6>2. continuing \in [step : {"sent", "waiting", "failed"}, id : Nat, auto : BOOLEAN]
            BY <5>1 DEF PageTypes, CallTypes, ContinueCall, Idle
          <6>3. QED BY <4>1, <5>1, <6>1, <6>2 DEF ServeContinue
        <5>3. QED BY <5>2, <1>3
      <4>2. QED BY <4>1
    <3>3. continuing' # Idle BY <1>3 DEF Idle
    <3>4. QED BY <2>1, <3>1, <3>2, <3>3, WaitingStep
  <2>2. CASE continuing'.id = continuing.id /\ ContinueBegin(ThisPage, continuing.id)
    <3>1. waiting'[ThisPage] = [job |-> continuing.id, batch |-> job.batch]
      BY <2>2, ScanPageAssumption DEF ContinueBegin, EngineInv, ScanTypeOK
    <3>2. QED BY <2>2, <3>1
  <2>3. QED BY <1>3, <2>1, <2>2, ContinueStepMoves DEF ContinueMoves, Continued
<1>4. ASSUME continuing'.step = "ok"
      PROVE  /\ continuing'.snap.id = continuing'.id
             /\ ~(continuing'.snap.state = "done" /\ continuing'.snap.more)
  <2>1. CASE continuing' = continuing BY <1>4, <2>1 DEF AnswersInv
  <2>2. CASE /\ continuing.step = "waiting" /\ ContinueBatch(ThisPage)
             /\ continuing' = Continued(SnapshotOf(job'))
    <3>1. job.id = continuing.id BY <2>2 DEF ContinueBatch, MayContinue, Found, AnswersInv
    <3>2. job'.id = job.id /\ job'.state = "running" BY <2>2, <1>j DEF ContinueBatch, Job
    <3>3. /\ continuing'.id = continuing.id /\ continuing'.snap.id = job'.id
          /\ continuing'.snap.state = job'.state
      BY <2>2 DEF Continued, SnapshotOf
    <3>4. QED BY <3>1, <3>2, <3>3
  <2>3. CASE /\ continuing.step = "waiting" /\ ContinueNothingLeft(ThisPage)
             /\ continuing' = Continued(SnapshotOf(job))
    <3>1. job.id = continuing.id /\ Remaining = 0
      BY <2>3 DEF ContinueNothingLeft, MayContinue, Found, AnswersInv
    <3>2. /\ continuing'.id = continuing.id /\ continuing'.snap.id = job.id
          /\ continuing'.snap.state = job.state
      BY <2>3 DEF Continued, SnapshotOf
    <3>3. continuing'.snap.more =
              (\/ job.offset < job.requested
               \/ job.state = "canceled" /\ job.scanned < job.offset - job.batchStart)
      BY <2>3 DEF Continued, SnapshotOf
    <3>4. job.state = "done" => ~(job.offset < job.requested)
      <4>1. job.offset \in Nat /\ job.requested \in Nat
        BY <1>j, DeviceScanAssumption DEF Job
      <4>2. job.state = "done" => job.requested - job.offset = 0
        BY <3>1, <4>1 DEF Remaining, CanceledMidBatch
      <4>3. QED BY <4>1, <4>2
    <3>5. QED BY <3>1, <3>2, <3>3, <3>4
  <2>4. QED BY <1>4, <2>1, <2>2, <2>3, ContinueStepMoves DEF ContinueMoves
<1>5. ASSUME starting'.step = "ok" PROVE starting'.snap.state = "running"
  BY <1>5, StartingStep DEF AnswersInv, SnapshotOf
<1>6. ASSUME shown'.id = 0 PROVE shown' = NothingShown /\ rows' = <<>>
  <2>1. CASE UNCHANGED <<shown, rows, given>> BY <1>6, <2>1 DEF AnswersInv
  <2>2. ASSUME NEW s \in Slot, NEW x \in Known, NEW w \in BOOLEAN, ShownByPoll(s, x, w) PROVE FALSE
    BY <1>6, <2>2 DEF ShownByPoll, PollApplies, applySnapshot, Known, Snapshot
  <2>3. CASE ShownByContinue
    <3>1. continuing.snap \in Snapshot BY <2>3, CallParts DEF ShownByContinue, PageTypes
    <3>2. QED BY <1>6, <2>3, <3>1 DEF ShownByContinue, ContinueAnswered, applySnapshot, Snapshot
  <2>4. CASE ShownByStart
    <3>1. starting.snap \in Snapshot BY <2>4, CallParts DEF ShownByStart, PageTypes
    <3>2. QED BY <1>6, <2>4, <3>1 DEF ShownByStart, Snapshot
  <2>5. CASE handleProtocolChange BY <2>5 DEF handleProtocolChange
  <2>6. QED BY <2>1, <2>2, <2>3, <2>4, <2>5, ShownStep DEF ShownMoves
<1>7. QED BY <1>1, <1>2, <1>3, <1>4, <1>5, <1>6 DEF AnswersInv

(***************************************************************************)
(* As long as no answer was out of date, the page is ahead of what it asks *)
(* for: no answer to a poll or a continue takes it to another job.         *)
(***************************************************************************)
OrderInv ==
    ~late => /\ \A i \in Asked : i <= shown.id \/ i <= given
             /\ starting.step = "ok" => shown.id < starting.snap.id /\ given < starting.snap.id

\* An answer in order tells of the scan that is shown.
LEMMA SameScan ==
    ASSUME PageTypes, AnswersInv, OrderInv, ~late'
    PROVE  /\ \A s \in Slot, x \in Known, w \in BOOLEAN : ShownByPoll(s, x, w)
                 => ~Outdated(x) /\ x.id = shown.id /\ shown'.id = shown.id /\ given' = given
           /\ ShownByContinue
                 => ~Outdated(continuing.snap) /\ shown'.id = shown.id /\ given' = given
<1>t. shown.id \in Nat /\ given \in Nat BY DEF PageTypes, ShownTypes, FlagTypes, Shown
<1>1. ASSUME NEW x \in Snapshot, ~late, ~Outdated(x), x.id \in Asked PROVE x.id = shown.id
  <2>1. x.id \in Nat BY DEF Snapshot
  <2>2. ~(x.id <= given) /\ ~(x.id < shown.id) BY <1>1 DEF Outdated
  <2>3. x.id <= shown.id \/ x.id <= given BY <1>1 DEF OrderInv
  <2>4. QED BY <2>1, <2>2, <2>3, <1>t
<1>2. ASSUME NEW s \in Slot, NEW x \in Known, NEW w \in BOOLEAN, ShownByPoll(s, x, w)
      PROVE  ~Outdated(x) /\ x.id = shown.id /\ shown'.id = shown.id /\ given' = given
  <2>1. /\ late' = (late \/ Outdated(x)) /\ shown'.id = x.id /\ given' = given
    BY <1>2 DEF ShownByPoll, PollAnswer, PollApplies, applySnapshot
  <2>2. x \in Snapshot /\ x.id = polls[s].id /\ polls[s] # Idle
    BY <1>2 DEF ShownByPoll, AnswersInv, Known, Tells, Idle
  <2>3. x.id \in Asked BY <2>2 DEF Asked, Snapshot
  <2>4. QED BY <2>1, <2>2, <2>3, <1>1
<1>3. ASSUME ShownByContinue
      PROVE  ~Outdated(continuing.snap) /\ shown'.id = shown.id /\ given' = given
  <2>1. /\ late' = (late \/ Outdated(continuing.snap)) /\ shown'.id = continuing.snap.id
        /\ given' = given
    BY <1>3 DEF ShownByContinue, ContinueAnswer, ContinueAnswered, applySnapshot
  <2>2. continuing.step = "ok" /\ continuing.snap \in Snapshot
    BY <1>3, CallParts DEF ShownByContinue, PageTypes
  <2>3. continuing.snap.id = continuing.id BY <2>2 DEF AnswersInv
  <2>4. continuing.snap.id \in Asked BY <2>2, <2>3 DEF Asked, Snapshot
  <2>5. ~late /\ ~Outdated(continuing.snap) BY <2>1
  <2>6. continuing.snap.id = shown.id BY <2>2, <2>4, <2>5, <1>1
  <2>7. QED BY <2>1, <2>5, <2>6
<1>4. QED BY <1>2, <1>3

\* Starting or turning away from a scan leaves behind all that was asked for.
LEMMA OrderStep ==
    ASSUME plan \in Plan, EngineInv, PageTypes, IdsBound, AnswersInv, OrderInv, [Next]_vars
    PROVE  OrderInv'
<1> SUFFICES ASSUME ~late'
             PROVE  /\ \A i \in Asked' : i <= shown'.id \/ i <= given'
                    /\ starting'.step = "ok"
                         => shown'.id < starting'.snap.id /\ given' < starting'.snap.id
  BY DEF OrderInv
<1>l. ~late BY ShownStep
<1>t. shown.id \in Nat /\ given \in Nat /\ Asked \subseteq Nat /\ jobs \in Nat
  BY DEF PageTypes, ShownTypes, FlagTypes, Shown, Asked, EngineInv, ScanTypeOK
<1>o. \A i \in Asked : i \in Nat /\ (i <= shown.id \/ i <= given) BY <1>l, <1>t DEF OrderInv
<1>1. CASE ShownByStart
  <2>1. starting.snap \in Snapshot /\ starting.step = "ok" BY <1>1, CallParts DEF ShownByStart, PageTypes
  <2>2. starting.snap.id \in Nat /\ shown.id < starting.snap.id /\ given < starting.snap.id
    BY <2>1, <1>l DEF OrderInv, Snapshot
  <2>3. shown'.id = starting.snap.id /\ given' = starting.snap.id - 1 BY <1>1 DEF ShownByStart
  <2>4. starting'.step # "ok" BY <1>1 DEF ShownByStart, StartAnswer, Idle
  <2>5. ASSUME NEW i \in Asked' PROVE i <= shown'.id \/ i <= given'
    <3>1. i \in Asked \/ i = shown'.id \/ i = 0 BY AskedStep
    <3>2. i \in Asked => i \in Nat /\ (i <= shown.id \/ i <= given) BY <1>o
    <3>3. QED BY <3>1, <3>2, <2>2, <2>3, <1>t
  <2>6. QED BY <2>4, <2>5
<1>2. CASE ~ShownByStart
  <2>1. \/ shown'.id = shown.id /\ given' = given
        \/ shown'.id = 0 /\ given' \in {given, shown.id} /\ shown.id <= given' /\ given <= given'
    <3>1. CASE UNCHANGED <<shown, rows, given>> BY <3>1
    <3>2. CASE handleProtocolChange BY <3>2, <1>t DEF handleProtocolChange, NothingShown
    <3>3. QED BY <1>2, <3>1, <3>2, SameScan, ShownStep DEF ShownMoves
  <2>2. ASSUME NEW i \in Asked' PROVE i <= shown'.id \/ i <= given'
    <3>1. i \in Asked \/ i = shown'.id \/ i = 0 BY AskedStep
    <3>2. i \in Asked => i \in Nat /\ (i <= shown.id \/ i <= given) BY <1>o
    <3>3. QED BY <2>1, <3>1, <3>2, <1>t
  <2>3. ASSUME starting'.step = "ok" PROVE shown'.id < starting'.snap.id /\ given' < starting'.snap.id
    <3>1. CASE starting' = starting
      <4>1. starting.snap \in Snapshot BY <3>1, <2>3, CallParts DEF PageTypes
      <4>2. starting.snap.id \in Nat /\ shown.id < starting.snap.id /\ given < starting.snap.id
        BY <4>1, <3>1, <2>3, <1>l DEF OrderInv, Snapshot
      <4>3. QED BY <4>2, <3>1, <2>1, <1>t
    <3>2. CASE starting' = [step |-> "ok", snap |-> SnapshotOf(job')] /\ job'.id = jobs + 1
      <4>1. starting'.snap.id = jobs + 1 BY <3>2 DEF SnapshotOf
      <4>2. shown.id <= jobs /\ given <= jobs BY DEF IdsBound
      <4>3. QED BY <4>1, <4>2, <2>1, <1>t
    <3>3. QED BY <2>3, <3>1, <3>2, StartingStep
  <2>4. QED BY <2>2, <2>3
<1>3. QED BY <1>1, <1>2

(***************************************************************************)
(* The answer to a start or a continue tells of the newest batch.          *)
(***************************************************************************)
BatchesInv ==
    /\ \A x \in Known : x.batch <= batches
    /\ starting.step = "ok" /\ "foreign" \notin broken =>
          \A x \in Known : x.id = starting.snap.id => x.batch <= starting.snap.batch
    /\ continuing.step = "ok" /\ "foreign" \notin broken =>
          \A x \in Known : x.id = continuing.snap.id => x.batch <= continuing.snap.batch
    /\ broken \cap {"continue", "foreign"} = {} /\ ~late =>
          \A x \in Known : x.id = shown.id /\ shown.batch < x.batch => continuing.step = "ok"

\* The answer to a continue is there until the page has it.
LEMMA ContinueStays ==
    ASSUME PageTypes, SlotInv, [Next]_vars, continuing.step = "ok"
    PROVE  continuing' = continuing \/ ShownByContinue \/ "continue" \in broken'
<1>d. Idle.step = "idle" BY DEF Idle
<1>1. CASE EngineStep \/ JobExpires \/ OtherClient
  BY <1>1 DEF EngineStep, JobExpires, OtherClient, pageVars
<1>2. CASE Serve BY <1>2 DEF Serve, ServePoll, ServeStart, ServeContinue, ServeCancel
<1>3. CASE Answer
  <2>1. ASSUME NEW s \in Slot, PollAnswer(s) PROVE continuing' = continuing
    <3>1. polls[s] # Idle
      BY <2>1, <1>d DEF PollAnswer, PollGone, PollLight, PollFull, PollLost
    <3>2. Awaited(s) = continuing BY <3>1 DEF SlotInv, Awaited
    <3>3. \A x : ~canAutoContinue(x) BY <1>d DEF canAutoContinue
    <3>4. QED BY <2>1, <3>2, <3>3, PollEffect DEF PollAnswer, PollGone, PollLost, PollApplies
  <2>2. CASE ContinueAnswer
    BY <2>2 DEF ContinueAnswer, ContinueFailed, ContinueCanceled, ShownByContinue
  <2>3. QED BY <1>3, <2>1, <2>2 DEF Answer, StartAnswer, CancelAnswer
<1>4. CASE Tick \/ PollDeadline BY <1>4 DEF Tick, PollDeadline
<1>5. CASE User
  BY <1>5, <1>d DEF User, handleStart, handleContinue, handleCancel, handleProtocolChange, Leave
<1>6. CASE UNCHANGED vars BY <1>6 DEF vars, pageVars
<1>7. QED BY <1>1, <1>2, <1>3, <1>4, <1>5, <1>6 DEF Next

\* What is known anew is the snapshot of a new batch, as long as nobody else continues the job.
BatchTold ==
    \/ \A x \in Known' : \E y \in Known : y.id = x.id /\ y.batch = x.batch
    \/ OwnStart \/ OwnContinue \/ OtherStart

\* Nothing else is known anew.
LEMMA BatchToldStep ==
    ASSUME plan \in Plan, EngineInv, PageTypes, [Next]_vars, "foreign" \notin broken'
    PROVE  BatchTold
<1>1. CASE Calm
  <2>1. ASSUME NEW x \in Known' PROVE \E y \in Known : y.id = x.id /\ y.batch = x.batch
    <3>1. CASE x \in Known BY <3>1
    <3>2. CASE job'.id # 0 /\ x = SnapshotOf(job')
      <4>1. job'.id = job.id /\ job'.batch = job.batch BY <1>1, <3>2, CalmStep DEF NoJob
      <4>2. SnapshotOf(job) \in Known BY <3>2, <4>1, JobSnapshot DEF Known
      <4>3. SnapshotOf(job).id = x.id /\ SnapshotOf(job).batch = x.batch
        BY <3>2, <4>1 DEF SnapshotOf
      <4>4. QED BY <4>2, <4>3
    <3>3. QED BY <3>1, <3>2, KnownStep
  <2>2. QED BY <2>1 DEF BatchTold
<1>2. CASE OtherContinue BY <1>2 DEF OtherContinue
<1>3. QED BY <1>1, <1>2, BatchStarts DEF BatchTold

\* Batches are counted up.
LEMMA BatchesGrow ==
    ASSUME plan \in Plan, EngineInv, [Next]_vars
    PROVE  batches <= batches'
<1>j. batches \in Nat BY DEF EngineInv, ScanTypeOK
<1>1. ASSUME NEW n, NEW f, Submit(n, f) PROVE batches' = batches + 1 BY <1>1 DEF Submit
<1>2. ASSUME NEW c, ContinueBatch(c) PROVE batches' = batches + 1 BY <1>2 DEF ContinueBatch
<1>3. CASE Calm BY <1>3, <1>j, CalmStep
<1>4. CASE OwnStart \/ OtherStart BY <1>4, <1>1, <1>j DEF OwnStart, OtherStart
<1>5. CASE OwnContinue \/ OtherContinue
  BY <1>5, <1>2, <1>j DEF OwnContinue, OtherContinue
<1>6. QED BY <1>3, <1>4, <1>5, BatchStarts

\* A batch is started by a request of the page, whose answer then tells of it.
LEMMA BatchesStep ==
    ASSUME plan \in Plan, EngineInv, EngineInv', PageTypes, SlotInv, IdsBound, AnswersInv,
           OrderInv, BatchesInv, [Next]_vars
    PROVE  BatchesInv'
<1>j. jobs \in Nat /\ batches \in Nat /\ batches' \in Nat /\ job \in Job
  BY DEF EngineInv, ScanTypeOK
<1>k. \A x \in Known : /\ x.id \in Nat \ {0} /\ x.batch \in Nat \ {0}
                       /\ x.id <= jobs /\ x.batch <= batches
  BY DEF IdsBound, BatchesInv, Known, Snapshot
<1>k1. \A x \in Known' : x.id \in Nat \ {0} /\ x.batch \in Nat \ {0} BY DEF Known, Snapshot
<1>t. shown.id \in Nat /\ shown.batch \in Nat /\ shown.id <= jobs
  BY DEF PageTypes, ShownTypes, Shown, IdsBound
<1>b. batches <= batches' BY BatchesGrow
<1>f. "foreign" \notin broken' => "foreign" \notin broken BY BrokenGrows
<1>x. ASSUME NEW x \in Known', x \notin Known
      PROVE  job'.id # 0 /\ x.id = job'.id /\ x.batch = job'.batch
  BY <1>x, KnownStep DEF SnapshotOf
<1>s. ASSUME NEW n, NEW f, Submit(n, f) PROVE job'.id = jobs + 1
  BY <1>s DEF Submit
<1>1. ASSUME NEW x \in Known' PROVE x.batch <= batches'
  <2>1. CASE x \in Known BY <2>1, <1>k, <1>b, <1>j
  <2>2. CASE job'.id # 0 /\ x.batch = job'.batch BY <2>2, <1>j DEF EngineInv, JobInv
  <2>3. QED BY <2>1, <2>2, <1>x
\* An answer that was there before tells of the newest batch still.
<1>a. ASSUME NEW a \in Known, "foreign" \notin broken', NEW x \in Known', x.id = a.id,
             \A y \in Known : y.id = a.id => y.batch <= a.batch,
             ~OwnStart, ~OwnContinue
      PROVE  x.batch <= a.batch
  <2>1. CASE \E y \in Known : y.id = x.id /\ y.batch = x.batch BY <1>a, <2>1
  <2>2. CASE OtherStart
    <3>1. job'.id = jobs + 1 BY <2>2, <1>s DEF OtherStart
    <3>2. a.id \in Nat /\ a.id <= jobs BY <1>k
    <3>3. x \in Known BY <3>1, <3>2, <1>x, <1>a, <1>j
    <3>4. QED BY <3>3, <1>a
  <2>3. QED BY <1>a, <2>1, <2>2, BatchToldStep DEF BatchTold
<1>2. ASSUME starting'.step = "ok", "foreign" \notin broken',
             NEW x \in Known', x.id = starting'.snap.id
      PROVE  x.batch <= starting'.snap.batch
  <2>1. CASE starting' = starting
    <3>1. starting.snap \in Known BY <1>2, <2>1, CallParts DEF PageTypes, Known
    <3>2. \A y \in Known : y.id = starting.snap.id => y.batch <= starting.snap.batch
      BY <1>2, <2>1, <1>f DEF BatchesInv
    <3>3. ~OwnStart BY <1>2, <2>1 DEF OwnStart
    <3>4. ~OwnContinue
      <4>1. starting # Idle /\ (continuing.step = "waiting" => continuing # Idle)
        BY <1>2, <2>1 DEF Idle
      <4>2. QED BY <4>1 DEF OwnContinue, SlotInv
    <3>5. QED BY <1>2, <2>1, <3>1, <3>2, <3>3, <3>4, <1>a
  <2>2. CASE starting' = [step |-> "ok", snap |-> SnapshotOf(job')] /\ job'.id = jobs + 1
    <3>1. starting'.snap.id = jobs + 1 /\ starting'.snap.batch = job'.batch
      BY <2>2 DEF SnapshotOf
    <3>2. x \notin Known BY <3>1, <1>2, <1>k, <1>j
    <3>3. job'.batch = batches' BY <2>2, <1>j DEF EngineInv, JobInv
    <3>4. QED BY <3>1, <3>3, <1>1
  <2>3. QED BY <1>2, <2>1, <2>2, StartingStep
<1>3. ASSUME continuing'.step = "ok", "foreign" \notin broken',
             NEW x \in Known', x.id = continuing'.snap.id
      PROVE  x.batch <= continuing'.snap.batch
  <2>1. CASE continuing' = continuing
    <3>1. continuing.snap \in Known BY <1>3, <2>1, CallParts DEF PageTypes, Known
    <3>2. \A y \in Known : y.id = continuing.snap.id => y.batch <= continuing.snap.batch
      BY <1>3, <2>1, <1>f DEF BatchesInv
    <3>3. ~OwnContinue BY <1>3, <2>1 DEF OwnContinue
    <3>4. ~OwnStart
      <4>1. continuing # Idle /\ (starting.step = "sent" => starting # Idle)
        BY <1>3, <2>1 DEF Idle
      <4>2. QED BY <4>1 DEF OwnStart, SlotInv
    <3>5. QED BY <1>3, <2>1, <3>1, <3>2, <3>3, <3>4, <1>a
  <2>2. CASE ContinueBatch(ThisPage) /\ continuing' = Continued(SnapshotOf(job'))
    <3>1. job'.batch = batches + 1 /\ batches' = batches + 1 BY <2>2, <1>j DEF ContinueBatch, Job
    <3>2. continuing'.snap.batch = job'.batch BY <2>2 DEF Continued, SnapshotOf
    <3>3. QED BY <3>1, <3>2, <1>1
  <2>3. CASE ContinueNothingLeft(ThisPage) /\ continuing' = Continued(SnapshotOf(job))
    <3>1. job.batch = batches /\ batches' = batches
      BY <2>3 DEF ContinueNothingLeft, MayContinue, Found, EngineInv, JobInv
    <3>2. continuing'.snap.batch = job.batch BY <2>3 DEF Continued, SnapshotOf
    <3>3. QED BY <3>1, <3>2, <1>1
  <2>4. QED BY <1>3, <2>1, <2>2, <2>3, ContinueStepMoves DEF ContinueMoves
<1>4. ASSUME broken' \cap {"continue", "foreign"} = {}, ~late',
             NEW x \in Known', x.id = shown'.id, shown'.batch < x.batch
      PROVE  continuing'.step = "ok"
  <2>l. ~late /\ broken \cap {"continue", "foreign"} = {} /\ "foreign" \notin broken'
    BY <1>4, ShownStep, BrokenGrows
  <2>n. x.id \in Nat \ {0} /\ x.batch \in Nat BY <1>k1
  <2>1. CASE ShownByContinue
    <3>1. continuing.snap \in Known /\ continuing.step = "ok"
      BY <2>1, CallParts DEF ShownByContinue, PageTypes, Known
    <3>2. shown'.id = continuing.snap.id /\ shown'.batch = continuing.snap.batch
      BY <2>1 DEF ShownByContinue, ContinueAnswered, applySnapshot
    <3>3. ~OwnStart /\ ~OwnContinue
      BY <2>1 DEF ShownByContinue, ContinueAnswer, ContinueAnswered, OwnStart, OwnContinue,
                  ServeStart, ServeContinue
    <3>4. \A y \in Known : y.id = continuing.snap.id => y.batch <= continuing.snap.batch
      BY <3>1, <2>l DEF BatchesInv
    <3>5. x.batch <= continuing.snap.batch BY <1>4, <2>l, <3>1, <3>2, <3>3, <3>4, <1>a
    <3>6. continuing.snap.batch \in Nat BY <3>1, <1>k
    <3>7. QED BY <1>4, <3>2, <3>5, <3>6, <2>n
  <2>2. CASE ShownByStart
    <3>1. starting.snap \in Known /\ starting.step = "ok"
      BY <2>2, CallParts DEF ShownByStart, PageTypes, Known
    <3>2. shown'.id = starting.snap.id /\ shown'.batch = starting.snap.batch
      BY <2>2 DEF ShownByStart
    <3>3. ~OwnStart /\ ~OwnContinue
      <4>1. starting # Idle /\ (continuing.step = "waiting" => continuing # Idle)
        BY <3>1 DEF Idle
      <4>2. QED BY <3>1, <4>1 DEF OwnStart, OwnContinue, SlotInv
    <3>4. \A y \in Known : y.id = starting.snap.id => y.batch <= starting.snap.batch
      BY <3>1, <2>l DEF BatchesInv
    <3>5. x.batch <= starting.snap.batch BY <1>4, <2>l, <3>1, <3>2, <3>3, <3>4, <1>a
    <3>6. starting.snap.batch \in Nat BY <3>1, <1>k
    <3>7. QED BY <1>4, <3>2, <3>5, <3>6, <2>n
  <2>3. CASE handleProtocolChange BY <2>3, <1>4, <2>n DEF handleProtocolChange, NothingShown
  <2>4. CASE /\ ~ShownByContinue /\ shown'.id = shown.id
             /\ shown.batch <= shown'.batch /\ shown'.batch \in Nat
    <3>1. shown.batch < x.batch BY <1>4, <2>4, <2>n, <1>t
    <3>2. CASE \E y \in Known : y.id = x.id /\ y.batch = x.batch
      <4>1. continuing.step = "ok" BY <3>1, <3>2, <2>4, <2>l, <1>4 DEF BatchesInv
      <4>2. continuing' = continuing BY <4>1, <2>4, <1>4, ContinueStays
      <4>3. QED BY <4>1, <4>2
    <3>3. CASE OwnContinue BY <3>3 DEF OwnContinue, Continued
    <3>4. CASE (OwnStart \/ OtherStart) /\ x \notin Known
      <4>1. job'.id = jobs + 1 BY <3>4, <1>s DEF OwnStart, OtherStart
      <4>2. x.id = jobs + 1 BY <3>4, <4>1, <1>x
      <4>3. QED BY <4>2, <1>4, <2>4, <1>t, <1>j
    <3>5. QED BY <2>l, <3>2, <3>3, <3>4, BatchToldStep DEF BatchTold
  <2>5. CASE UNCHANGED <<shown, rows, given>> BY <2>5, <2>1, <2>4, <1>t
  <2>6. ASSUME NEW s \in Slot, NEW y \in Known, NEW w \in BOOLEAN, ShownByPoll(s, y, w)
        PROVE  continuing'.step = "ok"
    <3>1. ~Outdated(y) /\ y.id = shown.id /\ shown'.id = shown.id BY <2>6, <1>4, SameScan
    <3>2. shown'.batch = y.batch BY <2>6 DEF ShownByPoll, PollApplies, applySnapshot
    <3>3. y.batch \in Nat BY <1>k
    <3>4. shown.batch <= y.batch BY <3>1, <3>3, <1>t DEF Outdated
    <3>5. QED BY <3>1, <3>2, <3>3, <3>4, <2>1, <2>4
  <2>7. QED BY <2>1, <2>2, <2>3, <2>5, <2>6, ShownStep DEF ShownMoves
<1>5. QED BY <1>1, <1>2, <1>3, <1>4 DEF BatchesInv

(***************************************************************************)
(* Polling goes on.                                                        *)
(***************************************************************************)

\* The page shows a scan as running, and nothing that may stop its polling has happened.
RunsShown ==
    /\ mounted /\ shown.state = "running" /\ ~jobExpired /\ ~late
    /\ broken \cap {"start", "continue", "deadline", "foreign"} = {}

\* An answer that starts polling is awaited.
WillPoll == starting # Idle \/ continuing.step \in {"sent", "waiting", "ok", "failed"}

PollInv == RunsShown => timer = shown.id \/ WillPoll

\* Whoever stops the polling has shown the end of the batch, or something has gone wrong.
LEMMA PollInvStep ==
    ASSUME PageTypes, SlotInv, AnswersInv, OrderInv, BatchesInv, PollInv, [Next]_vars
    PROVE  PollInv'
<1> SUFFICES ASSUME RunsShown' PROVE timer' = shown'.id \/ WillPoll' BY DEF PollInv
<1>d. Idle.step = "idle" BY DEF Idle
<1>l. ~late /\ broken \cap {"start", "continue", "deadline", "foreign"} = {}
  BY ShownStep, BrokenGrows DEF RunsShown
<1>u. ASSUME UNCHANGED <<mounted, shown, jobExpired, timer>>, WillPoll => WillPoll'
      PROVE  timer' = shown'.id \/ WillPoll'
  <2>1. RunsShown BY <1>u, <1>l DEF RunsShown
  <2>2. QED BY <1>u, <2>1 DEF PollInv
<1>p. ASSUME UNCHANGED pageVars PROVE timer' = shown'.id \/ WillPoll'
  BY <1>p, <1>u DEF pageVars, WillPoll
<1>1. CASE EngineStep \/ JobExpires \/ OtherClient
  BY <1>1, <1>p DEF EngineStep, JobExpires, OtherClient
<1>2. CASE Serve
  <2>1. CASE \E s \in Slot : ServePoll(s) BY <2>1, <1>u DEF ServePoll, WillPoll
  <2>2. CASE ServeStart
    <3>1. starting' # Idle BY <2>2 DEF ServeStart, Idle
    <3>2. QED BY <3>1 DEF WillPoll
  <2>3. CASE ServeContinue
    <3>1. continuing'.step \in {"waiting", "failed", "ok"}
      <4>1. continuing \in [step : {"sent", "waiting", "failed"}, id : Nat, auto : BOOLEAN]
        <5>1. continuing.step \in {"sent", "waiting"} BY <2>3 DEF ServeContinue
        <5>2. QED BY <5>1 DEF PageTypes, CallTypes, ContinueCall, Idle
      <4>2. \A x : Continued(x).step = "ok" BY DEF Continued
      <4>3. QED BY <2>3, <4>1, <4>2 DEF ServeContinue
    <3>2. QED BY <3>1 DEF WillPoll
  <2>4. CASE ServeCancel
    <3>1. WillPoll => WillPoll' BY <2>4 DEF ServeCancel, WillPoll
    <3>2. QED BY <2>4, <3>1, <1>u DEF ServeCancel
  <2>5. QED BY <1>2, <2>1, <2>2, <2>3, <2>4 DEF Serve
<1>3. CASE Answer
  <2>1. ASSUME NEW s \in Slot, PollAnswer(s) PROVE timer' = shown'.id \/ WillPoll'
    <3>0. UNCHANGED <<mounted, starting>> BY <2>1 DEF PollAnswer
    <3>1. polls[s] # Idle
      BY <2>1, <1>d DEF PollAnswer, PollGone, PollLight, PollFull, PollLost
    <3>2. continuing.step # "polling" => Awaited(s) = continuing BY <3>1 DEF SlotInv, Awaited
    <3>3. ASSUME continuing' = Awaited(s) PROVE WillPoll => WillPoll'
      BY <3>0, <3>2, <3>3 DEF WillPoll
    <3>4. CASE PollGone(s) BY <3>4 DEF PollGone, RunsShown
    <3>5. CASE PollLost(s)
      <4>1. UNCHANGED <<shown, jobExpired, timer>> /\ continuing' = Awaited(s) BY <3>5 DEF PollLost
      <4>2. QED BY <4>1, <3>0, <3>3, <1>u
    <3>6. CASE UNCHANGED <<shown, rows, jobExpired, timer, continuing, canceling, late>>
      BY <3>0, <3>6, <1>u DEF WillPoll
    <3>7. ASSUME NEW x \in Snapshot, NEW w \in BOOLEAN, PollApplies(s, x, w), Tells(polls[s], x),
                 \/ w
                 \/ Len(x.devices) = Len(rows)
                 \/ polls[s].step = "toldAll" /\ polls[s].full = Gone /\ polls[s].light = x
          PROVE  timer' = shown'.id \/ WillPoll'
      <4>1. x \in Known BY <3>7 DEF Known
      <4>2. ShownByPoll(s, x, w) BY <2>1, <3>7 DEF ShownByPoll
      <4>3. shown'.id = shown.id /\ x.id = shown.id /\ ~Outdated(x) BY <4>1, <4>2, SameScan DEF RunsShown
      <4>4. shown'.state = x.state /\ jobExpired' = jobExpired
        BY <3>7 DEF PollApplies, applySnapshot
      <4>5. x.state = "running" BY <4>4 DEF RunsShown
      <4>6. timer' = timer /\ continuing' = Awaited(s) BY <3>7, <4>5 DEF PollApplies
      <4>7. CASE shown.state = "running"
        <5>1. RunsShown BY <4>4, <4>7, <3>0, <1>l DEF RunsShown
        <5>2. QED BY <5>1, <4>3, <4>6, <3>3 DEF PollInv
      <4>8. CASE shown.state # "running"
        <5>1. shown.batch < x.batch
          <6>1. ~(x.batch < shown.batch) /\ x.batch # shown.batch BY <4>3, <4>5, <4>8 DEF Outdated
          <6>2. x.batch \in Nat /\ shown.batch \in Nat BY DEF Snapshot, PageTypes, ShownTypes, Shown
          <6>3. QED BY <6>1, <6>2
        <5>2. continuing.step = "ok" BY <4>1, <4>3, <5>1, <1>l DEF BatchesInv
        <5>3. continuing' = continuing BY <5>2, <4>6, <3>2
        <5>4. QED BY <5>2, <5>3 DEF WillPoll
      <4>9. QED BY <4>7, <4>8
    <3>8. QED BY <2>1, <3>4, <3>5, <3>6, <3>7, PollEffect DEF PollAnswer, Tells
  <2>2. CASE StartAnswer
    <3>1. CASE shown'.id = starting.snap.id /\ startPolling(starting.snap.id)
      BY <3>1 DEF startPolling
    <3>2. CASE broken' = broken \cup {"start"} BY <3>2 DEF RunsShown
    <3>3. QED BY <2>2, <3>1, <3>2 DEF StartAnswer
  <2>3. CASE ContinueAnswer
    <3>1. CASE ContinueAnswered
      BY <3>1 DEF ContinueAnswered, applySnapshot, startPolling
    <3>2. CASE ContinueFailed BY <3>2 DEF ContinueFailed, RunsShown
    <3>3. CASE ContinueCanceled /\ UNCHANGED <<shown, timer>>
      <4>1. WillPoll => WillPoll'
        BY <2>3, <3>3 DEF ContinueAnswer, ContinueCanceled, WillPoll
      <4>2. QED BY <2>3, <3>3, <4>1, <1>u DEF ContinueAnswer
    <3>4. QED BY <2>3, <3>1, <3>2, <3>3 DEF ContinueAnswer
  <2>4. CASE CancelAnswer BY <2>4, <1>u DEF CancelAnswer, WillPoll
  <2>5. QED BY <1>3, <2>1, <2>2, <2>3, <2>4 DEF Answer
<1>4. CASE Tick BY <1>4, <1>u DEF Tick, WillPoll
<1>5. CASE PollDeadline BY <1>5 DEF PollDeadline, RunsShown
<1>6. CASE User
  <2>1. CASE handleStart BY <2>1 DEF handleStart, WillPoll, Idle
  <2>2. CASE handleContinue BY <2>2 DEF handleContinue, WillPoll
  <2>3. CASE handleCancel BY <2>3, <1>u DEF handleCancel, WillPoll
  <2>4. CASE handleProtocolChange BY <2>4 DEF handleProtocolChange, NothingShown, RunsShown
  <2>5. CASE Leave BY <2>5 DEF Leave, RunsShown
  <2>6. QED BY <1>6, <2>1, <2>2, <2>3, <2>4, <2>5 DEF User
<1>7. CASE UNCHANGED vars BY <1>7, <1>p DEF vars
<1>8. QED BY <1>1, <1>2, <1>3, <1>4, <1>5, <1>6, <1>7 DEF Next

(***************************************************************************)
(* What is shown is a faithful picture of the job, if an older one.        *)
(***************************************************************************)

\* A prefix agrees element by element.
LEMMA PrefixElements ==
    ASSUME NEW s \in Seq(Dev), NEW t \in Seq(Dev)
    PROVE  IsPrefix(s, t) <=> Len(s) <= Len(t) /\ \A i \in 1 .. Len(s) : s[i] = t[i]
<1>1. SubSeq(s, 1, Len(s)) = s BY SubSeqFull
<1>2. Len(s) \in Nat /\ Len(t) \in Nat OBVIOUS
<1>3. ASSUME Len(s) <= Len(t)
      PROVE  /\ SubSeq(t, 1, Len(s)) \in Seq(Dev)
             /\ Len(SubSeq(t, 1, Len(s))) = Len(s)
             /\ \A i \in 1 .. Len(s) : SubSeq(t, 1, Len(s))[i] = t[i]
  <2>1. \A i \in 1 .. Len(s) : t[i] \in Dev BY <1>2, <1>3
  <2>2. 1 \in Int /\ Len(s) \in Int BY <1>2
  <2>3. /\ SubSeq(t, 1, Len(s)) \in Seq(Dev)
        /\ Len(SubSeq(t, 1, Len(s))) = IF 1 <= Len(s) THEN Len(s) - 1 + 1 ELSE 0
        /\ \A i \in 1 .. Len(s) - 1 + 1 : SubSeq(t, 1, Len(s))[i] = t[1 + i - 1]
    BY <2>1, <2>2, SubSeqProperties
  <2>4. \A i \in 1 .. Len(s) : 1 + i - 1 = i BY <1>2
  <2>5. QED BY <2>3, <2>4, <1>2
<1>4. ASSUME NEW u \in Seq(Dev), Len(u) = Len(s), \A i \in 1 .. Len(s) : u[i] = s[i]
      PROVE  u = s
  BY <1>4
<1>5. QED BY <1>1, <1>3, <1>4 DEF IsPrefix

LEMMA PrefixSelf ==
    ASSUME NEW s \in Seq(Dev)
    PROVE  IsPrefix(s, s)
BY PrefixElements

LEMMA PrefixTransitive ==
    ASSUME NEW s \in Seq(Dev), NEW t \in Seq(Dev), NEW u \in Seq(Dev),
           IsPrefix(s, t), IsPrefix(t, u)
    PROVE  IsPrefix(s, u)
<1>1. Len(s) \in Nat /\ Len(t) \in Nat /\ Len(u) \in Nat OBVIOUS
<1>2. Len(s) <= Len(t) /\ \A i \in 1 .. Len(s) : s[i] = t[i] BY PrefixElements
<1>3. Len(t) <= Len(u) /\ \A i \in 1 .. Len(t) : t[i] = u[i] BY PrefixElements
<1>4. Len(s) <= Len(u) /\ \A i \in 1 .. Len(s) : s[i] = u[i] BY <1>1, <1>2, <1>3
<1>5. QED BY <1>4, PrefixElements

\* Two prefixes of a list are the same if they are of the same length.
LEMMA PrefixEqual ==
    ASSUME NEW s \in Seq(Dev), NEW t \in Seq(Dev), NEW u \in Seq(Dev),
           IsPrefix(s, u), IsPrefix(t, u), Len(s) = Len(t)
    PROVE  s = t
<1>1. \A i \in 1 .. Len(s) : s[i] = u[i] /\ t[i] = u[i] BY PrefixElements
<1>2. QED BY <1>1

\* Unless another client continues the job, this page waits for its last batch.
WaitInv ==
    "foreign" \notin broken =>
       /\ ~overtaken
       /\ waiting[ThisPage].job = job.id /\ job.id # 0 => waiting[ThisPage].batch = job.batch

\* The page continues the batch it waited for, so none is overtaken.
LEMMA WaitInvStep ==
    ASSUME plan \in Plan, EngineInv, IdsBound, WaitInv, [Next]_vars
    PROVE  WaitInv'
<1> SUFFICES ASSUME "foreign" \notin broken'
             PROVE  /\ ~overtaken'
                    /\ waiting'[ThisPage].job = job'.id /\ job'.id # 0
                         => waiting'[ThisPage].batch = job'.batch
  BY DEF WaitInv
<1>f. /\ ~overtaken
      /\ waiting[ThisPage].job = job.id /\ job.id # 0 => waiting[ThisPage].batch = job.batch
  BY BrokenGrows DEF WaitInv
<1>w. WaitMoves BY WaitStep
<1>j. jobs \in Nat /\ job \in Job /\ job.id \in Nat /\ job.id <= jobs
      /\ waiting[ThisPage].job \in Nat /\ waiting[ThisPage].job <= jobs
  BY ScanPageAssumption DEF EngineInv, ScanTypeOK, JobInv, IdsBound, Job
<1>1. CASE Calm
  <2>1. ~overtaken' BY <1>1, <1>f, CalmStep
  <2>2. ASSUME waiting'[ThisPage].job = job'.id, job'.id # 0 PROVE waiting'[ThisPage].batch = job'.batch
    <3>1. job'.id = job.id /\ job'.batch = job.batch BY <1>1, <2>2, CalmStep DEF NoJob
    <3>2. QED BY <2>2, <3>1, <1>f, <1>w DEF WaitMoves, None
  <2>3. QED BY <2>1, <2>2
<1>2. CASE OwnStart \/ OtherStart
  <2>1. job'.id = jobs + 1 /\ overtaken' = overtaken BY <1>2 DEF OwnStart, OtherStart, Submit
  <2>2. waiting'[ThisPage].job <= jobs BY <1>w, <1>j DEF WaitMoves, None
  <2>3. waiting'[ThisPage].job \in Nat BY <1>w, <1>j DEF WaitMoves, None
  <2>4. waiting'[ThisPage].job # job'.id BY <2>1, <2>2, <2>3, <1>j
  <2>5. QED BY <2>1, <2>4, <1>f
<1>3. CASE OwnContinue
  <2>1. ContinueBatch(ThisPage) BY <1>3 DEF OwnContinue
  <2>2. waiting[ThisPage].job = job.id /\ job.id # 0 BY <2>1 DEF ContinueBatch, MayContinue, Found
  <2>3. ~overtaken' BY <2>1, <2>2, <1>f DEF ContinueBatch
  <2>4. waiting'[ThisPage] = None
    BY <2>1, ScanPageAssumption DEF ContinueBatch, ContinueGoesOn, EngineInv, ScanTypeOK
  <2>5. job'.id = job.id BY <2>1, <1>j DEF ContinueBatch, Job
  <2>6. QED BY <2>2, <2>3, <2>4, <2>5 DEF None
<1>4. CASE OtherContinue BY <1>4 DEF OtherContinue
<1>5. QED BY <1>1, <1>2, <1>3, <1>4, BatchStarts

\* A snapshot of the job tells of a batch so far and of devices it found, and of all if the
\* batch was over and is the last one.
Faithful(x) ==
    x.id = job.id /\ x.id # 0 =>
       /\ x.batch <= job.batch
       /\ IsPrefix(x.devices, job.devices)
       /\ x.batch = job.batch /\ x.state # "running" /\ "foreign" \notin broken
             => x.state = job.state /\ x.devices = job.devices

\* A snapshot stays faithful while the job goes on: its list is only appended to, and a batch
\* that has ended is frozen.
LEMMA FaithfulStep ==
    ASSUME ScanInv, ScanInv', WaitInv, [Next]_vars,
           NEW x, x.id \in Nat, x.batch \in Nat, x.devices \in Seq(Dev), x.id <= jobs, Faithful(x)
    PROVE  Faithful(x)'
<1>e. plan \in Plan /\ EngineInv /\ EngineInv' BY DEF ScanInv
<1>j. /\ jobs \in Nat /\ job \in Job /\ job' \in Job /\ job.batch \in Nat /\ job'.batch \in Nat
      /\ job.devices \in Seq(Dev) /\ job'.devices \in Seq(Dev)
  BY <1>e DEF EngineInv, ScanTypeOK, Job
<1> SUFFICES ASSUME x.id = job'.id, x.id # 0
             PROVE  /\ x.batch <= job'.batch
                    /\ IsPrefix(x.devices, job'.devices)
                    /\ x.batch = job'.batch /\ x.state # "running" /\ "foreign" \notin broken'
                          => x.state = job'.state /\ x.devices = job'.devices
  BY DEF Faithful
<1>1. job'.id = job.id BY <1>e, <1>j, JobMoves DEF NoJob
<1>2. /\ x.batch <= job.batch
      /\ IsPrefix(x.devices, job.devices)
      /\ x.batch = job.batch /\ x.state # "running" /\ "foreign" \notin broken
            => x.state = job.state /\ x.devices = job.devices
  BY <1>1 DEF Faithful
<1>3. job.batch <= job'.batch
  <2>1. batches \in Nat /\ batches' \in Nat /\ job.batch = batches /\ job'.batch = batches'
    BY <1>e, <1>1 DEF EngineInv, ScanTypeOK, JobInv
  <2>2. batches <= batches' BY <1>e, BatchesGrow
  <2>3. QED BY <2>1, <2>2
<1>4. CASE UNCHANGED scanVars
  <2>1. "foreign" \notin broken' => "foreign" \notin broken BY BrokenGrows
  <2>2. QED BY <1>2, <1>4, <2>1 DEF scanVars
<1>5. CASE EngineNext
  <2>1. IsPrefix(job.devices, job'.devices) BY <1>1, <1>5, ListStep DEF ScanInv
  <2>2. IsPrefix(x.devices, job'.devices) BY <1>2, <2>1, <1>j, PrefixTransitive
  <2>3. ASSUME x.batch = job'.batch, x.state # "running", "foreign" \notin broken'
        PROVE  x.state = job'.state /\ x.devices = job'.devices
    <3>1. x.batch = job.batch /\ job'.batch = job.batch BY <1>2, <1>3, <2>3, <1>j
    <3>2. "foreign" \notin broken BY <2>3, BrokenGrows
    <3>3. x.state = job.state /\ x.devices = job.devices BY <1>2, <2>3, <3>1, <3>2
    <3>4. Terminal /\ ~overtaken BY <2>3, <3>2, <3>3 DEF Terminal, WaitInv
    <3>5. job' = [job EXCEPT !.expired = job'.expired]
      BY <1>5, <3>1, <3>4, FrozenStep DEF ScanInv
    <3>6. job'.state = job.state /\ job'.devices = job.devices BY <3>5, <1>j DEF Job
    <3>7. QED BY <3>3, <3>6
  <2>4. x.batch <= job'.batch BY <1>2, <1>3, <1>j
  <2>5. QED BY <2>2, <2>3, <2>4
<1>6. QED BY <1>e, <1>4, <1>5, PageDrivesEngine

\* What is shown, as a snapshot.
ShownSnap == [id |-> shown.id, batch |-> shown.batch, state |-> shown.state, more |-> shown.more,
              devices |-> rows]

FaithInv == (\A x \in Known : Faithful(x)) /\ (~late => Faithful(ShownSnap))

\* A list of the length of the one shown may be left out: it is the one shown.
LEMMA ApplyFaithful ==
    ASSUME EngineInv, PageTypes, FaithInv, ~late, UNCHANGED <<scanVars, broken>>,
           NEW x \in Known, x.id = shown.id,
           shown' = [id |-> x.id, batch |-> x.batch, state |-> x.state, more |-> x.more],
           rows' = x.devices \/ rows' = rows,
           rows' # x.devices => x.id # job.id \/ Len(x.devices) = Len(rows)
    PROVE  Faithful(ShownSnap)'
<1>x. Faithful(x) BY DEF FaithInv
<1>t. x.devices \in Seq(Dev) /\ rows \in Seq(Dev) /\ job.devices \in Seq(Dev)
  BY DEF Known, Snapshot, PageTypes, ShownTypes, EngineInv, ScanTypeOK, Job
<1>u. job' = job /\ broken' = broken BY DEF scanVars
<1>s. /\ ShownSnap'.id = x.id /\ ShownSnap'.batch = x.batch /\ ShownSnap'.state = x.state
      /\ ShownSnap'.devices = rows'
  BY DEF ShownSnap
<1>1. CASE rows' = x.devices BY <1>1, <1>x, <1>u, <1>s DEF Faithful
<1>2. CASE x.id # job.id BY <1>2, <1>u, <1>s DEF Faithful
<1>3. CASE rows' = rows /\ Len(x.devices) = Len(rows) /\ x.id = job.id /\ x.id # 0
  <2>1. IsPrefix(x.devices, job.devices) BY <1>3, <1>x DEF Faithful
  <2>2. ShownSnap.id = shown.id /\ ShownSnap.devices = rows BY DEF ShownSnap
  <2>3. Faithful(ShownSnap) BY DEF FaithInv
  <2>4. IsPrefix(rows, job.devices) BY <1>3, <2>2, <2>3 DEF Faithful
  <2>5. x.devices = rows BY <2>1, <2>4, <1>3, <1>t, PrefixEqual
  <2>6. QED BY <2>5, <1>3, <1>1
<1>4. CASE x.id = 0 BY <1>4, <1>u, <1>s DEF Faithful
<1>5. QED BY <1>1, <1>2, <1>3, <1>4

\* Answers are faithful, and what is taken over from them too.
LEMMA FaithStep ==
    ASSUME ScanInv, ScanInv', PageTypes, IdsBound, AnswersInv, OrderInv, WaitInv, FaithInv, [Next]_vars
    PROVE  FaithInv'
<1>e. plan \in Plan /\ EngineInv /\ EngineInv' BY DEF ScanInv
<1>k. \A x \in Known : x.id \in Nat /\ x.batch \in Nat /\ x.devices \in Seq(Dev) /\ x.id <= jobs
  BY DEF Known, Snapshot, IdsBound
<1>1. ASSUME NEW x \in Known' PROVE Faithful(x)'
  <2>1. CASE x \in Known
    <3>1. Faithful(x) BY <2>1 DEF FaithInv
    <3>2. QED BY <2>1, <3>1, <1>k, FaithfulStep
  <2>2. CASE job'.id # 0 /\ x = SnapshotOf(job')
    <3>1. job'.devices \in Seq(Dev) /\ job'.batch \in Nat BY <1>e DEF EngineInv, ScanTypeOK, Job
    <3>2. x.id = job'.id /\ x.batch = job'.batch /\ x.state = job'.state /\ x.devices = job'.devices
      BY <2>2 DEF SnapshotOf
    <3>3. IsPrefix(job'.devices, job'.devices) BY <3>1, PrefixSelf
    <3>4. QED BY <3>1, <3>2, <3>3 DEF Faithful
  <2>3. QED BY <1>e, <2>1, <2>2, KnownStep
<1>2. ASSUME ~late' PROVE Faithful(ShownSnap)'
  <2>l. ~late BY <1>2, ShownStep
  <2>1. CASE UNCHANGED <<shown, rows, given>>
    <3>1. /\ ShownSnap.id \in Nat /\ ShownSnap.batch \in Nat /\ ShownSnap.devices \in Seq(Dev)
          /\ ShownSnap.id <= jobs
      BY DEF ShownSnap, PageTypes, ShownTypes, Shown, IdsBound
    <3>2. Faithful(ShownSnap) BY <2>l DEF FaithInv
    <3>3. ASSUME NEW x, x = ShownSnap PROVE Faithful(x)'
      BY <3>1, <3>2, <3>3, FaithfulStep
    <3>4. ShownSnap' = ShownSnap BY <2>1 DEF ShownSnap
    <3>5. QED BY <3>3, <3>4 DEF Faithful
  <2>2. ASSUME NEW s \in Slot, NEW x \in Known, NEW w \in BOOLEAN, ShownByPoll(s, x, w)
        PROVE  Faithful(ShownSnap)'
    <3>1. x.id = shown.id BY <1>2, <2>2, SameScan
    <3>2. /\ shown' = [id |-> x.id, batch |-> x.batch, state |-> x.state, more |-> x.more]
          /\ rows' = IF w /\ Len(x.devices) # Len(rows) THEN x.devices ELSE rows
          /\ UNCHANGED <<scanVars, broken>>
      BY <2>2 DEF ShownByPoll, PollAnswer, PollApplies, applySnapshot
    <3>3. \/ w
          \/ Len(x.devices) = Len(rows)
          \/ x.id # job.id
      BY <2>2 DEF ShownByPoll, AnswersInv
    <3>4. QED BY <1>e, <2>l, <3>1, <3>2, <3>3, ApplyFaithful
  <2>3. CASE ShownByContinue
    <3>0. continuing.snap \in Known BY <2>3, CallParts DEF ShownByContinue, PageTypes, Known
    <3>1. continuing.snap.id = shown.id
      BY <1>2, <2>3, SameScan DEF ShownByContinue, ContinueAnswered, applySnapshot
    <3>2. /\ shown' = [id |-> continuing.snap.id, batch |-> continuing.snap.batch,
                       state |-> continuing.snap.state, more |-> continuing.snap.more]
          /\ rows' = IF Len(continuing.snap.devices) # Len(rows) THEN continuing.snap.devices ELSE rows
      BY <2>3 DEF ShownByContinue, ContinueAnswered, applySnapshot
    <3>3. UNCHANGED <<scanVars, broken>>
      BY <2>3 DEF ShownByContinue, ContinueAnswer, scanVars
    <3>4. QED BY <1>e, <2>l, <3>0, <3>1, <3>2, <3>3, ApplyFaithful
  <2>4. CASE ShownByStart
    <3>0. starting.snap \in Known BY <2>4, CallParts DEF ShownByStart, PageTypes, Known
    <3>1. Faithful(starting.snap) BY <3>0 DEF FaithInv
    <3>2. job' = job /\ broken' = broken BY <2>4 DEF ShownByStart, StartAnswer, scanVars
    <3>3. /\ ShownSnap'.id = starting.snap.id /\ ShownSnap'.batch = starting.snap.batch
          /\ ShownSnap'.state = starting.snap.state /\ ShownSnap'.devices = starting.snap.devices
      BY <2>4 DEF ShownByStart, ShownSnap
    <3>4. QED BY <3>1, <3>2, <3>3 DEF Faithful
  <2>5. CASE handleProtocolChange
    <3>1. ShownSnap'.id = 0 BY <2>5 DEF handleProtocolChange, NothingShown, ShownSnap
    <3>2. QED BY <3>1 DEF Faithful
  <2>6. QED BY <2>1, <2>2, <2>3, <2>4, <2>5, ShownStep DEF ShownMoves
<1>3. QED BY <1>1, <1>2 DEF FaithInv

(***************************************************************************)
(* The page goes on by itself.                                             *)
(***************************************************************************)

\* Who stops and allows the automatic continuation, and who starts and cancels.
LEMMA Begins ==
    ASSUME [Next]_vars
    PROVE  /\ \/ autoStopped => autoStopped'
              \/ handleStart \/ handleContinue \/ handleProtocolChange
           /\ starting' # Idle => starting # Idle \/ handleStart
           /\ canceling' # Idle => canceling # Idle \/ handleCancel
<1>d. Idle.step = "idle" BY DEF Idle
<1>1. CASE EngineStep \/ JobExpires \/ OtherClient
  BY <1>1 DEF EngineStep, JobExpires, OtherClient, pageVars
<1>2. CASE Serve
  <2>1. CASE ServeStart
    <3>1. starting # Idle BY <2>1, <1>d DEF ServeStart
    <3>2. QED BY <2>1, <3>1 DEF ServeStart
  <2>2. CASE ServeCancel
    <3>1. canceling' = canceling \/ canceling # Idle BY <2>2, <1>d DEF ServeCancel
    <3>2. QED BY <2>2, <3>1 DEF ServeCancel
  <2>3. CASE (\E s \in Slot : ServePoll(s)) \/ ServeContinue BY <2>3 DEF ServePoll, ServeContinue
  <2>4. QED BY <1>2, <2>1, <2>2, <2>3 DEF Serve
<1>3. CASE Answer
  <2>1. ASSUME NEW s \in Slot, PollAnswer(s)
        PROVE  UNCHANGED <<autoStopped, starting>> /\ canceling' \in {canceling, Idle}
    BY <2>1 DEF PollAnswer, PollGone, PollLight, PollFull, PollLost, PollApplies, PollOver
  <2>2. CASE StartAnswer BY <2>2 DEF StartAnswer
  <2>3. CASE ContinueAnswer
    <3>1. UNCHANGED <<starting, canceling>> BY <2>3 DEF ContinueAnswer
    <3>2. autoStopped' = autoStopped \/ autoStopped' = (autoStopped \/ continuing.auto)
      BY <2>3 DEF ContinueAnswer, ContinueFailed
    <3>3. autoStopped => autoStopped' BY <3>2
    <3>4. QED BY <3>1, <3>3
  <2>4. CASE CancelAnswer
    <3>1. canceling # Idle BY <2>4, <1>d DEF CancelAnswer
    <3>2. QED BY <2>4, <3>1 DEF CancelAnswer
  <2>5. QED BY <1>3, <2>1, <2>2, <2>3, <2>4 DEF Answer
<1>4. CASE Tick \/ PollDeadline BY <1>4 DEF Tick, PollDeadline
<1>5. CASE User
  BY <1>5 DEF User, handleStart, handleContinue, handleCancel, handleProtocolChange, Leave
<1>6. CASE UNCHANGED vars BY <1>6 DEF vars, pageVars
<1>7. QED BY <1>1, <1>2, <1>3, <1>4, <1>5, <1>6 DEF Next

\* A start and a cancel under way together.
OverlapInv == starting # Idle /\ canceling # Idle => "overlap" \in broken

\* A cancel under way has stopped the automatic continuation, or what was shown was cleared.
CancelStops ==
    /\ continuing.step \in {"cancel", "canceled", "polling"} => autoStopped \/ shown.id = 0
    /\ "overlap" \notin broken /\ canceling # Idle => autoStopped \/ shown.id = 0

\* The next batch is asked for as soon as the page shows that one has ended early.
NextAsked ==
    broken \cap {"start", "continue", "overlap"} = {} /\ shown.state = "done" /\ shown.more
    => autoStopped \/ WillPoll

GoInv == ~late => OverlapInv /\ CancelStops /\ NextAsked

LEMMA OverlapStep ==
    ASSUME OverlapInv, [Next]_vars
    PROVE  OverlapInv'
<1>1. "overlap" \in broken => "overlap" \in broken' BY BrokenGrows
<1>2. CASE handleStart BY <1>2 DEF handleStart, OverlapInv
<1>3. CASE handleCancel BY <1>3 DEF handleCancel, OverlapInv
<1>4. QED BY <1>1, <1>2, <1>3, Begins DEF OverlapInv

\* A cancel stops the automatic continuation until the user starts or continues a scan.
LEMMA CancelStopsStep ==
    ASSUME PageTypes, SlotInv, AnswersInv, OrderInv, OverlapInv, CancelStops, ~late', [Next]_vars
    PROVE  CancelStops'
<1>d. Idle.step = "idle" BY DEF Idle
<1>z. shown.id = 0 => shown'.id = 0 \/ ShownByStart
  BY SameScan, ShownStep DEF ShownMoves, handleProtocolChange, NothingShown
<1>p. handleProtocolChange => shown'.id = 0 BY DEF handleProtocolChange, NothingShown
<1>s. ShownByStart => starting # Idle BY <1>d DEF ShownByStart
<1>1. ASSUME continuing'.step \in {"cancel", "canceled", "polling"}
      PROVE  autoStopped' \/ shown'.id = 0
  <2>1. ~handleContinue BY <1>1 DEF handleContinue
  <2>2. ~handleStart BY <1>1, <1>d DEF handleStart
  <2>3. autoStopped => autoStopped' \/ shown'.id = 0 BY <2>1, <2>2, <1>p, Begins
  <2>4. CASE continuing.step \in {"cancel", "canceled", "polling"}
    <3>1. autoStopped \/ shown.id = 0 BY <2>4 DEF CancelStops
    <3>2. ~ShownByStart BY <2>4, <1>s, <1>d DEF SlotInv
    <3>3. QED BY <3>1, <3>2, <2>3, <1>z
  <2>5. CASE autoStopped BY <2>5, <2>3
  <2>6. QED BY <1>1, <2>4, <2>5, ContinueStepMoves DEF ContinueMoves, Continued
<1>2. ASSUME "overlap" \notin broken', canceling' # Idle
      PROVE  autoStopped' \/ shown'.id = 0
  <2>0. "overlap" \notin broken BY <1>2, BrokenGrows
  <2>1. CASE handleCancel BY <2>1 DEF handleCancel
  <2>2. CASE canceling # Idle
    <3>1. autoStopped \/ shown.id = 0 BY <2>0, <2>2 DEF CancelStops
    <3>2. ~handleContinue BY <2>2 DEF handleContinue
    <3>3. ~handleStart BY <2>2, <1>2 DEF handleStart
    <3>4. ~ShownByStart BY <2>0, <2>2, <1>s DEF OverlapInv
    <3>5. QED BY <3>1, <3>2, <3>3, <3>4, <1>z, <1>p, Begins
  <2>3. QED BY <1>2, <2>1, <2>2, Begins
<1>3. QED BY <1>1, <1>2 DEF CancelStops

\* The poll that shows the end of a batch asks for the next one.
LEMMA NextAskedStep ==
    ASSUME PageTypes, SlotInv, AnswersInv, OrderInv, CancelStops, NextAsked, ~late', [Next]_vars
    PROVE  NextAsked'
<1> SUFFICES ASSUME broken' \cap {"start", "continue", "overlap"} = {},
                    shown'.state = "done", shown'.more
             PROVE  autoStopped' \/ WillPoll'
  BY DEF NextAsked
<1>d. Idle.step = "idle" BY DEF Idle
<1>b. broken \cap {"start", "continue", "overlap"} = {} BY BrokenGrows
<1>u. ASSUME shown' = shown, autoStopped => autoStopped', WillPoll => WillPoll'
      PROVE  autoStopped' \/ WillPoll'
  BY <1>u, <1>b DEF NextAsked
<1>p. ASSUME UNCHANGED pageVars PROVE autoStopped' \/ WillPoll'
  BY <1>p, <1>u DEF pageVars, WillPoll
<1>1. CASE EngineStep \/ JobExpires \/ OtherClient
  BY <1>1, <1>p DEF EngineStep, JobExpires, OtherClient
<1>2. CASE Serve
  <2>1. CASE \E s \in Slot : ServePoll(s) BY <2>1, <1>u DEF ServePoll, WillPoll
  <2>2. CASE ServeStart
    <3>1. starting' # Idle BY <2>2 DEF ServeStart, Idle
    <3>2. QED BY <3>1 DEF WillPoll
  <2>3. CASE ServeContinue
    <3>1. continuing.step \in {"sent", "waiting"} BY <2>3 DEF ServeContinue
    <3>2. continuing'.step \in {"sent", "waiting", "ok", "failed"}
      <4>1. continuing \in [step : {"sent", "waiting", "failed"}, id : Nat, auto : BOOLEAN]
        BY <3>1 DEF PageTypes, CallTypes, ContinueCall, Idle
      <4>2. \A x : Continued(x).step = "ok" BY DEF Continued
      <4>3. QED BY <2>3, <4>1, <4>2 DEF ServeContinue
    <3>3. QED BY <3>2 DEF WillPoll
  <2>4. CASE ServeCancel
    <3>1. WillPoll => WillPoll' BY <2>4 DEF ServeCancel, WillPoll
    <3>2. QED BY <2>4, <3>1, <1>u DEF ServeCancel
  <2>5. QED BY <1>2, <2>1, <2>2, <2>3, <2>4 DEF Serve
<1>3. CASE Answer
  <2>1. ASSUME NEW s \in Slot, PollAnswer(s) PROVE autoStopped' \/ WillPoll'
    <3>0. UNCHANGED <<autoStopped, starting>> BY <2>1 DEF PollAnswer
    <3>1. polls[s] # Idle
      BY <2>1, <1>d DEF PollAnswer, PollGone, PollLight, PollFull, PollLost
    <3>2. continuing.step # "polling" => Awaited(s) = continuing BY <3>1 DEF SlotInv, Awaited
    <3>3. ASSUME continuing' = Awaited(s) PROVE WillPoll => WillPoll'
      BY <3>0, <3>2, <3>3 DEF WillPoll
    <3>4. CASE PollGone(s) \/ PollLost(s)
      <4>1. shown' = shown /\ continuing' = Awaited(s) BY <3>4 DEF PollGone, PollLost
      <4>2. QED BY <4>1, <3>0, <3>3, <1>u
    <3>5. CASE UNCHANGED <<shown, rows, jobExpired, timer, continuing, canceling, late>>
      BY <3>0, <3>5, <1>u DEF WillPoll
    <3>6. ASSUME NEW x \in Snapshot, NEW w \in BOOLEAN, PollApplies(s, x, w), Tells(polls[s], x),
                 \/ w
                 \/ Len(x.devices) = Len(rows)
                 \/ polls[s].step = "toldAll" /\ polls[s].full = Gone /\ polls[s].light = x
          PROVE  autoStopped' \/ WillPoll'
      <4>1. x \in Known BY <3>6 DEF Known
      <4>2. ShownByPoll(s, x, w) BY <2>1, <3>6 DEF ShownByPoll
      <4>3. x.id = shown.id /\ shown.id # 0 BY <4>1, <4>2, SameScan DEF Snapshot
      <4>4. x.state = "done" /\ x.more BY <3>6 DEF PollApplies, applySnapshot
      <4>5. CASE canAutoContinue(x)
        <5>1. continuing'.step = "sent" BY <3>6, <4>4, <4>5 DEF PollApplies
        <5>2. QED BY <5>1 DEF WillPoll
      <4>6. CASE ~canAutoContinue(x)
        <5>1. continuing' = Awaited(s) BY <3>6, <4>6 DEF PollApplies
        <5>2. CASE WillPoll BY <5>1, <5>2, <3>3
        <5>3. CASE ~WillPoll
          <6>1. autoStopped \/ continuing # Idle \/ canceling # Idle
            BY <4>4, <4>6, <5>3 DEF canAutoContinue, WillPoll
          <6>2. continuing # Idle => continuing.step \in {"cancel", "canceled", "polling"}
            BY <5>3, CallParts DEF PageTypes, WillPoll
          <6>3. autoStopped BY <6>1, <6>2, <4>3, <1>b DEF CancelStops
          <6>4. QED BY <6>3, <3>0
        <5>4. QED BY <5>2, <5>3
      <4>7. QED BY <4>5, <4>6
    <3>7. QED BY <2>1, <3>4, <3>5, <3>6, PollEffect DEF PollAnswer, Tells
  <2>2. CASE StartAnswer
    <3>1. CASE starting.step = "ok" /\ shown'.state = starting.snap.state
      BY <3>1 DEF AnswersInv
    <3>2. CASE broken' = broken \cup {"start"} BY <3>2
    <3>3. QED BY <2>2, <3>1, <3>2 DEF StartAnswer
  <2>3. CASE ContinueAnswer
    <3>1. CASE continuing.step = "ok" /\ ContinueAnswered
      BY <3>1 DEF ContinueAnswered, applySnapshot, AnswersInv
    <3>2. CASE ContinueFailed BY <3>2 DEF ContinueFailed
    <3>3. CASE ContinueCanceled /\ UNCHANGED <<shown, autoStopped>>
      <4>1. WillPoll => WillPoll'
        BY <2>3, <3>3 DEF ContinueAnswer, ContinueCanceled, WillPoll
      <4>2. QED BY <3>3, <4>1, <1>u
    <3>4. QED BY <2>3, <3>1, <3>2, <3>3 DEF ContinueAnswer
  <2>4. CASE CancelAnswer BY <2>4, <1>u DEF CancelAnswer, WillPoll
  <2>5. QED BY <1>3, <2>1, <2>2, <2>3, <2>4 DEF Answer
<1>4. CASE Tick BY <1>4, <1>u DEF Tick, WillPoll
<1>5. CASE PollDeadline BY <1>5, <1>u DEF PollDeadline, WillPoll
<1>6. CASE User
  <2>1. CASE handleStart BY <2>1 DEF handleStart, WillPoll, Idle
  <2>2. CASE handleContinue BY <2>2 DEF handleContinue, WillPoll
  <2>3. CASE handleCancel BY <2>3 DEF handleCancel
  <2>4. CASE handleProtocolChange BY <2>4 DEF handleProtocolChange, NothingShown
  <2>5. CASE Leave BY <2>5, <1>u DEF Leave, WillPoll
  <2>6. QED BY <1>6, <2>1, <2>2, <2>3, <2>4, <2>5 DEF User
<1>7. CASE UNCHANGED vars BY <1>7, <1>p DEF vars
<1>8. QED BY <1>1, <1>2, <1>3, <1>4, <1>5, <1>6, <1>7 DEF Next

(***************************************************************************)
(* The theorems about the page.                                            *)
(***************************************************************************)
ShowInv ==
    /\ PageInv /\ IdsBound /\ AnswersInv /\ OrderInv /\ BatchesInv
    /\ WaitInv /\ FaithInv /\ PollInv /\ GoInv

\* It is an invariant.
LEMMA ShowInvInit == Init => ShowInv
<1> SUFFICES ASSUME Init PROVE ShowInv OBVIOUS
<1>p. PageInv BY PageInvInit
<1>0. ThisPage \in Caller BY ScanPageAssumption
<1>1. /\ job = NoJob /\ jobs = 0 /\ batches = 0 /\ waiting[ThisPage] = None /\ ~overtaken
      /\ polls = [s \in Slot |-> Idle] /\ starting = Idle /\ continuing = Idle /\ canceling = Idle
      /\ shown = NothingShown /\ rows = <<>> /\ timer = 0 /\ given = 0 /\ ~late
  BY <1>0 DEF Init, ScanInit
<1>d. Idle.step = "idle" BY DEF Idle
<1>2. Known = {}
  <2>1. \A s \in Slot, x \in Snapshot : ~Tells(polls[s], x) BY <1>1, <1>d DEF Tells
  <2>2. QED BY <1>1, <1>d, <2>1 DEF Known, NoJob
<1>3. \A i \in Asked : i = 0 BY <1>1, <1>d DEF Asked
<1>4. IdsBound BY <1>1, <1>2, <1>3 DEF IdsBound, NothingShown, None
<1>5. AnswersInv BY <1>1, <1>d DEF AnswersInv, Tells
<1>6. OrderInv BY <1>1, <1>d, <1>3 DEF OrderInv
<1>7. BatchesInv BY <1>1, <1>d, <1>2 DEF BatchesInv
<1>8. WaitInv BY <1>1 DEF WaitInv, NoJob
<1>9. FaithInv BY <1>1, <1>2 DEF FaithInv, Faithful, ShownSnap, NothingShown
<1>10. PollInv BY <1>1 DEF PollInv, RunsShown, NothingShown
<1>11. GoInv BY <1>1, <1>d DEF GoInv, OverlapInv, CancelStops, NextAsked, NothingShown
<1>12. QED BY <1>p, <1>4, <1>5, <1>6, <1>7, <1>8, <1>9, <1>10, <1>11 DEF ShowInv

LEMMA ShowInvNext == ShowInv /\ [Next]_vars => ShowInv'
<1> SUFFICES ASSUME ShowInv, [Next]_vars PROVE ShowInv' OBVIOUS
<1> USE DEF ShowInv
<1>p. PageInv' BY PageInvNext
<1>e. /\ plan \in Plan /\ EngineInv /\ EngineInv' /\ ScanInv /\ ScanInv'
      /\ PageTypes /\ SlotInv
  BY <1>p DEF PageInv, ScanInv
<1>1. IdsBound' BY <1>e, IdsBoundStep
<1>2. AnswersInv' BY <1>e, AnswersStep
<1>3. OrderInv' BY <1>e, OrderStep
<1>4. BatchesInv' BY <1>e, BatchesStep
<1>5. WaitInv' BY <1>e, WaitInvStep
<1>6. FaithInv' BY <1>e, FaithStep
<1>7. PollInv' BY <1>e, PollInvStep
<1>8. GoInv'
  <2>1. ASSUME ~late' PROVE OverlapInv' /\ CancelStops' /\ NextAsked'
    <3>1. OverlapInv /\ CancelStops /\ NextAsked BY <2>1, <1>e, ShownStep DEF GoInv
    <3>2. QED BY <2>1, <3>1, <1>e, OverlapStep, CancelStopsStep, NextAskedStep
  <2>2. QED BY <2>1 DEF GoInv
<1>9. QED BY <1>p, <1>1, <1>2, <1>3, <1>4, <1>5, <1>6, <1>7, <1>8

LEMMA ShowInvHolds == Spec => []ShowInv
BY ShowInvInit, ShowInvNext, PTL DEF Spec

\* Polling goes on as long as the page shows a scan as running (PollsWhileRunning), but for what
\* an overtaken answer or another client's batch does: only the answer to a continue, whose own
\* polling follows, tells of a later batch than is shown.
THEOREM PollingGoesOn == Spec => []PollsWhileRunning
<1>1. ShowInv => PollsWhileRunning
  BY DEF ShowInv, PollInv, RunsShown, WillPoll, PollsWhileRunning, Idle
<1>2. QED BY <1>1, ShowInvHolds, PTL

\* At rest the page shows how the batch ended and every device found (ShowsAll): what it shows
\* tells of the job, and of all of it once the batch it tells of is over.
THEOREM AllIsShown == Spec => []ShowsAll
<1>1. ShowInv => ShowsAll
  <2> SUFFICES ASSUME ShowInv, Quiet, mounted, shown.id = job.id, shown.batch = job.batch,
                      ~late, ~jobExpired,
                      broken \cap {"start", "continue", "deadline", "foreign"} = {}
               PROVE  shown.state = job.state /\ rows = job.devices
    BY DEF ShowsAll
  <2>1. CASE shown.id = 0
    <3>1. shown = NothingShown /\ rows = <<>> BY <2>1 DEF ShowInv, AnswersInv
    <3>2. job = NoJob BY <2>1 DEF ShowInv, PageInv, ScanInv, EngineInv, JobInv
    <3>3. QED BY <3>1, <3>2 DEF NothingShown, NoJob
  <2>2. CASE shown.id # 0
    <3>1. ~WillPoll /\ timer = 0 BY DEF Quiet, WillPoll, Idle
    <3>2. shown.state # "running" BY <2>2, <3>1 DEF ShowInv, PollInv, RunsShown
    <3>3. Faithful(ShownSnap) BY DEF ShowInv, FaithInv
    <3>4. /\ ShownSnap.id = shown.id /\ ShownSnap.batch = shown.batch
          /\ ShownSnap.state = shown.state /\ ShownSnap.devices = rows
      BY DEF ShownSnap
    <3>5. QED BY <2>2, <3>2, <3>3, <3>4 DEF Faithful
  <2>3. QED BY <2>1, <2>2
<1>2. QED BY <1>1, ShowInvHolds, PTL

\* The page rests before the last target only if the automatic continuation was stopped
\* (GoesOnByItself): whatever keeps it from going on has stopped it, or will poll.
THEOREM BatchesFollow == Spec => []GoesOnByItself
<1>1. ShowInv => GoesOnByItself
  <2> SUFFICES ASSUME ShowInv, Quiet, ~late, broken \cap {"start", "continue", "overlap"} = {},
                      shown.state = "done", shown.more
               PROVE  autoStopped
    BY DEF GoesOnByItself
  <2>1. ~WillPoll BY DEF Quiet, WillPoll, Idle
  <2>2. QED BY <2>1 DEF ShowInv, GoInv, NextAsked
<1>2. QED BY <1>1, ShowInvHolds, PTL

===============================================================================
