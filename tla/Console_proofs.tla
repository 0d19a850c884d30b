----------------------------- MODULE Console_proofs -----------------------------
(***************************************************************************)
(* Proofs about the dialog of a push channel: what it saves is the         *)
(* channel's own, unless it was filled with the late details of another    *)
(* one, and what it shows of its own state is true, with the exceptions    *)
(* that ChannelDialog names.                                               *)
(***************************************************************************)
EXTENDS Console, TLAPS

(***************************************************************************)
(* Types.                                                                  *)
(***************************************************************************)

Requested == [kind : {"detail"}, of : Channel]
             \cup [kind : {"form"}, id : Nat, type : Type, of : Channel \cup {None}]
             \cup [kind : {"auto"}, id : Nat, edition : Nat]
             \cup [kind : {"manual"}, id : Nat, edition : Nat, editor : BOOLEAN]
             \cup [kind : {"save"}]

Dialogs == [open : BOOLEAN, channel : Channel \cup {New, None},
            type : Type \cup {None}, first : Type \cup {None}]
Outputs == [of : Channel \cup {None}, kind : Kind, edition : Nat]
Forms == [type : Type \cup {None}, of : Channel \cup {None}]
Previews == [id : Nat, manual : Nat, busy : BOOLEAN, timer : Nat, auto : BOOLEAN,
             result : Nat \cup {NoResult}]

DialogTypes ==
    /\ dlg \in Dialogs /\ output \in Outputs /\ form \in Forms /\ preview \in Previews
    /\ groups \in Channel \cup {None} /\ formId \in Nat
    /\ loading \in BOOLEAN /\ submitting \in BOOLEAN /\ formLoading \in BOOLEAN
    /\ foreign \in BOOLEAN /\ outdated \in BOOLEAN /\ typed \in BOOLEAN
    /\ Awaited \subseteq Requested

(***************************************************************************)
(* What is in the dialog, or will be, is the channel's own.                *)
(***************************************************************************)

\* A form on its way to the dialog that is open is that of its type and of its channel.
FormComes ==
    \A w \in Awaited : w.kind = "form" /\ w.id = formId => w.of \in Own /\ w.type = dlg.type

\* Until the details of the channel are there, the groups and the form of another one may be.
OwnInv ==
    dlg.open /\ ~foreign =>
        /\ output.of \in Own
        /\ ~loading => /\ groups \in Own /\ form.of \in Own
                       /\ form.type \in {dlg.type, None}
                       /\ FormComes

(***************************************************************************)
(* Requests that are no longer of interest have ids of the past.           *)
(***************************************************************************)

\* The previews that will be shown are of what the dialog holds, as each edit that is announced
\* takes a new id; while the timer waits none is on its way.
ComingIsCurrent ==
    \A w \in Awaited :
        /\ w.kind = "form" => w.id <= formId
        /\ w.kind \in {"auto", "manual"} =>
              w.id <= preview.id /\ (preview.timer # 0 => w.id # preview.id)
        /\ w.kind = "auto" \/ (w.kind = "manual" /\ w.editor) =>
              (w.id = preview.id => w.edition = output.edition \/ typed)

TrueInv ==
    /\ ComingIsCurrent /\ PreviewIsCurrent /\ WaitsForAnswers
    /\ preview.timer \in {0, preview.id} /\ (preview.timer # 0 => preview.auto)
    /\ preview.manual <= preview.id

DialogInv == DialogTypes /\ OwnInv /\ TrueInv

-------------------------------------------------------------------------------
\* Nothing is open and nothing is asked for.
LEMMA DialogInvInit == DialogInit => DialogInv
<1> SUFFICES ASSUME DialogInit PROVE DialogInv OBVIOUS
<1>1. Awaited = {} BY DEF DialogInit, Awaited
<1>2. DialogTypes
  BY <1>1, DialogAssumption
     DEF DialogInit, DialogTypes, Dialogs, Outputs, Forms, Previews, NoForm, NoPreview, NoResult, Kind
<1>3. OwnInv BY DEF DialogInit, OwnInv
<1>4. TrueInv
  BY <1>1 DEF DialogInit, TrueInv, ComingIsCurrent, PreviewIsCurrent, WaitsForAnswers, NoPreview
<1>5. QED BY <1>2, <1>3, <1>4 DEF DialogInv

(***************************************************************************)
(* The parts of the handlers.                                              *)
(***************************************************************************)

\* A request sent is awaited, with those sent before.
LEMMA Sent ==
    ASSUME NEW what, NEW others
    PROVE  {r.what : r \in Send(what, others)} = {r.what : r \in others} \cup {what}
<1>1. PICK no : Send(what, others) = others \cup {[no |-> no, what |-> what]} BY DEF Send
<1>2. [no |-> no, what |-> what].what = what OBVIOUS
<1> DEFINE q == [no |-> no, what |-> what]
<1>3. Send(what, others) = others \cup {q} /\ q.what = what BY <1>1, <1>2
<1> HIDE DEF q
<1>4. QED BY <1>3

\* An answer leaves the requests that are not like it.
LEMMA Taken ==
    ASSUME NEW r \in flight
    PROVE  /\ r.what \in Awaited
           /\ {q.what : q \in flight \ {r}} \subseteq Awaited
           /\ \A w \in Awaited : w # r.what => w \in {q.what : q \in flight \ {r}}
BY DEF Awaited

\* What a request has, by its kind.
LEMMA RequestParts ==
    ASSUME NEW w \in Requested
    PROVE  /\ w.kind = "detail" => w.of \in Channel
           /\ w.kind = "form" => w.id \in Nat /\ w.type \in Type /\ w.of \in Channel \cup {None}
           /\ w.kind = "auto" => w.id \in Nat /\ w.edition \in Nat
           /\ w.kind = "manual" => w.id \in Nat /\ w.edition \in Nat /\ w.editor \in BOOLEAN
BY DEF Requested

\* cancelAutoPreview keeps the result, the id and the manual preview.
LEMMA CancelAutoParts ==
    ASSUME NEW p \in Previews
    PROVE  /\ CancelAuto(p) \in Previews
           /\ CancelAuto(p).id = p.id /\ CancelAuto(p).manual = p.manual
           /\ CancelAuto(p).busy = p.busy /\ CancelAuto(p).result = p.result
           /\ CancelAuto(p).timer = 0 /\ CancelAuto(p).auto = FALSE
BY DEF CancelAuto, Previews

\* resetMappingState leaves nothing that could be shown or waited for.
LEMMA ResetPreviewParts ==
    ASSUME NEW p \in Previews
    PROVE  /\ ResetPreview(p) \in Previews
           /\ ResetPreview(p).id = p.id + 1 /\ ResetPreview(p).manual = 0
           /\ ResetPreview(p).busy = FALSE /\ ResetPreview(p).result = NoResult
           /\ ResetPreview(p).timer = 0 /\ ResetPreview(p).auto = FALSE
<1> DEFINE c == CancelAuto(p)
<1>1. c \in Previews /\ c.id = p.id /\ c.timer = 0 /\ c.auto = FALSE BY CancelAutoParts
<1>2. ResetPreview(p) = [c EXCEPT !.result = NoResult, !.busy = FALSE, !.manual = 0, !.id = c.id + 1]
  BY DEF ResetPreview
<1> HIDE DEF c
<1>3. c.id + 1 \in Nat BY <1>1 DEF Previews
<1>4. ResetPreview(p) \in Previews BY <1>1, <1>2, <1>3 DEF Previews
<1>5. QED BY <1>1, <1>2, <1>3, <1>4 DEF Previews

\* scheduleAutoPreview makes what is under way obsolete, whatever the content is.
Obsoleted(p) == [CancelAuto(p) EXCEPT !.id = @ + 1]
Planned(p) == [Obsoleted(p) EXCEPT !.timer = Obsoleted(p).id, !.auto = TRUE]
Rejected(p) == [Obsoleted(p) EXCEPT !.result = NoResult]

LEMMA ScheduleAutoParts ==
    ASSUME NEW p \in Previews, NEW q \in {Obsoleted(p), Planned(p), Rejected(p)}
    PROVE  /\ q \in Previews
           /\ q.id = p.id + 1 /\ q.manual = p.manual /\ q.busy = p.busy
           /\ q.result \in {p.result, NoResult}
           /\ q.timer \in {0, q.id} /\ (q.auto => q.timer = q.id) /\ (q.timer # 0 => q.auto)
           /\ (q = Planned(p) => q.auto) /\ (q = Rejected(p) => q.result = NoResult)
<1> DEFINE c == CancelAuto(p)
           o == Obsoleted(p)
<1>1. /\ c \in Previews /\ c.id = p.id /\ c.manual = p.manual /\ c.busy = p.busy
      /\ c.result = p.result /\ c.timer = 0 /\ c.auto = FALSE
  BY CancelAutoParts
<1>2. o = [c EXCEPT !.id = c.id + 1] BY DEF Obsoleted
<1>3. Planned(p) = [o EXCEPT !.timer = o.id, !.auto = TRUE] BY DEF Planned
<1>4. Rejected(p) = [o EXCEPT !.result = NoResult] BY DEF Rejected
<1> HIDE DEF c, o
<1>5. c.id + 1 \in Nat BY <1>1 DEF Previews
<1>6. o \in Previews BY <1>1, <1>2, <1>5 DEF Previews
<1>7. /\ o.id = p.id + 1 /\ o.manual = p.manual /\ o.busy = p.busy /\ o.result = p.result
      /\ o.timer = 0 /\ o.auto = FALSE
  BY <1>1, <1>2 DEF Previews
<1>a. Planned(p).auto BY <1>3, <1>6 DEF Previews
<1>r. Rejected(p).result = NoResult BY <1>4, <1>6 DEF Previews
<1>8. CASE q = o BY <1>6, <1>7, <1>8, <1>a, <1>r
<1>9. CASE q = Planned(p)
  <2>1. q = [o EXCEPT !.timer = o.id, !.auto = TRUE] BY <1>3, <1>9
  <2>2. q \in Previews BY <1>6, <2>1 DEF Previews
  <2>3. QED BY <1>6, <1>7, <1>r, <2>1, <2>2 DEF Previews
<1>10. CASE q = Rejected(p)
  <2>1. q = [o EXCEPT !.result = NoResult] BY <1>4, <1>10
  <2>2. q \in Previews BY <1>6, <2>1 DEF Previews
  <2>3. QED BY <1>6, <1>7, <1>a, <2>1, <2>2 DEF Previews
<1>11. QED BY <1>8, <1>9, <1>10 DEF o

-------------------------------------------------------------------------------
(***************************************************************************)
(* What the user does.                                                     *)
(***************************************************************************)

\* Nothing is asked, and the previews under way, if the content is another, are obsolete.
LEMMA ComingStays ==
    ASSUME DialogTypes, ComingIsCurrent,
           formId' \in Nat, formId' >= formId, preview'.id \in Nat,
           \/ preview'.id > preview.id
           \/ /\ preview'.id = preview.id /\ preview'.timer = preview.timer
              /\ typed' \/ (output' = output /\ typed' = typed),
           \A w \in Awaited' : \/ w \in Awaited
                               \/ w.kind \in {"detail", "save"}
                               \/ w.kind = "form" /\ w.id <= formId'
    PROVE  ComingIsCurrent'
<1> SUFFICES ASSUME NEW v \in Awaited'
             PROVE  /\ v.kind = "form" => v.id <= formId'
                    /\ v.kind \in {"auto", "manual"} =>
                          v.id <= preview'.id /\ (preview'.timer # 0 => v.id # preview'.id)
                    /\ v.kind = "auto" \/ (v.kind = "manual" /\ v.editor) =>
                          (v.id = preview'.id => v.edition = output'.edition \/ typed')
  BY DEF ComingIsCurrent
<1>1. CASE v \in Awaited
  <2>1. v.kind = "form" => v.id \in Nat BY <1>1, RequestParts DEF DialogTypes
  <2>2. v.kind \in {"auto", "manual"} => v.id \in Nat BY <1>1, RequestParts DEF DialogTypes
  <2>3. preview.id \in Nat /\ formId \in Nat BY DEF DialogTypes, Previews
  <2>4. QED BY <1>1, <2>1, <2>2, <2>3 DEF ComingIsCurrent
<1>2. CASE v \notin Awaited BY <1>2
<1>3. QED BY <1>1, <1>2

\* An empty dialog.
LEMMA AddKeeps ==
    ASSUME DialogInv, Add
    PROVE  DialogInv'
<1>t. DialogTypes /\ TrueInv BY DEF DialogInv
<1>a. Awaited' = Awaited BY DEF Add, Awaited
<1>p. /\ preview' \in Previews /\ preview'.id = preview.id + 1 /\ preview'.id \in Nat
      /\ preview'.manual = 0 /\ preview'.timer = 0
      /\ ~preview'.busy /\ ~preview'.auto /\ preview'.result = NoResult /\ preview.id \in Nat
  BY <1>t, ResetPreviewParts DEF Add, DialogTypes, Previews
<1>1. DialogTypes'
  <2>1. dlg' = [dlg EXCEPT !.open = TRUE, !.channel = New, !.type = None] BY DEF Add
  <2>2. dlg' \in Dialogs BY <1>t, <2>1 DEF DialogTypes, Dialogs
  <2>3. output' \in Outputs BY <1>t DEF DialogTypes, Outputs, Add, Content, Kind
  <2>4. form' \in Forms BY DEF Add, ClearForm, Forms, NoForm
  <2>5. formId' \in Nat /\ groups' \in Channel \cup {None} BY <1>t DEF Add, ClearForm, DialogTypes
  <2>6. Awaited' \subseteq Requested BY <1>t, <1>a DEF DialogTypes
  <2>7. QED BY <1>t, <1>p, <2>2, <2>3, <2>4, <2>5, <2>6 DEF Add, ClearForm, DialogTypes, NothingShown
<1>2. OwnInv'
  <2>1. ~foreign' /\ dlg'.channel = New /\ output'.of = None /\ groups' = None /\ form' = NoForm
        /\ formId' = formId + 1
    BY <1>t DEF Add, DialogTypes, Dialogs, Content, ClearForm
  <2>2. None \in Own' BY DEF Own
  <2>3. FormComes'
    BY <1>t, <1>a, <2>1, RequestParts DEF FormComes, TrueInv, ComingIsCurrent, DialogTypes
  <2>4. QED BY <2>1, <2>2, <2>3 DEF OwnInv, NoForm
<1>3. TrueInv'
  <2>1. formId' = formId + 1 /\ formId \in Nat BY <1>t DEF Add, ClearForm, DialogTypes
  <2>2. ComingIsCurrent'
    <3>3. formId' \in Nat /\ formId' >= formId BY <2>1
    <3>4. preview'.id > preview.id BY <1>p
    <3>5. ComingIsCurrent BY <1>t DEF TrueInv
    <3>6. QED BY <1>t, <1>a, <1>p, <3>3, <3>4, <3>5, ComingStays
  <2>3. PreviewIsCurrent' BY <1>p DEF PreviewIsCurrent
  <2>4. WaitsForAnswers' 
    BY <1>t, <1>a, <1>p DEF Add, WaitsForAnswers, TrueInv, DialogTypes, Dialogs, ClearForm
  <2>5. QED BY <1>p, <2>2, <2>3, <2>4 DEF TrueInv
<1>4. QED BY <1>1, <1>2, <1>3 DEF DialogInv

\* The groups and the form may be another channel's until the details are there.
LEMMA EditChannelKeeps ==
    ASSUME DialogInv, NEW c \in Channel, EditChannel(c)
    PROVE  DialogInv'
<1>t. DialogTypes /\ TrueInv BY DEF DialogInv
<1> DEFINE w == [kind |-> "detail", of |-> c]
<1>a. Awaited' = Awaited \cup {w} BY Sent DEF EditChannel, Awaited
<1>w. w \in Requested /\ w.kind = "detail" /\ w.of = c BY DEF Requested
<1> HIDE DEF w
<1>p. /\ preview' \in Previews /\ preview'.id = preview.id + 1 /\ preview'.id \in Nat
      /\ preview'.manual = 0 /\ preview'.timer = 0
      /\ ~preview'.busy /\ ~preview'.auto /\ preview'.result = NoResult /\ preview.id \in Nat
  BY <1>t, ResetPreviewParts DEF EditChannel, DialogTypes, Previews
<1>o. output' = [of |-> None, kind |-> "plain", edition |-> output.edition + 1]
  BY DEF EditChannel, Content
<1>1. DialogTypes'
  <2>1. TypeOf[c] \in Type BY DialogAssumption
  <2>2. Awaited' \subseteq Requested BY <1>t, <1>a, <1>w DEF DialogTypes
  <2>3. dlg' \in Dialogs BY <1>t, <2>1 DEF EditChannel, DialogTypes, Dialogs
  <2>4. output' \in Outputs BY <1>t, <1>o DEF DialogTypes, Outputs, Kind
  <2>5. QED BY <1>t, <1>p, <2>2, <2>3, <2>4 DEF EditChannel, DialogTypes, NothingShown
<1>2. OwnInv'
  <2>1. loading' /\ output'.of = None BY <1>o DEF EditChannel
  <2>2. None \in Own' BY DEF Own
  <2>3. QED BY <2>1, <2>2 DEF OwnInv
<1>3. TrueInv'
  <2>1. ComingIsCurrent'
    <3>1. formId' = formId /\ formId \in Nat BY <1>t DEF EditChannel, DialogTypes
    <3>2. QED BY <1>t, <1>a, <1>w, <1>p, <3>1, ComingStays DEF TrueInv
  <2>2. PreviewIsCurrent' BY <1>p DEF PreviewIsCurrent
  <2>3. WaitsForAnswers'
    <3>1. loading' /\ dlg'.channel = c /\ UNCHANGED submitting BY DEF EditChannel
    <3>2. QED BY <1>t, <1>a, <1>w, <1>p, <3>1 DEF WaitsForAnswers, TrueInv
  <2>4. QED BY <1>p, <2>1, <2>2, <2>3 DEF TrueInv
<1>4. QED BY <1>1, <1>2, <1>3 DEF DialogInv

\* The type of a new channel; its form is asked for.
LEMMA SelectTypeKeeps ==
    ASSUME DialogInv, NEW type \in Type, SelectType(type)
    PROVE  DialogInv'
<1>t. DialogTypes /\ TrueInv /\ type # None BY DialogAssumption DEF DialogInv
<1> DEFINE w == [kind |-> "form", id |-> formId + 1, type |-> type, of |-> None]
<1>f. formId' = formId + 1 /\ formId \in Nat /\ form' = NoForm /\ formLoading' = TRUE
  BY <1>t DEF SelectType, LoadForm, DialogTypes
<1>a. Awaited' = Awaited \cup {w} BY <1>t, Sent DEF SelectType, LoadForm, Awaited
<1>w. w \in Requested /\ w.kind = "form" /\ w.id = formId' /\ w.type = type /\ w.of = None
  BY <1>f DEF Requested
<1> HIDE DEF w
<1>d. dlg' = [dlg EXCEPT !.type = type] /\ dlg.channel = New /\ dlg' \in Dialogs
  BY <1>t DEF SelectType, DialogTypes, Dialogs
<1>o. output' = [of |-> None, kind |-> "plain", edition |-> output.edition + 1]
  BY DEF SelectType, Content
<1>p. /\ preview' \in Previews /\ preview'.id = preview.id + 2 /\ preview'.id \in Nat
      /\ preview'.manual = 0 /\ preview'.timer \in {0, preview'.id}
      /\ ~preview'.busy /\ preview'.result = NoResult /\ preview.id \in Nat
      /\ (preview'.auto => preview'.timer = preview'.id) /\ (preview'.timer # 0 => preview'.auto)
  <2> DEFINE p == ResetPreview(preview)
  <2>1. p \in Previews /\ p.id = preview.id + 1 /\ p.manual = 0 /\ ~p.busy /\ p.result = NoResult
        /\ preview.id \in Nat
    BY <1>t, ResetPreviewParts DEF DialogTypes, Previews
  <2>2. preview' = Obsoleted(p) BY DEF SelectType, ScheduleAuto, Obsoleted
  <2> HIDE DEF p
  <2>3. /\ preview' \in Previews /\ preview'.id = p.id + 1 /\ preview'.manual = p.manual
        /\ preview'.busy = p.busy /\ preview'.result \in {p.result, NoResult}
        /\ preview'.timer \in {0, preview'.id} /\ (preview'.auto => preview'.timer = preview'.id) /\ (preview'.timer # 0 => preview'.auto)
    BY <2>1, <2>2, ScheduleAutoParts
  <2>4. QED BY <2>1, <2>3 DEF Previews
<1>1. DialogTypes'
  <2>1. output' \in Outputs BY <1>t, <1>o DEF DialogTypes, Outputs, Kind
  <2>2. form' \in Forms BY <1>f DEF Forms, NoForm
  <2>3. Awaited' \subseteq Requested BY <1>t, <1>a, <1>w DEF DialogTypes
  <2>4. loading' = loading /\ submitting' = submitting /\ groups' = groups /\ foreign' = foreign
        /\ outdated' = FALSE /\ typed' = FALSE
    BY DEF SelectType, NothingShown
  <2>5. formId' \in Nat BY <1>f
  <2>6. loading' \in BOOLEAN /\ submitting' \in BOOLEAN /\ foreign' \in BOOLEAN
    BY <1>t, <2>4 DEF DialogTypes
  <2>7. formLoading' \in BOOLEAN /\ outdated' \in BOOLEAN /\ typed' \in BOOLEAN BY <1>f, <2>4
  <2>8. groups' \in Channel \cup {None} BY <1>t, <2>4 DEF DialogTypes
  <2>9. QED BY <1>d, <1>p, <2>1, <2>2, <2>3, <2>5, <2>6, <2>7, <2>8 DEF DialogTypes
<1>2. OwnInv'
  <2>1. Own' = Own /\ None \in Own BY <1>t, <1>d DEF Own, DialogTypes, Dialogs
  <2>2. FormComes'
    <3> SUFFICES ASSUME NEW v \in Awaited', v.kind = "form", v.id = formId'
                 PROVE  v.of \in Own /\ v.type = dlg'.type
      BY <2>1 DEF FormComes
    <3>1. v \notin Awaited BY <1>t, <1>f, RequestParts DEF TrueInv, ComingIsCurrent, DialogTypes
    <3>2. v = w BY <1>a, <3>1
    <3>3. QED BY <1>t, <1>w, <1>d, <2>1, <3>2 DEF DialogTypes, Dialogs
  <2>3. QED BY <1>f, <1>o, <1>d, <2>1, <2>2 DEF OwnInv, SelectType, NoForm, DialogInv
<1>3. TrueInv'
  <2>1. ComingIsCurrent' BY <1>t, <1>a, <1>w, <1>f, <1>p, ComingStays DEF TrueInv
  <2>2. PreviewIsCurrent' BY <1>p DEF PreviewIsCurrent
  <2>3. WaitsForAnswers'
    <3>1. dlg'.channel = dlg.channel /\ UNCHANGED <<loading, submitting>>
      BY <1>t, <1>d DEF SelectType, DialogTypes, Dialogs
    <3>2. QED BY <1>t, <1>a, <1>w, <1>p, <3>1 DEF WaitsForAnswers, TrueInv
  <2>4. QED BY <1>p, <2>1, <2>2, <2>3 DEF TrueInv
<1>4. QED BY <1>1, <1>2, <1>3 DEF DialogInv

\* An edit that is announced takes a new id, so that no preview of what was edited is shown.
LEMMA EditContentKeeps ==
    ASSUME DialogInv, NEW valid \in BOOLEAN, EditContent(valid)
    PROVE  DialogInv'
<1>t. DialogTypes /\ TrueInv /\ OwnInv BY DEF DialogInv
<1>u. UNCHANGED <<dlg, loading, submitting, groups, form, formId, formLoading, foreign>>
  BY DEF EditContent
<1>a. Awaited' = Awaited BY DEF EditContent, Awaited
<1>o. output' \in Outputs /\ output'.of = output.of BY <1>t DEF EditContent, DialogTypes, Outputs
<1>p. /\ preview' \in Previews /\ preview'.id = preview.id + 1 /\ preview'.id \in Nat /\ preview.id \in Nat
      /\ preview'.manual = preview.manual /\ preview'.busy = preview.busy
      /\ preview'.timer \in {0, preview'.id} /\ (preview'.auto => preview'.timer = preview'.id) /\ (preview'.timer # 0 => preview'.auto)
      /\ preview'.auto \/ preview'.result = NoResult
  <2>1. preview \in Previews BY <1>t DEF DialogTypes
  <2>2. preview' \in {Planned(preview), Rejected(preview)}
    BY DEF EditContent, ScheduleAuto, Obsoleted, Planned, Rejected
  <2>3. /\ preview' \in Previews /\ preview'.id = preview.id + 1 /\ preview'.manual = preview.manual
        /\ preview'.busy = preview.busy /\ preview'.timer \in {0, preview'.id}
        /\ (preview'.auto => preview'.timer = preview'.id) /\ (preview'.timer # 0 => preview'.auto)
        /\ preview'.auto \/ preview'.result = NoResult
    BY <2>1, <2>2, ScheduleAutoParts
  <2>4. QED BY <2>1, <2>3 DEF Previews
<1>1. DialogTypes' BY <1>t, <1>u, <1>a, <1>o, <1>p DEF EditContent, DialogTypes
<1>2. OwnInv' BY <1>t, <1>u, <1>a, <1>o DEF OwnInv, FormComes, Own
<1>3. TrueInv'
  <2>1. ComingIsCurrent' BY <1>t, <1>a, <1>u, <1>p, ComingStays DEF TrueInv, DialogTypes
  <2>2. PreviewIsCurrent' BY <1>p DEF PreviewIsCurrent
  <2>3. WaitsForAnswers' BY <1>t, <1>u, <1>a, <1>p DEF WaitsForAnswers, TrueInv
  <2>4. preview'.manual <= preview'.id BY <1>t, <1>p DEF TrueInv, DialogTypes, Previews
  <2>5. QED BY <1>p, <2>1, <2>2, <2>3, <2>4 DEF TrueInv
<1>4. QED BY <1>1, <1>2, <1>3 DEF DialogInv

\* What is typed as JSON is not announced, and is remembered.
LEMMA EditTextKeeps ==
    ASSUME DialogInv, EditText
    PROVE  DialogInv'
<1>t. DialogTypes /\ TrueInv /\ OwnInv BY DEF DialogInv
<1>u. UNCHANGED <<dlg, loading, submitting, groups, form, formId, formLoading, preview, foreign, outdated>>
      /\ typed' = TRUE
  BY DEF EditText
<1>a. Awaited' = Awaited BY DEF EditText, Awaited
<1>o. output' \in Outputs /\ output'.of = output.of BY <1>t DEF EditText, DialogTypes, Outputs
<1>1. DialogTypes' BY <1>t, <1>u, <1>a, <1>o DEF DialogTypes
<1>2. OwnInv' BY <1>t, <1>u, <1>a, <1>o DEF OwnInv, FormComes, Own
<1>3. TrueInv'
  <2>1. ComingIsCurrent'
    <3>1. formId' \in Nat /\ formId' >= formId /\ preview'.id \in Nat
      BY <1>t, <1>u DEF DialogTypes, Previews
    <3>2. QED BY <1>t, <1>u, <1>a, <3>1, ComingStays DEF TrueInv
  <2>2. PreviewIsCurrent' BY <1>u DEF PreviewIsCurrent
  <2>3. WaitsForAnswers' BY <1>t, <1>u, <1>a DEF WaitsForAnswers, TrueInv
  <2>4. QED BY <1>t, <1>u, <2>1, <2>2, <2>3 DEF TrueInv
<1>4. QED BY <1>1, <1>2, <1>3 DEF DialogInv

\* A change of the format takes a new id.
LEMMA ChangeFormatKeeps ==
    ASSUME DialogInv, ChangeFormat
    PROVE  DialogInv'
<1>t. DialogTypes /\ TrueInv /\ OwnInv BY DEF DialogInv
<1>u. UNCHANGED <<dlg, loading, submitting, groups, form, formId, formLoading, foreign>>
  BY DEF ChangeFormat
<1>a. Awaited' = Awaited BY DEF ChangeFormat, Awaited
<1>k. PICK kind \in Kind :
        /\ output' = [output EXCEPT !.kind = kind, !.edition = @ + 1]
        /\ LET p == [CancelAuto(preview) EXCEPT !.result = NoResult, !.id = @ + 1] IN
           preview' = IF kind = "editor" THEN ScheduleAuto(p, ~submitting, kind, TRUE) ELSE p
  BY DEF ChangeFormat
<1>o. output' \in Outputs /\ output'.of = output.of
  <2>1. output \in Outputs BY <1>t DEF DialogTypes
  <2>2. output' = [output EXCEPT !.kind = kind, !.edition = output.edition + 1] BY <1>k
  <2>3. output.edition + 1 \in Nat BY <2>1 DEF Outputs
  <2>4. QED BY <2>1, <2>2, <2>3 DEF Outputs
<1>p. /\ preview' \in Previews /\ preview'.id > preview.id /\ preview'.id \in Nat /\ preview.id \in Nat
      /\ preview'.manual = preview.manual /\ preview'.busy = preview.busy
      /\ preview'.timer \in {0, preview'.id} /\ (preview'.auto => preview'.timer = preview'.id) /\ (preview'.timer # 0 => preview'.auto)
      /\ preview'.result = NoResult
  <2> DEFINE c == CancelAuto(preview)
             p == [c EXCEPT !.result = NoResult, !.id = c.id + 1]
  <2>1. /\ c \in Previews /\ c.id = preview.id /\ c.manual = preview.manual /\ c.busy = preview.busy
        /\ c.timer = 0 /\ ~c.auto /\ preview.id \in Nat
    BY <1>t, CancelAutoParts DEF DialogTypes, Previews
  <2>2. preview' = IF kind = "editor" THEN ScheduleAuto(p, ~submitting, kind, TRUE) ELSE p
    BY <1>k
  <2> HIDE DEF c
  <2>3. /\ p \in Previews /\ p.id = preview.id + 1 /\ p.manual = preview.manual /\ p.busy = preview.busy
        /\ p.timer = 0 /\ ~p.auto /\ p.result = NoResult
    <3>1. c.id + 1 \in Nat BY <2>1
    <3>2. p \in Previews BY <2>1, <3>1 DEF Previews
    <3>3. QED BY <2>1, <3>1, <3>2 DEF Previews
  <2> HIDE DEF p
  <2>4. CASE kind = "editor"
    <3>1. preview' \in {Obsoleted(p), Planned(p)}
      BY <2>2, <2>4 DEF ScheduleAuto, Obsoleted, Planned
    <3>2. /\ preview' \in Previews /\ preview'.id = p.id + 1 /\ preview'.manual = p.manual
          /\ preview'.busy = p.busy /\ preview'.result \in {p.result, NoResult}
          /\ preview'.timer \in {0, preview'.id} /\ (preview'.auto => preview'.timer = preview'.id) /\ (preview'.timer # 0 => preview'.auto)
      BY <2>3, <3>1, ScheduleAutoParts
    <3>3. QED BY <2>1, <2>3, <3>2 DEF Previews
  <2>5. CASE kind # "editor" BY <2>1, <2>2, <2>3, <2>5
  <2>6. QED BY <2>4, <2>5
<1>1. DialogTypes' BY <1>t, <1>u, <1>a, <1>o, <1>p DEF ChangeFormat, DialogTypes, NothingShown
<1>2. OwnInv' BY <1>t, <1>u, <1>a, <1>o DEF OwnInv, FormComes, Own
<1>3. TrueInv'
  <2>1. ComingIsCurrent' BY <1>t, <1>a, <1>u, <1>p, ComingStays DEF TrueInv, DialogTypes
  <2>2. PreviewIsCurrent' BY <1>p DEF PreviewIsCurrent
  <2>3. WaitsForAnswers' BY <1>t, <1>u, <1>a, <1>p DEF WaitsForAnswers, TrueInv
  <2>4. preview'.manual <= preview'.id BY <1>t, <1>p DEF TrueInv, DialogTypes, Previews
  <2>5. QED BY <1>p, <2>1, <2>2, <2>3, <2>4 DEF TrueInv
<1>4. QED BY <1>1, <1>2, <1>3 DEF DialogInv

\* A manual preview is of what the dialog holds.
LEMMA PreviewKeeps ==
    ASSUME DialogInv, Preview
    PROVE  DialogInv'
<1>t. DialogTypes /\ TrueInv /\ OwnInv BY DEF DialogInv
<1>u. /\ UNCHANGED <<dlg, loading, submitting, output, groups, form, formId, formLoading, foreign, outdated>>
      /\ typed' = FALSE
  BY DEF Preview
<1>n. preview \in Previews /\ preview.id \in Nat /\ output.edition \in Nat
  BY <1>t DEF DialogTypes, Previews, Outputs
<1> DEFINE editor == output.kind = "editor"
           w == [kind |-> "manual", id |-> preview.id + 1, edition |-> output.edition, editor |-> editor]
<1>a. Awaited' = Awaited \cup {w} BY Sent DEF Preview, Awaited
<1>e. editor \in BOOLEAN OBVIOUS
<1> HIDE DEF editor
<1>w. w \in Requested /\ w.kind = "manual" /\ w.id = preview.id + 1 /\ w.edition = output.edition
  BY <1>n, <1>e DEF Requested
<1> HIDE DEF w
<1>p. /\ preview' \in Previews /\ preview'.id = preview.id + 1 /\ preview'.id \in Nat
      /\ preview'.manual = preview'.id /\ preview'.timer = 0 /\ preview'.busy /\ ~preview'.auto
  <2> DEFINE c == CancelAuto(preview)
  <2>1. c \in Previews /\ c.timer = 0 /\ ~c.auto /\ c.id = preview.id BY <1>n, CancelAutoParts
  <2>2. preview' = [c EXCEPT !.id = c.id + 1, !.manual = preview.id + 1, !.busy = TRUE]
    BY DEF Preview
  <2> HIDE DEF c
  <2>3. c.id + 1 \in Nat /\ preview.id + 1 \in Nat BY <1>n, <2>1
  <2>4. preview' \in Previews BY <2>1, <2>2, <2>3 DEF Previews
  <2>5. QED BY <1>n, <2>1, <2>2, <2>4 DEF Previews
<1>1. DialogTypes'
  <2>1. Awaited' \subseteq Requested BY <1>t, <1>a, <1>w DEF DialogTypes
  <2>2. QED BY <1>t, <1>u, <1>p, <2>1 DEF DialogTypes
<1>2. OwnInv' BY <1>t, <1>u, <1>a, <1>w DEF OwnInv, FormComes, Own
<1>3. TrueInv'
  <2>1. ComingIsCurrent'
    <3> SUFFICES ASSUME NEW v \in Awaited'
                 PROVE  /\ v.kind = "form" => v.id <= formId
                        /\ v.kind \in {"auto", "manual"} => v.id <= preview'.id
                        /\ v.kind = "auto" \/ (v.kind = "manual" /\ v.editor) =>
                              (v.id = preview'.id => v.edition = output.edition)
      BY <1>u, <1>p DEF ComingIsCurrent
    <3>1. CASE v \in Awaited
      <4>1. v.kind \in {"auto", "manual"} => v.id \in Nat
        BY <1>t, <3>1, RequestParts DEF DialogTypes
      <4>2. QED BY <1>t, <1>n, <1>p, <3>1, <4>1 DEF TrueInv, ComingIsCurrent
    <3>2. CASE v = w BY <1>w, <1>p, <3>2
    <3>3. QED BY <1>a, <3>1, <3>2
  <2>2. PreviewIsCurrent' BY <1>p DEF PreviewIsCurrent
  <2>3. WaitsForAnswers' BY <1>t, <1>u, <1>a, <1>w, <1>p DEF WaitsForAnswers, TrueInv
  <2>4. QED BY <1>p, <2>1, <2>2, <2>3 DEF TrueInv
<1>4. QED BY <1>1, <1>2, <1>3 DEF DialogInv

\* A preview that is not even asked for leaves the result before, and it is remembered.
LEMMA PreviewRejectedKeeps ==
    ASSUME DialogInv, PreviewRejected
    PROVE  DialogInv'
<1>t. DialogTypes /\ TrueInv /\ OwnInv BY DEF DialogInv
<1>u. UNCHANGED <<dlg, loading, submitting, output, groups, form, formId, formLoading, foreign, typed>>
      /\ outdated' = ShownIsOld /\ ~preview.busy
  BY DEF PreviewRejected, MayPreview
<1>n. preview \in Previews /\ preview.id \in Nat BY <1>t DEF DialogTypes, Previews
<1>a. Awaited' = Awaited BY DEF PreviewRejected, Awaited
<1>p. /\ preview' \in Previews /\ preview'.id = preview.id + 1 /\ preview'.id \in Nat
      /\ preview'.manual = preview'.id /\ preview'.timer = 0 /\ ~preview'.busy /\ ~preview'.auto
      /\ preview'.result = preview.result
  <2> DEFINE c == CancelAuto(preview)
  <2>1. /\ c \in Previews /\ c.timer = 0 /\ ~c.auto /\ c.id = preview.id /\ ~c.busy
        /\ c.result = preview.result
    BY <1>n, <1>u, CancelAutoParts
  <2>2. preview' = [c EXCEPT !.id = c.id + 1, !.manual = preview.id + 1] BY DEF PreviewRejected
  <2> HIDE DEF c
  <2>3. c.id + 1 \in Nat /\ preview.id + 1 \in Nat BY <1>n, <2>1
  <2>4. preview' \in Previews BY <2>1, <2>2, <2>3 DEF Previews
  <2>5. QED BY <1>n, <2>1, <2>2, <2>4 DEF Previews
<1>1. DialogTypes'
  <2>1. outdated' \in BOOLEAN BY <1>u DEF ShownIsOld
  <2>2. QED BY <1>t, <1>u, <1>a, <1>p, <2>1 DEF DialogTypes
<1>2. OwnInv' BY <1>t, <1>u, <1>a DEF OwnInv, FormComes, Own
<1>3. TrueInv'
  <2>1. ComingIsCurrent'
    <3>1. formId' \in Nat /\ formId' >= formId BY <1>t, <1>u DEF DialogTypes
    <3>2. preview'.id > preview.id BY <1>n, <1>p
    <3>3. QED BY <1>t, <1>a, <1>p, <3>1, <3>2, ComingStays DEF TrueInv
  <2>2. PreviewIsCurrent' BY <1>u, <1>p DEF PreviewIsCurrent, ShownIsOld
  <2>3. WaitsForAnswers' BY <1>t, <1>u, <1>a, <1>p DEF WaitsForAnswers, TrueInv
  <2>4. QED BY <1>p, <2>1, <2>2, <2>3 DEF TrueInv
<1>4. QED BY <1>1, <1>2, <1>3 DEF DialogInv

\* A dialog that is closed shows nothing, waits at most for its save, and expects no form.
LEMMA ShutKeeps ==
    ASSUME DialogTypes, TrueInv, Shut, UNCHANGED <<groups, foreign>>, Awaited' \subseteq Awaited,
           submitting' \in BOOLEAN, submitting' => \E w \in Awaited' : w.kind = "save"
    PROVE  DialogInv'
<1>p. /\ preview' \in Previews /\ preview'.id = preview.id + 1 /\ preview'.id \in Nat
      /\ preview'.manual = 0 /\ preview'.timer = 0
      /\ ~preview'.busy /\ ~preview'.auto /\ preview.id \in Nat
  BY ResetPreviewParts DEF Shut, DialogTypes, Previews
<1>f. formId' = formId + 1 /\ formId \in Nat /\ form' = NoForm /\ formLoading' = formLoading
  BY DEF Shut, ClearForm, DialogTypes
<1>d. dlg' = [dlg EXCEPT !.open = FALSE, !.type = dlg.first] BY DEF Shut
<1>c. dlg' \in Dialogs /\ ~dlg'.open BY <1>d DEF DialogTypes, Dialogs
<1>l. loading' = FALSE /\ outdated' = FALSE /\ typed' = FALSE BY DEF Shut, NothingShown
<1>1. DialogTypes'
  <2>1. output.edition + 1 \in Nat BY DEF DialogTypes, Outputs
  <2>2. output' \in Outputs BY <2>1 DEF Shut, Content, Outputs, Kind
  <2>3. form' \in Forms BY <1>f DEF Forms, NoForm
  <2>4. formId' \in Nat BY <1>f
  <2>5. loading' \in BOOLEAN /\ outdated' \in BOOLEAN /\ typed' \in BOOLEAN BY <1>l
  <2>6. foreign' \in BOOLEAN /\ formLoading' \in BOOLEAN BY <1>f DEF DialogTypes
  <2>7. groups' \in Channel \cup {None} /\ Awaited' \subseteq Requested BY DEF DialogTypes
  <2>8. QED BY <1>p, <1>c, <2>2, <2>3, <2>4, <2>5, <2>6, <2>7 DEF DialogTypes
<1>2. OwnInv' BY <1>c DEF OwnInv
<1>3. TrueInv'
  <2>1. ComingIsCurrent'
    <3>1. formId' >= formId /\ formId' \in Nat BY <1>f
    <3>2. preview'.id > preview.id BY <1>p
    <3>3. QED BY <1>p, <3>1, <3>2, ComingStays DEF TrueInv
  <2>2. PreviewIsCurrent' BY <1>c DEF PreviewIsCurrent
  <2>3. WaitsForAnswers' BY <1>c, <1>l, <1>p DEF WaitsForAnswers
  <2>4. QED BY <1>p, <2>1, <2>2, <2>3 DEF TrueInv
<1>4. QED BY <1>1, <1>2, <1>3 DEF DialogInv

\* A dialog that is closed during its save goes on waiting for it.
LEMMA CloseKeeps ==
    ASSUME DialogInv, Close
    PROVE  DialogInv'
<1>1. DialogTypes /\ TrueInv /\ WaitsForAnswers BY DEF DialogInv, TrueInv
<1>2. Shut /\ UNCHANGED <<submitting, groups, foreign>> BY DEF Close
<1>3. Awaited' = Awaited BY DEF Close, Awaited
<1>4. submitting' \in BOOLEAN BY <1>1, <1>2 DEF DialogTypes
<1>5. submitting' => \E w \in Awaited' : w.kind = "save" BY <1>1, <1>2, <1>3 DEF WaitsForAnswers
<1>6. QED BY <1>1, <1>2, <1>3, <1>4, <1>5, ShutKeeps

\* A save changes nothing in the dialog until it is answered.
LEMMA SubmitKeeps ==
    ASSUME DialogInv, Submit
    PROVE  DialogInv'
<1>t. DialogTypes /\ TrueInv /\ OwnInv BY DEF DialogInv
<1>u. UNCHANGED <<dlg, loading, output, groups, form, formId, formLoading, preview, foreign, outdated, typed>>
      /\ submitting' = TRUE
  BY DEF Submit
<1> DEFINE w == [kind |-> "save"]
<1>a. Awaited' = Awaited \cup {w} BY Sent DEF Submit, Awaited
<1>w. w \in Requested /\ w.kind = "save" BY DEF Requested
<1> HIDE DEF w
<1>1. DialogTypes'
  <2>1. Awaited' \subseteq Requested BY <1>t, <1>a, <1>w DEF DialogTypes
  <2>2. QED BY <1>t, <1>u, <2>1 DEF DialogTypes
<1>2. OwnInv' BY <1>t, <1>u, <1>a, <1>w DEF OwnInv, FormComes, Own
<1>3. TrueInv'
  <2>1. ComingIsCurrent'
    <3>1. formId' \in Nat /\ formId' >= formId /\ preview'.id \in Nat
      BY <1>t, <1>u DEF DialogTypes, Previews
    <3>2. QED BY <1>t, <1>u, <1>a, <1>w, <3>1, ComingStays DEF TrueInv
  <2>2. PreviewIsCurrent' BY <1>t, <1>u DEF TrueInv, PreviewIsCurrent
  <2>3. WaitsForAnswers' BY <1>t, <1>u, <1>a, <1>w DEF WaitsForAnswers, TrueInv
  <2>4. QED BY <1>t, <1>u, <2>1, <2>2, <2>3 DEF TrueInv
<1>4. QED BY <1>1, <1>2, <1>3 DEF DialogInv

-------------------------------------------------------------------------------
(***************************************************************************)
(* Answers, and the timer.                                                 *)
(***************************************************************************)

\* Details are shown as those of the channel they are of; who else's dialog it is remembers that.
LEMMA DetailAnsweredKeeps ==
    ASSUME DialogInv, NEW r \in flight, NEW ok \in BOOLEAN, DetailAnswered(r, ok)
    PROVE  DialogInv'
<1>t. DialogTypes /\ TrueInv BY DEF DialogInv
<1> DEFINE c == r.what.of
           of == IF ok THEN c ELSE None
           w == [kind |-> "form", id |-> formId + 1, type |-> dlg.type, of |-> of]
           rest == {q.what : q \in flight \ {r}}
<1>c. c \in Channel /\ of \in Channel \cup {None}
  <2>1. r.what \in Requested /\ r.what.kind = "detail" BY <1>t, Taken DEF DetailAnswered, DialogTypes
  <2>2. QED BY <2>1, RequestParts
<1>r. /\ rest \subseteq Awaited
      /\ \A v \in Awaited : v.kind # "detail" => v \in rest
  <2>1. r.what.kind = "detail" BY DEF DetailAnswered
  <2>2. QED BY <2>1, Taken
<1>d. dlg' = dlg /\ dlg \in Dialogs /\ dlg.type \in Type \cup {None}
  BY <1>t DEF DetailAnswered, DialogTypes, Dialogs
<1>f. formId' = formId + 1 /\ formId \in Nat /\ form' = NoForm
      /\ formLoading' = (formLoading \/ dlg.type # None)
  BY <1>t DEF DetailAnswered, LoadForm, DialogTypes
<1>a. Awaited' = rest \cup (IF dlg.type = None THEN {} ELSE {w})
  <2>1. flight' = IF dlg.type = None THEN flight \ {r} ELSE Send(w, flight \ {r})
    BY DEF DetailAnswered, LoadForm
  <2>2. CASE dlg.type = None BY <2>1, <2>2 DEF Awaited
  <2>3. CASE dlg.type # None
    <3> HIDE DEF w
    <3>1. QED BY <2>1, <2>3, Sent DEF Awaited
  <2>4. QED BY <2>2, <2>3
<1>w. /\ w.kind = "form" /\ w.id = formId' /\ w.type = dlg.type /\ w.of = of
      /\ dlg.type # None => w \in Requested
  <2>1. formId + 1 \in Nat BY <1>f
  <2>2. QED BY <1>c, <1>d, <1>f, <2>1 DEF Requested
<1>o. output' \in Outputs /\ output'.of = of
  <2>1. output.edition + 1 \in Nat BY <1>t DEF DialogTypes, Outputs
  <2>2. KindOf[c] \in Kind BY <1>c, DialogAssumption
  <2>3. CASE ok
    <3>1. output' = [of |-> c, kind |-> KindOf[c], edition |-> output.edition + 1]
      BY <2>3 DEF DetailAnswered, Content
    <3>2. QED BY <1>c, <2>1, <2>2, <2>3, <3>1 DEF Outputs
  <2>4. CASE ~ok
    <3>1. output' = [of |-> None, kind |-> "plain", edition |-> output.edition + 1]
      BY <2>4 DEF DetailAnswered, Content
    <3>2. QED BY <2>1, <2>4, <3>1 DEF Outputs, Kind
  <2>5. QED BY <2>3, <2>4
<1>g. groups' = of /\ loading' = FALSE /\ outdated' = FALSE /\ typed' = FALSE /\ submitting' = submitting
      /\ foreign' = (dlg.channel # c)
  BY DEF DetailAnswered, NothingShown
<1> HIDE DEF c, of, w, rest
<1>p. /\ preview' \in Previews /\ preview'.id = preview.id + 1 /\ preview'.id \in Nat /\ preview.id \in Nat
      /\ preview'.manual = preview.manual /\ preview'.busy = preview.busy
      /\ preview'.timer \in {0, preview'.id} /\ (preview'.auto => preview'.timer = preview'.id) /\ (preview'.timer # 0 => preview'.auto)
      /\ preview'.result = NoResult
  <2> DEFINE s == CancelAuto(preview)
             p == [s EXCEPT !.result = NoResult]
  <2>1. s \in Previews /\ s.id = preview.id /\ s.manual = preview.manual /\ s.busy = preview.busy
        /\ preview.id \in Nat
    BY <1>t, CancelAutoParts DEF DialogTypes, Previews
  <2>2. preview' \in {Obsoleted(p), Planned(p)}
    BY DEF DetailAnswered, ScheduleAuto, Obsoleted, Planned
  <2> HIDE DEF s
  <2>3. p \in Previews BY <2>1 DEF Previews
  <2>4. p.id = preview.id /\ p.manual = preview.manual /\ p.busy = preview.busy /\ p.result = NoResult
    BY <2>1 DEF Previews
  <2> HIDE DEF p
  <2>5. /\ preview' \in Previews /\ preview'.id = p.id + 1 /\ preview'.manual = p.manual
        /\ preview'.busy = p.busy /\ preview'.result \in {p.result, NoResult}
        /\ preview'.timer \in {0, preview'.id} /\ (preview'.auto => preview'.timer = preview'.id) /\ (preview'.timer # 0 => preview'.auto)
    BY <2>2, <2>3, ScheduleAutoParts
  <2>6. QED BY <2>1, <2>4, <2>5 DEF Previews
<1>1. DialogTypes'
  <2>1. form' \in Forms BY <1>f DEF Forms, NoForm
  <2>2. formId' \in Nat BY <1>f
  <2>3. formLoading' \in BOOLEAN BY <1>f
  <2>4. loading' \in BOOLEAN /\ outdated' \in BOOLEAN /\ typed' \in BOOLEAN /\ foreign' \in BOOLEAN BY <1>g
  <2>5. submitting' \in BOOLEAN BY <1>t, <1>g DEF DialogTypes
  <2>6. groups' \in Channel \cup {None} BY <1>c, <1>g
  <2>7. Awaited' \subseteq Requested BY <1>t, <1>a, <1>r, <1>w DEF DialogTypes
  <2>8. QED BY <1>d, <1>o, <1>p, <2>1, <2>2, <2>3, <2>4, <2>5, <2>6, <2>7 DEF DialogTypes
<1>2. OwnInv'
  <2> SUFFICES ASSUME ~foreign'
               PROVE  /\ output'.of \in Own' /\ groups' \in Own' /\ form'.of \in Own'
                      /\ form'.type = None /\ FormComes'
    BY DEF OwnInv
  <2>1. dlg.channel = c BY <1>g
  <2>2. Own' = {c, None} BY <1>c, <1>d, <2>1 DEF Own
  <2>3. of \in Own' BY <2>2 DEF of
  <2>4. FormComes'
    <3> SUFFICES ASSUME NEW v \in Awaited', v.kind = "form", v.id = formId'
                 PROVE  v.of \in Own' /\ v.type = dlg'.type
      BY DEF FormComes
    <3>1. v \notin rest
      BY <1>t, <1>f, <1>r, RequestParts DEF TrueInv, ComingIsCurrent, DialogTypes
    <3>2. v = w BY <1>a, <3>1
    <3>3. QED BY <1>w, <1>d, <2>3, <3>2
  <2>5. QED BY <1>f, <1>o, <1>g, <2>2, <2>3, <2>4 DEF NoForm
<1>3. TrueInv'
  <2>1. ComingIsCurrent'
    <3>1. formId' >= formId /\ formId' \in Nat BY <1>f
    <3>2. preview'.id > preview.id BY <1>p
    <3>3. \A v \in Awaited' : v \in Awaited \/ (v.kind = "form" /\ v.id <= formId')
      BY <1>a, <1>r, <1>w, <3>1
    <3>4. QED BY <1>t, <1>p, <3>1, <3>2, <3>3, ComingStays DEF TrueInv
  <2>2. PreviewIsCurrent' BY <1>p DEF PreviewIsCurrent
  <2>3. WaitsForAnswers'
    <3>1. \A v \in Awaited : v.kind # "detail" => v \in Awaited' BY <1>a, <1>r
    <3>2. dlg.type # None => w \in Awaited' BY <1>a
    <3>3. QED BY <1>t, <1>d, <1>g, <1>p, <1>w, <3>1, <3>2 DEF WaitsForAnswers, TrueInv
  <2>4. preview'.manual <= preview'.id BY <1>t, <1>p DEF TrueInv, DialogTypes, Previews
  <2>5. QED BY <1>p, <2>1, <2>2, <2>3, <2>4 DEF TrueInv
<1>4. QED BY <1>1, <1>2, <1>3 DEF DialogInv

\* Only the form that was asked for last is shown.
LEMMA FormAnsweredKeeps ==
    ASSUME DialogInv, NEW r \in flight, NEW ok \in BOOLEAN, FormAnswered(r, ok)
    PROVE  DialogInv'
<1>t. DialogTypes /\ TrueInv /\ OwnInv BY DEF DialogInv
<1>u. UNCHANGED <<dlg, loading, submitting, output, groups, formId, preview, foreign, outdated, typed>>
  BY DEF FormAnswered
<1>k. r.what.kind = "form" /\ r.what \in Awaited BY Taken DEF FormAnswered
<1>w. r.what.type \in Type /\ r.what.of \in Channel \cup {None}
  BY <1>t, <1>k, RequestParts DEF DialogTypes
<1>a. Awaited' \subseteq Awaited /\ \A v \in Awaited : v # r.what => v \in Awaited'
  BY Taken DEF FormAnswered, Awaited
<1>f. \/ form' = form
      \/ r.what.id = formId /\ form' = [type |-> r.what.type, of |-> r.what.of]
  BY DEF FormAnswered, FormIsMine
<1>l. formLoading' = (formLoading /\ r.what.id # formId) BY DEF FormAnswered, FormIsMine
<1>1. DialogTypes'
  <2>1. form' \in Forms BY <1>t, <1>f, <1>w DEF DialogTypes, Forms
  <2>2. formLoading' \in BOOLEAN BY <1>l
  <2>3. Awaited' \subseteq Requested BY <1>t, <1>a DEF DialogTypes
  <2>4. QED BY <1>t, <1>u, <2>1, <2>2, <2>3 DEF DialogTypes
<1>2. OwnInv'
  <2> SUFFICES ASSUME dlg.open, ~foreign
               PROVE  /\ output.of \in Own
                      /\ ~loading => /\ groups \in Own /\ form'.of \in Own
                                     /\ form'.type \in {dlg.type, None}
                                     /\ FormComes'
    BY <1>u DEF OwnInv, Own
  <2>1. FormComes => FormComes' BY <1>u, <1>a DEF FormComes, Own
  <2>2. ~loading => form'.of \in Own /\ form'.type \in {dlg.type, None}
    <3>1. CASE form' = form BY <1>t, <3>1 DEF OwnInv
    <3>2. CASE r.what.id = formId /\ form' = [type |-> r.what.type, of |-> r.what.of]
      BY <1>t, <1>k, <3>2 DEF OwnInv, FormComes
    <3>3. QED BY <1>f, <3>1, <3>2
  <2>3. QED BY <1>t, <2>1, <2>2 DEF OwnInv
<1>3. TrueInv'
  <2>1. ComingIsCurrent' BY <1>t, <1>u, <1>a DEF TrueInv, ComingIsCurrent
  <2>2. PreviewIsCurrent' BY <1>t, <1>u DEF TrueInv, PreviewIsCurrent
  <2>3. WaitsForAnswers'
    <3>1. \A v \in Awaited : v.kind # "form" => v \in Awaited' BY <1>a, <1>k
    <3>2. QED BY <1>t, <1>u, <1>a, <1>l, <3>1 DEF TrueInv, WaitsForAnswers
  <2>4. QED BY <1>t, <1>u, <2>1, <2>2, <2>3 DEF TrueInv
<1>4. QED BY <1>1, <1>2, <1>3 DEF DialogInv

\* What the timer sends is what the dialog holds, as an edit sets it anew.
LEMMA TimerFiresKeeps ==
    ASSUME DialogInv, NEW ok \in BOOLEAN, TimerFires(ok)
    PROVE  DialogInv'
<1>t. DialogTypes /\ TrueInv /\ OwnInv BY DEF DialogInv
<1>u. UNCHANGED <<dlg, loading, submitting, output, groups, form, formId, formLoading, foreign>>
  BY DEF TimerFires
<1>n. /\ preview \in Previews /\ preview.id \in Nat /\ output.edition \in Nat
      /\ preview.timer = preview.id
  BY <1>t DEF DialogTypes, Previews, Outputs, TrueInv, TimerFires
<1> DEFINE w == [kind |-> "auto", id |-> preview.timer, edition |-> output.edition]
<1>w. w \in Requested /\ w.kind = "auto" /\ w.id = preview.id /\ w.edition = output.edition
  BY <1>n DEF Requested
<1>1. CASE ok
  <2>1. preview' = [preview EXCEPT !.timer = 0] /\ outdated' = outdated /\ typed' = FALSE BY <1>1 DEF TimerFires
  <2>a. Awaited' = Awaited \cup {w} BY <1>1, Sent DEF TimerFires, Awaited
  <2> HIDE DEF w
  <2>p. /\ preview' \in Previews /\ preview'.id = preview.id /\ preview'.manual = preview.manual
        /\ preview'.timer = 0 /\ preview'.busy = preview.busy /\ preview'.auto = preview.auto
        /\ preview'.result = preview.result
    BY <1>n, <2>1 DEF Previews
  <2>2. DialogTypes'
    <3>1. Awaited' \subseteq Requested BY <1>t, <1>w, <2>a DEF DialogTypes
    <3>2. QED BY <1>t, <1>u, <2>1, <2>p, <3>1 DEF DialogTypes
  <2>3. OwnInv' BY <1>t, <1>u, <1>w, <2>a DEF OwnInv, FormComes, Own
  <2>4. ComingIsCurrent'
    BY <1>t, <1>u, <1>n, <1>w, <2>1, <2>a, <2>p DEF TrueInv, ComingIsCurrent, TimerFires
  <2>5. PreviewIsCurrent' BY <1>t, <2>p DEF TrueInv, PreviewIsCurrent, TimerFires
  <2>6. WaitsForAnswers' BY <1>t, <1>u, <1>w, <2>a, <2>p DEF TrueInv, WaitsForAnswers
  <2>7. QED BY <1>t, <2>p, <2>2, <2>3, <2>4, <2>5, <2>6 DEF DialogInv, TrueInv
<1>2. CASE ~ok
  <2>1. /\ preview' = [preview EXCEPT !.timer = 0, !.auto = (preview.timer # preview.id)]
        /\ outdated' = ShownIsOld /\ typed' = typed
    BY <1>2 DEF TimerFires
  <2>a. Awaited' = Awaited BY <1>2 DEF TimerFires, Awaited
  <2>p. /\ preview' \in Previews /\ preview'.id = preview.id /\ preview'.manual = preview.manual
        /\ preview'.timer = 0 /\ preview'.busy = preview.busy /\ ~preview'.auto
        /\ preview'.result = preview.result
    BY <1>n, <2>1 DEF Previews
  <2>2. DialogTypes'
    <3>1. outdated' \in BOOLEAN BY <2>1 DEF ShownIsOld
    <3>2. QED BY <1>t, <1>u, <2>1, <2>a, <2>p, <3>1 DEF DialogTypes
  <2>3. OwnInv' BY <1>t, <1>u, <2>a DEF OwnInv, FormComes, Own
  <2>4. ComingIsCurrent' BY <1>t, <1>u, <2>1, <2>a, <2>p DEF TrueInv, ComingIsCurrent
  <2>5. PreviewIsCurrent' BY <1>u, <2>1, <2>p DEF PreviewIsCurrent, ShownIsOld
  <2>6. WaitsForAnswers' BY <1>t, <1>u, <2>a, <2>p DEF TrueInv, WaitsForAnswers
  <2>7. QED BY <1>t, <2>p, <2>2, <2>3, <2>4, <2>5, <2>6 DEF DialogInv, TrueInv
<1>3. QED BY <1>1, <1>2

\* The result of an automatic preview is taken if it is that of the newest edit.
LEMMA AutoAnsweredKeeps ==
    ASSUME DialogInv, NEW r \in flight, NEW ok \in BOOLEAN, AutoAnswered(r, ok)
    PROVE  DialogInv'
<1>t. DialogTypes /\ TrueInv /\ OwnInv BY DEF DialogInv
<1>u. UNCHANGED <<dlg, loading, submitting, output, groups, form, formId, formLoading, foreign, typed>>
  BY DEF AutoAnswered
<1> DEFINE mine == r.what.id = preview.id
<1>k. r.what.kind = "auto" /\ r.what \in Awaited BY Taken DEF AutoAnswered
<1>e. r.what.edition \in Nat /\ (mine => r.what.edition = output.edition \/ typed)
  BY <1>t, <1>k, RequestParts DEF DialogTypes, TrueInv, ComingIsCurrent
<1>a. Awaited' \subseteq Awaited /\ \A v \in Awaited : v # r.what => v \in Awaited'
  BY Taken DEF AutoAnswered, Awaited
<1>n. preview \in Previews BY <1>t DEF DialogTypes
<1>1. preview' = [preview EXCEPT !.auto = preview.auto /\ ~mine,
                                 !.result = IF mine /\ ok THEN r.what.edition ELSE preview.result]
  BY DEF AutoAnswered
<1>2. outdated' = IF ~mine THEN outdated
                  ELSE ~ok /\ ShownIsOld
  BY DEF AutoAnswered
<1>m. mine \in BOOLEAN OBVIOUS
<1> HIDE DEF mine
<1>p. /\ preview' \in Previews /\ preview'.id = preview.id /\ preview'.manual = preview.manual
      /\ preview'.timer = preview.timer /\ preview'.busy = preview.busy
      /\ preview'.auto = (preview.auto /\ ~mine)
      /\ preview'.result = IF mine /\ ok THEN r.what.edition ELSE preview.result
  BY <1>n, <1>e, <1>1 DEF Previews
<1>3. DialogTypes'
  <2>1. outdated' \in BOOLEAN BY <1>t, <1>2 DEF DialogTypes, ShownIsOld
  <2>2. Awaited' \subseteq Requested BY <1>t, <1>a DEF DialogTypes
  <2>3. QED BY <1>t, <1>u, <1>p, <2>1, <2>2 DEF DialogTypes
<1>4. OwnInv' BY <1>t, <1>u, <1>a DEF OwnInv, FormComes, Own
<1>5. ComingIsCurrent' BY <1>t, <1>u, <1>a, <1>p DEF TrueInv, ComingIsCurrent
<1>6. PreviewIsCurrent'
  <2>1. CASE mine BY <1>u, <1>e, <1>2, <1>p, <2>1 DEF PreviewIsCurrent, ShownIsOld
  <2>2. CASE ~mine BY <1>t, <1>u, <1>2, <1>p, <2>2 DEF TrueInv, PreviewIsCurrent
  <2>3. QED BY <2>1, <2>2
<1>7. WaitsForAnswers'
  <2>1. \A v \in Awaited : v.kind # "auto" => v \in Awaited' BY <1>a, <1>k
  <2>2. ~mine => \A v \in Awaited : v.kind = "auto" /\ v.id = preview.id => v \in Awaited'
    BY <1>a DEF mine
  <2>3. preview'.auto => \/ preview'.timer = preview'.id
                         \/ \E v \in Awaited' : v.kind = "auto" /\ v.id = preview'.id
    <3> SUFFICES ASSUME preview.auto, ~mine, preview.timer # preview.id
                 PROVE  \E v \in Awaited' : v.kind = "auto" /\ v.id = preview.id
      BY <1>p
    <3>1. PICK v \in Awaited : v.kind = "auto" /\ v.id = preview.id
      BY <1>t DEF TrueInv, WaitsForAnswers
    <3>2. QED BY <2>2, <3>1
  <2>4. preview'.busy => \E v \in Awaited' : v.kind = "manual" /\ v.id = preview'.manual
    BY <1>t, <1>p, <2>1 DEF TrueInv, WaitsForAnswers
  <2>5. QED BY <1>t, <1>u, <2>1, <2>3, <2>4 DEF TrueInv, WaitsForAnswers
<1>8. preview'.timer # 0 => preview'.auto BY <1>t, <1>k, <1>p DEF mine, TrueInv, ComingIsCurrent
<1>9. QED BY <1>t, <1>p, <1>8, <1>3, <1>4, <1>5, <1>6, <1>7 DEF DialogInv, TrueInv

\* The result of a manual preview is that of what the dialog holds, or known to be out of date.
LEMMA ManualAnsweredKeeps ==
    ASSUME DialogInv, NEW r \in flight, NEW ok \in BOOLEAN, ManualAnswered(r, ok)
    PROVE  DialogInv'
<1>t. DialogTypes /\ TrueInv /\ OwnInv BY DEF DialogInv
<1>u. UNCHANGED <<dlg, loading, submitting, output, groups, form, formId, formLoading, foreign, typed>>
  BY DEF ManualAnswered
<1> DEFINE mine == r.what.id = preview.manual
           taken == ok /\ IF r.what.editor THEN r.what.id = preview.id ELSE mine
<1>k. r.what.kind = "manual" /\ r.what \in Awaited BY Taken DEF ManualAnswered
<1>e. /\ r.what.edition \in Nat /\ r.what.editor \in BOOLEAN
      /\ taken /\ r.what.editor => r.what.edition = output.edition \/ typed
  BY <1>t, <1>k, RequestParts DEF DialogTypes, TrueInv, ComingIsCurrent
<1>a. Awaited' \subseteq Awaited /\ \A v \in Awaited : v # r.what => v \in Awaited'
  BY Taken DEF ManualAnswered, Awaited
<1>n. preview \in Previews BY <1>t DEF DialogTypes
<1>1. preview' = [preview EXCEPT !.busy = preview.busy /\ ~mine,
                                 !.result = IF taken THEN r.what.edition ELSE preview.result]
  BY DEF ManualAnswered
<1>2. outdated' = IF taken THEN ~r.what.editor /\ r.what.edition # output.edition
                  ELSE IF mine THEN ShownIsOld ELSE outdated
  BY DEF ManualAnswered
<1>w. ~mine => \A v \in Awaited : v.kind = "manual" /\ v.id = preview.manual => v \in Awaited'
  BY <1>a
<1> HIDE DEF mine, taken
<1>p. /\ preview' \in Previews /\ preview'.id = preview.id /\ preview'.manual = preview.manual
      /\ preview'.timer = preview.timer /\ preview'.auto = preview.auto
      /\ preview'.busy = (preview.busy /\ ~mine)
      /\ preview'.result = IF taken THEN r.what.edition ELSE preview.result
  BY <1>n, <1>e, <1>1 DEF Previews
<1>3. DialogTypes'
  <2>1. outdated' \in BOOLEAN BY <1>t, <1>2 DEF DialogTypes, ShownIsOld
  <2>2. Awaited' \subseteq Requested BY <1>t, <1>a DEF DialogTypes
  <2>3. QED BY <1>t, <1>u, <1>p, <2>1, <2>2 DEF DialogTypes
<1>4. OwnInv' BY <1>t, <1>u, <1>a DEF OwnInv, FormComes, Own
<1>5. ComingIsCurrent' BY <1>t, <1>u, <1>a, <1>p DEF TrueInv, ComingIsCurrent
<1>6. PreviewIsCurrent'
  <2>1. CASE taken BY <1>u, <1>e, <1>2, <1>p, <2>1 DEF PreviewIsCurrent
  <2>2. CASE ~taken /\ mine BY <1>u, <1>2, <1>p, <2>2 DEF PreviewIsCurrent, ShownIsOld
  <2>3. CASE ~taken /\ ~mine BY <1>t, <1>u, <1>2, <1>p, <2>3 DEF TrueInv, PreviewIsCurrent
  <2>4. QED BY <2>1, <2>2, <2>3
<1>7. WaitsForAnswers'
  <2>0. WaitsForAnswers BY <1>t DEF TrueInv
  <2>1. \A v \in Awaited : v.kind # "manual" => v \in Awaited' BY <1>a, <1>k
  <2>2. preview'.busy => \E v \in Awaited' : v.kind = "manual" /\ v.id = preview'.manual
    <3> SUFFICES ASSUME preview.busy, ~mine
                 PROVE  \E v \in Awaited' : v.kind = "manual" /\ v.id = preview.manual
      BY <1>p
    <3>1. PICK v \in Awaited : v.kind = "manual" /\ v.id = preview.manual BY <2>0 DEF WaitsForAnswers
    <3>2. QED BY <1>w, <3>1
  <2>3. preview'.auto => \/ preview'.timer = preview'.id
                         \/ \E v \in Awaited' : v.kind = "auto" /\ v.id = preview'.id
    BY <1>p, <2>0, <2>1 DEF WaitsForAnswers
  <2>4. QED BY <1>u, <2>0, <2>1, <2>2, <2>3 DEF WaitsForAnswers
<1>8. QED BY <1>t, <1>p, <1>3, <1>4, <1>5, <1>6, <1>7 DEF DialogInv, TrueInv

\* A channel that was saved closes the dialog.
LEMMA SaveAnsweredKeeps ==
    ASSUME DialogInv, NEW r \in flight, NEW ok \in BOOLEAN, SaveAnswered(r, ok)
    PROVE  DialogInv'
<1>t. DialogTypes /\ TrueInv /\ OwnInv BY DEF DialogInv
<1>k. r.what.kind = "save" /\ submitting' = FALSE BY DEF SaveAnswered
<1>a. Awaited' \subseteq Awaited /\ \A v \in Awaited : v.kind # "save" => v \in Awaited'
  BY <1>k, Taken DEF SaveAnswered, Awaited
<1>1. CASE Shut /\ UNCHANGED <<groups, foreign>> BY <1>t, <1>k, <1>a, <1>1, ShutKeeps
<1>2. CASE UNCHANGED <<dlg, loading, output, groups, form, formId, formLoading, preview, foreign, outdated, typed>>
  <2>1. DialogTypes'
    <3>1. Awaited' \subseteq Requested /\ submitting' \in BOOLEAN BY <1>t, <1>k, <1>a DEF DialogTypes
    <3>2. QED BY <1>t, <1>2, <3>1 DEF DialogTypes
  <2>2. OwnInv' BY <1>t, <1>2, <1>a DEF OwnInv, FormComes, Own
  <2>3. ComingIsCurrent' BY <1>t, <1>2, <1>a DEF TrueInv, ComingIsCurrent
  <2>4. PreviewIsCurrent' BY <1>t, <1>2 DEF TrueInv, PreviewIsCurrent
  <2>5. WaitsForAnswers' BY <1>t, <1>2, <1>k, <1>a DEF TrueInv, WaitsForAnswers
  <2>6. QED BY <1>t, <1>2, <2>1, <2>2, <2>3, <2>4, <2>5 DEF DialogInv, TrueInv
<1>3. QED BY <1>1, <1>2 DEF SaveAnswered

-------------------------------------------------------------------------------
(***************************************************************************)
(* The theorems.  What the live views do is a stutter of the dialog.       *)
(***************************************************************************)

\* The invariant reads the variables of the dialog only.
LEMMA DialogStutters ==
    ASSUME DialogInv, UNCHANGED dialogVars
    PROVE  DialogInv'
<1>1. Awaited' = Awaited /\ Own' = Own BY DEF dialogVars, Awaited, Own
<1>2. DialogTypes' BY <1>1 DEF DialogInv, DialogTypes, dialogVars
<1>3. OwnInv' BY <1>1 DEF DialogInv, OwnInv, FormComes, dialogVars
<1>4. TrueInv'
  BY <1>1 DEF DialogInv, TrueInv, ComingIsCurrent, PreviewIsCurrent, WaitsForAnswers, dialogVars
<1>5. QED BY <1>2, <1>3, <1>4 DEF DialogInv

\* Any answer, and any failure.
LEMMA AnsweredKeeps ==
    ASSUME DialogInv, NEW r \in flight, NEW ok \in BOOLEAN, Answered(r, ok)
    PROVE  DialogInv'
BY DetailAnsweredKeeps, FormAnsweredKeeps, AutoAnsweredKeeps, ManualAnsweredKeeps, SaveAnsweredKeeps
   DEF Answered

\* Anything the user does.
LEMMA ClickKeeps ==
    ASSUME DialogInv, Click
    PROVE  DialogInv'
BY AddKeeps, EditChannelKeeps, SelectTypeKeeps, EditContentKeeps, EditTextKeeps, ChangeFormatKeeps,
   PreviewKeeps, PreviewRejectedKeeps, CloseKeeps, SubmitKeeps
   DEF Click

\* Any step of the console.
LEMMA DialogInvNext ==
    ASSUME DialogInv, [Next]_vars
    PROVE  DialogInv'
<1>1. CASE Going
  <2>1. CASE TimerFires(TRUE) BY <2>1, TimerFiresKeeps
  <2>2. CASE \E r \in flight : Answered(r, TRUE) BY <2>2, AnsweredKeeps
  <2>3. CASE UNCHANGED dialogVars BY <2>3, DialogStutters
  <2>4. QED BY <1>1, <2>1, <2>2, <2>3 DEF Going
<1>2. CASE Fails
  <2>1. CASE TimerFires(FALSE) BY <2>1, TimerFiresKeeps
  <2>2. CASE \E r \in flight : Answered(r, FALSE) BY <2>2, AnsweredKeeps
  <2>3. CASE UNCHANGED dialogVars BY <2>3, DialogStutters
  <2>4. QED BY <1>2, <2>1, <2>2, <2>3 DEF Fails
<1>3. CASE Click BY <1>3, ClickKeeps
<1>4. CASE UNCHANGED dialogVars BY <1>4, DialogStutters
<1>5. CASE UNCHANGED vars BY <1>5, DialogStutters DEF vars
<1>6. QED BY <1>1, <1>2, <1>3, <1>4, <1>5 DEF Next

\* The strengthening is an invariant.
LEMMA DialogInvHolds == Spec => []DialogInv
<1>1. Init => DialogInv BY DialogInvInit DEF Init
<1>2. DialogInv /\ [Next]_vars => DialogInv' BY DialogInvNext
<1>3. QED BY <1>1, <1>2, PTL DEF Spec

\* What is saved under a channel's name are its own settings (SavesItsOwn), as long as no late
\* details of a dialog closed before have filled this one (foreign): a form that comes for the
\* dialog was asked for by it, and its details come before it can be saved.
THEOREM OwnIsSaved == Spec => []SavesItsOwn
<1>1. DialogInv => SavesItsOwn
  <2> SUFFICES ASSUME DialogInv, MaySave, ~foreign
               PROVE  /\ {output.of, groups, form.of} \subseteq Own
                      /\ form.type \in {dlg.type, None}
    BY DEF SavesItsOwn
  <2>1. dlg.open /\ ~loading /\ OwnInv BY DEF MaySave, DialogInv
  <2>2. QED BY <2>1 DEF OwnInv
<1>2. QED BY <1>1, DialogInvHolds, PTL

\* The dialog shows as loading only what it will be answered, and as final only results of
\* what it holds (DialogIsTrue): every edit that is announced takes an id that no request under
\* way has.  Outside the theorem are the results that DialogIsTrue excepts: those that a failed
\* preview leaves, late ones of a plain format, and any while a mapping is typed as JSON.
THEOREM DialogTellsTrue == Spec => []DialogIsTrue
<1>1. DialogInv => DialogIsTrue BY DEF DialogInv, TrueInv, DialogIsTrue
<1>2. QED BY <1>1, DialogInvHolds, PTL

=================================================================================
