----------------------------- MODULE ChannelDialog -----------------------------
(***************************************************************************)
(* The dialog in which a push channel is added or edited                   *)
(* (views/data-push/channel/IndexView.vue).  The page runs one callback at *)
(* a time, but the answers of its requests come in any order, also after   *)
(* the dialog has been closed or opened for another channel.               *)
(*                                                                         *)
(* What the dialog holds is known by the channel it was loaded from: the   *)
(* output configuration (format and mapping or script), the subscribed     *)
(* groups, and the connection form.  Channels are message channels whose   *)
(* type's metadata is loaded.                                              *)
(***************************************************************************)
EXTENDS Integers, FiniteSets

CONSTANTS
    Channel,
    Type,
    TypeOf,         \* channel -> type
    KindOf,         \* channel -> whether its format is written in an editor
    MaxFlight       \* bound: requests of the dialog under way

None == "none"
New == "new"        \* the dialog adds a channel
NoResult == -1
Kind == {"plain", "editor"}

ASSUME DialogAssumption ==
    /\ TypeOf \in [Channel -> Type] /\ KindOf \in [Channel -> Kind]
    /\ MaxFlight \in Nat \ {0}
    /\ {None, New} \cap (Channel \cup Type) = {}

VARIABLES
    dlg,            \* open, which channel, its type; the type of the form when it was first shown
    loading,        \* detailLoading
    submitting,
    output,         \* the output configuration: from which channel, its kind, and its edition
    groups,         \* subscribedGroupIds: of which channel
    form,           \* the connection form: its type, and the channel of its values
    formId, formLoading,
    preview,        \* the preview: request id, id of the manual one, flags, timer, result
    flight,         \* requests under way
    foreign,        \* history: the dialog was filled with another channel's details
    outdated,       \* history: the result shown was left behind by a preview that failed, or came late
    typed           \* history: the mapping was typed as JSON since it was last announced or asked for

dialogVars == <<dlg, loading, submitting, output, groups, form, formId, formLoading, preview, flight,
                foreign, outdated, typed>>

NoForm == [type |-> None, of |-> None]
NoPreview == [id |-> 0, manual |-> 0, busy |-> FALSE, timer |-> 0, auto |-> FALSE, result |-> NoResult]

DialogInit ==
    /\ dlg = [open |-> FALSE, channel |-> None, type |-> None, first |-> None]
    /\ loading = FALSE /\ submitting = FALSE
    /\ output = [of |-> None, kind |-> "plain", edition |-> 0]
    /\ groups = None /\ form = NoForm /\ formId = 0 /\ formLoading = FALSE
    /\ preview = NoPreview /\ flight = {} /\ foreign = FALSE /\ outdated = FALSE
    /\ typed = FALSE

Room == Cardinality(flight) < MaxFlight

\* others with one more request.
Send(what, others) ==
    LET used == {r.no : r \in others}
        no == CHOOSE n \in 1 .. MaxFlight : n \notin used /\ 1 .. n - 1 \subseteq used
    IN  others \cup {[no |-> no, what |-> what]}

-------------------------------------------------------------------------------
(***************************************************************************)
(* Parts of the handlers, as functions of the preview p.                   *)
(***************************************************************************)

\* cancelAutoPreview: a request under way stays so.
CancelAuto(p) == [p EXCEPT !.timer = 0, !.auto = FALSE]

\* resetMappingState
ResetPreview(p) ==
    [CancelAuto(p) EXCEPT !.result = NoResult, !.busy = FALSE, !.manual = 0, !.id = @ + 1]

\* Mistake: an edit does not make the request under way obsolete.
WrongScheduleAuto(p, takes, kind, valid) ==
    LET q == CancelAuto(p) IN
    IF ~takes \/ kind # "editor" THEN q
    ELSE IF valid THEN [q EXCEPT !.timer = q.id, !.auto = TRUE]
    ELSE [q EXCEPT !.result = NoResult]

\* scheduleAutoPreview, in a dialog that takes edits or not, with content that is valid or not.
ScheduleAuto(p, takes, kind, valid) ==
    LET q == [CancelAuto(p) EXCEPT !.id = @ + 1] IN
    IF ~takes \/ kind # "editor" THEN q
    ELSE IF valid THEN [q EXCEPT !.timer = q.id, !.auto = TRUE]
    ELSE [q EXCEPT !.result = NoResult]

\* Content that comes from channel of.
Content(of, kind) == [of |-> of, kind |-> kind, edition |-> output.edition + 1]

\* loadDynamicForm without a type, or with one and the values of channel of.
ClearForm ==
    /\ formId' = formId + 1 /\ form' = NoForm
    /\ UNCHANGED formLoading

LoadForm(type, of, others) ==
    /\ formId' = formId + 1 /\ form' = NoForm
    /\ formLoading' = (formLoading \/ type # None)
    /\ flight' = IF type = None THEN others
                 ELSE Send([kind |-> "form", id |-> formId + 1, type |-> type, of |-> of], others)

\* No result is shown that could have been left behind.
NothingShown == outdated' = FALSE /\ typed' = FALSE

\* handleDialogClose
Shut ==
    /\ dlg' = [dlg EXCEPT !.open = FALSE, !.type = dlg.first]
    /\ loading' = FALSE
    /\ output' = Content(None, "plain")
    /\ preview' = ResetPreview(preview)
    /\ ClearForm /\ NothingShown

-------------------------------------------------------------------------------
(***************************************************************************)
(* What the user does.  The page behind an open dialog cannot be reached.  *)
(***************************************************************************)

\* handleAdd
Add ==
    /\ ~dlg.open
    /\ dlg' = [dlg EXCEPT !.open = TRUE, !.channel = New, !.type = None]
    /\ loading' = FALSE /\ output' = Content(None, "plain") /\ groups' = None
    /\ preview' = ResetPreview(preview)
    /\ ClearForm /\ foreign' = FALSE /\ NothingShown
    /\ UNCHANGED <<submitting, flight>>

\* handleEdit, up to its await: details are on their way, and the form is left as it is.
EditChannel(c) ==
    /\ ~dlg.open /\ Room
    /\ dlg' = [open |-> TRUE, channel |-> c, type |-> TypeOf[c],
               first |-> IF dlg.channel = None THEN TypeOf[c] ELSE dlg.first]
    /\ loading' = TRUE /\ output' = Content(None, "plain")
    /\ preview' = ResetPreview(preview)
    /\ flight' = Send([kind |-> "detail", of |-> c], flight)
    /\ foreign' = FALSE /\ NothingShown
    /\ UNCHANGED <<submitting, groups, form, formId, formLoading>>

\* handleChannelSelect, for a channel that is added.
SelectType(type) ==
    /\ dlg.open /\ dlg.channel = New /\ Room
    /\ dlg' = [dlg EXCEPT !.type = type]
    /\ output' = Content(None, "plain")
    /\ preview' = ScheduleAuto(ResetPreview(preview), ~loading /\ ~submitting, "plain", TRUE)
    /\ LoadForm(type, None, flight)
    /\ NothingShown
    /\ UNCHANGED <<loading, submitting, groups, foreign>>

\* onMappingChange and onScriptChange; leaving the JSON mode of the mapping is such a change.
EditContent(valid) ==
    /\ dlg.open /\ ~loading /\ ~submitting /\ output.kind = "editor"
    /\ output' = [output EXCEPT !.edition = @ + 1]
    /\ preview' = ScheduleAuto(preview, TRUE, "editor", valid)
    /\ outdated' = (outdated /\ valid) /\ typed' = FALSE
    /\ UNCHANGED <<dlg, loading, submitting, groups, form, formId, formLoading, flight, foreign>>

\* The mapping typed as JSON: nobody is told, but what is previewed and saved is the text.
EditText ==
    /\ dlg.open /\ ~loading /\ ~submitting /\ output.kind = "editor"
    /\ output' = [output EXCEPT !.edition = @ + 1]
    /\ typed' = TRUE
    /\ UNCHANGED <<dlg, loading, submitting, groups, form, formId, formLoading, preview, flight,
                   foreign, outdated>>

\* handleFormatChange
ChangeFormat ==
    /\ dlg.open /\ ~loading /\ dlg.type # None
    /\ \E kind \in Kind \ {output.kind} :
        /\ output' = [output EXCEPT !.kind = kind, !.edition = @ + 1]
        /\ LET p == [CancelAuto(preview) EXCEPT !.result = NoResult, !.id = @ + 1] IN
           preview' = IF kind = "editor" THEN ScheduleAuto(p, ~submitting, kind, TRUE) ELSE p
    /\ NothingShown
    /\ UNCHANGED <<dlg, loading, submitting, groups, form, formId, formLoading, flight, foreign>>

\* The button of handlePreview is out of use while it loads.
MayPreview ==
    /\ dlg.open /\ ~loading /\ dlg.type # None /\ ~preview.busy
    /\ output.kind = "editor" => ~submitting

\* handlePreview.
Preview ==
    /\ MayPreview /\ Room
    /\ preview' = [CancelAuto(preview) EXCEPT !.id = @ + 1, !.manual = preview.id + 1, !.busy = TRUE]
    /\ flight' = Send([kind |-> "manual", id |-> preview.id + 1, edition |-> output.edition,
                       editor |-> output.kind = "editor"], flight)
    /\ typed' = FALSE
    /\ UNCHANGED <<dlg, loading, submitting, output, groups, form, formId, formLoading, foreign, outdated>>

\* The result shown is of other content than the dialog's.
ShownIsOld == preview.result \notin {NoResult, output.edition}

\* The mapping cannot be built, or a form is not valid: what was under way is obsolete all the
\* same, and the result before stays.
PreviewRejected ==
    /\ MayPreview
    /\ preview' = [CancelAuto(preview) EXCEPT !.id = @ + 1, !.manual = preview.id + 1]
    /\ outdated' = ShownIsOld
    /\ UNCHANGED <<dlg, loading, submitting, output, groups, form, formId, formLoading, flight, foreign, typed>>

Close ==
    /\ dlg.open
    /\ Shut
    /\ UNCHANGED <<submitting, groups, flight, foreign>>

MaySave == dlg.open /\ ~loading /\ ~submitting /\ dlg.type # None

\* handleSubmit: the forms are valid, also if the connection form is not there.
Submit ==
    /\ MaySave /\ Room
    /\ submitting' = TRUE
    /\ flight' = Send([kind |-> "save"], flight)
    /\ UNCHANGED <<dlg, loading, output, groups, form, formId, formLoading, preview, foreign, outdated, typed>>

-------------------------------------------------------------------------------
(***************************************************************************)
(* Answers, and the timer.                                                 *)
(***************************************************************************)

\* The rest of handleEdit: nobody looks which channel the dialog is open for by now.  Details
\* that could not be had count as empty ones.
DetailAnswered(r, ok) ==
    LET c == r.what.of IN
    /\ r \in flight /\ r.what.kind = "detail"
    /\ loading' = FALSE
    /\ output' = IF ok THEN Content(c, KindOf[c]) ELSE Content(None, "plain")
    /\ groups' = IF ok THEN c ELSE None
    /\ preview' = ScheduleAuto([CancelAuto(preview) EXCEPT !.result = NoResult], dlg.open /\ ~submitting,
                               output'.kind, TRUE)
    /\ LoadForm(dlg.type, IF ok THEN c ELSE None, flight \ {r})
    /\ foreign' = (dlg.channel # c)
    /\ NothingShown
    /\ UNCHANGED <<dlg, submitting>>

\* Mistake: the form shown is that of the last answer, not that of the last request.
WrongFormIsMine(r) == TRUE

FormIsMine(r) == r.what.id = formId

FormAnswered(r, ok) ==
    /\ r \in flight /\ r.what.kind = "form"
    /\ flight' = flight \ {r}
    /\ form' = IF FormIsMine(r) /\ ok THEN [type |-> r.what.type, of |-> r.what.of] ELSE form
    /\ formLoading' = (formLoading /\ ~FormIsMine(r))
    /\ UNCHANGED <<dlg, loading, submitting, output, groups, formId, preview, foreign, outdated, typed>>

\* The 600 ms are over.  The mapping may turn out not to be buildable.
TimerFires(ok) ==
    /\ preview.timer # 0
    /\ IF ok
       THEN /\ Room
            /\ preview' = [preview EXCEPT !.timer = 0]
            /\ flight' = Send([kind |-> "auto", id |-> preview.timer, edition |-> output.edition], flight)
            /\ typed' = FALSE /\ UNCHANGED outdated
       ELSE /\ preview' = [preview EXCEPT !.timer = 0, !.auto = (preview.timer # preview.id)]
            /\ outdated' = ShownIsOld
            /\ UNCHANGED <<flight, typed>>
    /\ UNCHANGED <<dlg, loading, submitting, output, groups, form, formId, formLoading, foreign>>

AutoAnswered(r, ok) ==
    LET mine == r.what.id = preview.id IN
    /\ r \in flight /\ r.what.kind = "auto"
    /\ flight' = flight \ {r}
    /\ preview' = [preview EXCEPT !.auto = @ /\ ~mine,
                                  !.result = IF mine /\ ok THEN r.what.edition ELSE @]
    /\ outdated' = IF ~mine THEN outdated
                   ELSE ~ok /\ ShownIsOld
    /\ UNCHANGED <<dlg, loading, submitting, output, groups, form, formId, formLoading, foreign, typed>>

\* A preview of an editor's content is taken if nothing has been edited since; any other one
\* if there was no other manual preview since.
ManualAnswered(r, ok) ==
    LET mine == r.what.id = preview.manual
        taken == ok /\ IF r.what.editor THEN r.what.id = preview.id ELSE mine
    IN
    /\ r \in flight /\ r.what.kind = "manual"
    /\ flight' = flight \ {r}
    /\ preview' = [preview EXCEPT !.busy = @ /\ ~mine, !.result = IF taken THEN r.what.edition ELSE @]
    /\ outdated' = IF taken THEN ~r.what.editor /\ r.what.edition # output.edition
                   ELSE IF mine THEN ShownIsOld ELSE outdated
    /\ UNCHANGED <<dlg, loading, submitting, output, groups, form, formId, formLoading, foreign, typed>>

\* A channel that was saved closes the dialog, whatever it shows now.
SaveAnswered(r, ok) ==
    /\ r \in flight /\ r.what.kind = "save"
    /\ flight' = flight \ {r} /\ submitting' = FALSE
    /\ IF ok /\ dlg.open
       THEN Shut /\ UNCHANGED <<groups, foreign>>
       ELSE UNCHANGED <<dlg, loading, output, groups, form, formId, formLoading, preview, foreign, outdated, typed>>

Answered(r, ok) ==
    \/ DetailAnswered(r, ok) \/ FormAnswered(r, ok) \/ AutoAnswered(r, ok)
    \/ ManualAnswered(r, ok) \/ SaveAnswered(r, ok)

Click ==
    \/ Add \/ \E c \in Channel : EditChannel(c)
    \/ \E type \in Type : SelectType(type)
    \/ \E valid \in BOOLEAN : EditContent(valid)
    \/ EditText \/ ChangeFormat \/ Preview \/ PreviewRejected \/ Close \/ Submit

-------------------------------------------------------------------------------
\* The settings of the channel that is edited, or nothing.
Own == IF dlg.channel \in Channel THEN {dlg.channel, None} ELSE {None}

\* What is saved under a channel's name are its own settings, however slow the answers of
\* dialogs opened before were: no other channel's output, groups, connection values, or form.
\* Except: the details of a channel whose dialog was closed before they came fill the dialog
\* that is open by then.  (Settings may be missing: a save does not wait for the form.)
SavesItsOwn ==
    MaySave /\ ~foreign =>
        /\ {output.of, groups, form.of} \subseteq Own
        /\ form.type \in {dlg.type, None}

\* What the dialog has asked for and has no answer to.
Awaited == {r.what : r \in flight}

\* The dialog does not wait for what nobody will answer: whatever it shows as loading is under
\* way for it.  The flag of the form may be left over while no type is chosen, and the form is
\* not shown.
WaitsForAnswers ==
    /\ loading => \E w \in Awaited : w.kind = "detail" /\ w.of = dlg.channel
    /\ preview.busy => \E w \in Awaited : w.kind = "manual" /\ w.id = preview.manual
    /\ preview.auto => \/ preview.timer = preview.id
                       \/ \E w \in Awaited : w.kind = "auto" /\ w.id = preview.id
    /\ submitting => \E w \in Awaited : w.kind = "save"
    /\ formLoading /\ dlg.open /\ ~loading /\ dlg.type # None =>
        \E w \in Awaited : w.kind = "form" /\ w.id = formId

\* A result that is shown as final is that of what the dialog holds.  Except: a preview that
\* fails, or is not even asked for, leaves the one before; that of a plain format comes even if
\* the format is changed; and typing in the JSON mode of the mapping neither removes the result
\* nor makes the one on its way obsolete, until the mapping is previewed or shown as a table.
PreviewIsCurrent ==
    dlg.open /\ ~preview.auto /\ ~preview.busy /\ ~outdated /\ ~typed =>
        preview.result \in {NoResult, output.edition}

\* What the dialog shows about its own state is true.
DialogIsTrue == WaitsForAnswers /\ PreviewIsCurrent

===============================================================================
