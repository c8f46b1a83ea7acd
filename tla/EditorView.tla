----------------------------- MODULE EditorView -----------------------------
(***************************************************************************)
(* The document editor of the web application: the PDF viewer, in which    *)
(* fields are placed, dragged and resized, the query of the fields and the *)
(* mutations, over the fields endpoints of the API.                        *)
(*                                                                         *)
(* What the viewer shows of a field is its own overlay, set by gestures    *)
(* and never cleared, and where there is none the field of the query.      *)
(* When a gesture ends it sends a PATCH with what it changed; a success    *)
(* makes the query fetch again.  The API refuses all changes once the      *)
(* document has been sent, which the page does not look at; it merges the  *)
(* PATCH with the row it reads, checks recipient and bounds, and then      *)
(* writes what the PATCH carries.                                          *)
(*                                                                         *)
(* Coordinates are steps of a grid.  y and height are treated like x and   *)
(* width and are left out.                                                 *)
(***************************************************************************)
EXTENDS Naturals, FiniteSets

CONSTANTS FieldId,      \* ids of fields
          Old,          \* those that exist when the editor is opened
          Mutation,     \* slots for mutations on their way
          Load,         \* slots for renderings of the PDF
          Grid,         \* the width of a page
          PlacedWidth,  \* width of a field that is placed (0.28)
          MaxActs,      \* bound on gestures, renderings, refetches, changes by others, faults
          None

ASSUME EditorAssumption ==
    /\ Old \subseteq FieldId /\ Grid \in Nat \ {0} /\ PlacedWidth \in 1..Grid
    /\ MaxActs \in Nat
    /\ None \notin FieldId \cup Mutation \cup Load \cup Nat

VARIABLES
    row,      \* document_fields: position, width and page
    owner,    \* what has become of the recipient of a field that was given one,
              \* and of the one chosen for a field that is to be placed
    sent,     \* the document is no draft any more
    view,     \* the fields in the cache of the query
    fetch,    \* the GET on its way: its step and what it read
    overlay,  \* positions of the viewer
    gesture,  \* dragRef and resizeRef, with the field as it was rendered
    call,     \* mutations: kind, field, value, step, and whether it did not move
    placing,  \* isPlacingField
    page, image, loading, error,  \* the viewer, and the page on the canvas
    load,     \* runs of the rendering effect
    acts,
    others,   \* another editor changed a field or a recipient
    faulty,   \* an answer or a rendering failed, or a gesture was cut off
    hasty,    \* a gesture began before the view had caught up
    crossed,  \* a write came between the check and the write of a PATCH
    refused,  \* a mutation was refused
    edge      \* a field was placed where it does not fit

draft == <<owner, sent>>
fields == <<draft, row, view, fetch, overlay, gesture, call, placing>>
viewer == <<page, image, loading, error, load>>
ghosts == <<others, faulty, hasty, crossed, refused, edge>>
editorVars == <<fields, viewer, acts, ghosts>>

Page == 1..2
NoRow == [x |-> 0, w |-> 0, page |-> 0]
Kind == {"move", "resize"}
Role == {"signer", "cc", "gone"}
NoGesture == [field |-> None, prop |-> NoRow, now |-> 0, moved |-> FALSE, held |-> FALSE]
NoOverlay == [x |-> None, w |-> None]
NoCall == [kind |-> "none", field |-> None, value |-> 0, page |-> 0, step |-> "none",
           still |-> FALSE, heard |-> FALSE]
NoFetch == [step |-> "none", read |-> [f \in FieldId |-> NoRow]]
NoLoad == [page |-> 0, step |-> "none", cancelled |-> FALSE]

\* The editor with its fields fetched and the first page rendered.
EditorInit ==
    /\ row = [f \in FieldId |-> IF f \in Old THEN [x |-> 0, w |-> 1, page |-> 1] ELSE NoRow]
    /\ owner = [f \in FieldId |-> "signer"] /\ sent = FALSE
    /\ view = row
    /\ fetch = NoFetch
    /\ overlay = [f \in FieldId |-> NoOverlay]
    /\ gesture = [kind \in Kind |-> NoGesture]
    /\ call = [c \in Mutation |-> NoCall]
    /\ placing = FALSE
    /\ page = 1 /\ image = 1 /\ loading = FALSE /\ error = FALSE
    /\ load = [l \in Load |-> NoLoad]
    /\ acts = 0 /\ others = FALSE /\ faulty = FALSE
    /\ hasty = FALSE /\ crossed = FALSE /\ refused = FALSE /\ edge = FALSE

Act == acts < MaxActs /\ acts' = acts + 1
Fault == Act /\ faulty' = TRUE

-----------------------------------------------------------------------------
(***************************************************************************)
(* The viewer: what it shows, and gestures on it.                          *)
(***************************************************************************)
ShownX(f) == IF overlay[f].x # None THEN overlay[f].x ELSE view[f].x
ShownW(f) == IF overlay[f].w # None THEN overlay[f].w ELSE view[f].w
Shown == {f \in FieldId : view[f] # NoRow /\ view[f].page = page /\ ~loading /\ ~error}

Quiescent == fetch = NoFetch /\ \A c \in Mutation : call[c] = NoCall

Clamp(v, low, high) ==
    LET capped == IF v > high THEN high ELSE v
    IN  IF capped < low THEN low ELSE capped

Held == \E kind \in Kind : gesture[kind].held
AtRest == \A kind \in Kind : gesture[kind] = NoGesture

BeginGesture ==
    /\ ~Held
    /\ Act
    /\ hasty' = (hasty \/ ~Quiescent)

Press(f, kind) ==
    /\ f \in Shown
    /\ BeginGesture
    /\ gesture' = [gesture EXCEPT ![kind] =
                      [field |-> f, prop |-> view[f], moved |-> FALSE, held |-> TRUE,
                       now |-> IF kind = "move" THEN ShownX(f) ELSE ShownW(f)]]
    /\ UNCHANGED <<draft, row, view, fetch, overlay, call, placing, viewer, others,
                   faulty, crossed, refused, edge>>

MovedTo(g, v) == Clamp(v, 0, Grid - g.prop.w)
ResizedTo(g, v) == Clamp(v, 1, Grid - g.prop.x)

\* Movements of the pointer over a field, up to the one before it is released;
\* a gesture that was cut off goes on when the pointer comes over a field.
Moving(kind) == /\ gesture[kind] # NoGesture /\ ~gesture[kind].moved
                /\ Shown # {}

MoveField(v) == LET g == gesture["move"] IN
    /\ Moving("move")
    /\ gesture' = [gesture EXCEPT !["move"].now = MovedTo(g, v), !["move"].moved = TRUE]
    /\ overlay' = [overlay EXCEPT ![g.field].x = MovedTo(g, v)]
    /\ UNCHANGED <<draft, row, view, fetch, call, placing, viewer, acts, ghosts>>

\* A resize puts the position of the rendered field into the overlay as well.
ResizeField(v) == LET g == gesture["resize"] IN
    /\ Moving("resize")
    /\ gesture' = [gesture EXCEPT !["resize"].now = ResizedTo(g, v), !["resize"].moved = TRUE]
    /\ overlay' = [overlay EXCEPT ![g.field] = [x |-> g.prop.x, w |-> ResizedTo(g, v)]]
    /\ UNCHANGED <<draft, row, view, fetch, call, placing, viewer, acts, ghosts>>

Mutate(c, kind, f, value, onPage, still) ==
    /\ call[c] = NoCall
    /\ call' = [call EXCEPT ![c] = [kind |-> kind, field |-> f, value |-> value,
                                    page |-> onPage, step |-> "check", still |-> still,
                                    heard |-> TRUE]]

\* The end of a gesture is sent even if nothing moved.
\* (Mutant: it sends the position that the field was rendered at.)
ReleasedProp(kind) == IF kind = "move" THEN gesture[kind].prop.x ELSE gesture[kind].prop.w
Released(kind) == gesture[kind].now

Release(c, kind) ==
    /\ gesture[kind] # NoGesture
    /\ Shown # {}
    /\ Mutate(c, kind, gesture[kind].field, Released(kind), 0, ~gesture[kind].moved)
    /\ gesture' = [gesture EXCEPT ![kind] = NoGesture]
    /\ UNCHANGED <<draft, row, view, fetch, overlay, placing, viewer, acts, ghosts>>

\* onPointerCancel: nothing is sent, the overlay stays.
Cancel(kind) ==
    /\ gesture[kind] # NoGesture
    /\ Fault
    /\ gesture' = [gesture EXCEPT ![kind] = NoGesture]
    /\ UNCHANGED <<draft, row, view, fetch, overlay, call, placing, viewer, others,
                   hasty, crossed, refused, edge>>

TogglePlacing ==
    /\ ~Held
    /\ placing' = ~placing
    /\ UNCHANGED <<draft, row, view, fetch, overlay, gesture, call, viewer, acts,
                   ghosts>>

Fresh(f) == /\ f \notin Old /\ row[f] = NoRow /\ view[f] = NoRow /\ overlay[f] = NoOverlay
            /\ \A c \in Mutation : call[c].field # f

\* The viewer takes clicks once it has a canvas, also while another page is
\* loading.
OnCanvas == image # 0

PlaceField(c, f, x) ==
    /\ placing /\ OnCanvas
    /\ Fresh(f)
    /\ BeginGesture
    /\ Mutate(c, "place", f, x, page, FALSE)
    /\ edge' = (edge \/ x + PlacedWidth > Grid)
    /\ UNCHANGED <<draft, row, view, fetch, overlay, gesture, placing, viewer, others,
                   faulty, crossed, refused>>

\* The inspector, which shows a selected field.
Remove(c, f) ==
    /\ view[f] # NoRow
    /\ \A d \in Mutation : call[d].kind # "remove"
    /\ BeginGesture
    /\ Mutate(c, "remove", f, 0, 0, FALSE)
    /\ UNCHANGED <<draft, row, view, fetch, overlay, gesture, placing, viewer, others,
                   faulty, crossed, refused, edge>>

-----------------------------------------------------------------------------
(***************************************************************************)
(* The API: DocumentFieldsService.                                         *)
(***************************************************************************)
Merged(q) ==
    CASE q.kind = "move" -> [row[q.field] EXCEPT !.x = q.value]
      [] q.kind = "resize" -> [row[q.field] EXCEPT !.w = q.value]
      [] q.kind = "place" -> [x |-> q.value, w |-> PlacedWidth, page |-> q.page]
      [] q.kind = "remove" -> NoRow

\* The document is a draft, the field is there, and what is to be written has
\* a recipient who signs, within the page.
\* (Mutant: bounds are checked when a field is created only.)
AcceptableUpdates(q) ==
    /\ ~sent
    /\ q.kind # "place" => row[q.field] # NoRow
    /\ q.kind # "remove" => owner[q.field] = "signer"
    /\ q.kind = "place" => Merged(q).x + Merged(q).w <= Grid
Acceptable(q) ==
    /\ ~sent
    /\ q.kind # "place" => row[q.field] # NoRow
    /\ q.kind # "remove" => owner[q.field] = "signer" /\ Merged(q).x + Merged(q).w <= Grid

To(c, step) == call' = [call EXCEPT ![c].step = step]

Check(c) ==
    /\ call[c].step = "check"
    /\ \/ Acceptable(call[c]) /\ To(c, "write")
       \/ ~Acceptable(call[c]) /\ To(c, "no")
    /\ UNCHANGED <<draft, row, view, fetch, overlay, gesture, placing, viewer, acts,
                   ghosts>>

Checked(f) == {c \in Mutation : call[c].field = f /\ call[c].step = "write"}

\* update and delete find the row by id, and a field that is created refers to
\* its recipient: one that is gone is an error.
Missing(q) == IF q.kind = "place" THEN owner[q.field] = "gone" ELSE row[q.field] = NoRow

Write(c) == LET q == call[c] IN
    /\ q.step = "write"
    /\ IF Missing(q)
       THEN To(c, "no") /\ UNCHANGED <<row, crossed>>
       ELSE /\ row' = [row EXCEPT ![q.field] = Merged(q)]
            /\ To(c, "ok")
            /\ crossed' = (crossed \/ Checked(q.field) # {c})
    /\ UNCHANGED <<draft, view, fetch, overlay, gesture, placing, viewer, acts,
                   others, faulty, hasty, refused, edge>>

\* Another editor, who sees the field as it is, moves or resizes it.
OtherEdits(f) ==
    /\ row[f] # NoRow /\ owner[f] = "signer" /\ ~sent
    /\ Act
    /\ others' = TRUE
    /\ \E x \in 0..Grid, w \in 1..Grid :
          /\ x = row[f].x \/ w = row[f].w
          /\ x + w <= Grid
          /\ row' = [row EXCEPT ![f].x = x, ![f].w = w]
    /\ crossed' = (crossed \/ Checked(f) # {})
    /\ UNCHANGED <<draft, view, fetch, overlay, gesture, call, placing, viewer,
                   faulty, hasty, refused, edge>>

\* Another editor removes the recipient of these fields, changes its role, which
\* it may not lose to one that owns a field, or assigns them to a signer.
OtherAssigns(F, fate) ==
    /\ ~sent
    /\ Act
    /\ others' = TRUE
    /\ fate = "cc" => \A f \in F : row[f] = NoRow /\ owner[f] # "gone"
    /\ owner' = [f \in FieldId |-> IF f \in F THEN fate ELSE owner[f]]
    /\ UNCHANGED <<sent, row, view, fetch, overlay, gesture, call, placing, viewer,
                   faulty, hasty, crossed, refused, edge>>

\* The send button of the page, or that of another editor.  The viewer goes on
\* to take gestures.
SendDocument ==
    /\ ~sent
    /\ Act
    /\ sent' = TRUE
    /\ UNCHANGED <<owner, row, view, fetch, overlay, gesture, call, placing, viewer,
                   ghosts>>

-----------------------------------------------------------------------------
(***************************************************************************)
(* Answers and fetches.                                                    *)
(***************************************************************************)
\* invalidateQueries: a fetch on its way is dropped and begun again.
Invalidated == [NoFetch EXCEPT !.step = "sent"]

\* A refusal is a toast: nothing of the view is taken back.
Answer(c) ==
    /\ call[c].heard
    /\ \/ /\ call[c].step = "ok"
          /\ fetch' = Invalidated
          /\ placing' = (placing /\ call[c].kind # "place")
          /\ UNCHANGED refused
       \/ call[c].step = "no" /\ refused' = TRUE /\ UNCHANGED <<fetch, placing>>
    /\ call' = [call EXCEPT ![c] = NoCall]
    /\ UNCHANGED <<draft, row, view, overlay, gesture, viewer, acts, others, faulty,
                   hasty, crossed, edge>>

\* The client gives up; the API may go on.
Lose(c) ==
    /\ call[c].heard
    /\ Fault
    /\ refused' = TRUE
    /\ \/ call' = [call EXCEPT ![c] = NoCall]
       \/ call[c].step \in {"check", "write"} /\ call' = [call EXCEPT ![c].heard = FALSE]
    /\ UNCHANGED <<draft, row, view, fetch, overlay, gesture, placing, viewer, others,
                   hasty, crossed, edge>>

Forget(c) ==
    /\ call[c].step \in {"ok", "no"} /\ ~call[c].heard
    /\ call' = [call EXCEPT ![c] = NoCall]
    /\ UNCHANGED <<draft, row, view, fetch, overlay, gesture, placing, viewer, acts,
                   ghosts>>

\* The window gets the focus and the fields are older than 30 seconds.
Refocus ==
    /\ fetch = NoFetch
    /\ Act
    /\ fetch' = [NoFetch EXCEPT !.step = "sent"]
    /\ UNCHANGED <<draft, row, view, overlay, gesture, call, placing, viewer, ghosts>>

Read ==
    /\ fetch.step = "sent"
    /\ fetch' = [step |-> "read", read |-> row]
    /\ UNCHANGED <<draft, row, view, overlay, gesture, call, placing, viewer, acts,
                   ghosts>>

Fetched ==
    /\ fetch.step = "read"
    /\ view' = fetch.read
    /\ fetch' = NoFetch
    /\ UNCHANGED <<draft, row, overlay, gesture, call, placing, viewer, acts, ghosts>>

-----------------------------------------------------------------------------
(***************************************************************************)
(* The effect that renders a page of the PDF.  It runs when the page, the  *)
(* access token or the width of the window changes, and cancels the run    *)
(* before it, whose awaits then fail.  The fields are taken off the page,  *)
(* and a gesture loses its pointer.                                        *)
(***************************************************************************)
Rerun(l, p) ==
    /\ load[l] = NoLoad
    /\ Act
    /\ load' = [k \in Load |->
                  IF k = l THEN [page |-> p, step |-> "document", cancelled |-> FALSE]
                  ELSE IF load[k] = NoLoad THEN NoLoad ELSE [load[k] EXCEPT !.cancelled = TRUE]]
    /\ loading' = TRUE /\ error' = FALSE
    /\ gesture' = [kind \in Kind |-> [gesture[kind] EXCEPT !.held = FALSE]]
    /\ faulty' = (faulty \/ ~AtRest)
    /\ UNCHANGED <<draft, row, view, fetch, overlay, call, placing, image, others,
                   hasty, crossed, refused, edge>>

TurnPage(l, p) ==
    /\ p # page /\ ~loading /\ ~Held
    /\ page' = p
    /\ Rerun(l, p)

Renew(l) == Rerun(l, page) /\ UNCHANGED page

Document(l) ==
    /\ load[l].step = "document" /\ ~load[l].cancelled
    /\ load' = [load EXCEPT ![l].step = "canvas"]
    /\ UNCHANGED <<fields, page, image, loading, error, acts, ghosts>>

Draw(l) ==
    /\ load[l].step = "canvas" /\ ~load[l].cancelled
    /\ image' = load[l].page
    /\ load' = [load EXCEPT ![l].step = "drawn"]
    /\ UNCHANGED <<fields, page, loading, error, acts, ghosts>>

\* The finally block.  (Mutant: a run does not report.)
EndedNever(l) == loading
Ended(l) == loading /\ load[l].cancelled

Finish(l) ==
    /\ load[l].step = "drawn" \/ load[l].cancelled
    /\ loading' = Ended(l)
    /\ load' = [load EXCEPT ![l] = NoLoad]
    /\ UNCHANGED <<fields, page, image, error, acts, ghosts>>

\* The URL has expired, the document is gone, the PDF is broken.
Fail(l) ==
    /\ load[l] # NoLoad /\ ~load[l].cancelled
    /\ Fault
    /\ error' = TRUE /\ loading' = FALSE
    /\ load' = [load EXCEPT ![l] = NoLoad]
    /\ UNCHANGED <<fields, page, image, others, hasty, crossed, refused, edge>>

-----------------------------------------------------------------------------
Gesture == \/ \E f \in FieldId, kind \in Kind : Press(f, kind)
           \/ \E v \in 0..Grid : MoveField(v) \/ ResizeField(v)
           \/ \E kind \in Kind : Cancel(kind) \/ \E c \in Mutation : Release(c, kind)
           \/ TogglePlacing
           \/ \E c \in Mutation, f \in FieldId : Remove(c, f) \/ \E x \in 0..Grid : PlaceField(c, f, x)

Serve(c) == Check(c) \/ Write(c) \/ Answer(c) \/ Forget(c)
Arrive == Read \/ Fetched
Render(l) == Document(l) \/ Draw(l) \/ Finish(l)

EditorNext ==
    \/ Gesture
    \/ \E c \in Mutation : Serve(c) \/ Lose(c)
    \/ \E f \in FieldId : OtherEdits(f)
    \/ \E F \in SUBSET FieldId, fate \in Role : OtherAssigns(F, fate)
    \/ SendDocument
    \/ Refocus \/ Arrive
    \/ \E l \in Load : Render(l) \/ Fail(l) \/ Renew(l) \/ \E p \in Page : TurnPage(l, p)

EditorSpec == EditorInit /\ [][EditorNext]_editorVars

\* The API serves its calls, fetches come back, pdf.js renders or fails.
EditorFairness ==
    /\ WF_editorVars(\E c \in Mutation : Serve(c))
    /\ WF_editorVars(Arrive)
    /\ WF_editorVars(\E l \in Load : Render(l))

EditorFairSpec == EditorSpec /\ EditorFairness

-----------------------------------------------------------------------------
Row == [x : 0..Grid, w : 0..Grid, page : 0..2]
Rows == [FieldId -> Row]

\* While the viewer loads there is a run that will end it.
EditorTypeOK ==
    /\ row \in Rows /\ view \in Rows
    /\ owner \in [FieldId -> Role] /\ sent \in BOOLEAN
    /\ fetch \in [step : {"none", "sent", "read"}, read : Rows]
    /\ overlay \in [FieldId -> [x : 0..Grid \cup {None}, w : 0..Grid \cup {None}]]
    /\ gesture \in [Kind -> [field : FieldId \cup {None}, prop : Row, now : 0..Grid,
                             moved : BOOLEAN, held : BOOLEAN]]
    /\ call \in [Mutation -> [kind : {"none", "move", "resize", "place", "remove"},
                          field : FieldId \cup {None}, value : 0..Grid, page : 0..2,
                          step : {"none", "check", "write", "ok", "no"},
                          still : BOOLEAN, heard : BOOLEAN]]
    /\ placing \in BOOLEAN /\ page \in Page /\ image \in 0..2
    /\ loading \in BOOLEAN /\ error \in BOOLEAN
    /\ load \in [Load -> [page : 0..2, step : {"none", "document", "canvas", "drawn"},
                          cancelled : BOOLEAN]]
    /\ acts \in 0..MaxActs
    /\ {others, faulty, hasty, crossed, refused, edge} \subseteq BOOLEAN
    /\ loading => \E l \in Load : load[l] # NoLoad /\ ~load[l].cancelled

\* Nothing but the gestures of this editor, each begun when the one before had
\* been answered and fetched, and none refused, lost or cancelled: the document
\* may have been sent.
Undisturbed == ~hasty /\ ~refused /\ ~others /\ ~faulty

\* An editor who takes care sees what is stored: the overlay, which is never
\* cleared, agrees with the row whenever nothing is on its way.
ShownIsStored ==
    Undisturbed /\ Quiescent /\ AtRest =>
        /\ view = row
        /\ \A f \in FieldId : row[f] # NoRow => ShownX(f) = row[f].x /\ ShownW(f) = row[f].w

\* (1) However gestures, answers and editors interleave, a field stays inside
\* its page, unless a write came between the check and the write of another.
InsidePage == ~crossed => \A f \in FieldId : row[f].x + row[f].w <= Grid

\* (2) The viewer keeps gestures within the page: while the document is a draft
\* the API refuses none of them but those that began before the view had
\* caught up, a placement at the edge, and what another editor made
\* impossible by changing a field or a recipient.
RefusalIsExplained == refused => hasty \/ edge \/ others \/ faulty \/ sent

\* (3) A click on a field, which sends its position too, moves nothing.
ClickMovesNothing ==
    \A c \in Mutation : call[c].still /\ call[c].step = "write" /\ Undisturbed =>
        Merged(call[c]) = row[call[c].field]

\* (4) Fields are shown over the image of the page that they belong to, however
\* page turns and token renewals cancel renderings.
FieldsMatchImage == ~loading /\ ~error => image = page

\* What gestures, editors and renderings may do to each other: (1) to (4).
ViewInv ==
    EditorTypeOK /\ InsidePage /\ RefusalIsExplained /\ ClickMovesNothing /\ FieldsMatchImage

\* The viewer catches up: a field that was created comes to be shown, unless
\* the answer was lost, and no rendering leaves the page in its loading state.
ViewSettles ==
    /\ \A f \in FieldId \ Old : row[f] # NoRow
                              ~> (view[f] # NoRow \/ row[f] = NoRow \/ faulty)
    /\ loading ~> ~loading
=============================================================================
