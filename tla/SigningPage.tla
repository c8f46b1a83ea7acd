---------------------------- MODULE SigningPage ----------------------------
(***************************************************************************)
(* The signing link of one signer: the page of the web application, which  *)
(* may be open in several tabs, and the public endpoints it calls.         *)
(*                                                                         *)
(* SigningWorkflow has all signers of a document and the locks of their    *)
(* transactions; this module has the page before the calls: what it lets   *)
(* the signer send, what the server checks of it, what it shows when       *)
(* answers are late, lost or refused.  A transaction is one step here.     *)
(*                                                                         *)
(* A call is let in by a check that is not repeated in its transaction.    *)
(* The client gives up after 20 seconds while the server goes on.          *)
(***************************************************************************)
EXTENDS Naturals, FiniteSets

CONSTANTS Tab,        \* browser tabs with the link
          Call,       \* slots for calls on their way
          Field,      \* the signer's fields
          Type(_),    \* their types
          Required(_),
          MaxFaults,  \* bound on time-outs, failures and closed tabs
          None

\* Values as the page and the server tell them apart.  absent: not in the form
\* store, or the empty string; unfit: blank or too long for the type, or a year
\* of five digits in a date.
Value(f) == IF Type(f) = "CHECKBOX" THEN {"absent", "checked", "unchecked"}
            ELSE {"absent", "unfit", "good"}
Values == {"absent"} \cup UNION {Value(f) : f \in Field}

ASSUME PageAssumption ==
    /\ IsFiniteSet(Call) /\ MaxFaults \in Nat /\ None \notin Tab
    /\ \A f \in Field : Required(f) \in BOOLEAN

VARIABLES
    status,       \* signing_requests.status
    viewed,       \* signing_requests.viewedAt is set
    opened,       \* number of SIGNING_LINK_OPENED audit events
    submissions,  \* number of signing_submissions
    stored,       \* document_field_values: the field and its value
    expired,      \* signing_requests.expiresAt has passed
    page,         \* each tab: query, mutation, preview
    call,         \* each call: kind, tab, next step, body, answer, heard
    faults,
    raced,        \* two calls that write were let in together
    admitted,     \* calls let in and not over when the link expired
    late          \* submissions recorded after that

rows == <<status, viewed, opened, submissions, stored>>
ghosts == <<raced, admitted, late>>
vars == <<rows, expired, page, call, faults, ghosts>>

NoCall == [kind |-> "none", tab |-> None, step |-> "none",
           body |-> [f \in Field |-> "absent"], answer |-> "none", heard |-> FALSE]
Closed == [open |-> FALSE, data |-> FALSE, error |-> "none", pending |-> FALSE,
           pdf |-> FALSE, done |-> FALSE]

Init ==
    /\ status = "PENDING" /\ viewed = FALSE /\ opened = 0
    /\ submissions = 0 /\ stored = {} /\ expired = FALSE
    /\ page = [t \in Tab |-> Closed]
    /\ call = [c \in Call |-> NoCall]
    /\ faults = 0
    /\ raced = FALSE /\ admitted = 0 /\ late = 0

-----------------------------------------------------------------------------
(***************************************************************************)
(* The page.                                                               *)
(***************************************************************************)
Fetching(t) == \E c \in Call : call[c].tab = t /\ call[c].kind = "get" /\ call[c].heard
ShowsForm(t) == page[t].data /\ page[t].error = "none"

Send(c, t, kind, body) ==
    /\ call[c] = NoCall
    /\ call' = [call EXCEPT ![c] = [NoCall EXCEPT !.kind = kind, !.tab = t,
                    !.step = "check", !.body = body, !.heard = TRUE]]

\* The query is fetched on mount, and again when the window gets the focus and
\* the data is older than 30 seconds.  A query without data forgets its error.
Fetch(c, t) ==
    /\ ~Fetching(t)
    /\ Send(c, t, "get", NoCall.body)
    /\ page' = [page EXCEPT ![t].open = TRUE,
                            ![t].error = IF page[t].data THEN @ ELSE "none"]
    /\ UNCHANGED <<rows, expired, faults, ghosts>>

\* The form takes values that are false or empty in JavaScript for missing.
Given(v) == v \notin {"absent", "unchecked"}

\* The form store: anything the signer may have typed by the time of the click.
\* The inputs stay enabled during a submission, and nothing resets the store.
Typed == {values \in [Field -> Values] : \A f \in Field : values[f] \in Value(f)}

RequiredMissing(values) == \E f \in Field : Required(f) /\ ~Given(values[f])

\* The button is disabled while a submission is pending.
Enabled(t, values) == ~page[t].pending /\ ~RequiredMissing(values)

Submit(c, t) ==
    /\ ShowsForm(t)
    /\ \E values \in Typed : Enabled(t, values) /\ Send(c, t, "post", values)
    /\ page' = [page EXCEPT ![t].pending = TRUE]
    /\ UNCHANGED <<rows, expired, faults, ghosts>>

-----------------------------------------------------------------------------
(***************************************************************************)
(* The server.                                                             *)
(***************************************************************************)
\* The checks that all endpoints begin with, in their order; nothing revokes a
\* request.  (Mutants: the expiry, or the status, is not looked at.)
RefusalNoExpiry == IF status = "COMPLETED" THEN "complete" ELSE "none"
RefusalNoStatus == IF expired THEN "unavailable" ELSE "none"
Refusal ==
    CASE expired -> "unavailable"
      [] ~expired /\ status = "COMPLETED" -> "complete"
      [] OTHER -> "none"

Reply(c, answer) ==
    call' = [call EXCEPT ![c] = IF ~call[c].heard THEN NoCall
                                ELSE [@ EXCEPT !.step = "answer", !.answer = answer]]

LetIn(c) ==
    /\ call' = [call EXCEPT ![c].step = "commit"]
    /\ raced' = (raced \/ \E d \in Call : call[d].step = "commit")

At(c, kind, step) == call[c].kind = kind /\ call[c].step = step

\* getByToken records the first view before it answers.
NeedsRecord == ~viewed

CheckView(c) ==
    /\ At(c, "get", "check")
    /\ \/ Refusal # "none" /\ Reply(c, Refusal) /\ UNCHANGED raced
       \/ Refusal = "none" /\ ~NeedsRecord /\ Reply(c, "ok") /\ UNCHANGED raced
       \/ Refusal = "none" /\ NeedsRecord /\ LetIn(c)
    /\ UNCHANGED <<rows, expired, page, faults, admitted, late>>

CommitView(c) ==
    /\ At(c, "get", "commit")
    /\ status' = "VIEWED" /\ viewed' = TRUE /\ opened' = opened + 1
    /\ Reply(c, "ok")
    /\ UNCHANGED <<submissions, stored, expired, page, faults, ghosts>>

\* submit: a value for each required field, and each value fits its type; a
\* body without values is refused, one with false for a checkbox is not.
Fits(f, v) == CASE Type(f) = "CHECKBOX" -> v \in {"checked", "unchecked"}
                [] OTHER -> v = "good"
Sent(body) == {f \in Field : body[f] # "absent"}
Acceptable(body) ==
    /\ Sent(body) # {}
    /\ \A f \in Field : Required(f) => f \in Sent(body)
    /\ \A f \in Sent(body) : Fits(f, body[f])

CheckSubmit(c) ==
    /\ At(c, "post", "check")
    /\ \/ Refusal # "none" /\ Reply(c, Refusal) /\ UNCHANGED raced
       \/ Refusal = "none" /\ ~Acceptable(call[c].body) /\ Reply(c, "invalid") /\ UNCHANGED raced
       \/ Refusal = "none" /\ Acceptable(call[c].body) /\ LetIn(c)
    /\ UNCHANGED <<rows, expired, page, faults, admitted, late>>

\* The rows of the signer's recipient and of the document are those of module
\* SigningWorkflow.
CommitSubmit(c) ==
    /\ At(c, "post", "commit")
    /\ submissions' = submissions + 1
    /\ stored' = stored \cup {<<f, call[c].body[f]>> : f \in Sent(call[c].body)}
    /\ status' = "COMPLETED"
    /\ late' = IF expired THEN late + 1 ELSE late
    /\ Reply(c, "ok")
    /\ UNCHANGED <<viewed, opened, expired, page, faults, raced, admitted>>

\* getDocumentPreview: the viewer of the form loads the PDF, or shows that it
\* could not.
ShowsViewer(t) == ShowsForm(t)

LoadPreview(t) ==
    /\ ShowsViewer(t)
    /\ ~page[t].pdf
    /\ Refusal = "none"
    /\ page' = [page EXCEPT ![t].pdf = TRUE]
    /\ UNCHANGED <<rows, expired, call, faults, ghosts>>

Expire ==
    /\ ~expired
    /\ expired' = TRUE
    /\ admitted' = Cardinality({c \in Call : call[c].step = "commit"})
    /\ UNCHANGED <<rows, page, call, faults, raced, late>>

-----------------------------------------------------------------------------
(***************************************************************************)
(* Answers.                                                                *)
(***************************************************************************)
\* The query keeps its data when it fails.  (Mutant: what the page shows does
\* not depend on the code of the error.)
ErrorOfAny(answer) == IF answer = "ok" THEN "none" ELSE "complete"
ErrorOf(answer) ==
    CASE answer = "ok" -> "none" [] answer = "complete" -> "complete" [] OTHER -> "unavailable"

Fetched(p, answer) == [p EXCEPT !.error = ErrorOf(answer), !.data = @ \/ answer = "ok"]

AnswerView(c) == LET t == call[c].tab IN
    /\ At(c, "get", "answer")
    /\ page' = [page EXCEPT ![t] = Fetched(@, call[c].answer)]
    /\ call' = [call EXCEPT ![c] = NoCall]
    /\ UNCHANGED <<rows, expired, faults, ghosts>>

\* A success makes the page fetch again, whatever fetch is on its way; the
\* answer of that one is dropped.  An error is shown as a toast.
\* (Mutant: a success does not invalidate the query.)
RefetchedNot(c, t) == [call EXCEPT ![c] = NoCall]
Refetched(c, t) ==
    [d \in Call |->
        IF d = c THEN [NoCall EXCEPT !.kind = "get", !.tab = t, !.step = "check",
                                     !.heard = TRUE]
        ELSE IF call[d].tab # t \/ call[d].kind # "get" THEN call[d]
        ELSE IF call[d].step = "answer" THEN NoCall
        ELSE [call[d] EXCEPT !.heard = FALSE]]

AnswerSubmit(c) == LET t == call[c].tab IN
    /\ At(c, "post", "answer")
    /\ IF call[c].answer = "ok"
       THEN /\ page' = [page EXCEPT ![t].pending = FALSE, ![t].done = TRUE]
            /\ call' = Refetched(c, t)
       ELSE /\ page' = [page EXCEPT ![t].pending = FALSE]
            /\ call' = [call EXCEPT ![c] = NoCall]
    /\ UNCHANGED <<rows, expired, faults, ghosts>>

\* The client gives up or the connection breaks, and the server goes on; or the
\* server dies, or rolls back, and nothing of the call is kept.
GivenUp(c) == LET t == call[c].tab IN
    page' = [page EXCEPT ![t] = IF call[c].kind = "get" THEN Fetched(@, "none")
                                ELSE [@ EXCEPT !.pending = FALSE]]

Lose(c) ==
    /\ call[c].heard
    /\ faults < MaxFaults
    /\ faults' = faults + 1
    /\ GivenUp(c)
    /\ \/ call' = [call EXCEPT ![c] = NoCall]
       \/ call[c].step # "answer" /\ call' = [call EXCEPT ![c].heard = FALSE]
    /\ UNCHANGED <<rows, expired, ghosts>>

-----------------------------------------------------------------------------
Serve(c) == \/ CheckView(c) \/ CommitView(c) \/ CheckSubmit(c) \/ CommitSubmit(c)
            \/ AnswerView(c) \/ AnswerSubmit(c)

Next ==
    \/ \E c \in Call : Serve(c) \/ Lose(c) \/ \E t \in Tab : Fetch(c, t) \/ Submit(c, t)
    \/ \E t \in Tab : LoadPreview(t)
    \/ Expire

Spec == Init /\ [][Next]_vars

\* The server executes its statements and answers arrive.
Fairness == \A c \in Call : WF_vars(Serve(c))

FairSpec == Spec /\ Fairness

-----------------------------------------------------------------------------
CallRecord == [kind : {"none", "get", "post"}, tab : Tab \cup {None},
               step : {"none", "check", "commit", "answer"}, body : [Field -> Values],
               answer : {"none", "ok", "invalid", "complete", "unavailable"},
               heard : BOOLEAN]

\* A pending submission has a call that will end it.
TypeOK ==
    /\ status \in {"PENDING", "VIEWED", "COMPLETED"} /\ viewed \in BOOLEAN
    /\ opened \in Nat /\ submissions \in Nat /\ stored \subseteq Field \X Values
    /\ expired \in BOOLEAN
    /\ page \in [Tab -> [open : BOOLEAN, data : BOOLEAN, pending : BOOLEAN, done : BOOLEAN,
                         error : {"none", "complete", "unavailable"},
                         pdf : BOOLEAN]]
    /\ call \in [Call -> CallRecord]
    /\ faults \in 0..MaxFaults
    /\ raced \in BOOLEAN /\ admitted \in Nat /\ late \in Nat
    /\ \A t \in Tab : page[t].pending =>
          \E c \in Call : call[c].tab = t /\ call[c].kind = "post" /\ call[c].heard

\* A link is opened once and submitted once, unless two calls were let in
\* together: a retry finds what was recorded, however its answer was lost.
OnceUnlessRaced == ~raced => opened <= 1 /\ submissions <= 1

\* What the server vouches for, whatever the body of a call holds: every stored
\* value fits its field, a submission left a value of every required field, and
\* no field has two values unless two calls were let in together.  That a
\* required checkbox is ticked is not part of it: only the page insists.
StoredIsValid ==
    /\ \A p \in stored : Fits(p[1], p[2])
    /\ submissions > 0 => \A f \in Field : Required(f) => \E p \in stored : p[1] = f
    /\ ~raced => \A p, q \in stored : p[1] = q[1] => p = q

\* A page that thanks the signer tells the truth: the submission is recorded,
\* also when the page learns it from another tab or after a lost answer.
CompleteMeansRecorded == \A t \in Tab : page[t].error = "complete" => submissions > 0

\* The PDF is on no page, and nothing is submitted from one, before the opening
\* of the link is in the audit trail.
ViewedBeforeShown ==
    (submissions > 0 \/ \E t \in Tab : page[t].pdf) => viewed /\ opened > 0

\* What can come of calls that are let in together.  One page, none of whose
\* calls timed out, never has two of them, however the signer clicks and the
\* page fetches; after the expiry no more submissions are recorded than had
\* been let in.
RacesAreExplained ==
    /\ raced => faults > 0 \/ \E t, u \in Tab : t # u /\ page[t].open /\ page[u].open
    /\ late <= admitted

\* A signer whose submission was answered with success comes to see a page
\* without the form, unless a race undid what was recorded.
DoneIsShown == \A t \in Tab : page[t].done ~> (page[t].error # "none" \/ raced)
=============================================================================
