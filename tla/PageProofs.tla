----------------------------- MODULE PageProofs -----------------------------
(***************************************************************************)
(* Theorems about SigningPage, for any number of tabs, calls, fields and   *)
(* faults.                                                                 *)
(*                                                                         *)
(* What a page shows, and what a call brings, was true when the call was   *)
(* let in or answered, and stays true: submissions and the first view are  *)
(* never taken back, although the status of the request may be.            *)
(*                                                                         *)
(* A race needs two pages or a call that nobody waits for: one page makes  *)
(* its calls one by one (Calm).  After the expiry nothing is let in, and   *)
(* each call that was let in writes at most once (LateInv).                *)
(***************************************************************************)
EXTENDS SigningPage, TLAPS, FiniteSetTheorems

PageRecord == [open : BOOLEAN, data : BOOLEAN, pending : BOOLEAN, done : BOOLEAN,
               error : {"none", "complete", "unavailable"}, pdf : BOOLEAN]

TablesTyped == /\ call \in [Call -> CallRecord] /\ page \in [Tab -> PageRecord]
               /\ submissions \in Nat /\ opened \in Nat

CallOK(q) ==
    /\ q.answer = "complete" => submissions > 0
    /\ q.kind = "post" \/ (q.kind = "get" /\ q.answer = "ok") => opened > 0
    /\ q.kind = "post" /\ q.step = "commit" => Acceptable(q.body)
    /\ q.kind \in {"get", "post"} => q.tab \in Tab

PageOK(p) ==
    /\ p.error = "complete" => submissions > 0
    /\ p.data = TRUE \/ p.pdf = TRUE => opened > 0

Shown == /\ \A c \in Call : CallOK(call[c])
         /\ \A t \in Tab : PageOK(page[t])

Stands == /\ status = "COMPLETED" => submissions > 0
          /\ viewed <=> opened > 0
          /\ submissions > 0 => opened > 0
          /\ stored # {} => submissions > 0

\* What the check of a submission lets the transaction write.
StoredFits ==
    /\ \A p \in stored : Fits(p[1], p[2])
    /\ submissions > 0 => \A f \in Field : Required(f) => \E p \in stored : p[1] = f

Inv == TablesTyped /\ Shown /\ Stands /\ StoredFits

LEMMA NoCallTyped == NoCall \in CallRecord
<1>1. "absent" \in Values
  BY DEF Values
<1>2. [f \in Field |-> "absent"] \in [Field -> Values]
  BY <1>1
<1> QED
  BY <1>2 DEF NoCall, CallRecord

LEMMA InitInv == Init => Inv
<1> SUFFICES ASSUME Init PROVE Inv
  OBVIOUS
<1>1. TablesTyped
  BY NoCallTyped DEF Init, TablesTyped, PageRecord, Closed
<1>2. Shown
  BY DEF Init, Shown, CallOK, PageOK, NoCall, Closed
<1>3. Stands /\ StoredFits
  BY DEF Init, Stands, StoredFits
<1> QED
  BY <1>1, <1>2, <1>3 DEF Inv

(* A step that records nothing: what stands goes on standing, and it is    *)
(* enough that the calls and pages it touches fit.                         *)
LEMMA Quiet ==
    ASSUME Inv, UNCHANGED rows, call' \in [Call -> CallRecord], page' \in [Tab -> PageRecord],
           \A c \in Call : call'[c] = call[c] \/ CallOK(call'[c]),
           \A t \in Tab : page'[t] = page[t] \/ PageOK(page'[t])
    PROVE  Inv'
<1>1. UNCHANGED <<status, viewed, opened, submissions, stored>>
  BY DEF rows
<1>2. TablesTyped'
  BY <1>1 DEF Inv, TablesTyped
<1>3. Shown'
  BY <1>1 DEF Inv, Shown, CallOK, PageOK
<1>4. Stands'
  BY <1>1 DEF Inv, Stands
<1>5. StoredFits'
  BY <1>1 DEF Inv, StoredFits
<1> QED
  BY <1>2, <1>3, <1>4, <1>5 DEF Inv

(* What an answer, a time-out or a new fetch changes of a call or a page.  *)
LEMMA UnheardOK ==
    ASSUME NEW q \in CallRecord
    PROVE  /\ [q EXCEPT !.heard = FALSE] \in CallRecord
           /\ CallOK(q) => CallOK([q EXCEPT !.heard = FALSE])
<1> DEFINE u == [q EXCEPT !.heard = FALSE]
<1>1. /\ u \in CallRecord /\ u.kind = q.kind /\ u.tab = q.tab /\ u.step = q.step
      /\ u.body = q.body /\ u.answer = q.answer
  BY DEF CallRecord
<1> HIDE DEF u
<1>2. CallOK(q) => CallOK(u)
  BY <1>1 DEF CallOK
<1> QED
  BY <1>1, <1>2 DEF u

LEMMA AnsweredOK ==
    ASSUME NEW p \in PageRecord
    PROVE  /\ [p EXCEPT !.pending = FALSE] \in PageRecord
           /\ PageOK(p) => PageOK([p EXCEPT !.pending = FALSE])
<1> DEFINE q == [p EXCEPT !.pending = FALSE]
<1>1. q \in PageRecord /\ q.error = p.error /\ q.data = p.data /\ q.pdf = p.pdf
  BY DEF PageRecord
<1> HIDE DEF q
<1>2. PageOK(p) => PageOK(q)
  BY <1>1 DEF PageOK
<1> QED
  BY <1>1, <1>2 DEF q

LEMMA DoneOK ==
    ASSUME NEW p \in PageRecord
    PROVE  /\ [p EXCEPT !.done = TRUE] \in PageRecord
           /\ PageOK(p) => PageOK([p EXCEPT !.done = TRUE])
<1> DEFINE q == [p EXCEPT !.done = TRUE]
<1>1. q \in PageRecord /\ q.error = p.error /\ q.data = p.data /\ q.pdf = p.pdf
  BY DEF PageRecord
<1> HIDE DEF q
<1>2. PageOK(p) => PageOK(q)
  BY <1>1 DEF PageOK
<1> QED
  BY <1>1, <1>2 DEF q

LEMMA OnePage ==
    ASSUME page \in [Tab -> PageRecord], NEW t \in Tab, NEW q \in PageRecord, PageOK(q),
           page' = [page EXCEPT ![t] = q]
    PROVE  /\ page' \in [Tab -> PageRecord]
           /\ \A u \in Tab : u # t => page'[u] = page[u]
           /\ PageOK(page'[t])
  OBVIOUS

-----------------------------------------------------------------------------
(* What the page sends.                                                    *)
LEMMA Sends ==
    ASSUME Inv, NEW c \in Call, NEW t \in Tab, NEW kind \in {"get", "post"},
           NEW body \in [Field -> Values], Send(c, t, kind, body)
    PROVE  /\ call' \in [Call -> CallRecord]
           /\ \A d \in Call : d # c => call'[d] = call[d]
           /\ call'[c].kind = kind /\ call'[c].tab = t /\ call'[c].step = "check"
           /\ call'[c].body = body /\ call'[c].answer = "none" /\ call'[c].heard = TRUE
<1> DEFINE new == [NoCall EXCEPT !.kind = kind, !.tab = t, !.step = "check",
                                 !.body = body, !.heard = TRUE]
<1>1. /\ new \in CallRecord /\ new.kind = kind /\ new.tab = t /\ new.step = "check"
      /\ new.body = body /\ new.answer = "none" /\ new.heard = TRUE
  <2> DEFINE a == [NoCall EXCEPT !.kind = kind]
             b == [a EXCEPT !.tab = t]
             e == [b EXCEPT !.step = "check"]
             g == [e EXCEPT !.body = body]
  <2>1. a \in CallRecord /\ a.kind = kind /\ a.answer = "none"
    BY NoCallTyped DEF CallRecord, NoCall
  <2>2. b \in CallRecord /\ b.kind = kind /\ b.answer = "none" /\ b.tab = t
    BY <2>1 DEF CallRecord
  <2>3. e \in CallRecord /\ e.kind = kind /\ e.answer = "none" /\ e.tab = t /\ e.step = "check"
    BY <2>2 DEF CallRecord
  <2>4. /\ g \in CallRecord /\ g.kind = kind /\ g.answer = "none" /\ g.tab = t /\ g.step = "check"
        /\ g.body = body
    BY <2>3 DEF CallRecord
  <2>5. new = [g EXCEPT !.heard = TRUE]
    OBVIOUS
  <2> HIDE DEF new, g
  <2> QED
    BY <2>4, <2>5 DEF CallRecord
<1>2. call' = [call EXCEPT ![c] = new]
  BY DEF Send
<1> HIDE DEF new
<1> QED
  BY <1>1, <1>2 DEF Inv, TablesTyped

LEMMA FetchStep ==
    ASSUME Inv, NEW c \in Call, NEW t \in Tab, Fetch(c, t)
    PROVE  Inv'
<1>1. NoCall.body \in [Field -> Values]
  BY NoCallTyped DEF CallRecord
<1>2. /\ call' \in [Call -> CallRecord]
      /\ \A d \in Call : d # c => call'[d] = call[d]
      /\ call'[c].kind = "get" /\ call'[c].tab = t /\ call'[c].answer = "none"
  BY <1>1, Sends DEF Fetch
<1>3. CallOK(call'[c])
  BY <1>2 DEF CallOK
<1>4. page' = [page EXCEPT ![t] = [[@ EXCEPT !.open = TRUE]
                  EXCEPT !.error = IF page[t].data THEN page[t].error ELSE "none"]]
  BY DEF Fetch, Inv, TablesTyped
<1>5. page \in [Tab -> PageRecord] /\ PageOK(page[t])
  BY DEF Inv, TablesTyped, Shown
<1>6. /\ page' \in [Tab -> PageRecord]
      /\ \A u \in Tab : u # t => page'[u] = page[u]
      /\ PageOK(page'[t])
  <2> DEFINE p == [page[t] EXCEPT !.open = TRUE]
             q == [p EXCEPT !.error = IF page[t].data THEN page[t].error ELSE "none"]
  <2>1. p \in PageRecord /\ p.data = page[t].data /\ p.pdf = page[t].pdf
    BY <1>5 DEF PageRecord
  <2>2. page' = [page EXCEPT ![t] = q]
    BY <1>4
  <2>3. page[t].error \in {"none", "complete", "unavailable"}
    BY <1>5 DEF PageRecord
  <2> HIDE DEF p
  <2>4. /\ q \in PageRecord /\ q.data = page[t].data /\ q.pdf = page[t].pdf
        /\ q.error \in {page[t].error, "none"}
    BY <2>1, <2>3 DEF PageRecord
  <2> HIDE DEF q
  <2>5. PageOK(q)
    BY <1>5, <2>4 DEF PageOK
  <2> QED
    BY <1>5, <2>2, <2>4, <2>5, OnePage
<1> QED
  BY <1>2, <1>3, <1>6, Quiet DEF Fetch

LEMMA SubmitStep ==
    ASSUME Inv, NEW c \in Call, NEW t \in Tab, Submit(c, t)
    PROVE  Inv'
<1>1. PICK values \in Typed : Enabled(t, values) /\ Send(c, t, "post", values)
  BY DEF Submit
<1>2. values \in [Field -> Values]
  BY DEF Typed
<1>3. /\ call' \in [Call -> CallRecord]
      /\ \A d \in Call : d # c => call'[d] = call[d]
      /\ call'[c].kind = "post" /\ call'[c].tab = t /\ call'[c].step = "check"
      /\ call'[c].body = values /\ call'[c].answer = "none"
  BY <1>1, <1>2, Sends
<1>5. page \in [Tab -> PageRecord] /\ PageOK(page[t])
  BY DEF Inv, TablesTyped, Shown
<1>6. opened > 0
  BY <1>5 DEF Submit, ShowsForm, PageOK, PageRecord
<1>7. CallOK(call'[c])
  BY <1>3, <1>6 DEF CallOK
<1>8. page' = [page EXCEPT ![t].pending = TRUE]
  BY DEF Submit
<1>9. /\ page' \in [Tab -> PageRecord]
      /\ \A u \in Tab : u # t => page'[u] = page[u]
      /\ PageOK(page'[t])
  BY <1>5, <1>8 DEF PageRecord, PageOK
<1> QED
  BY <1>3, <1>7, <1>9, Quiet DEF Submit

LEMMA PreviewStep ==
    ASSUME Inv, NEW t \in Tab, LoadPreview(t)
    PROVE  Inv'
<1>1. page \in [Tab -> PageRecord] /\ PageOK(page[t]) /\ call \in [Call -> CallRecord]
  BY DEF Inv, TablesTyped, Shown
<1>2. opened > 0
  BY <1>1 DEF LoadPreview, ShowsViewer, ShowsForm, PageOK, PageRecord
<1>3. page' = [page EXCEPT ![t].pdf = TRUE] /\ UNCHANGED <<rows, call>>
  BY DEF LoadPreview
<1>4. /\ page' \in [Tab -> PageRecord]
      /\ \A u \in Tab : u # t => page'[u] = page[u]
      /\ PageOK(page'[t])
  BY <1>1, <1>2, <1>3 DEF PageRecord, PageOK
<1> QED
  BY <1>1, <1>3, <1>4, Quiet

-----------------------------------------------------------------------------
(* The checks and transactions of the server.                              *)
LEMMA Replies ==
    ASSUME TablesTyped, NEW c \in Call,
           NEW answer \in {"none", "ok", "invalid", "complete", "unavailable"},
           Reply(c, answer)
    PROVE  /\ call' \in [Call -> CallRecord]
           /\ \A d \in Call : d # c => call'[d] = call[d]
           /\ \/ call'[c] = NoCall
              \/ /\ call'[c].kind = call[c].kind /\ call'[c].tab = call[c].tab
                 /\ call'[c].body = call[c].body /\ call'[c].step = "answer"
                 /\ call'[c].answer = answer
<1>1. call \in [Call -> CallRecord]
  BY DEF TablesTyped
<1>2. CASE call' = [call EXCEPT ![c] = NoCall]
  BY <1>1, <1>2, NoCallTyped
<1>3. CASE call' = [call EXCEPT ![c] = [[@ EXCEPT !.step = "answer"] EXCEPT !.answer = answer]]
  BY <1>1, <1>3 DEF CallRecord
<1>4. \/ call' = [call EXCEPT ![c] = NoCall]
      \/ call' = [call EXCEPT ![c] = [[@ EXCEPT !.step = "answer"] EXCEPT !.answer = answer]]
  BY <1>1 DEF Reply, CallRecord
<1> QED
  BY <1>2, <1>3, <1>4

LEMMA NoCallOK == CallOK(NoCall) /\ CallOK(NoCall)'
  BY DEF CallOK, NoCall

LEMMA CheckStep ==
    ASSUME Inv, NEW c \in Call, CheckView(c) \/ CheckSubmit(c)
    PROVE  Inv'
<1>1. /\ call \in [Call -> CallRecord] /\ CallOK(call[c]) /\ page \in [Tab -> PageRecord]
      /\ TablesTyped /\ Stands
  BY DEF Inv, TablesTyped, Shown
<1>2. UNCHANGED <<rows, page>> /\ call[c].kind \in {"get", "post"}
  BY DEF CheckView, CheckSubmit, At
<1>3. ASSUME NEW answer \in {"ok", "invalid", "complete", "unavailable"}, Reply(c, answer),
             answer = "complete" => submissions > 0,
             answer = "ok" => opened > 0
      PROVE  Inv'
  <2>1. /\ call' \in [Call -> CallRecord]
        /\ \A d \in Call : d # c => call'[d] = call[d]
        /\ \/ call'[c] = NoCall
           \/ /\ call'[c].kind = call[c].kind /\ call'[c].tab = call[c].tab
              /\ call'[c].body = call[c].body /\ call'[c].step = "answer"
              /\ call'[c].answer = answer
    BY <1>1, <1>3, Replies
  <2>2. CallOK(call'[c])
    BY <1>1, <1>3, <2>1, NoCallOK DEF CallOK
  <2> QED
    BY <1>1, <1>2, <2>1, <2>2, Quiet
<1>4. ASSUME LetIn(c), call[c].kind = "post" => Acceptable(call[c].body) PROVE Inv'
  <2>1. call' = [call EXCEPT ![c].step = "commit"]
    BY <1>4 DEF LetIn
  <2>2. /\ call' \in [Call -> CallRecord]
        /\ \A d \in Call : d # c => call'[d] = call[d]
        /\ call'[c].kind = call[c].kind /\ call'[c].tab = call[c].tab
        /\ call'[c].body = call[c].body /\ call'[c].answer = call[c].answer
    BY <1>1, <2>1 DEF CallRecord
  <2>3. CallOK(call'[c])
    BY <1>1, <1>4, <2>2 DEF CallOK
  <2> QED
    BY <1>1, <1>2, <2>2, <2>3, Quiet
<1>5. Refusal \in {"none", "complete", "unavailable"} /\ (Refusal = "complete" => submissions > 0)
  BY <1>1 DEF Refusal, Stands
<1>6. CASE CheckView(c)
  <2>1. ~NeedsRecord => opened > 0
    BY <1>1 DEF NeedsRecord, Stands
  <2>2. \/ Refusal # "none" /\ Reply(c, Refusal)
        \/ opened > 0 /\ Reply(c, "ok")
        \/ LetIn(c) /\ call[c].kind # "post"
    BY <1>6, <2>1 DEF CheckView, At
  <2> QED
    BY <1>3, <1>4, <1>5, <2>2
<1>7. CASE CheckSubmit(c)
  <2>1. \/ Refusal # "none" /\ Reply(c, Refusal)
        \/ Reply(c, "invalid")
        \/ LetIn(c) /\ Acceptable(call[c].body)
    BY <1>7 DEF CheckSubmit
  <2> QED
    BY <1>3, <1>4, <1>5, <2>1
<1> QED
  BY <1>6, <1>7

(* A transaction: what stands after it makes what was shown before stand.  *)
LEMMA Commits ==
    ASSUME Inv, NEW c \in Call, call[c].kind \in {"get", "post"}, Reply(c, "ok"), UNCHANGED page,
           submissions' \in Nat, opened' \in Nat, opened' > 0,
           submissions > 0 => submissions' > 0,
           status' = "COMPLETED" => submissions' > 0, stored' # {} => submissions' > 0,
           viewed', StoredFits'
    PROVE  Inv'
<1>1. /\ call \in [Call -> CallRecord] /\ page \in [Tab -> PageRecord] /\ TablesTyped
      /\ \A d \in Call : CallOK(call[d])
      /\ \A t \in Tab : PageOK(page[t])
  BY DEF Inv, TablesTyped, Shown
<1>2. /\ call' \in [Call -> CallRecord]
      /\ \A d \in Call : d # c => call'[d] = call[d]
      /\ \/ call'[c] = NoCall
         \/ /\ call'[c].kind = call[c].kind /\ call'[c].tab = call[c].tab
            /\ call'[c].body = call[c].body /\ call'[c].step = "answer"
            /\ call'[c].answer = "ok"
  BY <1>1, Replies
<1>3. TablesTyped'
  BY <1>1, <1>2 DEF TablesTyped
<1>4. \A d \in Call : CallOK(call[d])'
  <2>1. \A d \in Call : d # c => CallOK(call[d])'
    BY <1>1, <1>2 DEF CallOK
  <2>2. CallOK(call[c])'
    BY <1>1, <1>2 DEF CallOK, NoCall
  <2> QED
    BY <2>1, <2>2
<1>5. \A t \in Tab : PageOK(page[t])'
  BY <1>1 DEF PageOK
<1>6. Stands'
  BY DEF Stands
<1> QED
  BY <1>3, <1>4, <1>5, <1>6 DEF Inv, Shown

LEMMA CommitViewStep ==
    ASSUME Inv, NEW c \in Call, CommitView(c)
    PROVE  Inv'
<1>1. /\ call[c].kind = "get" /\ Reply(c, "ok")
      /\ UNCHANGED <<page, submissions, stored>>
      /\ status' = "VIEWED" /\ viewed' = TRUE /\ opened' = opened + 1
  BY DEF CommitView, At
<1>2. submissions \in Nat /\ opened \in Nat
  BY DEF Inv, TablesTyped
<1>3. StoredFits'
  BY <1>1 DEF Inv, StoredFits
<1>4. stored' # {} => submissions' > 0
  BY <1>1, <1>2 DEF Inv, Stands
<1>5. submissions > 0 => submissions' > 0
  BY <1>1
<1> QED
  BY <1>1, <1>2, <1>3, <1>4, <1>5, Commits

LEMMA CommitSubmitStep ==
    ASSUME Inv, NEW c \in Call, CommitSubmit(c)
    PROVE  Inv'
<1> DEFINE body == call[c].body
           written == {<<f, body[f]>> : f \in Sent(body)}
<1>1. /\ call[c].kind = "post" /\ call[c].step = "commit" /\ Reply(c, "ok")
      /\ UNCHANGED <<page, viewed, opened>>
      /\ submissions' = submissions + 1 /\ status' = "COMPLETED"
      /\ stored' = stored \cup written
  BY DEF CommitSubmit, At
<1>2. submissions \in Nat /\ opened \in Nat /\ CallOK(call[c])
  BY DEF Inv, TablesTyped, Shown
<1>3. opened > 0 /\ viewed'
  BY <1>1, <1>2 DEF CallOK, Inv, Stands
<1>4. /\ \A f \in Field : Required(f) => f \in Sent(body)
      /\ \A f \in Sent(body) : Fits(f, body[f])
  BY <1>1, <1>2 DEF CallOK, Acceptable
<1> HIDE DEF body
<1>5. \A p \in written : \E f \in Sent(body) : p[1] = f /\ p[2] = body[f]
  OBVIOUS
<1>6. \A f \in Sent(body) : <<f, body[f]>> \in written /\ <<f, body[f]>>[1] = f
  OBVIOUS
<1> HIDE DEF written
<1>7. StoredFits'
  <2>1. \A p \in stored' : Fits(p[1], p[2])
    BY <1>1, <1>4, <1>5 DEF Inv, StoredFits
  <2>2. ASSUME NEW f \in Field, Required(f)
        PROVE  \E p \in stored' : p[1] = f
    BY <1>1, <1>4, <1>6, <2>2
  <2> QED
    BY <2>1, <2>2 DEF StoredFits
<1> QED
  BY <1>1, <1>2, <1>3, <1>7, Commits

-----------------------------------------------------------------------------
(* Answers, and calls that are given up.                                   *)
LEMMA FetchedOK ==
    ASSUME Inv, UNCHANGED rows, NEW t \in Tab,
           NEW answer \in {"none", "ok", "invalid", "complete", "unavailable"},
           answer = "complete" => submissions > 0, answer = "ok" => opened > 0,
           page' = [page EXCEPT ![t] = Fetched(@, answer)]
    PROVE  /\ page' \in [Tab -> PageRecord]
           /\ \A u \in Tab : page'[u] = page[u] \/ PageOK(page'[u])
<1>1. page \in [Tab -> PageRecord] /\ PageOK(page[t])
  BY DEF Inv, TablesTyped, Shown
<1>2. ErrorOf(answer) \in {"none", "complete", "unavailable"}
      /\ (ErrorOf(answer) = "complete" => answer = "complete")
  BY DEF ErrorOf
<1> DEFINE x == page[t].data \/ answer = "ok"
           y == [page[t] EXCEPT !.error = ErrorOf(answer)]
<1>3. page' = [page EXCEPT ![t] = [y EXCEPT !.data = x]]
  BY <1>1 DEF Fetched, PageRecord
<1>4. x \in BOOLEAN /\ (x = TRUE => page[t].data = TRUE \/ answer = "ok")
  BY <1>1 DEF PageRecord
<1>5. /\ y \in PageRecord /\ y.error = ErrorOf(answer) /\ y.pdf = page[t].pdf
  BY <1>1, <1>2 DEF PageRecord
<1> HIDE DEF x, y
<1>6. /\ [y EXCEPT !.data = x] \in PageRecord /\ [y EXCEPT !.data = x].data = x
      /\ [y EXCEPT !.data = x].error = ErrorOf(answer)
      /\ [y EXCEPT !.data = x].pdf = page[t].pdf
  BY <1>4, <1>5 DEF PageRecord
<1>7. PageOK([y EXCEPT !.data = x])
  BY <1>1, <1>2, <1>4, <1>6 DEF PageOK
<1> QED
  BY <1>1, <1>3, <1>6, <1>7

LEMMA AnswerViewStep ==
    ASSUME Inv, NEW c \in Call, AnswerView(c)
    PROVE  Inv'
<1>1. /\ call[c].kind = "get" /\ UNCHANGED rows
      /\ page' = [page EXCEPT ![call[c].tab] = Fetched(@, call[c].answer)]
      /\ call' = [call EXCEPT ![c] = NoCall]
  BY DEF AnswerView, At
<1>2. /\ call \in [Call -> CallRecord] /\ page \in [Tab -> PageRecord]
      /\ CallOK(call[c]) /\ call[c].tab \in Tab /\ PageOK(page[call[c].tab])
      /\ call[c].answer \in {"none", "ok", "invalid", "complete", "unavailable"}
  BY <1>1 DEF Inv, TablesTyped, Shown, CallOK, CallRecord
<1>3. call' \in [Call -> CallRecord] /\ \A d \in Call : call'[d] = call[d] \/ call'[d] = NoCall
  BY <1>1, <1>2, NoCallTyped
<1>4. /\ call[c].answer = "complete" => submissions > 0
      /\ call[c].answer = "ok" => opened > 0
  BY <1>1, <1>2 DEF CallOK
<1>5. /\ page' \in [Tab -> PageRecord]
      /\ \A u \in Tab : page'[u] = page[u] \/ PageOK(page'[u])
  BY <1>1, <1>2, <1>4, FetchedOK
<1> QED
  BY <1>1, <1>3, <1>5, NoCallOK, Quiet

LEMMA AnswerSubmitStep ==
    ASSUME Inv, NEW c \in Call, AnswerSubmit(c)
    PROVE  Inv'
<1> DEFINE t == call[c].tab
<1>1. call[c].kind = "post" /\ UNCHANGED rows
  BY DEF AnswerSubmit, At
<1>2. /\ call \in [Call -> CallRecord] /\ page \in [Tab -> PageRecord] /\ t \in Tab
      /\ \A d \in Call : CallOK(call[d])
      /\ \A u \in Tab : PageOK(page[u])
  BY <1>1 DEF Inv, TablesTyped, Shown, CallOK
<1>3. /\ page' \in [Tab -> PageRecord]
      /\ \A u \in Tab : u # t => page'[u] = page[u]
      /\ PageOK(page'[t])
  <2> DEFINE p == [page[t] EXCEPT !.pending = FALSE]
             q == [p EXCEPT !.done = TRUE]
  <2>0. p \in PageRecord /\ PageOK(p)
    BY <1>2, AnsweredOK
  <2>1. CASE page' = [page EXCEPT ![t].pending = FALSE]
    <3>1. page' = [page EXCEPT ![t] = p]
      BY <2>1
    <3> HIDE DEF p
    <3> QED
      BY <1>2, <2>0, <3>1, OnePage
  <2>2. CASE page' = [page EXCEPT ![t] = [[@ EXCEPT !.pending = FALSE] EXCEPT !.done = TRUE]]
    <3>1. page' = [page EXCEPT ![t] = q]
      BY <2>2
    <3> HIDE DEF p
    <3>2. q \in PageRecord /\ PageOK(q)
      BY <2>0, DoneOK
    <3> HIDE DEF q
    <3> QED
      BY <1>2, <3>1, <3>2, OnePage
  <2>3. \/ page' = [page EXCEPT ![t].pending = FALSE]
        \/ page' = [page EXCEPT ![t] = [[@ EXCEPT !.pending = FALSE] EXCEPT !.done = TRUE]]
    BY <1>2 DEF AnswerSubmit
  <2> QED
    BY <2>1, <2>2, <2>3
<1> DEFINE again == [NoCall EXCEPT !.kind = "get", !.tab = t, !.step = "check", !.heard = TRUE]
<1>4. again \in CallRecord /\ again.kind = "get" /\ again.tab = t /\ again.answer = "none"
  <2> DEFINE a == [NoCall EXCEPT !.kind = "get"]
             b == [a EXCEPT !.tab = t]
             e == [b EXCEPT !.step = "check"]
  <2>1. a \in CallRecord /\ a.kind = "get" /\ a.answer = "none"
    BY NoCallTyped DEF CallRecord, NoCall
  <2>2. b \in CallRecord /\ b.kind = "get" /\ b.answer = "none" /\ b.tab = t
    BY <1>2, <2>1 DEF CallRecord
  <2>3. e \in CallRecord /\ e.kind = "get" /\ e.answer = "none" /\ e.tab = t
    BY <2>2 DEF CallRecord
  <2>4. again = [e EXCEPT !.heard = TRUE]
    OBVIOUS
  <2> HIDE DEF again, e
  <2> QED
    BY <2>3, <2>4 DEF CallRecord
<1> HIDE DEF again
<1>5. ASSUME NEW d \in Call
      PROVE  [call[d] EXCEPT !.heard = FALSE] \in CallRecord
             /\ CallOK([call[d] EXCEPT !.heard = FALSE])
  <2>1. call[d] \in CallRecord /\ CallOK(call[d])
    BY <1>2
  <2> QED
    BY <2>1, UnheardOK
<1>6. CallOK(again)
  BY <1>2, <1>4 DEF CallOK
<1>7. /\ call' \in [Call -> CallRecord]
      /\ \A d \in Call : call'[d] = call[d] \/ CallOK(call'[d])
  <2>1. CASE call' = [call EXCEPT ![c] = NoCall]
    BY <1>2, <2>1, NoCallTyped, NoCallOK
  <2>2. CASE call' = Refetched(c, t)
    <3>1. \A d \in Call : call'[d] \in {call[d], NoCall, again, [call[d] EXCEPT !.heard = FALSE]}
      BY <2>2 DEF Refetched, again
    <3>2. \A d \in Call : call'[d] \in CallRecord
      BY <1>2, <1>4, <1>5, <3>1, NoCallTyped
    <3>3. DOMAIN call' = Call /\ call' = [d \in Call |-> call'[d]]
      BY <2>2 DEF Refetched
    <3>4. \A d \in Call : call'[d] = call[d] \/ CallOK(call'[d])
      BY <1>5, <1>6, <3>1, NoCallOK
    <3> QED
      BY <3>2, <3>3, <3>4
  <2> QED
    BY <2>1, <2>2 DEF AnswerSubmit
<1> QED
  BY <1>1, <1>2, <1>3, <1>7, Quiet

LEMMA LoseStep ==
    ASSUME Inv, NEW c \in Call, Lose(c)
    PROVE  Inv'
<1> DEFINE t == call[c].tab
<1>1. UNCHANGED rows
  BY DEF Lose
<1>2. /\ call \in [Call -> CallRecord] /\ page \in [Tab -> PageRecord] /\ CallOK(call[c])
      /\ \A u \in Tab : PageOK(page[u])
  BY DEF Inv, TablesTyped, Shown
<1>3. /\ call' \in [Call -> CallRecord]
      /\ \A d \in Call : call'[d] = call[d] \/ CallOK(call'[d])
  <2>1. CASE call' = [call EXCEPT ![c] = NoCall]
    BY <1>2, <2>1, NoCallTyped, NoCallOK
  <2>2. CASE call' = [call EXCEPT ![c].heard = FALSE]
    <3> DEFINE q == [call[c] EXCEPT !.heard = FALSE]
    <3>1. call' = [call EXCEPT ![c] = q]
      BY <2>2
    <3>2. q \in CallRecord /\ CallOK(q)
      BY <1>2, UnheardOK
    <3> HIDE DEF q
    <3> QED
      BY <1>2, <3>1, <3>2
  <2> QED
    BY <2>1, <2>2 DEF Lose
<1>4. /\ page' \in [Tab -> PageRecord]
      /\ \A u \in Tab : page'[u] = page[u] \/ PageOK(page'[u])
  <2>1. CASE t \notin Tab
    <3>1. page' = page
      BY <1>2, <2>1 DEF Lose, GivenUp
    <3> QED
      BY <1>2, <3>1
  <2>2. CASE t \in Tab /\ call[c].kind = "get"
    <3>1. page' = [page EXCEPT ![t] = Fetched(@, "none")]
      BY <2>2 DEF Lose, GivenUp
    <3> QED
      BY <1>1, <2>2, <3>1, FetchedOK
  <2>3. CASE t \in Tab /\ call[c].kind # "get"
    <3>1. page' = [page EXCEPT ![t].pending = FALSE]
      BY <2>3 DEF Lose, GivenUp
    <3>2. /\ page' \in [Tab -> PageRecord]
          /\ \A u \in Tab : u # t => page'[u] = page[u]
          /\ PageOK(page'[t])
      <4> DEFINE p == [page[t] EXCEPT !.pending = FALSE]
      <4>1. page' = [page EXCEPT ![t] = p]
        BY <3>1
      <4>2. p \in PageRecord /\ PageOK(p)
        BY <1>2, <2>3, AnsweredOK
      <4> HIDE DEF p
      <4> QED
        BY <1>2, <2>3, <4>1, <4>2, OnePage
    <3> QED
      BY <3>2
  <2> QED
    BY <2>1, <2>2, <2>3
<1> QED
  BY <1>1, <1>3, <1>4, Quiet

LEMMA InvStep == Inv /\ [Next]_vars => Inv'
<1> SUFFICES ASSUME Inv, [Next]_vars PROVE Inv'
  OBVIOUS
<1>1. ASSUME NEW c \in Call, Serve(c) \/ Lose(c) PROVE Inv'
  BY <1>1, CheckStep, CommitViewStep, CommitSubmitStep, AnswerViewStep, AnswerSubmitStep, LoseStep
     DEF Serve
<1>2. ASSUME NEW c \in Call, NEW t \in Tab, Fetch(c, t) \/ Submit(c, t) PROVE Inv'
  BY <1>2, FetchStep, SubmitStep
<1>3. ASSUME UNCHANGED <<rows, page, call>> PROVE Inv'
  BY <1>3, Quiet DEF Inv, TablesTyped
<1>4. CASE Expire
  BY <1>3, <1>4 DEF Expire
<1>5. CASE UNCHANGED vars
  BY <1>3, <1>5 DEF vars
<1> QED
  BY <1>1, <1>2, <1>4, <1>5, PreviewStep DEF Next

LEMMA InvCorrect == Spec => []Inv
<1> QED BY InitInv, InvStep, PTL DEF Spec

(* A page that thanks the signer tells the truth, whichever answer, of a   *)
(* late, lost or repeated call, it has it from.                            *)
THEOREM ThanksAreTrue == Spec => []CompleteMeansRecorded
<1>1. Inv => CompleteMeansRecorded
  BY DEF Inv, Shown, PageOK, CompleteMeansRecorded
<1> QED BY <1>1, InvCorrect, PTL

(* Nobody sees the PDF, and no page submits anything, before the opening   *)
(* of the link is in the audit trail.                                      *)
THEOREM OpeningComesFirst == Spec => []ViewedBeforeShown
<1>1. Inv => ViewedBeforeShown
  <2> SUFFICES ASSUME Inv, submissions > 0 \/ \E t \in Tab : page[t].pdf
               PROVE  viewed /\ opened > 0
    BY DEF ViewedBeforeShown
  <2>1. ASSUME NEW t \in Tab, page[t].pdf PROVE opened > 0
    BY <2>1 DEF Inv, TablesTyped, PageRecord, Shown, PageOK
  <2> QED
    BY <2>1 DEF Inv, Stands
<1> QED BY <1>1, InvCorrect, PTL

-----------------------------------------------------------------------------
(* Two calls that write are let in together, or each finds what the one    *)
(* before it recorded.                                                     *)
Writing(c) == call[c].step = "commit"

Alone ==
    /\ \A c, d \in Call : Writing(c) /\ Writing(d) => c = d
    /\ \A c \in Call : Writing(c) =>
          /\ submissions = 0 /\ status # "COMPLETED"
          /\ call[c].kind = "get" => opened = 0
    /\ opened <= 1 /\ submissions <= 1
    /\ submissions > 0 => status = "COMPLETED"
    /\ \A p, q \in stored : p[1] = q[1] => p = q
Orderly == raced \/ Alone

(* No call is let in, none commits.                                        *)
LEMMA NoneLetIn ==
    ASSUME Orderly, UNCHANGED rows, UNCHANGED raced,
           \A c \in Call : Writing(c)' => Writing(c) /\ call'[c].kind = call[c].kind
    PROVE  Orderly'
<1>1. CASE raced
  BY <1>1 DEF Orderly
<1>2. CASE Alone
  <2>1. UNCHANGED <<status, opened, submissions, stored>>
    BY DEF rows
  <2>2. Alone'
    BY <1>2, <2>1 DEF Alone
  <2> QED
    BY <2>2 DEF Orderly
<1> QED
  BY <1>1, <1>2 DEF Orderly

(* Replies and requests that are dropped do not write.                     *)
LEMMA RepliesEnd ==
    ASSUME Inv, NEW c \in Call, NEW answer \in {"none", "ok", "invalid", "complete", "unavailable"},
           Reply(c, answer)
    PROVE  /\ ~Writing(c)'
           /\ \A d \in Call : d # c => call'[d] = call[d]
<1>1. /\ \A d \in Call : d # c => call'[d] = call[d]
      /\ call'[c] = NoCall \/ call'[c].step = "answer"
  BY Replies DEF Inv
<1> QED
  BY <1>1 DEF Writing, NoCall

LEMMA OrderlyCheck ==
    ASSUME Inv, Orderly, NEW c \in Call, CheckView(c) \/ CheckSubmit(c)
    PROVE  Orderly'
<1>1. UNCHANGED <<rows, expired>>
  BY DEF CheckView, CheckSubmit
<1>2. ASSUME NEW answer \in {"ok", "invalid", "complete", "unavailable"}, Reply(c, answer),
             UNCHANGED raced
      PROVE  Orderly'
  BY <1>1, <1>2, RepliesEnd, NoneLetIn DEF Writing
<1>3. ASSUME LetIn(c), Refusal = "none", call[c].kind = "get" => NeedsRecord PROVE Orderly'
  <2>1. CASE raced'
    BY <2>1 DEF Orderly
  <2>2. CASE ~raced'
    <3>1. Alone /\ \A d \in Call : ~Writing(d)
      BY <1>3, <2>2 DEF LetIn, Orderly, Writing
    <3>2. UNCHANGED <<status, opened, submissions, stored>>
      BY <1>1 DEF rows
    <3>3. /\ call' = [call EXCEPT ![c].step = "commit"] /\ call \in [Call -> CallRecord]
      BY <1>3 DEF LetIn, Inv, TablesTyped
    <3>4. \A d \in Call : Writing(d)' => d = c
      BY <3>1, <3>3 DEF Writing
    <3>5. call'[c].kind = call[c].kind
      BY <3>3 DEF CallRecord
    <3>6. status # "COMPLETED"
      BY <1>3 DEF Refusal
    <3>7. submissions = 0
      BY <3>1, <3>6 DEF Alone, Inv, TablesTyped
    <3>8. call[c].kind = "get" => opened = 0
      BY <1>3 DEF NeedsRecord, Inv, Stands, TablesTyped
    <3>9. Alone'
      BY <3>1, <3>2, <3>4, <3>5, <3>6, <3>7, <3>8 DEF Alone
    <3> QED
      BY <3>9 DEF Orderly
  <2> QED
    BY <2>1, <2>2
<1>4. Refusal \in {"none", "complete", "unavailable"}
  BY DEF Refusal
<1>5. CASE CheckView(c)
  BY <1>2, <1>3, <1>4, <1>5 DEF CheckView
<1>6. CASE CheckSubmit(c)
  BY <1>2, <1>3, <1>4, <1>6 DEF CheckSubmit, At
<1> QED
  BY <1>5, <1>6

LEMMA OrderlyCommit ==
    ASSUME Inv, Orderly, NEW c \in Call, CommitView(c) \/ CommitSubmit(c)
    PROVE  Orderly'
<1>1. Writing(c) /\ Reply(c, "ok") /\ UNCHANGED raced
  BY DEF CommitView, CommitSubmit, At, Writing, ghosts
<1>2. /\ ~Writing(c)'
      /\ \A d \in Call : d # c => call'[d] = call[d]
  BY <1>1, RepliesEnd
<1>3. CASE raced
  BY <1>1, <1>3 DEF Orderly
<1>4. CASE Alone
  <2>1. \A d \in Call : ~Writing(d)'
    BY <1>1, <1>2, <1>4 DEF Alone, Writing
  <2>2. /\ opened' <= 1 /\ submissions' <= 1
        /\ submissions' > 0 => status' = "COMPLETED"
        /\ \A p, q \in stored' : p[1] = q[1] => p = q
    <3>1. CASE CommitView(c)
      BY <1>1, <1>4, <3>1 DEF CommitView, At, Alone
    <3>2. CASE CommitSubmit(c)
      <4>1. /\ submissions = 0 /\ submissions' = submissions + 1
            /\ status' = "COMPLETED" /\ UNCHANGED opened
        BY <1>1, <1>4, <3>2 DEF CommitSubmit, Alone
      <4>2. stored = {}
        BY <4>1 DEF Inv, Stands
      <4>3. \A p, q \in stored' : p[1] = q[1] => p = q
        BY <3>2, <4>2 DEF CommitSubmit
      <4> QED
        BY <1>4, <4>1, <4>3 DEF Alone
    <3> QED
      BY <3>1, <3>2
  <2> QED
    BY <2>1, <2>2 DEF Orderly, Alone
<1> QED
  BY <1>3, <1>4 DEF Orderly

LEMMA OrderlyStep == Inv /\ Orderly /\ [Next]_vars => Orderly'
<1> SUFFICES ASSUME Inv, Orderly, [Next]_vars PROVE Orderly'
  OBVIOUS
<1> USE DEF ghosts
<1>0. call \in [Call -> CallRecord]
  BY DEF Inv, TablesTyped
<1>1. ASSUME NEW c \in Call, NEW t \in Tab, NEW kind \in {"get", "post"},
             NEW body \in [Field -> Values], Send(c, t, kind, body), UNCHANGED <<rows, raced>>
      PROVE  Orderly'
  BY <1>1, Sends, NoneLetIn DEF Writing
<1>2. ASSUME NEW c \in Call, NEW t \in Tab, Fetch(c, t) \/ Submit(c, t) PROVE Orderly'
  <2>1. NoCall.body \in [Field -> Values]
    BY NoCallTyped DEF CallRecord
  <2>2. \A values \in Typed : values \in [Field -> Values]
    BY DEF Typed
  <2> QED
    BY <1>1, <1>2, <2>1, <2>2 DEF Fetch, Submit
<1>3. ASSUME NEW c \in Call, AnswerView(c) PROVE Orderly'
  BY <1>0, <1>3, NoneLetIn DEF AnswerView, Writing, NoCall
<1>4. ASSUME NEW c \in Call, AnswerSubmit(c) PROVE Orderly'
  <2> DEFINE t == call[c].tab
  <2>1. UNCHANGED <<rows, raced>>
    BY <1>4 DEF AnswerSubmit
  <2>2. CASE call' = [call EXCEPT ![c] = NoCall]
    BY <1>0, <2>1, <2>2, NoneLetIn DEF Writing, NoCall
  <2>3. CASE call' = Refetched(c, t)
    <3>1. [NoCall EXCEPT !.kind = "get", !.tab = t, !.step = "check", !.heard = TRUE].step # "commit"
      BY DEF NoCall
    <3>2. ASSUME NEW d \in Call, Writing(d)'
          PROVE  Writing(d) /\ call'[d].kind = call[d].kind
      BY <1>0, <2>3, <3>1, <3>2 DEF Refetched, Writing, NoCall, CallRecord
    <3> QED
      BY <2>1, <3>2, NoneLetIn
  <2> QED
    BY <1>4, <2>2, <2>3 DEF AnswerSubmit
<1>5. ASSUME NEW c \in Call, Lose(c) PROVE Orderly'
  <2>1. UNCHANGED <<rows, raced>>
    BY <1>5 DEF Lose
  <2>2. CASE call' = [call EXCEPT ![c] = NoCall]
    BY <1>0, <2>1, <2>2, NoneLetIn DEF Writing, NoCall
  <2>3. CASE call' = [call EXCEPT ![c].heard = FALSE]
    BY <1>0, <2>1, <2>3, NoneLetIn DEF Writing, CallRecord
  <2> QED
    BY <1>5, <2>2, <2>3 DEF Lose
<1>6. ASSUME UNCHANGED <<rows, call, raced>> PROVE Orderly'
  BY <1>6, NoneLetIn DEF Writing
<1>7. ASSUME NEW t \in Tab, LoadPreview(t) PROVE Orderly'
  BY <1>6, <1>7 DEF LoadPreview
<1>8. CASE Expire
  BY <1>6, <1>8 DEF Expire
<1>9. CASE UNCHANGED vars
  BY <1>6, <1>9 DEF vars
<1> QED
  BY <1>2, <1>3, <1>4, <1>5, <1>7, <1>8, <1>9, OrderlyCheck, OrderlyCommit DEF Next, Serve

(* A link is opened once and submitted once, in any number of tabs and     *)
(* with any answers lost, unless two calls were let in together.           *)
THEOREM OnceOnly == Spec => []OnceUnlessRaced
<1>1. Init => Orderly
  BY DEF Init, Orderly, Alone, Writing, NoCall
<1>2. Orderly => OnceUnlessRaced
  BY DEF Orderly, Alone, OnceUnlessRaced
<1> QED BY <1>1, <1>2, OrderlyStep, InvCorrect, PTL DEF Spec

(* Whatever a call carries, what is stored fits its field, a submission    *)
(* leaves a value of every required one, and no field has two values       *)
(* unless two calls were let in together.                                  *)
THEOREM WhatIsStoredIsValid == Spec => []StoredIsValid
<1>1. Init => Orderly
  BY DEF Init, Orderly, Alone, Writing, NoCall
<1>2. Inv /\ Orderly => StoredIsValid
  BY DEF Inv, StoredFits, Orderly, Alone, StoredIsValid
<1> QED BY <1>1, <1>2, OrderlyStep, InvCorrect, PTL DEF Spec

-----------------------------------------------------------------------------
(* One page whose calls were all waited for has its calls one by one: a    *)
(* form is shown after the first view is recorded, and it is sent once at  *)
(* a time.                                                                 *)
Opens ==
    /\ \A c \in Call : call[c].kind # "none" => page[call[c].tab].open = TRUE
    /\ \A c \in Call : call[c].kind = "none" => ~Writing(c)
    /\ \A t \in Tab : page[t].data = TRUE => page[t].open = TRUE
    /\ faults \in Nat

Single == /\ faults = 0
          /\ \A t, u \in Tab : page[t].open = TRUE /\ page[u].open = TRUE => t = u

Hears(c) == call[c].kind = "get" /\ call[c].heard = TRUE
Posts(c) == call[c].kind = "post"

OneByOne ==
    /\ raced = FALSE
    /\ \A c \in Call : Posts(c) => call[c].heard = TRUE /\ page[call[c].tab].pending = TRUE
    /\ \A c, d \in Call : Posts(c) /\ Posts(d) => c = d
    /\ \A c, d \in Call : Hears(c) /\ Hears(d) => c = d
    /\ \A c \in Call : call[c].kind = "get" /\ ~Hears(c) => opened > 0

Calm == Opens /\ (Single => OneByOne)

\* What the calls become when none is made.
Remains(c) == \/ call'[c].kind = "none"
              \/ /\ call'[c].kind = call[c].kind /\ call'[c].tab = call[c].tab
                 /\ call'[c].heard = call[c].heard

LEMMA CallsRemain ==
    ASSUME Inv, OneByOne, raced' = FALSE, opened > 0 => opened' > 0,
           \A c \in Call : Remains(c), \A t \in Tab : page'[t].pending = page[t].pending
    PROVE  OneByOne'
<1>1. \A c \in Call : Posts(c)' => /\ Posts(c) /\ call'[c].tab \in Tab
                                   /\ call'[c].tab = call[c].tab /\ call'[c].heard = call[c].heard
  BY DEF Inv, Shown, CallOK, Remains, Posts
<1>2. \A c \in Call : /\ Hears(c)' => Hears(c)
                      /\ (call[c].kind = "get" /\ ~Hears(c))' => call[c].kind = "get" /\ ~Hears(c)
  BY DEF Remains, Hears
<1> QED
  BY <1>1, <1>2 DEF OneByOne

\* A call that is let in is the only one.
LEMMA LetInAlone ==
    ASSUME Inv, Orderly, Opens, OneByOne, NEW c \in Call, LetIn(c), call[c].step = "check",
           \/ call[c].kind = "get" /\ NeedsRecord
           \/ call[c].kind = "post"
    PROVE  raced' = FALSE
<1>1. \A d \in Call : call[d].kind \in {"none", "get", "post"}
  BY DEF Inv, TablesTyped, CallRecord
<1>2. Alone
  BY DEF Orderly, OneByOne
<1>3. ASSUME NEW d \in Call, Writing(d) PROVE FALSE
  <2>1. d # c /\ call[d].kind \in {"get", "post"}
    BY <1>1, <1>3 DEF Writing, Opens
  <2>2. CASE call[c].kind = "post"
    <3>1. opened > 0
      BY <2>2 DEF Inv, Shown, CallOK
    <3>2. call[d].kind = "get"
      BY <2>1, <2>2 DEF OneByOne, Posts
    <3> QED
      BY <1>2, <1>3, <3>1, <3>2 DEF Alone
  <2>3. CASE call[c].kind = "get" /\ NeedsRecord
    <3>1. ~(opened > 0)
      BY <2>3 DEF NeedsRecord, Inv, Stands
    <3>2. call[d].kind = "get"
      BY <2>1, <3>1 DEF Inv, Shown, CallOK
    <3> QED
      BY <2>1, <2>3, <3>1, <3>2 DEF OneByOne, Hears
  <2> QED
    BY <2>2, <2>3
<1> QED
  BY <1>3 DEF LetIn, OneByOne, Writing

LEMMA RepliesRemain ==
    ASSUME Inv, NEW c \in Call, NEW answer, Reply(c, answer)
    PROVE  \A d \in Call : Remains(d)
<1>1. call \in [Call -> CallRecord]
  BY DEF Inv, TablesTyped
<1>2. \A d \in Call \ {c} : call'[d] = call[d]
  BY <1>1 DEF Reply
<1>3. Remains(c)
  <2>1. CASE ~call[c].heard
    BY <1>1, <2>1 DEF Reply, Remains, NoCall
  <2>2. CASE call[c].heard
    <3>1. call'[c] = [call[c] EXCEPT !.step = "answer", !.answer = answer]
      BY <1>1, <2>2 DEF Reply
    <3>2. call[c] \in CallRecord
      BY <1>1
    <3> QED
      BY <3>1, <3>2 DEF Remains, CallRecord
  <2> QED
    BY <2>1, <2>2
<1> QED
  BY <1>2, <1>3 DEF Remains

LEMMA ServesCalmly ==
    ASSUME Inv, Orderly, Opens, OneByOne, NEW c \in Call,
           CheckView(c) \/ CheckSubmit(c) \/ CommitView(c) \/ CommitSubmit(c)
    PROVE  OneByOne'
<1>1. call \in [Call -> CallRecord] /\ opened \in Nat /\ page' = page
  BY DEF Inv, TablesTyped, CheckView, CheckSubmit, CommitView, CommitSubmit
<1>2. \/ raced' = raced /\ \E answer \in {"ok", "invalid", Refusal} : Reply(c, answer)
      \/ /\ LetIn(c) /\ call[c].step = "check"
         /\ \/ call[c].kind = "get" /\ NeedsRecord
            \/ call[c].kind = "post"
  BY DEF CheckView, CheckSubmit, CommitView, CommitSubmit, At, ghosts
<1>3. opened > 0 => opened' > 0
  BY <1>1 DEF CheckView, CheckSubmit, CommitView, CommitSubmit, rows
<1>4. CASE raced' = raced /\ \E answer \in {"ok", "invalid", Refusal} : Reply(c, answer)
  <2>1. \A d \in Call : Remains(d)
    BY <1>4, RepliesRemain
  <2>2. raced' = FALSE
    BY <1>4 DEF OneByOne
  <2> QED
    BY <1>1, <1>3, <2>1, <2>2, CallsRemain
<1>5. CASE /\ LetIn(c) /\ call[c].step = "check"
           /\ \/ call[c].kind = "get" /\ NeedsRecord
              \/ call[c].kind = "post"
  <2>1. raced' = FALSE
    BY <1>5, LetInAlone
  <2>2. \A d \in Call : Remains(d)
    BY <1>1, <1>5 DEF LetIn, Remains, CallRecord
  <2> QED
    BY <1>1, <1>3, <2>1, <2>2, CallsRemain
<1> QED
  BY <1>2, <1>4, <1>5

(* What a step must not do for the pages and calls to stay open.           *)
StaysOpen ==
    /\ faults' \in Nat
    /\ \A t \in Tab : /\ page[t].open = TRUE => page'[t].open = TRUE
                      /\ page'[t].data = TRUE => page[t].data = TRUE \/ page'[t].open = TRUE
    /\ \A c \in Call :
          /\ call'[c].kind # "none" => call'[c].tab \in Tab
          /\ \/ call'[c].kind = "none" /\ call'[c].step # "commit"
             \/ call'[c].kind # "none" /\ page'[call'[c].tab].open = TRUE
             \/ call'[c].kind = call[c].kind /\ call[c].kind # "none" /\ call'[c].tab = call[c].tab
             \/ call'[c] = call[c]

LEMMA OpenStays ==
    ASSUME Inv, Opens, StaysOpen
    PROVE  Opens'
<1>1. \A c \in Call : call'[c].kind # "none" => page'[call'[c].tab].open = TRUE
  BY DEF Opens, StaysOpen
<1>2. \A c \in Call : call'[c].kind = "none" => call'[c].step # "commit"
  BY DEF Opens, StaysOpen, Writing
<1>3. \A t \in Tab : page'[t].data = TRUE => page'[t].open = TRUE
  BY DEF Opens, StaysOpen
<1> QED
  BY <1>1, <1>2, <1>3 DEF Opens, StaysOpen, Writing

LEMMA CalmStays ==
    ASSUME Inv, Calm, StaysOpen, faults' = faults,
           OneByOne /\ Single' => OneByOne'
    PROVE  Calm'
<1>1. Single' => Single
  BY DEF Single, StaysOpen
<1> QED
  BY <1>1, OpenStays DEF Calm

LEMMA CalmFetch ==
    ASSUME Inv, Calm, NEW c \in Call, NEW t \in Tab, Fetch(c, t)
    PROVE  Calm'
<1>1. NoCall.body \in [Field -> Values]
  BY NoCallTyped DEF CallRecord
<1>2. /\ \A d \in Call : d # c => call'[d] = call[d]
      /\ call'[c].kind = "get" /\ call'[c].tab = t /\ call'[c].heard = TRUE
  BY <1>1, Sends DEF Fetch
<1>3. /\ faults' = faults /\ raced' = raced /\ opened' = opened
      /\ call[c] = NoCall
  BY DEF Fetch, Send, ghosts, rows
<1>4. page \in [Tab -> PageRecord]
  BY DEF Inv, TablesTyped
<1>5. /\ page'[t].open = TRUE /\ page'[t].data = page[t].data /\ page'[t].pending = page[t].pending
      /\ \A u \in Tab \ {t} : page'[u] = page[u]
  BY <1>4 DEF Fetch, PageRecord
<1>6. \A d \in Call : call[d].kind # "none" => call[d].tab \in Tab
  BY DEF Inv, TablesTyped, CallRecord, Shown, CallOK
<1>7. StaysOpen
  BY <1>2, <1>3, <1>5, <1>6 DEF StaysOpen, Calm, Opens
<1>8. ASSUME OneByOne, Single' PROVE OneByOne'
  <2>1. ASSUME NEW d \in Call, d # c, Hears(d) PROVE FALSE
    <3>1. page'[call[d].tab].open = TRUE /\ call[d].tab \in Tab
      BY <1>5, <1>6, <2>1 DEF Hears, Calm, Opens
    <3>2. call[d].tab = t
      BY <1>5, <1>8, <3>1 DEF Single
    <3> QED
      BY <2>1, <3>2 DEF Hears, Fetch, Fetching
  <2>2. \A d \in Call : /\ Posts(d)' => d # c /\ Posts(d)
                        /\ Hears(d)' => d = c
                        /\ (call[d].kind = "get" /\ ~Hears(d))' => d # c /\ call[d].kind = "get" /\ ~Hears(d)
    BY <1>2, <2>1 DEF Posts, Hears
  <2>3. \A u \in Tab : page'[u].pending = page[u].pending
    BY <1>5
  <2>4. \A d \in Call : Posts(d)' => call'[d].heard = TRUE /\ page'[call'[d].tab].pending = TRUE
    BY <1>2, <1>6, <1>8, <2>2, <2>3 DEF Posts, OneByOne
  <2> QED
    BY <1>3, <1>8, <2>2, <2>4 DEF OneByOne
<1> QED
  BY <1>3, <1>7, <1>8, CalmStays

LEMMA CalmSubmit ==
    ASSUME Inv, Calm, NEW c \in Call, NEW t \in Tab, Submit(c, t)
    PROVE  Calm'
<1>1. PICK values \in Typed : Enabled(t, values) /\ Send(c, t, "post", values)
  BY DEF Submit
<1>2. /\ \A d \in Call : d # c => call'[d] = call[d]
      /\ call'[c].kind = "post" /\ call'[c].tab = t /\ call'[c].heard = TRUE
  BY <1>1, Sends DEF Typed
<1>3. faults' = faults /\ raced' = raced /\ opened' = opened
  BY DEF Submit, ghosts, rows
<1>4. page \in [Tab -> PageRecord]
  BY DEF Inv, TablesTyped
<1>5. /\ page'[t].open = page[t].open /\ page'[t].data = page[t].data /\ page'[t].pending = TRUE
      /\ \A u \in Tab \ {t} : page'[u] = page[u]
  BY <1>4 DEF Submit, PageRecord
<1>6. \A d \in Call : call[d].kind # "none" => call[d].tab \in Tab
  BY DEF Inv, TablesTyped, CallRecord, Shown, CallOK
<1>7. /\ page[t].data = TRUE /\ page[t].pending = FALSE
      /\ page[t].open = TRUE /\ opened > 0
  BY <1>1, <1>4 DEF Submit, ShowsForm, Enabled, PageRecord, Calm, Opens, Inv, Shown, PageOK
<1>8. StaysOpen
  BY <1>2, <1>3, <1>5, <1>6, <1>7 DEF StaysOpen, Calm, Opens
<1>9. ASSUME OneByOne, Single' PROVE OneByOne'
  <2>1. ASSUME NEW d \in Call, d # c, Posts(d) PROVE FALSE
    <3>1. /\ page'[call[d].tab].open = TRUE /\ call[d].tab \in Tab
          /\ page[call[d].tab].pending = TRUE
      BY <1>5, <1>6, <1>9, <2>1 DEF Posts, Calm, Opens, OneByOne
    <3>2. call[d].tab = t
      BY <1>5, <1>7, <1>9, <3>1 DEF Single
    <3> QED
      BY <1>7, <3>1, <3>2
  <2>2. \A d \in Call : /\ Posts(d)' => d = c
                        /\ Hears(d)' => d # c /\ Hears(d)
    BY <1>2, <2>1 DEF Posts, Hears
  <2>3. Posts(c)' => call'[c].heard = TRUE /\ page'[call'[c].tab].pending = TRUE
    BY <1>2, <1>5
  <2> QED
    BY <1>3, <1>7, <1>9, <2>2, <2>3 DEF OneByOne
<1> QED
  BY <1>3, <1>8, <1>9, CalmStays

(* The answer of a fetch, or its failure, opens no page and ends no        *)
(* submission.                                                             *)
LEMMA FetchedPage ==
    ASSUME page \in [Tab -> PageRecord], NEW t \in Tab, NEW answer,
           page' = [page EXCEPT ![t] = Fetched(@, answer)]
    PROVE  \A u \in Tab : /\ page'[u].open = page[u].open
                          /\ page'[u].pending = page[u].pending
                          /\ u # t => page'[u] = page[u]
<1> DEFINE p == [page[t] EXCEPT !.error = ErrorOf(answer)]
           q == [p EXCEPT !.data = page[t].data \/ answer = "ok"]
<1>1. p.open = page[t].open /\ p.pending = page[t].pending
  BY DEF PageRecord
<1>2. q.open = p.open /\ q.pending = p.pending
  BY DEF PageRecord
<1>3. page' = [page EXCEPT ![t] = q]
  BY DEF Fetched, PageRecord
<1> HIDE DEF p, q
<1> QED
  BY <1>1, <1>2, <1>3

LEMMA CalmAnswerView ==
    ASSUME Inv, Calm, NEW c \in Call, AnswerView(c)
    PROVE  Calm'
<1>1. /\ call[c].kind = "get" /\ faults' = faults /\ raced' = raced /\ opened' = opened
      /\ page' = [page EXCEPT ![call[c].tab] = Fetched(@, call[c].answer)]
      /\ call' = [call EXCEPT ![c] = NoCall]
  BY DEF AnswerView, At, ghosts, rows
<1>2. page \in [Tab -> PageRecord] /\ call \in [Call -> CallRecord] /\ call[c].tab \in Tab
  BY <1>1 DEF Inv, TablesTyped, Shown, CallOK
<1>3. \A u \in Tab : /\ page'[u].open = page[u].open
                     /\ page'[u].pending = page[u].pending
                     /\ u # call[c].tab => page'[u] = page[u]
  BY <1>1, <1>2, FetchedPage
<1>4. /\ \A d \in Call : d # c => call'[d] = call[d]
      /\ call'[c] = NoCall /\ NoCall.kind = "none" /\ NoCall.step = "none"
  BY <1>1, <1>2 DEF NoCall
<1>5. \A d \in Call : call[d].kind # "none" => call[d].tab \in Tab
  BY DEF Inv, TablesTyped, CallRecord, Shown, CallOK
<1>6. StaysOpen
  BY <1>1, <1>3, <1>4, <1>5 DEF StaysOpen, Calm, Opens
<1>7. ASSUME OneByOne PROVE OneByOne'
  <2>1. \A d \in Call : Remains(d)
    BY <1>4 DEF Remains
  <2>2. raced' = FALSE
    BY <1>1, <1>7 DEF OneByOne
  <2> QED
    BY <1>1, <1>3, <1>7, <2>1, <2>2, CallsRemain
<1> QED
  BY <1>1, <1>6, <1>7, CalmStays

LEMMA CalmAnswerSubmit ==
    ASSUME Inv, Calm, NEW c \in Call, AnswerSubmit(c)
    PROVE  Calm'
<1> DEFINE t == call[c].tab
<1>1. call[c].kind = "post" /\ faults' = faults /\ raced' = raced /\ opened' = opened
  BY DEF AnswerSubmit, At, ghosts, rows
<1>2. /\ page \in [Tab -> PageRecord] /\ call \in [Call -> CallRecord] /\ t \in Tab
      /\ opened > 0 /\ page[t].open = TRUE
  BY <1>1 DEF Inv, TablesTyped, Shown, CallOK, Calm, Opens
<1>3. /\ page'[t].open = page[t].open /\ page'[t].data = page[t].data
      /\ \A u \in Tab \ {t} : page'[u] = page[u]
  BY <1>2 DEF AnswerSubmit, PageRecord
<1>4. \A d \in Call : call[d].kind # "none" => call[d].tab \in Tab
  BY DEF Inv, TablesTyped, CallRecord, Shown, CallOK
<1> DEFINE again == [NoCall EXCEPT !.kind = "get", !.tab = t, !.step = "check", !.heard = TRUE]
<1>5. again.kind = "get" /\ again.tab = t /\ again.heard = TRUE
  BY DEF NoCall
<1>6. NoCall.kind = "none" /\ NoCall.step = "none"
  BY DEF NoCall
<1> HIDE DEF again
<1>7. CASE call' = [call EXCEPT ![c] = NoCall]
  <2>1. /\ \A d \in Call : d # c => call'[d] = call[d]
        /\ call'[c].kind = "none" /\ call'[c].step = "none"
    BY <1>2, <1>6, <1>7
  <2>2. StaysOpen
    BY <1>1, <1>3, <1>4, <2>1 DEF StaysOpen, Calm, Opens
  <2>3. ASSUME OneByOne PROVE OneByOne'
    <3>1. \A d \in Call : /\ ~Posts(d)'
                          /\ Hears(d)' => Hears(d)
      BY <1>1, <2>1, <2>3 DEF OneByOne, Posts, Hears
    <3> QED
      BY <1>1, <1>2, <2>3, <3>1 DEF OneByOne
  <2> QED
    BY <1>1, <2>2, <2>3, CalmStays
<1>8. CASE call' = Refetched(c, t)
  <2>1. /\ call'[c] = again
        /\ \A d \in Call \ {c} : call'[d] \in {call[d], NoCall, [call[d] EXCEPT !.heard = FALSE]}
        /\ \A d \in Call \ {c} : call[d].tab = t /\ call[d].kind = "get" =>
              call'[d] \in {NoCall, [call[d] EXCEPT !.heard = FALSE]}
    BY <1>8 DEF Refetched, again
  <2>2. \A d \in Call : LET q == [call[d] EXCEPT !.heard = FALSE] IN
            q.kind = call[d].kind /\ q.tab = call[d].tab /\ q.heard = FALSE /\ q.step = call[d].step
    BY <1>2 DEF CallRecord
  <2>3. \A d \in Call \ {c} :
            \/ call'[d].kind = "none" /\ call'[d].step = "none"
            \/ call'[d] = call[d]
            \/ /\ call'[d].kind = call[d].kind /\ call'[d].tab = call[d].tab
               /\ call'[d].step = call[d].step
    BY <1>6, <2>1, <2>2
  <2>4. \A d \in Call \ {c} : call[d].tab = t /\ call[d].kind = "get" =>
            call'[d].kind = "none" \/ call'[d].heard = FALSE
    BY <1>6, <2>1, <2>2
  <2>5. \A d \in Call \ {c} : Hears(d)' => Hears(d) /\ call'[d].heard = TRUE
    BY <1>6, <2>1, <2>2 DEF Hears
  <2>6. StaysOpen
    <3>1. \A d \in Call \ {c} : call[d].kind = "none" => call[d].step # "commit"
      BY DEF Calm, Opens, Writing
    <3>2. \A d \in Call : call'[d].kind # "none" => call'[d].tab \in Tab
      BY <1>2, <1>4, <1>5, <2>1, <2>3
    <3>3. \A d \in Call :
             \/ call'[d].kind = "none" /\ call'[d].step # "commit"
             \/ call'[d].kind # "none" /\ page'[call'[d].tab].open = TRUE
             \/ call'[d].kind = call[d].kind /\ call[d].kind # "none" /\ call'[d].tab = call[d].tab
             \/ call'[d] = call[d]
      BY <1>2, <1>3, <1>5, <2>1, <2>3, <3>1
    <3> QED
      BY <1>1, <1>3, <3>2, <3>3 DEF StaysOpen, Calm, Opens
  <2>7. ASSUME OneByOne, Single' PROVE OneByOne'
    <3>1. \A d \in Call : ~Posts(d)'
      BY <1>1, <1>5, <2>1, <2>3, <2>7 DEF OneByOne, Posts
    <3>2. ASSUME NEW d \in Call \ {c}, Hears(d)' PROVE FALSE
      <4>1. Hears(d) /\ call'[d].heard = TRUE
        BY <2>5, <3>2
      <4>2. page'[call[d].tab].open = TRUE /\ call[d].tab \in Tab
        BY <1>2, <1>3, <1>4, <4>1 DEF Hears, Calm, Opens
      <4>3. call[d].tab = t
        BY <1>2, <1>3, <2>7, <4>2 DEF Single
      <4> QED
        BY <2>4, <3>2, <4>1, <4>3 DEF Hears
    <3> QED
      BY <1>1, <1>2, <2>7, <3>1, <3>2 DEF OneByOne
  <2> QED
    BY <1>1, <2>6, <2>7, CalmStays
<1> QED
  BY <1>7, <1>8 DEF AnswerSubmit

LEMMA CalmServe ==
    ASSUME Inv, Orderly, Calm, NEW c \in Call,
           CheckView(c) \/ CheckSubmit(c) \/ CommitView(c) \/ CommitSubmit(c)
    PROVE  Calm'
<1>1. call \in [Call -> CallRecord] /\ page' = page /\ faults' = faults
  BY DEF Inv, TablesTyped, CheckView, CheckSubmit, CommitView, CommitSubmit
<1>2. (\E answer : Reply(c, answer)) \/ LetIn(c)
  BY DEF CheckView, CheckSubmit, CommitView, CommitSubmit
<1>3. call[c].kind # "none"
  BY DEF CheckView, CheckSubmit, CommitView, CommitSubmit, At
<1>4. /\ \A d \in Call \ {c} : call'[d] = call[d]
      /\ \/ call'[c].kind = "none" /\ call'[c].step = "none"
         \/ call'[c].kind = call[c].kind /\ call'[c].tab = call[c].tab
  <2>1. CASE LetIn(c)
    BY <1>1, <2>1 DEF LetIn, CallRecord
  <2>2. ASSUME NEW answer, Reply(c, answer)
        PROVE  /\ \A d \in Call \ {c} : call'[d] = call[d]
               /\ \/ call'[c].kind = "none" /\ call'[c].step = "none"
                  \/ call'[c].kind = call[c].kind /\ call'[c].tab = call[c].tab
    <3>1. \A d \in Call \ {c} : call'[d] = call[d]
      BY <1>1, <2>2 DEF Reply
    <3>2. CASE ~call[c].heard
      BY <1>1, <2>2, <3>1, <3>2 DEF Reply, NoCall
    <3>3. CASE call[c].heard
      <4>1. call'[c] = [call[c] EXCEPT !.step = "answer", !.answer = answer]
        BY <1>1, <2>2, <3>3 DEF Reply
      <4>2. call[c] \in CallRecord
        BY <1>1
      <4> QED
        BY <3>1, <4>1, <4>2 DEF CallRecord
    <3> QED
      BY <3>2, <3>3
  <2> QED
    BY <1>2, <2>1, <2>2
<1>5. \A d \in Call : call[d].kind # "none" => call[d].tab \in Tab
  BY DEF Inv, TablesTyped, CallRecord, Shown, CallOK
<1>6. StaysOpen
  BY <1>1, <1>3, <1>4, <1>5 DEF StaysOpen, Calm, Opens
<1>7. OneByOne => OneByOne'
  BY ServesCalmly DEF Calm
<1> QED
  BY <1>1, <1>6, <1>7, CalmStays

LEMMA CalmPreview ==
    ASSUME Inv, Calm, NEW t \in Tab, LoadPreview(t)
    PROVE  Calm'
<1>1. page \in [Tab -> PageRecord]
  BY DEF Inv, TablesTyped
<1>2. UNCHANGED <<call, faults, raced, opened>>
  BY DEF LoadPreview, rows, ghosts
<1>3. \A u \in Tab : /\ page'[u].open = page[u].open /\ page'[u].data = page[u].data
                     /\ page'[u].pending = page[u].pending
  BY <1>1 DEF LoadPreview, PageRecord
<1>4. \A d \in Call : call[d].kind # "none" => call[d].tab \in Tab
  BY DEF Inv, TablesTyped, CallRecord, Shown, CallOK
<1>5. StaysOpen
  BY <1>2, <1>3, <1>4 DEF StaysOpen, Calm, Opens
<1>6. ASSUME OneByOne PROVE OneByOne'
  <2>1. \A d \in Call : Remains(d)
    BY <1>2 DEF Remains
  <2>2. raced' = FALSE
    BY <1>2, <1>6 DEF OneByOne
  <2> QED
    BY <1>2, <1>3, <1>6, <2>1, <2>2, CallsRemain
<1> QED
  BY <1>2, <1>5, <1>6, CalmStays

LEMMA CalmLose ==
    ASSUME Inv, Calm, NEW c \in Call, Lose(c)
    PROVE  Calm'
<1>1. faults' = faults + 1 /\ faults \in Nat
  BY DEF Lose, Calm, Opens
<1>2. page \in [Tab -> PageRecord] /\ call \in [Call -> CallRecord]
  BY DEF Inv, TablesTyped
<1>3. \A d \in Call : call[d].kind # "none" => call[d].tab \in Tab
  BY DEF Inv, TablesTyped, CallRecord, Shown, CallOK
<1>4. \A u \in Tab : /\ page'[u].open = page[u].open
                     /\ page'[u].data = TRUE =>
                           page[u].data = TRUE \/ (call[c].kind = "get" /\ call[c].tab = u)
  <2>1. CASE call[c].kind = "get"
    <3>1. call[c].tab \in Tab /\ page' = [page EXCEPT ![call[c].tab] = Fetched(@, "none")]
      BY <1>3, <2>1 DEF Lose, GivenUp
    <3> QED
      BY <1>2, <2>1, <3>1, FetchedPage
  <2>2. CASE call[c].kind # "get"
    <3>1. page' = [page EXCEPT ![call[c].tab].pending = FALSE]
      BY <2>2 DEF Lose, GivenUp
    <3> QED
      BY <1>2, <3>1 DEF PageRecord
  <2> QED
    BY <2>1, <2>2
<1>5. /\ \A d \in Call \ {c} : call'[d] = call[d]
      /\ \/ call'[c].kind = "none" /\ call'[c].step = "none"
         \/ /\ call'[c].kind = call[c].kind /\ call'[c].tab = call[c].tab
            /\ call'[c].step = call[c].step
  <2>1. CASE call' = [call EXCEPT ![c] = NoCall]
    BY <1>2, <2>1 DEF NoCall
  <2>2. CASE call' = [call EXCEPT ![c].heard = FALSE]
    BY <1>2, <2>2 DEF CallRecord
  <2> QED
    BY <2>1, <2>2 DEF Lose
<1>6. call[c].kind = "none" => call[c].step # "commit"
  BY DEF Calm, Opens, Writing
<1>7. StaysOpen
  BY <1>1, <1>3, <1>4, <1>5, <1>6 DEF StaysOpen, Calm, Opens
<1>8. ~Single'
  BY <1>1 DEF Single
<1> QED
  BY <1>7, <1>8, OpenStays DEF Calm

LEMMA CalmStep == Inv /\ Orderly /\ Calm /\ [Next]_vars => Calm'
<1> SUFFICES ASSUME Inv, Orderly, Calm, [Next]_vars PROVE Calm'
  OBVIOUS
<1>1. ASSUME UNCHANGED <<call, page, faults, raced, opened>> PROVE Calm'
  BY <1>1 DEF Calm, Opens, Single, OneByOne, Posts, Hears, Writing
<1>2. CASE Expire
  BY <1>1, <1>2 DEF Expire, rows
<1>3. CASE UNCHANGED vars
  BY <1>1, <1>3 DEF vars, rows, ghosts
<1> QED
  BY <1>2, <1>3, CalmFetch, CalmSubmit, CalmServe, CalmAnswerView, CalmAnswerSubmit, CalmPreview,
     CalmLose DEF Next, Serve

-----------------------------------------------------------------------------
(* After the expiry nothing is let in: who was let in writes at most once. *)
Writers == {c \in Call : Writing(c)}

LateInv ==
    /\ late \in Nat /\ admitted \in Nat
    /\ ~expired => late = 0
    /\ expired => late + Cardinality(Writers) <= admitted

LEMMA WritersCounted ==
    /\ Cardinality(Writers) \in Nat
    /\ Cardinality(Writers') \in Nat
    /\ Writers' \subseteq Writers => Cardinality(Writers') <= Cardinality(Writers)
    /\ \A c \in Writers : Writers' \subseteq Writers \ {c} =>
          Cardinality(Writers') + 1 <= Cardinality(Writers)
<1>1. IsFiniteSet(Call)
  BY PageAssumption
<1>2. Writers \subseteq Call /\ Writers' \subseteq Call
  BY DEF Writers
<1>3. IsFiniteSet(Writers) /\ IsFiniteSet(Writers')
  BY <1>1, <1>2, FS_Subset
<1>4. Cardinality(Writers) \in Nat /\ Cardinality(Writers') \in Nat
  BY <1>3, FS_CardinalityType
<1>5. ASSUME Writers' \subseteq Writers PROVE Cardinality(Writers') <= Cardinality(Writers)
  BY <1>3, <1>5, FS_Subset
<1>6. ASSUME NEW c \in Writers, Writers' \subseteq Writers \ {c}
      PROVE  Cardinality(Writers') + 1 <= Cardinality(Writers)
  <2>1. /\ IsFiniteSet(Writers \ {c})
        /\ Cardinality(Writers \ {c}) = Cardinality(Writers) - 1
    BY <1>3, <1>6, FS_RemoveElement
  <2>2. Cardinality(Writers') <= Cardinality(Writers \ {c})
    BY <1>6, <2>1, FS_Subset
  <2> QED
    BY <1>4, <2>1, <2>2
<1> QED
  BY <1>4, <1>5, <1>6

(* A step after the expiry lets nobody in, and who commits is let out.     *)
LEMMA NobodyEnters ==
    ASSUME Inv, expired, [Next]_vars
    PROVE  /\ \A d \in Call : Writing(d)' => Writing(d)
           /\ \A c \in Call : CommitSubmit(c) => Writing(c) /\ ~Writing(c)'
<1>0. call \in [Call -> CallRecord]
  BY DEF Inv, TablesTyped
<1>1. ASSUME NEW c \in Call, NEW answer \in {"none", "ok", "invalid", "complete", "unavailable"},
             Reply(c, answer)
      PROVE  ~Writing(c)' /\ \A d \in Call : Writing(d)' => Writing(d)
  BY <1>1, RepliesEnd DEF Writing
<1>2. \A c \in Call : CommitSubmit(c) => Writing(c) /\ ~Writing(c)'
  BY <1>1 DEF CommitSubmit, At, Writing
<1>3. Refusal = "unavailable"
  BY DEF Refusal
<1>4. ASSUME NEW c \in Call, CheckView(c) \/ CheckSubmit(c) \/ CommitView(c) \/ CommitSubmit(c)
      PROVE  \A d \in Call : Writing(d)' => Writing(d)
  <2>1. \E answer \in {"none", "ok", "invalid", "complete", "unavailable"} : Reply(c, answer)
    BY <1>3, <1>4 DEF CheckView, CheckSubmit, CommitView, CommitSubmit
  <2> QED
    BY <1>1, <2>1
<1>5. ASSUME NEW c \in Call, NEW t \in Tab, Fetch(c, t) \/ Submit(c, t)
      PROVE  \A d \in Call : Writing(d)' => Writing(d)
  <2>1. NoCall.body \in [Field -> Values]
    BY NoCallTyped DEF CallRecord
  <2>2. \A values \in Typed : values \in [Field -> Values]
    BY DEF Typed
  <2>3. \E kind \in {"get", "post"}, body \in [Field -> Values] : Send(c, t, kind, body)
    BY <1>5, <2>1, <2>2 DEF Fetch, Submit
  <2> QED
    BY <2>3, Sends DEF Writing
<1>6. ASSUME NEW c \in Call, AnswerView(c) \/ Lose(c)
      PROVE  \A d \in Call : Writing(d)' => Writing(d)
  <2>1. CASE call' = [call EXCEPT ![c] = NoCall]
    BY <1>0, <2>1 DEF Writing, NoCall
  <2>2. CASE call' = [call EXCEPT ![c].heard = FALSE]
    BY <1>0, <2>2 DEF Writing, CallRecord
  <2> QED
    BY <1>6, <2>1, <2>2 DEF AnswerView, Lose
<1>7. ASSUME NEW c \in Call, AnswerSubmit(c)
      PROVE  \A d \in Call : Writing(d)' => Writing(d)
  <2> DEFINE t == call[c].tab
  <2>1. CASE call' = [call EXCEPT ![c] = NoCall]
    BY <1>0, <2>1 DEF Writing, NoCall
  <2>2. CASE call' = Refetched(c, t)
    <3>1. [NoCall EXCEPT !.kind = "get", !.tab = t, !.step = "check", !.heard = TRUE].step # "commit"
      BY DEF NoCall
    <3> QED
      BY <1>0, <2>2, <3>1 DEF Refetched, Writing, NoCall, CallRecord
  <2> QED
    BY <1>7, <2>1, <2>2 DEF AnswerSubmit
<1>8. ASSUME UNCHANGED call PROVE \A d \in Call : Writing(d)' => Writing(d)
  BY <1>8 DEF Writing
<1>9. \A d \in Call : Writing(d)' => Writing(d)
  <2>1. CASE UNCHANGED vars
    BY <1>8, <2>1 DEF vars
  <2>2. CASE Expire \/ \E t \in Tab : LoadPreview(t)
    BY <1>8, <2>2 DEF Expire, LoadPreview
  <2>3. CASE \E c \in Call : Serve(c) \/ Lose(c) \/ \E t \in Tab : Fetch(c, t) \/ Submit(c, t)
    BY <1>4, <1>5, <1>6, <1>7, <2>3 DEF Serve
  <2> QED
    BY <2>1, <2>2, <2>3 DEF Next
<1> QED
  BY <1>2, <1>9

LEMMA LateStep == Inv /\ LateInv /\ [Next]_vars => LateInv'
<1> SUFFICES ASSUME Inv, LateInv, [Next]_vars PROVE LateInv'
  OBVIOUS
<1>1. CASE Expire
  <2>1. /\ expired' /\ ~expired /\ UNCHANGED <<call, late>>
        /\ admitted' = Cardinality(Writers)
    BY <1>1 DEF Expire, Writers, Writing
  <2>2. Writers' = Writers
    BY <2>1 DEF Writers, Writing
  <2> QED
    BY <2>1, <2>2, WritersCounted DEF LateInv
<1>2. ASSUME NEW c \in Call, CommitSubmit(c) PROVE LateInv'
  <2>1. /\ expired' = expired /\ admitted' = admitted
        /\ late' = IF expired THEN late + 1 ELSE late
    BY <1>2 DEF CommitSubmit
  <2>2. CASE ~expired
    BY <2>1, <2>2 DEF LateInv
  <2>3. CASE expired
    <3>1. c \in Writers /\ Writers' \subseteq Writers \ {c}
      BY <1>2, <2>3, NobodyEnters DEF Writers
    <3> QED
      BY <2>1, <2>3, <3>1, WritersCounted DEF LateInv
  <2> QED
    BY <2>2, <2>3
<1>3. ASSUME UNCHANGED <<expired, admitted, late>> PROVE LateInv'
  <2>1. CASE ~expired
    BY <1>3, <2>1 DEF LateInv
  <2>2. CASE expired
    <3>1. Writers' \subseteq Writers
      BY <2>2, NobodyEnters DEF Writers
    <3> QED
      BY <1>3, <2>2, <3>1, WritersCounted DEF LateInv
  <2> QED
    BY <2>1, <2>2
<1>4. \/ Expire
      \/ \E c \in Call : CommitSubmit(c)
      \/ UNCHANGED <<expired, admitted, late>>
  BY DEF Next, Serve, Lose, CheckView, CommitView, CheckSubmit, AnswerView, AnswerSubmit, Fetch,
         Submit, LoadPreview, vars, ghosts
<1> QED
  BY <1>1, <1>2, <1>3, <1>4

(* Two calls are let in together only with two pages open or after a call  *)
(* that was not waited for, and after the expiry no more submissions are   *)
(* recorded than had been let in.                                          *)
THEOREM RacesHaveCauses == Spec => []RacesAreExplained
<1>1. Init => Orderly
  BY DEF Init, Orderly, Alone, Writing, NoCall
<1>2. Init => Calm
  <2> SUFFICES ASSUME Init PROVE Calm
    OBVIOUS
  <2>1. \A c \in Call : call[c].kind = "none" /\ call[c].step = "none"
    BY DEF Init, NoCall
  <2>2. \A t \in Tab : page[t].data = FALSE
    BY DEF Init, Closed
  <2>3. Opens
    BY <2>1, <2>2 DEF Init, Opens, Writing
  <2>4. OneByOne
    BY <2>1 DEF Init, OneByOne, Posts, Hears
  <2> QED
    BY <2>3, <2>4 DEF Calm
<1>3. Init => LateInv
  BY DEF Init, LateInv
<1>4. Inv /\ Calm /\ LateInv => RacesAreExplained
  <2> SUFFICES ASSUME Inv, Calm, LateInv PROVE RacesAreExplained
    OBVIOUS
  <2>1. late <= admitted
    BY WritersCounted DEF LateInv
  <2>2. ASSUME raced, ~(faults > 0) PROVE \E t, u \in Tab : t # u /\ page[t].open /\ page[u].open
    <3>1. faults = 0
      BY <2>2 DEF Calm, Opens
    <3>2. ~Single
      BY <2>2 DEF Calm, OneByOne
    <3> QED
      BY <3>1, <3>2 DEF Single
  <2> QED
    BY <2>1, <2>2 DEF RacesAreExplained
<1> QED BY <1>1, <1>2, <1>3, <1>4, OrderlyStep, CalmStep, LateStep, InvCorrect, PTL DEF Spec
=============================================================================
