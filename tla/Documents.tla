----------------------------- MODULE Documents -----------------------------
(***************************************************************************)
(* Documents: their upload by the New-document page, the files and rows    *)
(* that the upload and the later life of a document leave behind, and the  *)
(* reading endpoints of DocumentsService: lists in pages, download link.   *)
(*                                                                         *)
(* An upload is a file check, a read of the memberships, a parse of the    *)
(* PDF, and then three writes without a transaction: the object, the row,  *)
(* the audit event.  A list is read page by page, while documents are      *)
(* created and change their status; a page begins at the row of the cursor *)
(* and skips one row, whichever that is (a cursor of Prisma).              *)
(*                                                                         *)
(* Lists are ordered by creation, newest first: a document is in a list by *)
(* its stamp, an audit event by its place in the history of its document.  *)
(***************************************************************************)
EXTENDS Naturals, FiniteSets

CONSTANTS MaxDocs,    \* bound on the documents; every click that uploads takes an id
          Old,        \* how many of them the reader's organization has already
          Uploader,   \* tabs with the New-document page
          Org,        \* organizations
          Home,       \* the organization of the reader
          Limit,      \* size of the pages
          MaxFaults,  \* bound on lost requests and answers, and crashes
          None

Doc == 1..MaxDocs

\* What a user may pick: a PDF, one that cannot be opened, one that is too
\* large or of another type.
File == {"pdf", "encrypted", "unsuitable"}

ASSUME DocumentAssumption == /\ Home \in Org /\ Limit \in Nat \ {0}
                             /\ MaxFaults \in Nat /\ MaxDocs \in Nat /\ Old \in 0..MaxDocs
                             /\ None \notin Uploader \cup Org \cup File \cup Nat

VARIABLES
    upload,   \* each click: next step of the API, page, organization, file,
              \* and whether its answer is still waited for
    client,   \* each page: its mutation, and an answer it could not parse
    originals, finals,  \* objects in the store
    row,      \* the rows of documents
    events,   \* how many audit events a document has
    walk,     \* a reader that reads a list page by page
    faults

vars == <<upload, client, originals, finals, row, events, walk, faults>>
stored == <<originals, finals, row, events>>

NoUpload == [step |-> "none", by |-> None, org |-> None, file |-> None,
             heard |-> FALSE]
OldUpload == [NoUpload EXCEPT !.step = "ok", !.org = Home, !.file = "pdf"]
NewRow(stamp, org) == [stamp |-> stamp, org |-> org, status |-> "DRAFT", final |-> FALSE]
NoRow == [stamp |-> 0, org |-> None, status |-> "none", final |-> FALSE]
NoWalk == [state |-> "none", of |-> None, filter |-> "all", cursor |-> 0,
           seen |-> {}, again |-> FALSE, must |-> {}, slips |-> 0]

Init ==
    /\ upload = [d \in Doc |-> IF d <= Old THEN OldUpload ELSE NoUpload]
    /\ client = [u \in Uploader |-> [state |-> "idle", garbled |-> FALSE]]
    /\ originals = 1..Old /\ finals = {}
    /\ row = [d \in Doc |-> IF d <= Old THEN NewRow(d, Home) ELSE NoRow]
    /\ events = [d \in Doc |-> IF d <= Old THEN 1 ELSE 0]
    /\ walk = NoWalk
    /\ faults = 0

Rows == {d \in Doc : row[d] # NoRow}
Fault == faults < MaxFaults /\ faults' = faults + 1

-----------------------------------------------------------------------------
(***************************************************************************)
(* Uploading.                                                              *)
(***************************************************************************)
\* The button is disabled while a mutation is pending.
Click(u, d, o, f) ==
    /\ client[u].state # "pending"
    /\ upload[d] = NoUpload
    /\ \A e \in Doc : e < d => upload[e] # NoUpload
    /\ client' = [client EXCEPT ![u] = [state |-> "pending", garbled |-> FALSE]]
    /\ upload' = [upload EXCEPT ![d] = [step |-> "check", by |-> u, org |-> o, file |-> f,
                                        heard |-> TRUE]]
    /\ UNCHANGED <<stored, walk, faults>>

\* The order of the statements of create.
After(step) ==
    CASE step = "check" -> "object" [] step = "object" -> "row"
      [] step = "row" -> "event" [] step = "event" -> "ok"

Goto(d, step) == upload' = [upload EXCEPT ![d].step = step]
Statement(d, step, effect, nothing) ==
    /\ upload[d].step = step
    /\ \/ effect /\ Goto(d, After(step))
       \/ (effect \/ nothing) /\ Goto(d, "no")
    /\ UNCHANGED <<client, finals, walk, faults>>

\* The file is looked at, the membership read, the pages counted; an expired
\* access token is refused before.
Suitable(f) == f # "unsuitable"
Countable(f) == f # "encrypted"

CheckUpload(d) == LET f == upload[d].file IN
    /\ upload[d].step = "check"
    /\ \/ Suitable(f) /\ Countable(f) /\ Goto(d, After("check"))
       \/ Goto(d, "no")
    /\ UNCHANGED <<client, stored, walk, faults>>

PutObject(d) ==
    /\ Statement(d, "object", originals' = originals \cup {d}, UNCHANGED originals)
    /\ UNCHANGED <<row, events>>

InsertRow(d) ==
    /\ Statement(d, "row",
          row' = [row EXCEPT ![d] = NewRow(Cardinality(Rows) + 1, upload[d].org)],
          UNCHANGED row)
    /\ UNCHANGED <<originals, events>>

RecordUpload(d) ==
    /\ Statement(d, "event", events' = [events EXCEPT ![d] = @ + 1], UNCHANGED events)
    /\ UNCHANGED <<originals, row>>

\* The handlers of the XMLHttpRequest.  A body that is not JSON throws in the
\* handler: the promise of the mutation is never settled.
Settled(u, state) == [client EXCEPT ![u].state = state]

Answer(d) == LET u == upload[d].by IN
    /\ upload[d].step \in {"ok", "no"} /\ upload[d].heard
    /\ client' = Settled(u, IF upload[d].step = "ok" THEN "done" ELSE "failed")
    /\ upload' = [upload EXCEPT ![d].heard = FALSE]
    /\ UNCHANGED <<stored, walk, faults>>

AnswerGarbled(d) == LET u == upload[d].by IN
    /\ upload[d].step = "no" /\ upload[d].heard
    /\ Fault
    /\ client' = [client EXCEPT ![u].garbled = TRUE]
    /\ upload' = [upload EXCEPT ![d].heard = FALSE]
    /\ UNCHANGED <<stored, walk>>

\* The connection breaks; the API may go on, or it died.
\* (Mutant: the request has no error handler.)
SettledNot(u) == client
SettledByError(u) == Settled(u, "failed")

Disconnect(d) == LET u == upload[d].by IN
    /\ upload[d].heard
    /\ Fault
    /\ client' = SettledByError(u)
    /\ \E step \in {upload[d].step, "dead"} :
          upload' = [upload EXCEPT ![d].heard = FALSE, ![d].step = step]
    /\ UNCHANGED <<stored, walk>>

-----------------------------------------------------------------------------
(***************************************************************************)
(* What becomes of a document: sent, completed, and its final PDF stored   *)
(* and then recorded.  Each leaves an audit event.                         *)
(***************************************************************************)
Move(d, from, to) ==
    /\ row[d].status = from
    /\ row' = [row EXCEPT ![d].status = to]
    /\ events' = [events EXCEPT ![d] = @ + 1]
    /\ UNCHANGED <<upload, client, originals, finals, walk, faults>>

Send(d) == Move(d, "DRAFT", "SENT")
Complete(d) == Move(d, "SENT", "COMPLETED")

PutFinal(d) ==
    /\ row[d].status = "COMPLETED" /\ d \notin finals
    /\ finals' = finals \cup {d}
    /\ UNCHANGED <<upload, client, originals, row, events, walk, faults>>

RecordFinal(d) ==
    /\ d \in finals /\ ~row[d].final
    /\ row' = [row EXCEPT ![d].final = TRUE]
    /\ events' = [events EXCEPT ![d] = @ + 1]
    /\ UNCHANGED <<upload, client, originals, finals, walk, faults>>

-----------------------------------------------------------------------------
(***************************************************************************)
(* Lists.  A walk is of the documents of the reader's organization (of =   *)
(* None), perhaps of one status, or of the audit events of a document.     *)
(***************************************************************************)
\* The reading endpoints change nothing.  They find a document by its id in the
\* reader's organization; the preview and the download of the original need no
\* more, that of the final PDF needs its key.
\* (Mutant: the key of the final PDF is derived from the status.)
Readable(d) == row[d].org = Home
HasOriginal(d) == Readable(d)
HasFinalByStatus(d) == Readable(d) /\ row[d].status = "COMPLETED"
HasFinal(d) == Readable(d) /\ row[d].final

\* The controller: the original unless the final PDF is asked for.
Variant == {"original", "completed"}
Offered(d, variant) == IF variant = "completed" THEN HasFinal(d) ELSE HasOriginal(d)

\* The URL of the original for a signer, of any organization, whose link opens:
\* there are links once the document was sent.
OfferedToSigner(d) == row[d].status \in {"SENT", "COMPLETED"}

InList(d, filter) == Readable(d) /\ filter \in {"all", row[d].status}

Items(w) == IF w.of = None
            THEN {row[d].stamp : d \in {e \in Doc : InList(e, w.filter)}}
            ELSE 1..events[w.of]

\* The n newest of a set of numbers.
Newest(items, n) == {i \in items : Cardinality({j \in items : j >= i}) <= n}

\* findMany: rows from the cursor on, the first skipped when there is a cursor.
\* (Mutant: no extra row is asked for.)
From(items, cursor) == {i \in items : cursor = 0 \/ i <= cursor}
Skip(items, cursor) == IF cursor = 0 THEN items ELSE items \ Newest(items, 1)
DbRowsNoExtra(items, cursor) == Newest(Skip(From(items, cursor), cursor), Limit)
DbRows(items, cursor) == Newest(Skip(From(items, cursor), cursor), Limit + 1)

BeginList(filter) ==
    /\ walk.state # "walking"
    /\ walk' = [NoWalk EXCEPT !.state = "walking", !.filter = filter]
    /\ UNCHANGED <<upload, client, stored, faults>>

BeginHistory(d) ==
    /\ walk.state # "walking"
    /\ Readable(d)
    /\ walk' = [NoWalk EXCEPT !.state = "walking", !.of = d]
    /\ UNCHANGED <<upload, client, stored, faults>>

\* The next page of a list.  again: something was shown a second time.
\* must: what was in the list at the first page, and is to be shown.
Turned(items, rows, page) ==
    [walk EXCEPT !.state = IF Cardinality(rows) > Limit THEN "walking" ELSE "done",
                 !.cursor = IF page = {} THEN @ ELSE CHOOSE i \in page : \A j \in page : i <= j,
                 !.seen = @ \cup page,
                 !.again = @ \/ page \cap walk.seen # {},
                 !.must = IF walk.cursor = 0 THEN items ELSE @,
                 !.slips = IF walk.cursor \in items \cup {0} THEN @ ELSE @ + 1]

FetchPage ==
    /\ walk.state = "walking"
    /\ \E items \in {Items(walk)} : \E rows \in {DbRows(items, walk.cursor)} :
          walk' = Turned(items, rows, Newest(rows, Limit))
    /\ UNCHANGED <<upload, client, stored, faults>>

-----------------------------------------------------------------------------
Serve(d) == CheckUpload(d) \/ PutObject(d) \/ InsertRow(d) \/ RecordUpload(d)

Next ==
    \/ \E d \in Doc : \/ \E u \in Uploader, o \in Org, f \in File : Click(u, d, o, f)
                      \/ Serve(d) \/ Answer(d) \/ AnswerGarbled(d) \/ Disconnect(d)
                      \/ Send(d) \/ Complete(d) \/ PutFinal(d) \/ RecordFinal(d)
                      \/ BeginHistory(d)
    \/ \E filter \in {"all", "DRAFT"} : BeginList(filter)
    \/ FetchPage

Spec == Init /\ [][Next]_vars

\* The API executes its statements, answers are delivered, and a reader that
\* has a cursor asks for the next page.
Fairness == /\ \A d \in Doc : WF_vars(Serve(d) \/ Answer(d))
            /\ WF_vars(FetchPage)

FairSpec == Spec /\ Fairness

-----------------------------------------------------------------------------
Steps == {"none", "check", "object", "row", "event", "ok", "no", "dead"}

\* A page with a pending mutation waits for an answer that can still come.
TypeOK ==
    /\ upload \in [Doc -> [step : Steps, by : Uploader \cup {None}, org : Org \cup {None},
                           file : File \cup {None}, heard : BOOLEAN]]
    /\ client \in [Uploader -> [state : {"idle", "pending", "done", "failed"},
                                garbled : BOOLEAN]]
    /\ originals \in SUBSET Doc /\ finals \in SUBSET Doc
    /\ row \in [Doc -> [stamp : Nat, org : Org \cup {None}, final : BOOLEAN,
                        status : {"none", "DRAFT", "SENT", "COMPLETED"}]]
    /\ events \in [Doc -> Nat]
    /\ walk \in [state : {"none", "walking", "done"}, of : Doc \cup {None},
                 filter : {"all", "DRAFT"}, cursor : Nat, seen : SUBSET Nat,
                 again : BOOLEAN, must : SUBSET Nat, slips : Nat]
    /\ faults \in 0..MaxFaults
    /\ \A u \in Uploader : client[u].state = "pending" /\ ~client[u].garbled
                           => \E d \in Doc : upload[d].by = u /\ upload[d].heard

\* Whatever fails between the writes, a document in the lists has its file,
\* and one whose final PDF is recorded has that file too.
RowHasFile == \A d \in Rows : d \in originals /\ (row[d].final => d \in finals)

\* An upload that is answered with success left all of its parts: what is
\* missing a part was answered with an error, or not at all.
PartsAreFailures ==
    \A d \in Doc : upload[d].step = "ok" => d \in originals /\ d \in Rows /\ events[d] > 0

\* Nothing is kept of a file that the checks refuse, neither object nor row.
RefusedLeavesNothing ==
    \A d \in originals \cup Rows : upload[d].file = "pdf"

\* Every link that can be asked for, by the owner or a signer, leads to a file:
\* there is none to a final PDF that is not stored yet.
LinksLeadToFiles ==
    \A d \in Doc :
        /\ \A variant \in Variant : Offered(d, variant) =>
                d \in (IF variant = "completed" THEN finals ELSE originals)
        /\ OfferedToSigner(d) => d \in originals

\* A walk shows nothing twice, and no document of another organization,
\* whatever is created and changes its status meanwhile.  A finished walk has
\* shown everything that was in the list from its first to its last page, but
\* for one document for each time that the document it stopped at had left the
\* list when it went on.
WalkIsFaithful ==
    /\ ~walk.again
    /\ walk.of = None => \A i \in walk.seen :
                            \E d \in Rows : row[d].stamp = i /\ row[d].org = Home
    /\ walk.state = "done" =>
          Cardinality((walk.must \cap Items(walk)) \ walk.seen) <= walk.slips

\* A walk ends, although documents go on being created, and the page that
\* uploads comes to an end: success, refusal, a broken connection, everything
\* but an answer that it could not parse.
ClientsSettle ==
    /\ walk.state = "walking" ~> walk.state = "done"
    /\ \A u \in Uploader : client[u].state = "pending"
                           ~> (client[u].state # "pending" \/ client[u].garbled)
=============================================================================
