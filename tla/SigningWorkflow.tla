--------------------------- MODULE SigningWorkflow ---------------------------
(***************************************************************************)
(* Sending one document and the public signing endpoints                   *)
(* (apps/api/src/signing, apps/api/src/public-signing).                    *)
(*                                                                         *)
(* A CALL is one HTTP request in an API replica.  It reads outside of any  *)
(* transaction, decides, and then runs a transaction that does not repeat  *)
(* the decision.  PostgreSQL runs it READ COMMITTED: a statement sees what *)
(* is committed when it starts plus the writes of its own transaction; an  *)
(* update waits for the row lock of another open transaction and then      *)
(* proceeds.  The tables below hold the committed state only.              *)
(*                                                                         *)
(* The rows that transactions of two calls update are the signing request  *)
(* and the recipient of each signer and the document.  An insert shares    *)
(* the key of the rows it refers to, which conflicts with none of these    *)
(* updates, so inserts wait for nobody.                                    *)
(***************************************************************************)
EXTENDS Naturals, FiniteSets

CONSTANTS Signer,     \* SIGNER recipients; each gets one signing request
          Call,       \* concurrent HTTP requests
          MaxCalls,   \* bound on the number of calls that are served
          NoSigner, NoCall

ASSUME SigningAssumption ==
    /\ Signer # {} /\ IsFiniteSet(Signer)
    /\ MaxCalls \in Nat
    /\ NoSigner \notin Signer
    /\ NoCall \notin Call

VARIABLES
    document,       \* documents.status
    request,        \* signing_requests.status, "ABSENT" before the send
    recipient,      \* recipients.status
    viewedAt,       \* signing_requests.viewedAt is set
    expired,        \* signing_requests.expiresAt has passed
    emails,         \* signers with a SEND_SIGNING_EMAIL outbox event
    submissions,    \* number of signing_submissions of each signer
    finalizations,  \* number of PDF job records, each with its outbox event
    lock,           \* the open transaction that updated a row
    pc, target,     \* each call: its next statement and its request
    last,           \* each call: its count of open requests was 0
    served          \* calls begun so far

tables == <<document, request, recipient, viewedAt, emails, submissions,
            finalizations>>
vars == <<tables, expired, lock, pc, target, last, served>>

\* The rows that more than one call updates.
Document == <<"document", NoSigner>>
Row == ({"request", "recipient"} \X Signer) \cup {Document}

Init ==
    /\ document = "DRAFT"
    /\ request = [r \in Signer |-> "ABSENT"]
    /\ recipient = [r \in Signer |-> "PENDING"]
    /\ viewedAt = [r \in Signer |-> FALSE]
    /\ expired = [r \in Signer |-> FALSE]
    /\ emails = {}
    /\ submissions = [r \in Signer |-> 0]
    /\ finalizations = 0
    /\ lock = [row \in Row |-> NoCall]
    /\ pc = [c \in Call |-> "idle"]
    /\ target = [c \in Call |-> NoSigner]
    /\ last = [c \in Call |-> FALSE]
    /\ served = 0

\* A call arrives, passes its checks and will run a transaction.  (A call
\* that fails them returns an error and leaves no trace.)
Begin(c, step, r) ==
    /\ pc[c] = "idle"
    /\ served < MaxCalls
    /\ served' = served + 1
    /\ pc' = [pc EXCEPT ![c] = step]
    /\ target' = [target EXCEPT ![c] = r]
    /\ UNCHANGED <<tables, expired, lock, last>>

Step(c, step) == pc' = [pc EXCEPT ![c] = step]

\* The transaction of c is over: its locks are gone and the call returns.
Finish(c) ==
    /\ Step(c, "idle")
    /\ lock' = [row \in Row |-> IF lock[row] = c THEN NoCall ELSE lock[row]]
    /\ target' = [target EXCEPT ![c] = NoSigner]
    /\ last' = [last EXCEPT ![c] = FALSE]
    /\ UNCHANGED <<expired, served>>

(***************************************************************************)
(* SigningService.send.                                                    *)
(***************************************************************************)
\* Reads the document, its recipients and its fields; what they must satisfy
\* is the subject of module DraftEditing.
BeginSend(c) == document = "DRAFT" /\ Begin(c, "send", NoSigner)

\* The where clause of the transition.
Sendable == document = "DRAFT"

\* The transition is conditional and holds the document row until commit, so
\* the transaction is one step; a sender that comes second is rolled back.
\* It goes on to the rows of the recipients, in the order opposite to that of
\* submit, but while the document is a draft there is no request to view or
\* to submit, and once it is not the transition matches no row.
Send(c) ==
    /\ pc[c] = "send"
    /\ Finish(c)
    /\ IF Sendable
       THEN /\ document' = "SENT"
            /\ request' = [r \in Signer |-> "PENDING"]
            /\ recipient' = [r \in Signer |->
                  IF recipient[r] = "PENDING" THEN "SENT" ELSE recipient[r]]
            /\ emails' = emails \cup Signer
            /\ UNCHANGED <<viewedAt, submissions, finalizations>>
       ELSE UNCHANGED tables

(***************************************************************************)
(* PublicSigningService.  The token finds a request that must not be       *)
(* revoked (no code revokes one), expired or completed.                    *)
(***************************************************************************)
\* (Mutant: the completed check is missing.)
UsableIfSent(r) == request[r] # "ABSENT" /\ ~expired[r]
Usable(r) == request[r] \notin {"ABSENT", "REVOKED", "COMPLETED"} /\ ~expired[r]

\* The row that the next statement of a call updates, <<>> if it updates none.
\* (Mutant: a view updates the recipient before the request.)
WantedViewReversed(c) ==
    CASE pc[c] \in {"viewRecipient", "submit"} -> <<"request", target[c]>>
      [] pc[c] \in {"view", "submitRecipient"} -> <<"recipient", target[c]>>
      [] pc[c] = "complete" -> Document
      [] OTHER -> <<>>
Wanted(c) ==
    CASE pc[c] \in {"view", "submit"} -> <<"request", target[c]>>
      [] pc[c] \in {"viewRecipient", "submitRecipient"} ->
            <<"recipient", target[c]>>
      [] pc[c] = "complete" -> Document
      [] OTHER -> <<>>

\* The statement waits for the transaction that holds its row and then runs.
Update(c, next) ==
    /\ lock[Wanted(c)] = NoCall
    /\ lock' = [lock EXCEPT ![Wanted(c)] = c]
    /\ Step(c, next)
    /\ UNCHANGED <<tables, expired, target, last, served>>

\* getByToken: a first view is recorded in a transaction of its own, which
\* updates the request, then the recipient and writes the audit event.
BeginView(c, r) == Usable(r) /\ ~viewedAt[r] /\ Begin(c, "view", r)

UpdateViewed(c) == \/ pc[c] = "view" /\ Update(c, "viewRecipient")
                   \/ pc[c] = "viewRecipient" /\ Update(c, "commitView")

CommitView(c) == LET r == target[c] IN
    /\ pc[c] = "commitView"
    /\ Finish(c)
    /\ request' = [request EXCEPT ![r] = "VIEWED"]
    /\ viewedAt' = [viewedAt EXCEPT ![r] = TRUE]
    /\ recipient' = [recipient EXCEPT ![r] = "VIEWED"]
    /\ UNCHANGED <<document, emails, submissions, finalizations>>

\* submit: the values have been validated against the signer's fields.
BeginSubmit(c, r) == Usable(r) /\ Begin(c, "submit", r)

\* Inserts the submission and its values, updates the request, then the
\* recipient and writes the audit event.
UpdateSubmitted(c) == \/ pc[c] = "submit" /\ Update(c, "submitRecipient")
                      \/ pc[c] = "submitRecipient" /\ Update(c, "count")

\* signingRequest.count: other open transactions are not visible.  (Mutants:
\* the caller's own update is not visible either; signers who have opened
\* the link are taken for signed.)
RemainingWithOwn(r) == {q \in Signer : request[q] # "COMPLETED"}
RemainingUnopened(r) ==
    {q \in Signer \ {r} : request[q] \notin {"VIEWED", "COMPLETED"}}
Remaining(r) == {q \in Signer \ {r} : request[q] # "COMPLETED"}

CountRemaining(c) ==
    /\ pc[c] = "count"
    /\ last' = [last EXCEPT ![c] = Remaining(target[c]) = {}]
    /\ Step(c, IF last'[c] THEN "complete" ELSE "commitSubmit")
    /\ UNCHANGED <<tables, expired, lock, target, served>>

\* Nobody remains: updates the document and inserts the audit event, the job
\* and its outbox event.
UpdateCompleted(c) == pc[c] = "complete" /\ Update(c, "commitSubmit")

CommitSubmit(c) == LET r == target[c] IN
    /\ pc[c] = "commitSubmit"
    /\ Finish(c)
    /\ request' = [request EXCEPT ![r] = "COMPLETED"]
    /\ recipient' = [recipient EXCEPT ![r] = "SIGNED"]
    /\ submissions' = [submissions EXCEPT ![r] = @ + 1]
    /\ IF last[c]
       THEN document' = "COMPLETED" /\ finalizations' = finalizations + 1
       ELSE UNCHANGED <<document, finalizations>>
    /\ UNCHANGED <<viewedAt, emails>>

\* The API process dies, a constraint fails or the transaction times out
\* (also while it waits for a lock): nothing of it is kept.
RollBack(c) == pc[c] # "idle" /\ Finish(c) /\ UNCHANGED tables

\* Thirty days pass; a call that was let in before is not stopped.
Expire(r) ==
    /\ request[r] # "ABSENT"
    /\ ~expired[r]
    /\ expired' = [expired EXCEPT ![r] = TRUE]
    /\ UNCHANGED <<tables, lock, pc, target, last, served>>

-----------------------------------------------------------------------------
Progress(c) == \/ Send(c) \/ UpdateViewed(c) \/ CommitView(c)
               \/ UpdateSubmitted(c) \/ CountRemaining(c) \/ UpdateCompleted(c)
               \/ CommitSubmit(c)

Next ==
    \/ \E c \in Call : BeginSend(c) \/ Progress(c) \/ RollBack(c)
    \/ \E c \in Call, r \in Signer : BeginView(c, r) \/ BeginSubmit(c, r)
    \/ \E r \in Signer : Expire(r)

Spec == Init /\ [][Next]_vars

\* Statements and commits return; nobody is obliged to call.
Fairness == \A c \in Call : WF_vars(Progress(c))

FairSpec == Spec /\ Fairness

-----------------------------------------------------------------------------
\* The rows that a call has updated so far.
Held(c) ==
    LET both == {"request", "recipient"} \X {target[c]}
    IN  CASE pc[c] \in {"viewRecipient", "submitRecipient"} ->
                {<<"request", target[c]>>}
          [] pc[c] \in {"commitView", "count", "complete"} ->
                both
          [] pc[c] = "commitSubmit" ->
                both \cup (IF last[c] THEN {Document} ELSE {})
          [] OTHER -> {}

CallsHoldLocks ==
    \A c \in Call : /\ pc[c] \notin {"idle", "send"} => target[c] \in Signer
                    /\ pc[c] = "complete" => last[c]
                    /\ \A row \in Row : lock[row] = c <=> row \in Held(c)

Statement == {"idle", "send", "view", "viewRecipient", "commitView", "submit",
              "submitRecipient", "count", "complete", "commitSubmit"}

TablesOK ==
    /\ document \in {"DRAFT", "SENT", "COMPLETED"}
    /\ request \in [Signer -> {"ABSENT", "PENDING", "VIEWED", "COMPLETED"}]
    /\ recipient \in [Signer -> {"PENDING", "SENT", "VIEWED", "SIGNED"}]
    /\ viewedAt \in [Signer -> BOOLEAN]
    /\ emails \subseteq Signer
    /\ submissions \in [Signer -> Nat]
    /\ finalizations \in Nat

\* Every variable keeps its type; a call inside its transaction holds the
\* rows it has updated and no others, so no two calls write one row at a time.
TypeOK ==
    /\ TablesOK
    /\ expired \in [Signer -> BOOLEAN]
    /\ lock \in [Row -> Call \cup {NoCall}]
    /\ pc \in [Call -> Statement]
    /\ target \in [Call -> Signer \cup {NoSigner}]
    /\ last \in [Call -> BOOLEAN]
    /\ served \in 0..MaxCalls
    /\ CallsHoldLocks

(***************************************************************************)
(* Safety that holds for any interleaving of calls.                        *)
(***************************************************************************)
Signed == {r \in Signer : submissions[r] > 0}
PdfRequested == finalizations > 0

\* The document is never completed before every signer has a stored
\* submission, although the count reads other calls' work at some earlier
\* moment and late views may reset a request in between.
CompletedMeansAllSigned == document = "COMPLETED" => Signed = Signer

\* The strengthening that makes it inductive: a request is marked completed,
\* and a count comes out at zero, only over stored submissions.
CompletedRequestSigned ==
    \A r \in Signer : request[r] = "COMPLETED" => r \in Signed
LastHasSeenOthers ==
    \A c \in Call : last[c] => /\ pc[c] \in {"complete", "commitSubmit"}
                              /\ Signer \ {target[c]} \subseteq Signed
\* Nothing happens to a document that was not sent, and once sent it has a
\* request for every signer.
SentHasRequests ==
    /\ \A r \in Signer : request[r] = "ABSENT" <=> document = "DRAFT"
    /\ \A c \in Call : pc[c] \notin {"idle", "send"} => document # "DRAFT"
FinalizedIffCompleted == PdfRequested <=> document = "COMPLETED"
SubmittedOnlyAfterSend == document = "DRAFT" => Signed = {}

IInv == /\ CompletedMeansAllSigned /\ CompletedRequestSigned
        /\ LastHasSeenOthers /\ SentHasRequests
        /\ FinalizedIffCompleted /\ SubmittedOnlyAfterSend

\* The rows of signing_submissions.
Stored == UNION {{r} \X (1..submissions[r]) : r \in Signer}

\* A surplus PDF job needs a surplus submission: duplicated finalization is
\* always the consequence of a signer being recorded twice.
FinalizationsBounded ==
    PdfRequested =>
        finalizations + Cardinality(Signer) <= Cardinality(Stored) + 1

\* The next statement of c updates a row that d holds until it commits.
WaitsFor(c, d) == Wanted(c) \in Row /\ lock[Wanted(c)] = d

\* However views and submissions of all signers overlap, their transactions
\* never wait for each other in a circle (which PostgreSQL would end by
\* failing one of them): of any calls, one waits for none of them.
NoCircularWait ==
    \A waiting \in SUBSET Call :
        waiting # {} => \E c \in waiting : \A d \in waiting : ~WaitsFor(c, d)

L == INSTANCE DocumentLifecycle WITH
        phase <- document,
        signed <- Signed,
        requested <- PdfRequested
LifecycleSpec == L!Spec

(***************************************************************************)
(* What the endpoint is meant to guarantee, and does until two calls       *)
(* overlap (see SigningOverlap).                                           *)
(***************************************************************************)
\* The final submission completes the document.
AllSignedLeadsToCompletion ==
    (\A r \in Signer : request[r] = "COMPLETED") ~> document = "COMPLETED"
=============================================================================
