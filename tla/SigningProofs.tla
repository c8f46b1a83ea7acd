---------------------------- MODULE SigningProofs ----------------------------
(***************************************************************************)
(* Theorems about SigningWorkflow, for any number of signers and of        *)
(* concurrent calls.  Each follows from the inductive invariant IInv: what *)
(* a call once read about the other signers stays true, because stored     *)
(* submissions are never removed.  Until two calls overlap HistoryInv says *)
(* in addition that what a call has read is still so.  CountInv counts the *)
(* PDF jobs against the rows of submissions.                               *)
(***************************************************************************)
EXTENDS SigningOverlap, TLAPS, FiniteSetTheorems

\* A call holds rows of its own request and, last, the document.
LEMMA HeldRows ==
  ASSUME TypeOK, NEW c \in Call
  PROVE  /\ Held(c) \subseteq Row
         /\ pc[c] \in {"idle", "send", "view", "submit"} => Held(c) = {}
         /\ pc[c] \in {"viewRecipient", "submitRecipient"} =>
               Held(c) = {<<"request", target[c]>>}
         /\ pc[c] \in {"commitView", "count", "complete"} =>
               Held(c) = {<<"request", target[c]>>, <<"recipient", target[c]>>}
         /\ pc[c] = "commitSubmit" =>
               Held(c) = {<<"request", target[c]>>, <<"recipient", target[c]>>}
                            \cup (IF last[c] THEN {Document} ELSE {})
<1>1. {"request", "recipient"} \X {target[c]} =
         {<<"request", target[c]>>, <<"recipient", target[c]>>}
  OBVIOUS
<1>2. pc[c] \in Statement /\ (pc[c] \notin {"idle", "send"} => target[c] \in Signer)
  BY DEF TypeOK, CallsHoldLocks
<1>3. /\ pc[c] \in {"idle", "send", "view", "submit"} => Held(c) = {}
      /\ pc[c] \in {"viewRecipient", "submitRecipient"} =>
            Held(c) = {<<"request", target[c]>>}
  BY DEF Held
<1>4. pc[c] \in {"commitView", "count", "complete"} =>
         Held(c) = {<<"request", target[c]>>, <<"recipient", target[c]>>}
  BY <1>1 DEF Held
<1>5. pc[c] = "commitSubmit" =>
         Held(c) = {<<"request", target[c]>>, <<"recipient", target[c]>>}
                      \cup (IF last[c] THEN {Document} ELSE {})
  BY <1>1 DEF Held
<1>6. target[c] \in Signer =>
         <<"request", target[c]>> \in Row /\ <<"recipient", target[c]>> \in Row
  BY DEF Row
<1>7. Document \in Row
  BY DEF Row
<1>8. Held(c) \subseteq Row
  BY <1>2, <1>3, <1>4, <1>5, <1>6, <1>7 DEF Statement
<1> QED
  BY <1>3, <1>4, <1>5, <1>8

\* A call whose program counter, request and count stay keeps its rows.
LEMMA HeldStays ==
  ASSUME NEW c \in Call, pc'[c] = pc[c], target'[c] = target[c], last'[c] = last[c]
  PROVE  Held(c)' = Held(c)
BY DEF Held

\* A call that begins disturbs nothing but its own program counter.
LEMMA BeginKeepsTypes ==
  ASSUME TypeOK, NEW c \in Call, NEW step \in {"send", "view", "submit"},
         NEW r \in Signer \cup {NoSigner}, step # "send" => r \in Signer,
         Begin(c, step, r)
  PROVE  TypeOK'
<1>1. served' \in 0..MaxCalls
  <2>1. served \in 0..MaxCalls
    BY DEF TypeOK
  <2>2. served < MaxCalls /\ served' = served + 1
    BY DEF Begin
  <2> QED
    BY <2>1, <2>2, SigningAssumption
<1>2. pc' \in [Call -> Statement]
  BY DEF TypeOK, Begin, Statement
<1>3. target' \in [Call -> Signer \cup {NoSigner}]
  BY DEF TypeOK, Begin
<1>4. CallsHoldLocks'
  <2>1. \A d \in Call : Held(d)' = Held(d)
    <3>1. Held(c)' = {} /\ Held(c) = {}
      <4>1. pc[c] = "idle" /\ pc'[c] = step
        BY DEF TypeOK, Begin
      <4> QED
        BY <4>1 DEF Held
    <3>2. ASSUME NEW d \in Call, d # c PROVE Held(d)' = Held(d)
      <4>1. pc'[d] = pc[d] /\ target'[d] = target[d] /\ last'[d] = last[d]
        BY <3>2 DEF TypeOK, Begin
      <4> QED
        BY <4>1, HeldStays
    <3> QED
      BY <3>1, <3>2
  <2>2. \A d \in Call : /\ pc'[d] \notin {"idle", "send"} => target'[d] \in Signer
                        /\ pc'[d] = "complete" => last'[d]
    BY DEF TypeOK, CallsHoldLocks, Begin
  <2>3. lock' = lock
    BY DEF Begin
  <2> QED
    BY <2>1, <2>2, <2>3 DEF TypeOK, CallsHoldLocks
<1>5. TablesOK'
  BY DEF TypeOK, TablesOK, Begin, tables
<1> QED
  BY <1>1, <1>2, <1>3, <1>4, <1>5 DEF TypeOK, Begin

\* Nor does a call that ends, which can only release its own rows.
LEMMA FinishKeepsTypes ==
  ASSUME TypeOK, NEW c \in Call, Finish(c), TablesOK'
  PROVE  TypeOK'
<1>1. lock' \in [Row -> Call \cup {NoCall}]
  BY DEF TypeOK, Finish
<1>2. pc' \in [Call -> Statement]
  BY DEF TypeOK, Finish, Step, Statement
<1>3. target' \in [Call -> Signer \cup {NoSigner}] /\ last' \in [Call -> BOOLEAN]
  BY DEF TypeOK, Finish
<1>4. CallsHoldLocks'
  <2>1. ASSUME NEW d \in Call, d # c
        PROVE  /\ Held(d)' = Held(d)
               /\ pc'[d] = pc[d] /\ target'[d] = target[d] /\ last'[d] = last[d]
    <3>1. pc'[d] = pc[d] /\ target'[d] = target[d] /\ last'[d] = last[d]
      BY <2>1 DEF TypeOK, Finish, Step
    <3> QED
      BY <3>1, HeldStays
  <2>2. pc'[c] = "idle" /\ Held(c)' = {}
    <3>1. pc'[c] = "idle"
      BY DEF TypeOK, Finish, Step
    <3> QED
      BY <3>1 DEF Held
  <2>3. \A row \in Row : /\ lock'[row] # c
                         /\ \A d \in Call : d # c => (lock'[row] = d <=> lock[row] = d)
    BY SigningAssumption DEF Finish
  <2> QED
    BY <2>1, <2>2, <2>3 DEF TypeOK, CallsHoldLocks
<1> QED
  BY <1>1, <1>2, <1>3, <1>4 DEF TypeOK, Finish

\* A statement that has got its row: the call holds one row more.
LEMMA UpdateKeepsTypes ==
  ASSUME TypeOK, NEW c \in Call, NEW next \in Statement, Update(c, next),
         Wanted(c) \in Row, target[c] \in Signer, next # "complete",
         Held(c)' = Held(c) \cup {Wanted(c)}
  PROVE  TypeOK'
<1>1. lock' = [lock EXCEPT ![Wanted(c)] = c] /\ lock[Wanted(c)] = NoCall
  BY DEF Update
<1>2. lock' \in [Row -> Call \cup {NoCall}]
  BY <1>1 DEF TypeOK
<1>3. pc' \in [Call -> Statement]
  BY DEF TypeOK, Update, Step
<1>4. CallsHoldLocks'
  <2>1. ASSUME NEW d \in Call, d # c
        PROVE  Held(d)' = Held(d) /\ pc'[d] = pc[d]
    <3>1. pc'[d] = pc[d] /\ target'[d] = target[d] /\ last'[d] = last[d]
      BY <2>1 DEF TypeOK, Update, Step
    <3> QED
      BY <3>1, HeldStays
  <2>2. target' = target /\ last' = last
    BY DEF Update
  <2>3. pc'[c] # "complete"
    BY DEF Update, Step, TypeOK
  <2>4. \A row \in Row : /\ lock'[row] = c <=> lock[row] = c \/ row = Wanted(c)
                         /\ \A d \in Call : d # c => (lock'[row] = d <=> lock[row] = d)
    BY <1>1, SigningAssumption DEF TypeOK
  <2> QED
    BY <2>1, <2>2, <2>3, <2>4 DEF TypeOK, CallsHoldLocks
<1>5. TablesOK'
  BY DEF TypeOK, TablesOK, Update, tables
<1> QED
  BY <1>2, <1>3, <1>4, <1>5 DEF TypeOK, Update

\* The statements that wait: the row each wants and the rows held by then.
LEMMA UpdatesKeepTypes ==
  ASSUME TypeOK, NEW c \in Call,
         UpdateViewed(c) \/ UpdateSubmitted(c) \/ UpdateCompleted(c)
  PROVE  TypeOK'
<1>1. pc[c] \in Statement /\ target[c] \in Signer /\ pc \in [Call -> Statement]
  BY DEF TypeOK, CallsHoldLocks, UpdateViewed, UpdateSubmitted, UpdateCompleted
<1>2. ASSUME NEW next \in Statement, Update(c, next)
      PROVE  pc'[c] = next /\ target'[c] = target[c] /\ last'[c] = last[c]
  BY <1>2, <1>1 DEF Update, Step
<1>3. CASE pc[c] \in {"view", "submit"}
  <2>1. PICK next \in {"viewRecipient", "submitRecipient"} : Update(c, next)
    BY <1>3 DEF UpdateViewed, UpdateSubmitted, UpdateCompleted
  <2>2. Wanted(c) = <<"request", target[c]>> /\ Wanted(c) \in Row
    BY <1>1, <1>3 DEF Wanted, Row
  <2>3. next \in Statement
    BY DEF Statement
  <2>4. Held(c) = {} /\ Held(c)' = {<<"request", target[c]>>}
    BY <1>2, <1>3, <2>1, <2>3 DEF Held
  <2> QED
    BY <1>1, <2>1, <2>2, <2>3, <2>4, UpdateKeepsTypes
<1>4. CASE pc[c] \in {"viewRecipient", "submitRecipient"}
  <2>1. PICK next \in {"commitView", "count"} : Update(c, next)
    BY <1>4 DEF UpdateViewed, UpdateSubmitted, UpdateCompleted
  <2>2. Wanted(c) = <<"recipient", target[c]>> /\ Wanted(c) \in Row
    BY <1>1, <1>4 DEF Wanted, Row
  <2>3. next \in Statement
    BY DEF Statement
  <2>4. {"request", "recipient"} \X {target[c]} =
           {<<"request", target[c]>>, <<"recipient", target[c]>>}
    OBVIOUS
  <2>5. Held(c) = {<<"request", target[c]>>}
    BY <1>4 DEF Held
  <2>6. Held(c)' = {<<"request", target[c]>>, <<"recipient", target[c]>>}
    BY <1>2, <2>1, <2>3, <2>4 DEF Held
  <2> QED
    BY <1>1, <2>1, <2>2, <2>3, <2>5, <2>6, UpdateKeepsTypes
<1>5. CASE pc[c] = "complete"
  <2>1. Update(c, "commitSubmit")
    BY <1>5 DEF UpdateViewed, UpdateSubmitted, UpdateCompleted
  <2>2. Wanted(c) = Document /\ Wanted(c) \in Row
    BY <1>5 DEF Wanted, Row
  <2>3. "commitSubmit" \in Statement
    BY DEF Statement
  <2>4. last[c]
    BY <1>5 DEF TypeOK, CallsHoldLocks
  <2>5. pc'[c] = "commitSubmit" /\ target'[c] = target[c] /\ last'[c]
    BY <1>2, <2>1, <2>3, <2>4
  <2>6. Held(c) = {"request", "recipient"} \X {target[c]}
    BY <1>5 DEF Held
  <2>7. Held(c)' = ({"request", "recipient"} \X {target[c]}) \cup {Document}
    BY <2>5 DEF Held
  <2> QED
    BY <1>1, <2>1, <2>2, <2>3, <2>6, <2>7, UpdateKeepsTypes
<1> QED
  BY <1>3, <1>4, <1>5 DEF UpdateViewed, UpdateSubmitted, UpdateCompleted

\* What a committed submission changes in submissions, document and jobs.
LEMMA CommitSubmitStores ==
  ASSUME TypeOK, NEW c \in Call, CommitSubmit(c)
  PROVE  /\ target[c] \in Signer
         /\ submissions' = [submissions EXCEPT ![target[c]] = @ + 1]
         /\ \/ last[c] /\ document' = "COMPLETED" /\ finalizations' = finalizations + 1
            \/ ~last[c] /\ document' = document /\ finalizations' = finalizations
         /\ submissions' \in [Signer -> Nat]
         /\ finalizations' \in Nat
         /\ Signed' = Signed \cup {target[c]}
<1>1. target[c] \in Signer
  BY DEF TypeOK, CallsHoldLocks, CommitSubmit
<1>2. submissions' = [submissions EXCEPT ![target[c]] = @ + 1]
  BY DEF CommitSubmit
<1>3. \/ last[c] /\ document' = "COMPLETED" /\ finalizations' = finalizations + 1
      \/ ~last[c] /\ document' = document /\ finalizations' = finalizations
  BY DEF CommitSubmit
<1>4. submissions \in [Signer -> Nat] /\ finalizations \in Nat
  BY DEF TypeOK, TablesOK
<1>5. submissions' \in [Signer -> Nat] /\ finalizations' \in Nat
  BY <1>1, <1>2, <1>3, <1>4
<1>6. Signed' = Signed \cup {target[c]}
  BY <1>1, <1>2, <1>4 DEF Signed
<1> QED
  BY <1>1, <1>2, <1>3, <1>5, <1>6

(* Every variable keeps its type; a call inside its transaction holds the  *)
(* rows it has updated and no others, so no two calls write one row at a   *)
(* time.                                                                   *)
THEOREM TypeCorrect == Spec => []TypeOK
<1>1. Init => TypeOK
  BY SigningAssumption
     DEF Init, TypeOK, TablesOK, CallsHoldLocks, Held, Statement
<1>2. TypeOK /\ [Next]_vars => TypeOK'
  <2> SUFFICES ASSUME TypeOK, [Next]_vars PROVE TypeOK'
    OBVIOUS
  <2>1. ASSUME NEW c \in Call, BeginSend(c) PROVE TypeOK'
    BY <2>1, BeginKeepsTypes DEF BeginSend
  <2>2. ASSUME NEW c \in Call, NEW r \in Signer, BeginView(c, r) PROVE TypeOK'
    BY <2>2, BeginKeepsTypes DEF BeginView
  <2>3. ASSUME NEW c \in Call, NEW r \in Signer, BeginSubmit(c, r) PROVE TypeOK'
    BY <2>3, BeginKeepsTypes DEF BeginSubmit
  <2>4. ASSUME NEW c \in Call, Send(c) PROVE TypeOK'
    <3>1. TablesOK'
      <4>1. CASE Sendable
        <5>1. recipient' \in [Signer -> {"PENDING", "SENT", "VIEWED", "SIGNED"}]
          <6>1. recipient \in [Signer -> {"PENDING", "SENT", "VIEWED", "SIGNED"}]
            BY DEF TypeOK, TablesOK
          <6>2. recipient' = [r \in Signer |->
                                IF recipient[r] = "PENDING" THEN "SENT" ELSE recipient[r]]
            BY <2>4, <4>1 DEF Send
          <6> QED
            BY <6>1, <6>2
        <5> QED
          BY <2>4, <4>1, <5>1 DEF Send, TypeOK, TablesOK
      <4>2. CASE ~Sendable
        BY <2>4, <4>2 DEF Send, TypeOK, TablesOK, tables
      <4> QED
        BY <4>1, <4>2
    <3> QED
      BY <2>4, <3>1, FinishKeepsTypes DEF Send
  <2>5. ASSUME NEW c \in Call, CommitView(c) PROVE TypeOK'
    <3>1. TablesOK'
      BY <2>5 DEF CommitView, TypeOK, TablesOK
    <3> QED
      BY <2>5, <3>1, FinishKeepsTypes DEF CommitView
  <2>6. ASSUME NEW c \in Call, CommitSubmit(c) PROVE TypeOK'
    <3>1. TablesOK'
      <4>1. submissions' \in [Signer -> Nat]
        BY <2>6, CommitSubmitStores DEF TypeOK, TablesOK
      <4>2. /\ document' \in {"DRAFT", "SENT", "COMPLETED"}
            /\ finalizations' \in Nat
        BY <2>6, CommitSubmitStores DEF TypeOK, TablesOK
      <4> QED
        BY <2>6, <4>1, <4>2 DEF CommitSubmit, TypeOK, TablesOK
    <3> QED
      BY <2>6, <3>1, FinishKeepsTypes DEF CommitSubmit
  <2>7. ASSUME NEW c \in Call, RollBack(c) PROVE TypeOK'
    <3>1. TablesOK'
      BY <2>7 DEF RollBack, TypeOK, TablesOK, tables
    <3> QED
      BY <2>7, <3>1, FinishKeepsTypes DEF RollBack
  <2>8. ASSUME NEW c \in Call,
               UpdateViewed(c) \/ UpdateSubmitted(c) \/ UpdateCompleted(c)
        PROVE  TypeOK'
    BY <2>8, UpdatesKeepTypes
  <2>9. ASSUME NEW c \in Call, CountRemaining(c) PROVE TypeOK'
    <3>1. /\ pc[c] = "count"
          /\ last' = [last EXCEPT ![c] = Remaining(target[c]) = {}]
          /\ pc' = [pc EXCEPT ![c] = IF last'[c] THEN "complete" ELSE "commitSubmit"]
          /\ UNCHANGED <<tables, expired, lock, target, served>>
      BY <2>9 DEF CountRemaining, Step
    <3>2. /\ last' \in [Call -> BOOLEAN]
          /\ pc' \in [Call -> Statement]
      BY <3>1 DEF TypeOK, Statement
    <3>3. \/ last'[c] = TRUE /\ pc'[c] = "complete"
          \/ last'[c] = FALSE /\ pc'[c] = "commitSubmit"
      BY <3>1, <3>2 DEF TypeOK
    <3>4. Held(c)' = Held(c)
      <4>1. Held(c) = {"request", "recipient"} \X {target[c]}
        BY <3>1 DEF Held
      <4>2. Held(c)' = {"request", "recipient"} \X {target[c]}
        BY <3>1, <3>3 DEF Held
      <4> QED
        BY <4>1, <4>2
    <3>5. \A d \in Call : d # c => Held(d)' = Held(d) /\ pc'[d] = pc[d] /\ last'[d] = last[d]
      <4> TAKE d \in Call
      <4> HAVE d # c
      <4>1. pc'[d] = pc[d] /\ target'[d] = target[d] /\ last'[d] = last[d]
        BY <3>1 DEF TypeOK
      <4> QED
        BY <4>1, HeldStays
    <3>6. CallsHoldLocks'
      BY <3>1, <3>3, <3>4, <3>5 DEF TypeOK, CallsHoldLocks
    <3> QED
      BY <3>1, <3>2, <3>6 DEF TypeOK, TablesOK, tables
  <2>10. CASE UNCHANGED <<pc, target, last, lock>> /\ TablesOK' /\ served' = served
                 /\ expired' \in [Signer -> BOOLEAN]
    <3>1. \A d \in Call : Held(d)' = Held(d)
      BY <2>10, HeldStays
    <3> QED
      BY <2>10, <3>1 DEF TypeOK, CallsHoldLocks
  <2>11. ASSUME NEW r \in Signer, Expire(r) PROVE TypeOK'
    BY <2>10, <2>11 DEF Expire, TypeOK, TablesOK, tables
  <2>12. CASE UNCHANGED vars
    BY <2>10, <2>12 DEF vars, tables, TypeOK, TablesOK
  <2> QED
    BY <2>1, <2>2, <2>3, <2>4, <2>5, <2>6, <2>7, <2>8, <2>9, <2>11,
       <2>12 DEF Next, Progress
<1> QED
  BY <1>1, <1>2, PTL DEF Spec

-----------------------------------------------------------------------------
LEMMA IInvInit == Init => IInv
BY SigningAssumption
   DEF Init, IInv, CompletedMeansAllSigned, CompletedRequestSigned,
       LastHasSeenOthers, SentHasRequests, FinalizedIffCompleted,
       SubmittedOnlyAfterSend, Signed, PdfRequested

\* Steps that write no table can only disturb what is said about the calls.
LEMMA QuietStep ==
  ASSUME IInv, UNCHANGED tables,
         \A c \in Call : last'[c] =>
            last[c] /\ pc'[c] = pc[c] /\ target'[c] = target[c],
         \A c \in Call : pc'[c] \notin {"idle", "send"} =>
            pc[c] \notin {"idle", "send"} \/ document # "DRAFT"
  PROVE  IInv'
<1>1. Signed' = Signed /\ (PdfRequested' <=> PdfRequested)
  BY DEF Signed, PdfRequested, tables
<1> QED
  BY <1>1 DEF IInv, CompletedMeansAllSigned, CompletedRequestSigned,
     LastHasSeenOthers, SentHasRequests, FinalizedIffCompleted,
     SubmittedOnlyAfterSend, tables

LEMMA IInvStep == TypeOK /\ IInv /\ [Next]_vars => IInv'
<1> SUFFICES ASSUME TypeOK, IInv, [Next]_vars PROVE IInv'
  OBVIOUS
<1> DEFINE Quiet == /\ UNCHANGED tables
                    /\ \A d \in Call : last'[d] =>
                          last[d] /\ pc'[d] = pc[d] /\ target'[d] = target[d]
                    /\ \A d \in Call : pc'[d] \notin {"idle", "send"} =>
                          pc[d] \notin {"idle", "send"} \/ document # "DRAFT"
<1>0. Quiet => IInv'
  BY QuietStep
<1>a. /\ pc \in [Call -> Statement]
      /\ target \in [Call -> Signer \cup {NoSigner}]
      /\ last \in [Call -> BOOLEAN]
      /\ \A c \in Call : last[c] => pc[c] \in {"complete", "commitSubmit"}
  BY DEF TypeOK, IInv, LastHasSeenOthers
<1> HIDE DEF Quiet
<1>1. ASSUME NEW c \in Call, BeginSend(c) PROVE IInv'
  <2>1. Quiet
    BY <1>1, <1>a DEF Quiet, BeginSend, Begin, tables
  <2> QED
    BY <2>1, <1>0
<1>2. ASSUME NEW c \in Call, NEW r \in Signer, BeginView(c, r) PROVE IInv'
  <2>1. Quiet
    BY <1>2, <1>a DEF Quiet, BeginView, Begin, Usable, tables, SentHasRequests, IInv
  <2> QED
    BY <2>1, <1>0
<1>3. ASSUME NEW c \in Call, NEW r \in Signer, BeginSubmit(c, r) PROVE IInv'
  <2>1. Quiet
    BY <1>3, <1>a DEF Quiet, BeginSubmit, Begin, Usable, tables, SentHasRequests, IInv
  <2> QED
    BY <2>1, <1>0
<1>4. ASSUME NEW c \in Call, UpdateViewed(c) PROVE IInv'
  <2>1. Quiet
    BY <1>4, <1>a DEF Quiet, UpdateViewed, Update, Step, tables
  <2> QED
    BY <2>1, <1>0
<1>5. ASSUME NEW c \in Call, UpdateSubmitted(c) PROVE IInv'
  <2>1. Quiet
    BY <1>5, <1>a DEF Quiet, UpdateSubmitted, Update, Step, tables
  <2> QED
    BY <2>1, <1>0
<1>6. ASSUME NEW c \in Call, RollBack(c) PROVE IInv'
  <2>1. Quiet
    BY <1>6, <1>a DEF Quiet, RollBack, Finish, Step, tables
  <2> QED
    BY <2>1, <1>0
<1>7. ASSUME NEW r \in Signer, Expire(r) PROVE IInv'
  <2>1. Quiet
    BY <1>7, <1>a DEF Quiet, Expire, tables
  <2> QED
    BY <2>1, <1>0
<1>8. CASE UNCHANGED vars
  <2>1. Quiet
    BY <1>8 DEF Quiet, vars
  <2> QED
    BY <2>1, <1>0
<1>9. ASSUME NEW c \in Call, Send(c) PROVE IInv'
  <2>1. CASE Sendable
    <3>1. Signed' = Signed /\ (PdfRequested' <=> PdfRequested)
      BY <1>9, <2>1 DEF Send, Signed, PdfRequested
    <3>2. document = "DRAFT" /\ document' = "SENT" /\ Signed = {}
      BY <1>9, <2>1 DEF Send, Sendable, IInv, SubmittedOnlyAfterSend
    <3>3. request' = [r \in Signer |-> "PENDING"]
      BY <1>9, <2>1 DEF Send
    <3>4. \A d \in Call : last'[d] =>
             last[d] /\ pc'[d] = pc[d] /\ target'[d] = target[d]
      BY <1>9, <1>a DEF Send, Finish, Step
    <3> QED
      BY <3>1, <3>2, <3>3, <3>4
         DEF IInv, CompletedMeansAllSigned, CompletedRequestSigned,
             LastHasSeenOthers, SentHasRequests, FinalizedIffCompleted,
             SubmittedOnlyAfterSend
  <2>2. CASE ~Sendable
    <3>1. Quiet
      BY <1>9, <2>2, <1>a DEF Quiet, Send, Finish, Step, tables
    <3> QED
      BY <3>1, <1>0
  <2> QED
    BY <2>1, <2>2
<1>10. ASSUME NEW c \in Call, CommitView(c) PROVE IInv'
  <2>1. Signed' = Signed /\ (PdfRequested' <=> PdfRequested) /\ document' = document
    BY <1>10 DEF CommitView, Signed, PdfRequested
  <2>2. document # "DRAFT"
    BY <1>10 DEF CommitView, IInv, SentHasRequests
  <2>3. request' = [request EXCEPT ![target[c]] = "VIEWED"]
    BY <1>10 DEF CommitView
  <2>4. request \in [Signer -> {"ABSENT", "PENDING", "VIEWED", "COMPLETED"}]
    BY DEF TypeOK, TablesOK
  <2>5. \A d \in Call : last'[d] =>
           last[d] /\ pc'[d] = pc[d] /\ target'[d] = target[d]
    BY <1>10, <1>a DEF CommitView, Finish, Step
  <2> QED
    BY <2>1, <2>2, <2>3, <2>4, <2>5
       DEF IInv, CompletedMeansAllSigned, CompletedRequestSigned,
           LastHasSeenOthers, SentHasRequests, FinalizedIffCompleted,
           SubmittedOnlyAfterSend
<1>11. ASSUME NEW c \in Call, CountRemaining(c) PROVE IInv'
  <2>1. Signed' = Signed /\ (PdfRequested' <=> PdfRequested) /\ UNCHANGED <<document, request>>
    BY <1>11 DEF CountRemaining, Signed, PdfRequested, tables
  <2>2. last'[c] => Signer \ {target[c]} \subseteq Signed
    BY <1>11, <1>a DEF CountRemaining, Remaining, IInv, CompletedRequestSigned
  <2>3. /\ pc'[c] \in {"complete", "commitSubmit"} /\ target' = target
        /\ \A d \in Call : d # c => pc'[d] = pc[d]
    BY <1>11, <1>a DEF CountRemaining, Step
  <2>4. pc[c] = "count" /\ \A d \in Call : d # c => last'[d] = last[d]
    BY <1>11, <1>a DEF CountRemaining
  <2> QED
    BY <2>1, <2>2, <2>3, <2>4, <1>a
       DEF IInv, CompletedMeansAllSigned, CompletedRequestSigned,
           LastHasSeenOthers, SentHasRequests, FinalizedIffCompleted,
           SubmittedOnlyAfterSend
<1>12. ASSUME NEW c \in Call, CommitSubmit(c) PROVE IInv'
  <2>1. /\ target[c] \in Signer
        /\ Signed' = Signed \cup {target[c]}
    BY <1>12, CommitSubmitStores
  <2>2. /\ document # "DRAFT"
        /\ request' = [request EXCEPT ![target[c]] = "COMPLETED"]
    BY <1>12 DEF CommitSubmit, IInv, SentHasRequests
  <2>3. request \in [Signer -> {"ABSENT", "PENDING", "VIEWED", "COMPLETED"}]
    BY DEF TypeOK, TablesOK
  <2>4. \A d \in Call : last'[d] =>
           last[d] /\ pc'[d] = pc[d] /\ target'[d] = target[d]
    BY <1>12, <1>a DEF CommitSubmit, Finish, Step
  <2>5. \/ last[c] /\ document' = "COMPLETED" /\ PdfRequested'
        \/ document' = document /\ (PdfRequested' <=> PdfRequested)
    <3>1. finalizations \in Nat
      BY DEF TypeOK, TablesOK
    <3>2. \/ last[c] /\ document' = "COMPLETED" /\ finalizations' = finalizations + 1
          \/ ~last[c] /\ document' = document /\ finalizations' = finalizations
      BY <1>12, CommitSubmitStores
    <3> QED
      BY <3>1, <3>2 DEF PdfRequested
  <2>6. last[c] => Signed' = Signer
    BY <2>1 DEF IInv, LastHasSeenOthers, Signed
  <2>7. CompletedMeansAllSigned' /\ FinalizedIffCompleted'
    BY <2>1, <2>5, <2>6
       DEF IInv, CompletedMeansAllSigned, FinalizedIffCompleted, Signed
  <2>8. CompletedRequestSigned' /\ LastHasSeenOthers'
    BY <2>1, <2>2, <2>3, <2>4
       DEF IInv, CompletedRequestSigned, LastHasSeenOthers
  <2>9. SentHasRequests' /\ SubmittedOnlyAfterSend'
    <3>1. document' # "DRAFT"
      BY <2>2, <2>5
    <3>2. \A r \in Signer : request'[r] # "ABSENT"
      BY <2>2, <2>3 DEF IInv, SentHasRequests
    <3> QED
      BY <3>1, <3>2 DEF SentHasRequests, SubmittedOnlyAfterSend
  <2> QED
    BY <2>7, <2>8, <2>9 DEF IInv
<1>13. ASSUME NEW c \in Call, UpdateCompleted(c) PROVE IInv'
  <2>1. /\ UNCHANGED <<tables, target, last>>
        /\ pc[c] = "complete" /\ pc' = [pc EXCEPT ![c] = "commitSubmit"]
    BY <1>13 DEF UpdateCompleted, Update, Step
  <2>2. Signed' = Signed /\ (PdfRequested' <=> PdfRequested)
    BY <2>1 DEF tables, Signed, PdfRequested
  <2>3. LastHasSeenOthers'
    BY <1>a, <2>1, <2>2 DEF IInv, LastHasSeenOthers
  <2>4. SentHasRequests'
    BY <1>a, <2>1 DEF IInv, SentHasRequests, tables
  <2> QED
    BY <2>1, <2>2, <2>3, <2>4
       DEF tables, IInv, CompletedMeansAllSigned, CompletedRequestSigned,
           FinalizedIffCompleted, SubmittedOnlyAfterSend
<1> QED
  BY <1>1, <1>2, <1>3, <1>4, <1>5, <1>6, <1>7, <1>8, <1>9, <1>10, <1>11,
     <1>12, <1>13 DEF Next, Progress

(* In every reachable state a call whose count came out at zero has seen   *)
(* what makes the document complete, however old its observation is.       *)
THEOREM InvariantHolds == Spec => []IInv
BY IInvInit, IInvStep, TypeCorrect, PTL DEF Spec

LEMMA IInvCorrect == Spec => [](TypeOK /\ IInv)
BY InvariantHolds, TypeCorrect, PTL

(* A completed document carries a stored submission of every signer.       *)
THEOREM NeverCompletedEarly == Spec => []CompletedMeansAllSigned
<1>1. IInv => CompletedMeansAllSigned
  BY DEF IInv
<1> QED
  BY <1>1, IInvCorrect, PTL

(* The calls implement the lifecycle: nothing is signed before the send,   *)
(* no signature is taken back, only a signature completes the document,    *)
(* and the PDF is requested exactly when the document is completed.        *)
THEOREM ImplementsLifecycle == Spec => LifecycleSpec
<1>1. Init => L!Init
  BY DEF Init, L!Init, Signed, PdfRequested
<1>2. TypeOK /\ IInv /\ IInv' /\ [Next]_vars => [L!Next]_L!vars
  <2> SUFFICES ASSUME TypeOK, IInv, IInv', [Next]_vars PROVE [L!Next]_L!vars
    OBVIOUS
  <2>1. CASE UNCHANGED tables
    BY <2>1 DEF tables, L!vars, Signed, PdfRequested
  <2>2. ASSUME NEW c \in Call, Send(c) PROVE [L!Next]_L!vars
    <3>1. Signed' = Signed /\ PdfRequested' = PdfRequested
      BY <2>2 DEF Send, tables, Signed, PdfRequested
    <3>2. \/ document = "DRAFT" /\ document' = "SENT"
          \/ document' = document
      BY <2>2 DEF Send, Sendable, tables
    <3> QED
      BY <3>1, <3>2 DEF L!Next, L!Send, L!vars
  <2>3. ASSUME NEW c \in Call, CommitView(c) PROVE [L!Next]_L!vars
    BY <2>3 DEF CommitView, L!vars, Signed, PdfRequested
  <2>4. ASSUME NEW c \in Call, CommitSubmit(c) PROVE [L!Next]_L!vars
    <3>1. target[c] \in Signer /\ Signed' = Signed \cup {target[c]}
      BY <2>4, CommitSubmitStores
    <3>2. document # "DRAFT"
      BY <2>4 DEF CommitSubmit, IInv, SentHasRequests
    <3>3. CASE last[c]
      <4>1. document' = "COMPLETED"
        BY <2>4, <3>3, CommitSubmitStores
      <4>2. Signed' = Signer /\ PdfRequested' = TRUE
        BY <4>1 DEF IInv, CompletedMeansAllSigned, FinalizedIffCompleted, PdfRequested
      <4> QED
        BY <3>1, <3>2, <4>1, <4>2 DEF L!Next, L!Sign
    <3>4. CASE ~last[c]
      <4>1. document' = document /\ PdfRequested' = PdfRequested
        BY <2>4, <3>4, CommitSubmitStores DEF PdfRequested
      <4> QED
        BY <3>1, <3>2, <4>1 DEF L!Next, L!Sign
    <3> QED
      BY <3>3, <3>4
  <2>5. \/ UNCHANGED tables
        \/ \E c \in Call : Send(c) \/ CommitView(c) \/ CommitSubmit(c)
    BY DEF Next, Progress, vars, BeginSend, BeginView, BeginSubmit, Begin,
           UpdateViewed, UpdateSubmitted, UpdateCompleted, Update,
           CountRemaining, RollBack, Expire
  <2> QED
    BY <2>1, <2>2, <2>3, <2>4, <2>5
<1> QED
  BY <1>1, <1>2, IInvCorrect, PTL DEF Spec, LifecycleSpec, L!Spec

-----------------------------------------------------------------------------
(* Every transaction updates its rows in one order: the request, the       *)
(* recipient, the document.                                                *)
Place(row) == CASE row[1] = "request" -> 1
                [] row[1] = "recipient" -> 2
                [] OTHER -> 3

LEMMA WaitsUpwards ==
  ASSUME TypeOK, NEW c \in Call, NEW d \in Call,
         WaitsFor(c, d), Wanted(d) \in Row
  PROVE  Place(Wanted(c)) < Place(Wanted(d))
<1>1. Wanted(c) \in Row /\ Wanted(c) \in Held(d)
  BY DEF WaitsFor, TypeOK, CallsHoldLocks
<1>2. pc[d] \in Statement
  BY DEF TypeOK
<1>3. CASE pc[d] \in {"viewRecipient", "submitRecipient"}
  <2>1. Wanted(c) = <<"request", target[d]>> /\ Wanted(d) = <<"recipient", target[d]>>
    BY <1>1, <1>3, HeldRows DEF Wanted
  <2> QED
    BY <2>1 DEF Place
<1>4. CASE pc[d] = "complete"
  <2>1. Wanted(c) = <<"request", target[d]>> \/ Wanted(c) = <<"recipient", target[d]>>
    BY <1>1, <1>4, HeldRows
  <2>2. Wanted(d) = <<"document", NoSigner>>
    BY <1>4 DEF Wanted, Document
  <2> QED
    BY <2>1, <2>2 DEF Place
<1>5. CASE pc[d] \in {"idle", "send", "view", "submit"}
  BY <1>1, <1>5, HeldRows
<1>6. CASE pc[d] \in {"commitView", "count", "commitSubmit"}
  <2>1. Wanted(d) = <<>>
    BY <1>6 DEF Wanted
  <2>2. <<>> \notin Row
    BY DEF Row, Document
  <2> QED
    BY <2>1, <2>2
<1> QED
  BY <1>2, <1>3, <1>4, <1>5, <1>6 DEF Statement

(* Of any calls that overlap, however many and whatever they do, one does  *)
(* not wait for another of them: the order of the rows leaves at most      *)
(* three places for a chain of waits.                                      *)
THEOREM NoDeadlock == Spec => []NoCircularWait
<1>1. TypeOK => NoCircularWait
  <2> SUFFICES ASSUME TypeOK, NEW waiting \in SUBSET Call, waiting # {},
                      \A c \in waiting : \E d \in waiting : WaitsFor(c, d)
               PROVE  FALSE
    BY DEF NoCircularWait
  <2>1. \A c \in waiting : Wanted(c) \in Row /\ Place(Wanted(c)) \in 1..3
    BY DEF WaitsFor, Place
  <2>2. \A c \in waiting : \E d \in waiting : Place(Wanted(c)) < Place(Wanted(d))
    BY <2>1, WaitsUpwards
  <2>3. PICK c1 \in waiting : TRUE
    OBVIOUS
  <2>4. PICK c2 \in waiting : Place(Wanted(c1)) < Place(Wanted(c2))
    BY <2>2
  <2>5. PICK c3 \in waiting : Place(Wanted(c2)) < Place(Wanted(c3))
    BY <2>2
  <2>6. PICK c4 \in waiting : Place(Wanted(c3)) < Place(Wanted(c4))
    BY <2>2
  <2> QED
    BY <2>1, <2>4, <2>5, <2>6
<1> QED
  BY <1>1, TypeCorrect, PTL

-----------------------------------------------------------------------------
(* As long as calls do not overlap (SigningOverlap).                       *)
\* A call that was let in finds its request open until it has completed it,
\* and what it has counted stays so; the tables agree with each other.
Agree == /\ \A r \in Signer : submissions[r] = IF request[r] = "COMPLETED" THEN 1 ELSE 0
         /\ finalizations = IF document = "COMPLETED" THEN 1 ELSE 0
         /\ document = "COMPLETED" <=> \A r \in Signer : request[r] = "COMPLETED"
Knows == \A c \in Call :
            /\ pc[c] \notin {"idle", "send"} => request[target[c]] # "COMPLETED"
            /\ pc[c] \in {"complete", "commitSubmit"} =>
                  (last[c] <=> \A q \in Signer \ {target[c]} : request[q] = "COMPLETED")
SeqInv == Agree /\ Knows

\* A call that ends leaves nothing to know.
LEMMA FinishKnows ==
  ASSUME Sole, TypeOK, NEW c \in Call, pc[c] # "idle", Finish(c)
  PROVE  Knows'
<1>1. \A d \in Call : pc'[d] = "idle"
  BY DEF Sole, Finish, Step, TypeOK
<1> QED
  BY <1>1 DEF Knows

LEMMA SeqStep ==
  ASSUME Sole, Sole', TypeOK, IInv, SeqInv, [Next]_vars
  PROVE  SeqInv'
<1>a. /\ pc \in [Call -> Statement]
      /\ target \in [Call -> Signer \cup {NoSigner}]
      /\ last \in [Call -> BOOLEAN]
      /\ request \in [Signer -> {"ABSENT", "PENDING", "VIEWED", "COMPLETED"}]
      /\ submissions \in [Signer -> Nat] /\ finalizations \in Nat
      /\ \A c \in Call : pc[c] \notin {"idle", "send"} => target[c] \in Signer
  BY DEF TypeOK, TablesOK, CallsHoldLocks
<1>b. UNCHANGED tables => Agree'
  BY DEF SeqInv, Agree, tables
<1>1. ASSUME NEW c \in Call, NEW r \in Signer, BeginView(c, r) \/ BeginSubmit(c, r) PROVE SeqInv'
  <2>1. /\ Usable(r) /\ UNCHANGED tables /\ pc'[c] \in {"view", "submit"} /\ target'[c] = r
    BY <1>1, <1>a DEF BeginView, BeginSubmit, Begin
  <2>2. Knows'
    BY <2>1 DEF Sole, Knows, Usable, tables
  <2> QED
    BY <1>b, <2>1, <2>2 DEF SeqInv
<1>2. ASSUME NEW c \in Call, BeginSend(c) PROVE SeqInv'
  <2>1. pc'[c] = "send" /\ UNCHANGED tables
    BY <1>2, <1>a DEF BeginSend, Begin
  <2>2. Knows'
    BY <2>1 DEF Sole, Knows
  <2> QED
    BY <1>b, <2>1, <2>2 DEF SeqInv
<1>3. ASSUME NEW c \in Call, Send(c) PROVE SeqInv'
  <2>1. Knows'
    BY <1>3, FinishKnows DEF Send
  <2>2. CASE Sendable
    <3>1. /\ document = "DRAFT" /\ document' = "SENT"
          /\ \A r \in Signer : request[r] = "ABSENT" /\ request'[r] = "PENDING"
          /\ UNCHANGED <<submissions, finalizations>>
      BY <1>3, <2>2 DEF Send, Sendable, IInv, SentHasRequests
    <3>2. Agree'
      BY <3>1, SigningAssumption DEF SeqInv, Agree
    <3> QED
      BY <2>1, <3>2 DEF SeqInv
  <2>3. CASE ~Sendable
    BY <1>3, <1>b, <2>1, <2>3 DEF Send, SeqInv
  <2> QED
    BY <2>2, <2>3
<1>4. ASSUME NEW c \in Call, UpdateViewed(c) \/ UpdateSubmitted(c) PROVE SeqInv'
  <2>1. /\ UNCHANGED <<tables, target>>
        /\ pc[c] \in {"view", "viewRecipient", "submit", "submitRecipient"}
        /\ pc'[c] \in {"viewRecipient", "commitView", "submitRecipient", "count"}
    BY <1>4, <1>a DEF UpdateViewed, UpdateSubmitted, Update, Step
  <2>2. Knows'
    BY <2>1 DEF Sole, SeqInv, Knows, tables
  <2> QED
    BY <1>b, <2>1, <2>2 DEF SeqInv
<1>5. ASSUME NEW c \in Call, CountRemaining(c) PROVE SeqInv'
  <2>1. /\ UNCHANGED <<tables, target>>
        /\ pc[c] = "count" /\ pc'[c] \in {"complete", "commitSubmit"}
        /\ last'[c] = (Remaining(target[c]) = {})
    BY <1>5, <1>a DEF CountRemaining, Step
  <2>2. last'[c] <=> \A q \in Signer \ {target[c]} : request[q] = "COMPLETED"
    BY <2>1 DEF Remaining
  <2>3. Knows'
    BY <2>1, <2>2 DEF Sole, SeqInv, Knows, tables
  <2> QED
    BY <1>b, <2>1, <2>3 DEF SeqInv
<1>6. ASSUME NEW c \in Call, CommitView(c) PROVE SeqInv'
  <2>1. Knows'
    BY <1>6, FinishKnows DEF CommitView
  <2>2. /\ target[c] \in Signer /\ request[target[c]] # "COMPLETED"
        /\ UNCHANGED <<document, submissions, finalizations>>
    BY <1>6, <1>a DEF CommitView, SeqInv, Knows
  <2>3. \A r \in Signer : request'[r] = "COMPLETED" <=> request[r] = "COMPLETED"
    BY <1>6, <1>a, <2>2 DEF CommitView
  <2>4. Agree'
    BY <2>2, <2>3 DEF SeqInv, Agree
  <2> QED
    BY <2>1, <2>4 DEF SeqInv
<1>7. ASSUME NEW c \in Call, CommitSubmit(c) PROVE SeqInv'
  <2>1. Knows'
    BY <1>7, FinishKnows DEF CommitSubmit
  <2> DEFINE r == target[c]
  <2>2. /\ r \in Signer /\ request[r] # "COMPLETED" /\ submissions[r] = 0
        /\ document # "COMPLETED" /\ finalizations = 0
        /\ last[c] <=> \A q \in Signer \ {r} : request[q] = "COMPLETED"
    BY <1>7, <1>a DEF CommitSubmit, SeqInv, Knows, Agree
  <2>3. \A q \in Signer : /\ q = r => request'[q] = "COMPLETED" /\ submissions'[q] = 1
                          /\ q # r => request'[q] = request[q] /\ submissions'[q] = submissions[q]
    <3>1. /\ request' = [request EXCEPT ![r] = "COMPLETED"]
          /\ submissions' = [submissions EXCEPT ![r] = submissions[r] + 1]
      BY <1>7 DEF CommitSubmit
    <3>2. r \in Signer /\ submissions[r] + 1 = 1
      BY <2>2
    <3> HIDE DEF r
    <3>3. \A q \in Signer : /\ q = r => request'[q] = "COMPLETED"
                            /\ q # r => request'[q] = request[q]
      BY <1>a, <3>1
    <3>4. \A q \in Signer : /\ q = r => submissions'[q] = 1
                            /\ q # r => submissions'[q] = submissions[q]
      BY <1>a, <3>1, <3>2
    <3> QED
      BY <3>3, <3>4
  <2>4. \/ last[c] /\ document' = "COMPLETED" /\ finalizations' = 1
        \/ ~last[c] /\ document' = document /\ finalizations' = finalizations
    BY <1>7, <2>2, CommitSubmitStores
  <2>5. last[c] <=> \A q \in Signer : request'[q] = "COMPLETED"
    BY <2>2, <2>3
  <2> HIDE DEF r
  <2>6. \A q \in Signer : submissions'[q] = IF request'[q] = "COMPLETED" THEN 1 ELSE 0
    BY <2>3 DEF SeqInv, Agree
  <2>7. Agree'
    BY <2>2, <2>4, <2>5, <2>6 DEF Agree
  <2> QED
    BY <2>1, <2>7 DEF SeqInv
<1>8. ASSUME NEW c \in Call, RollBack(c) PROVE SeqInv'
  BY <1>8, <1>b, FinishKnows DEF RollBack, SeqInv
<1>9. ASSUME NEW r \in Signer, Expire(r) PROVE SeqInv'
  BY <1>9, <1>b DEF Expire, SeqInv, Knows, tables
<1>10. CASE UNCHANGED vars
  BY <1>10, <1>b DEF vars, tables, SeqInv, Knows
<1>11. ASSUME NEW c \in Call, UpdateCompleted(c) PROVE SeqInv'
  <2>1. /\ UNCHANGED <<tables, target, last>>
        /\ pc[c] = "complete" /\ pc'[c] = "commitSubmit"
    BY <1>11, <1>a DEF UpdateCompleted, Update, Step
  <2>2. Knows'
    BY <2>1 DEF Sole, SeqInv, Knows, tables
  <2> QED
    BY <1>b, <2>1, <2>2 DEF SeqInv
<1> QED
  BY <1>1, <1>2, <1>3, <1>4, <1>5, <1>6, <1>7, <1>8, <1>9, <1>10, <1>11
     DEF Next, Progress

\* Nothing is promised once two calls have overlapped.
HistoryInv == ~overlapped => Sole /\ SeqInv

LEMMA HistoryInvCorrect == HistorySpec => [](TypeOK /\ IInv /\ HistoryInv)
<1>1. HistorySpec => Spec
  <2>1. HistoryInit => Init
    BY DEF HistoryInit
  <2>2. [HistoryNext]_history => [Next]_vars
    BY DEF HistoryNext, history
  <2> QED
    BY <2>1, <2>2, PTL DEF HistorySpec, Spec
<1>2. HistoryInit => HistoryInv
  BY SigningAssumption DEF HistoryInit, Init, HistoryInv, Sole, SeqInv, Agree, Knows
<1>3. TypeOK /\ IInv /\ HistoryInv /\ [HistoryNext]_history => HistoryInv'
  <2> SUFFICES ASSUME TypeOK, IInv, HistoryInv, [HistoryNext]_history, ~overlapped'
               PROVE  Sole' /\ SeqInv'
    BY DEF HistoryInv
  <2>1. ~overlapped /\ Sole'
    <3>1. CASE HistoryNext
      BY <3>1 DEF HistoryNext
    <3>2. CASE UNCHANGED history
      BY <3>2 DEF history, vars, HistoryInv, Sole
    <3> QED
      BY <3>1, <3>2
  <2>2. [Next]_vars
    BY DEF HistoryNext, history
  <2> QED
    BY <2>1, <2>2, SeqStep DEF HistoryInv
<1> QED
  BY <1>1, <1>2, <1>3, IInvCorrect, PTL DEF HistorySpec

(* As long as calls do not overlap, the last signature completes the       *)
(* document: no request is left open that nobody can reach any more.       *)
THEOREM LastSignatureCompletes == HistorySpec => []AllSignedCompletes
<1>1. HistoryInv => AllSignedCompletes
  BY DEF HistoryInv, SeqInv, Agree, AllSignedCompletes
<1> QED
  BY <1>1, HistoryInvCorrect, PTL

(* As long as calls do not overlap, one PDF is requested and every signer  *)
(* is recorded once.                                                       *)
THEOREM OneRecording == HistorySpec => []RecordedOnce
<1>1. HistoryInv => RecordedOnce
  BY DEF HistoryInv, SeqInv, Agree, RecordedOnce
<1> QED
  BY <1>1, HistoryInvCorrect, PTL

(* As long as calls do not overlap, a completed request stays completed:   *)
(* no view and no second send reopens it.                                  *)
THEOREM CompletedStays == HistorySpec => CompletedIsFinal
<1>1. TypeOK /\ IInv /\ HistoryInv /\ [HistoryNext]_history =>
         [~overlapped' =>
            \A r \in Signer : request[r] = "COMPLETED" => request'[r] = "COMPLETED"]_history
  <2> SUFFICES ASSUME TypeOK, IInv, HistoryInv, HistoryNext, ~overlapped',
                      NEW r \in Signer, request[r] = "COMPLETED"
               PROVE  request'[r] = "COMPLETED"
    OBVIOUS
  <2>0. SeqInv /\ Next
    BY DEF HistoryInv, HistoryNext
  <2>1. ASSUME NEW c \in Call, Send(c) PROVE request'[r] = "COMPLETED"
    BY <2>1 DEF Send, Sendable, tables, IInv, SentHasRequests
  <2>2. ASSUME NEW c \in Call, CommitView(c) \/ CommitSubmit(c) PROVE request'[r] = "COMPLETED"
    BY <2>0, <2>2 DEF CommitView, CommitSubmit, SeqInv, Knows, TypeOK, TablesOK
  <2>3. CASE UNCHANGED request
    BY <2>3
  <2> QED
    BY <2>0, <2>1, <2>2, <2>3 DEF Next, Progress, BeginSend, BeginView, BeginSubmit, Begin,
       UpdateViewed, UpdateSubmitted, UpdateCompleted, Update, CountRemaining, RollBack,
       Expire, tables
<1> QED
  BY <1>1, HistoryInvCorrect, PTL DEF CompletedIsFinal, HistorySpec

-----------------------------------------------------------------------------
(* How many PDF jobs there can be.  The rows of submissions are counted as *)
(* they are inserted, one by each CommitSubmit.                            *)
CountInv == IsFiniteSet(Stored) /\ FinalizationsBounded

LEMMA StoredGrows ==
  ASSUME TypeOK, NEW c \in Call, CommitSubmit(c), IsFiniteSet(Stored)
  PROVE  IsFiniteSet(Stored)' /\ Cardinality(Stored)' = Cardinality(Stored) + 1
<1> DEFINE r == target[c]
           row == <<r, submissions[r] + 1>>
<1>1. r \in Signer /\ submissions \in [Signer -> Nat]
  BY CommitSubmitStores DEF TypeOK, TablesOK
<1>2. submissions' = [submissions EXCEPT ![r] = submissions[r] + 1]
  BY <1>1, CommitSubmitStores
<1> HIDE DEF r
<1>3. \A q \in Signer, n \in Nat :
         n \in 1..submissions'[q] <=> n \in 1..submissions[q] \/ (q = r /\ n = submissions[r] + 1)
  BY <1>1, <1>2
<1>4. \A q \in Signer : 1..submissions[q] \subseteq Nat /\ 1..submissions'[q] \subseteq Nat
  OBVIOUS
<1>5. \A x : x \in Stored' <=> x \in Stored \/ x = row
  <2>1. \A x : x \in Stored <=>
           \E q \in Signer : \E n \in Nat : n \in 1..submissions[q] /\ x = <<q, n>>
    BY <1>4 DEF Stored
  <2>2. \A x : x \in Stored' <=>
           \E q \in Signer : \E n \in Nat : n \in 1..submissions'[q] /\ x = <<q, n>>
    BY <1>4 DEF Stored
  <2> QED
    BY <1>1, <1>3, <2>1, <2>2
<1>6. row \notin Stored
  BY <1>1 DEF Stored
<1>7. Stored' = Stored \cup {row}
  BY <1>5
<1> HIDE DEF row
<1> QED
  BY <1>6, <1>7, FS_AddElement

LEMMA CountStep == TypeOK /\ IInv /\ CountInv /\ [Next]_vars => CountInv'
<1> SUFFICES ASSUME TypeOK, IInv, CountInv, [Next]_vars PROVE CountInv'
  OBVIOUS
<1>0. finalizations \in Nat /\ Cardinality(Signer) \in Nat /\ Cardinality(Stored) \in Nat
  BY SigningAssumption, FS_CardinalityType DEF TypeOK, TablesOK, CountInv
<1>1. ASSUME NEW c \in Call, CommitSubmit(c) PROVE CountInv'
  <2>1. IsFiniteSet(Stored)' /\ Cardinality(Stored)' = Cardinality(Stored) + 1
    BY <1>1, StoredGrows DEF CountInv
  <2>2. /\ finalizations' \in Nat /\ submissions' \in [Signer -> Nat]
        /\ target[c] \in Signer /\ Signed' = Signed \cup {target[c]}
        /\ \/ last[c] /\ finalizations' = finalizations + 1
           \/ finalizations' = finalizations
    BY <1>1, CommitSubmitStores
  <2>3. CASE PdfRequested
    BY <1>0, <2>1, <2>2, <2>3 DEF CountInv, FinalizationsBounded
  <2>4. CASE ~PdfRequested /\ last[c]
    <3>1. Signed' = Signer
      BY <2>2, <2>4 DEF IInv, LastHasSeenOthers, Signed
    <3>2. Cardinality(Signer) <= Cardinality(Stored')
      <4> DEFINE first == [r \in Signer |-> <<r, 1>>]
      <4>1. \A r \in Signer : <<r, 1>> \in Stored'
        BY <2>2, <3>1 DEF Signed, Stored
      <4>2. first \in Injection(Signer, Stored')
        BY <4>1 DEF Injection, IsInjective
      <4> QED
        BY <2>1, <4>2, FS_Injection
    <3>3. finalizations' <= 1
      BY <1>0, <2>2, <2>4 DEF PdfRequested
    <3> QED
      BY <1>0, <2>1, <2>2, <3>2, <3>3 DEF CountInv, FinalizationsBounded
  <2>5. CASE ~PdfRequested /\ ~last[c]
    BY <1>1, <2>1, <2>5, CommitSubmitStores DEF CountInv, FinalizationsBounded, PdfRequested
  <2> QED
    BY <2>3, <2>4, <2>5
<1>2. CASE UNCHANGED <<submissions, finalizations>>
  BY <1>2 DEF CountInv, Stored, FinalizationsBounded, PdfRequested
<1>3. ASSUME NEW c \in Call, BeginSend(c) \/ Send(c) \/ UpdateViewed(c) \/ CommitView(c)
                \/ UpdateSubmitted(c) \/ CountRemaining(c) \/ UpdateCompleted(c)
                \/ RollBack(c)
      PROVE  UNCHANGED <<submissions, finalizations>>
  BY <1>3 DEF BeginSend, Begin, Send, UpdateViewed, CommitView, UpdateSubmitted,
     UpdateCompleted, Update, CountRemaining, RollBack, tables
<1>4. ASSUME NEW c \in Call, NEW r \in Signer, BeginView(c, r) \/ BeginSubmit(c, r)
      PROVE  UNCHANGED <<submissions, finalizations>>
  BY <1>4 DEF BeginView, BeginSubmit, Begin, tables
<1>5. ASSUME NEW r \in Signer, Expire(r) PROVE UNCHANGED <<submissions, finalizations>>
  BY <1>5 DEF Expire, tables
<1> QED
  BY <1>1, <1>2, <1>3, <1>4, <1>5 DEF Next, Progress, vars, tables

(* There is at most one PDF job for each submission beyond those that      *)
(* complete the document: finalization is requested twice only when a      *)
(* signer was recorded twice (CommitSubmit does not look at the request    *)
(* again).                                                                 *)
THEOREM SurplusJobsNeedSurplusSubmissions == Spec => []FinalizationsBounded
<1>1. Init => CountInv
  <2> SUFFICES ASSUME Init PROVE CountInv
    OBVIOUS
  <2>1. Stored = {}
    BY DEF Init, Stored
  <2> QED
    BY <2>1, FS_EmptySet DEF Init, CountInv, FinalizationsBounded, PdfRequested
<1>2. CountInv => FinalizationsBounded
  BY DEF CountInv
<1> QED
  BY <1>1, <1>2, CountStep, IInvCorrect, PTL DEF Spec
=============================================================================
