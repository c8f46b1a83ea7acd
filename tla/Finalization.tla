---------------------------- MODULE Finalization ----------------------------
(***************************************************************************)
(* From the send to the final PDF: the endpoints, the outbox and the queue *)
(* consumers on the rows and jobs that they share.                         *)
(*                                                                         *)
(* The endpoints are taken for what DocumentLifecycle says of them and the *)
(* outbox for what Handoff says of it, which SigningWorkflow and Outbox    *)
(* implement; the consumers are those of JobWorkers.  Sending promises an  *)
(* e-mail to every signer, completing creates a job record and promises    *)
(* the PDF, both in the transaction that changes the document; handing an  *)
(* event over adds its job.                                                *)
(***************************************************************************)
EXTENDS JobWorkers

CONSTANTS Signer,      \* recipients who sign; Request are those whose e-mail is followed
          MaxAttempts  \* of the outbox

ASSUME FinalAssumption == /\ Request \subseteq Signer /\ Record \cap Request = {}
                          /\ MaxAttempts \in Nat \ {0}

VARIABLES
    phase,     \* documents.status
    signed,    \* signers with a stored submission
    promised,  \* committed outbox events: a request (its e-mail), a record (its PDF)
    tries, acked, dead

endpoints == <<phase, signed>>
outbox == <<promised, tries, acked, dead>>
system == <<vars, endpoints, outbox>>

Event == Record \cup Request

JobOf == [e \in Event |-> IF e \in Record THEN Pdf ELSE e]
Payload(e) == IF e \in Record THEN e ELSE None

H == INSTANCE Handoff WITH queue <- HandedOver

L == INSTANCE DocumentLifecycle WITH requested <- promised \cap Record # {}

FinalInit ==
    /\ Init
    /\ phase = "DRAFT" /\ signed = {}
    /\ promised = {} /\ tries = [e \in Event |-> 0] /\ acked = {} /\ dead = {}

-----------------------------------------------------------------------------
(***************************************************************************)
(* The endpoints.                                                          *)
(***************************************************************************)
SendDocument ==
    /\ promised' = promised \cup Request
    /\ L!Send
    /\ UNCHANGED <<vars, tries, acked, dead>>

\* (Mutant: every signature completes the document.)
RemainingNever(r) == {}
Remaining(r) == Signer \ (signed \cup {r})

\* A signer signs, possibly again; who finds that nobody remains completes the
\* document, possibly once more.
Sign(r) ==
    /\ phase # "DRAFT"
    /\ \/ /\ UNCHANGED <<phase, promised>>
          /\ L!Sign(r)
       \/ /\ Remaining(r) = {}
          /\ \E e \in Record \ promised : promised' = promised \cup {e}
          /\ signed' = signed \cup {r}
          /\ phase' = "COMPLETED"
    /\ UNCHANGED <<vars, tries, acked, dead>>

-----------------------------------------------------------------------------
(***************************************************************************)
(* The outbox.                                                             *)
(***************************************************************************)
Retried(e) == tries[e] < MaxAttempts

Try(e) == /\ Retried(e)
          /\ UNCHANGED <<vars, endpoints>>
          /\ H!Try(e)

\* The handler of the event adds its job.
Dispatch(e) == Add(JobOf[e], Payload(e)) /\ H!Enqueue(e) /\ UNCHANGED endpoints

Delivered(e) == JobOf[e] \in HandedOver

Acknowledge(e) ==
    /\ e \in H!Open
    /\ Delivered(e)
    /\ acked' = acked \cup {e}
    /\ UNCHANGED <<vars, endpoints, promised, tries, dead>>

Abandon(e) == UNCHANGED <<vars, endpoints>> /\ H!GiveUp(e)

Settle(e) == Try(e) \/ Dispatch(e) \/ Acknowledge(e) \/ Abandon(e)

-----------------------------------------------------------------------------
Aside(A) == A /\ UNCHANGED <<endpoints, outbox>>

Consume ==
    \/ \E j \in Job : StallCheck(j) \/ \E p \in Run : Take(p, j)
    \/ \E p \in Run : Execute(p) \/ LoseLock(p) \/ Crash(p)

FinalNext ==
    \/ SendDocument
    \/ \E r \in Signer : Sign(r)
    \/ \E e \in Event : Settle(e)
    \/ Aside(Consume)

FinalSpec == FinalInit /\ [][FinalNext]_system

\* Outbox.EventuallySettled, and the fairness of the consumers.
FinalFairness ==
    /\ \A e \in Event : WF_system(Try(e)) /\ WF_system(Acknowledge(e) \/ Abandon(e))
    /\ \A j \in Job : /\ WF_system(Aside(StallCheck(j)))
                      /\ WF_system(Aside(\E p \in Run : Take(p, j)))
    /\ \A p \in Run : WF_system(Aside(Execute(p)))

FairFinalSpec == FinalSpec /\ FinalFairness

-----------------------------------------------------------------------------
\* Outcomes are of promised events, and of one kind.
FinalTypeOK ==
    /\ TypeOK
    /\ phase \in {"DRAFT", "SENT", "COMPLETED"} /\ signed \subseteq Signer
    /\ promised \subseteq Event
    /\ acked \subseteq promised /\ dead \subseteq promised /\ acked \cap dead = {}
    /\ tries \in [Event -> 0..MaxAttempts]

\* There is no final PDF, not even in the store, of a document that somebody
\* has not signed, whatever was handed over, repeated or lost in between.
FinalMeansSigned == uploads # <<>> \/ document # 0 => signed = Signer

\* What was acknowledged has a job, so nothing depends on the event any more.
AcknowledgedHasJob == \A e \in acked : JobOf[e] \in HandedOver

\* A document that was completed gets its final PDF, or something on record
\* says why not: its outbox event was given up, or its job failed.
CompletionIsFollowedThrough ==
    phase = "COMPLETED" ~>
        \/ document # 0
        \/ job[Pdf].state = "failed"
        \/ promised \cap Record \subseteq dead
=============================================================================
