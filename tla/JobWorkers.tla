----------------------------- MODULE JobWorkers -----------------------------
(***************************************************************************)
(* The queue consumers of apps/worker: the PDF finalization of a document  *)
(* and the signing e-mails, as BullMQ jobs executed by worker processes.   *)
(*                                                                         *)
(* The queue is external.  A job is added once per id and is never         *)
(* removed; the worker that takes it holds a lock; when the lock is lost   *)
(* (the process died, or its event loop was blocked by a large PDF) the    *)
(* job stalls and is taken again, MaxStalls times at most.  A process that *)
(* lost the lock goes on executing: two executions of a job may overlap.   *)
(* No job has retries, because the handlers of the outbox configure none.  *)
(*                                                                         *)
(* Every remote call may succeed, fail, or fail after having taken effect. *)
(* pdf-lib stamps the time into what it saves, so every execution makes    *)
(* different bytes; they are named by the number of the execution.         *)
(***************************************************************************)
EXTENDS Naturals, Sequences, FiniteSets

CONSTANTS Record,      \* job records: finalizations requested for the document
          Request,     \* signing requests of the document, each an e-mail job
          Pdf,         \* the job document-finalization-<documentId>
          Run,         \* consumers: executions that go on at the same time
          MaxStalls,   \* maxStalledCount of BullMQ
          MaxCrashes,  \* bound on the processes that die
          MaxJobs,     \* bound on the jobs handed over
          None

Job == {Pdf} \cup Request

ASSUME JobAssumption == /\ MaxStalls \in Nat /\ MaxCrashes \in Nat /\ MaxJobs \in Nat
                        /\ Pdf \notin Request /\ None \notin Record \cup Job \cup Run

VARIABLES
    job,        \* BullMQ: state, payload (a job record), lock owner, stalls
    run,        \* each consumer: its job, next step, number of the execution
    record,     \* job_records: the last phase reported
    uploads,    \* what was put under the key of the completed PDF
    document,   \* documents.finalSha256 and completedStorageKey; 0 is null
    audited,    \* hashes of the FINAL_PDF_GENERATED events, in order
    mailed,     \* how often the mail provider accepted the e-mail
    dlq,        \* the dead-letter job of an e-mail
    crashes,
    overlapped, \* two executions of the finalization went on at once
    unreported  \* jobs of which an execution ended without reporting how

tables == <<record, uploads, document, audited, mailed, dlq>>
ghosts == <<overlapped, unreported>>
vars == <<job, run, tables, crashes, ghosts>>

NoJob == [state |-> "none", payload |-> None, owner |-> None, stalls |-> 0]
Idle == [job |-> None, step |-> "idle", nr |-> 0]

Init ==
    /\ job = [j \in Job |-> NoJob]
    /\ run = [p \in Run |-> Idle]
    /\ record = [r \in Record |-> "QUEUED"]
    /\ uploads = <<>>
    /\ document = 0
    /\ audited = <<>>
    /\ mailed = [q \in Request |-> 0]
    /\ dlq = [q \in Request |-> "none"]
    /\ crashes = 0
    /\ overlapped = FALSE
    /\ unreported = {}

Working(j) == {p \in Run : run[p].job = j}
Settled(j) == job[j].state \in {"completed", "failed"}

-----------------------------------------------------------------------------
(***************************************************************************)
(* The queue.                                                              *)
(***************************************************************************)
\* The outbox hands an event over, possibly more than once.  The id of the
\* job is that of the document: a second finalization is not added.
Addable(j) == job[j].state = "none"

HandedOver == {j \in Job : job[j] # NoJob}

Add(j, payload) ==
    /\ \/ /\ Addable(j)
          /\ Cardinality(HandedOver \cup {j}) <= MaxJobs
          /\ job' = [job EXCEPT ![j] = [NoJob EXCEPT !.state = "waiting",
                                                    !.payload = payload]]
       \/ ~Addable(j) /\ UNCHANGED job
    /\ UNCHANGED <<run, tables, crashes, ghosts>>

FirstStep(j) == IF j = Pdf THEN "downloading" ELSE "sending"

Take(p, j) ==
    /\ run[p] = Idle
    /\ job[j].state = "waiting"
    /\ job' = [job EXCEPT ![j].state = "active", ![j].owner = p]
    /\ run' = [run EXCEPT ![p] = [job |-> j, step |-> FirstStep(j),
                                  nr |-> job[j].stalls + 1]]
    /\ overlapped' = (overlapped \/ (j = Pdf /\ Working(Pdf) # {}))
    /\ UNCHANGED <<tables, crashes, unreported>>

Owns(p) == job[run[p].job].owner = p

\* The lock is not renewed in time; the execution goes on.
LoseLock(p) ==
    /\ run[p].job # None
    /\ Owns(p)
    /\ job' = [job EXCEPT ![run[p].job].owner = None]
    /\ UNCHANGED <<run, tables, crashes, ghosts>>

\* (Mutant: jobs whose lock was lost are not looked for.)
StalledNever(j) == FALSE
Stalled(j) == job[j].state = "active" /\ job[j].owner = None

Requeue(j) ==
    /\ Stalled(j)
    /\ job[j].stalls < MaxStalls
    /\ job' = [job EXCEPT ![j].state = "waiting", ![j].stalls = @ + 1]
    /\ UNCHANGED <<run, tables, crashes, ghosts>>

\* The failed handler of the e-mail worker publishes only jobs that used up
\* their attempts; whether a stalled job counts as one is up to the queue.
GiveUp(j) ==
    /\ Stalled(j)
    /\ job[j].stalls = MaxStalls
    /\ job' = [job EXCEPT ![j].state = "failed"]
    /\ unreported' = unreported \cup {j}
    /\ \/ UNCHANGED run
       \/ /\ j # Pdf
          /\ \E p \in Run : /\ run[p] = Idle
                            /\ run' = [run EXCEPT ![p] =
                                  [job |-> j, step |-> "deadLetter", nr |-> 0]]
    /\ UNCHANGED <<tables, crashes, overlapped>>

\* The result of an execution counts only while it holds the lock.
Counts(p) == Owns(p)

\* Fulfilled: the processor returned.  Rejected: it threw, the only attempt
\* is used up, and the failed handler of the e-mails adds a dead letter.
Return(p, state) == LET j == run[p].job IN
    /\ IF Counts(p)
       THEN job' = [job EXCEPT ![j].state = state, ![j].owner = None]
       ELSE UNCHANGED job
    /\ run' = [run EXCEPT ![p] =
                  IF Counts(p) /\ state = "failed" /\ j # Pdf
                  THEN [@ EXCEPT !.step = "deadLetter"] ELSE Idle]
    /\ UNCHANGED <<tables, crashes, ghosts>>

Fulfil(p) == run[p].step = "fulfilled" /\ Return(p, "completed")
Reject(p) == run[p].step = "rejected" /\ Return(p, "failed")

\* The process dies: the execution is gone, the lock is no longer renewed.
Crash(p) == LET j == run[p].job IN
    /\ j # None
    /\ crashes < MaxCrashes
    /\ crashes' = crashes + 1
    /\ job' = IF Owns(p) THEN [job EXCEPT ![j].owner = None] ELSE job
    /\ run' = [run EXCEPT ![p] = Idle]
    /\ unreported' = unreported \cup {j}
    /\ UNCHANGED <<tables, overlapped>>

-----------------------------------------------------------------------------
(***************************************************************************)
(* Steps of an execution.  A remote call that takes effect and succeeds    *)
(* leads to the next step; any failure leads to the catch block.           *)
(***************************************************************************)
At(p, step) == run[p].step = step
Goto(p, step) == run' = [run EXCEPT ![p].step = step]
Local == UNCHANGED <<job, crashes, overlapped>>

Call(p, next, caught, effect, nothing) ==
    \/ effect /\ Goto(p, next)
    \/ (effect \/ nothing) /\ Goto(p, caught)

\* JobProgressService.report: the record, then a publication that only live
\* streams see.
Reported(p, phase) == [record EXCEPT ![job[Pdf].payload] = phase]

Report(p, step, phase, next) ==
    /\ At(p, step)
    /\ Call(p, next, "catch", record' = Reported(p, phase), UNCHANGED record)
    /\ Local
    /\ UNCHANGED <<uploads, document, audited, mailed, dlq, unreported>>

ReportDownloading(p) == Report(p, "downloading", "DOWNLOADING", "loading")

\* The reads, and the loading of the PDF, change nothing; a failure of theirs
\* is a report that failed without effect.
ReportLoading(p) == Report(p, "loading", "LOADING_VALUES", "rendering")
ReportRendering(p) == Report(p, "rendering", "RENDERING", "uploading")
\* (Mutant: the result is recorded before it is uploaded.)
AfterRenderRecord == "record"
AfterRender == "upload"
ReportUploading(p) == Report(p, "uploading", "UPLOADING", AfterRender)

Upload(p) ==
    /\ At(p, "upload")
    /\ Call(p, "record", "catch", uploads' = Append(uploads, run[p].nr),
            UNCHANGED uploads)
    /\ Local
    /\ UNCHANGED <<record, document, audited, mailed, dlq, unreported>>

\* The transaction.
Recorded(p) == document' = run[p].nr /\ audited' = Append(audited, run[p].nr)

RecordResult(p) ==
    /\ At(p, "record")
    /\ Call(p, "completed", "catch", Recorded(p), UNCHANGED <<document, audited>>)
    /\ Local
    /\ UNCHANGED <<record, uploads, mailed, dlq, unreported>>

ReportCompleted(p) == Report(p, "completed", "COMPLETED", "fulfilled")

\* The catch block reports and throws; its report may itself throw.
\* (Mutant: the last report is made in a finally block.)
CaughtCompleted(p) ==
    \/ record' = Reported(p, "COMPLETED") /\ UNCHANGED unreported
    \/ UNCHANGED record /\ unreported' = unreported \cup {Pdf}
Caught(p) ==
    \/ record' = Reported(p, "FAILED") /\ UNCHANGED unreported
    \/ UNCHANGED record /\ unreported' = unreported \cup {Pdf}

Catch(p) ==
    /\ At(p, "catch")
    /\ Caught(p)
    /\ Goto(p, "rejected")
    /\ Local
    /\ UNCHANGED <<uploads, document, audited, mailed, dlq>>

SendMail(p) == LET q == run[p].job IN
    /\ At(p, "sending")
    /\ Call(p, "fulfilled", "rejected",
            mailed' = [mailed EXCEPT ![q] = @ + 1], UNCHANGED mailed)
    /\ Local
    /\ UNCHANGED <<record, uploads, document, audited, dlq, unreported>>

\* The handler does not wait for the dead-letter queue and logs its failure.
\* (Mutant: only jobs with attempts left are published.)
LettersNever == {"none"}
Letters == {"published", "refused"}

PublishDeadLetter(p) ==
    /\ At(p, "deadLetter")
    /\ \E letter \in Letters : dlq' = [dlq EXCEPT ![run[p].job] = letter]
    /\ run' = [run EXCEPT ![p] = Idle]
    /\ Local
    /\ UNCHANGED <<record, uploads, document, audited, mailed, unreported>>

-----------------------------------------------------------------------------
Execute(p) ==
    \/ ReportDownloading(p) \/ ReportLoading(p) \/ ReportRendering(p)
    \/ ReportUploading(p) \/ Upload(p) \/ RecordResult(p) \/ ReportCompleted(p)
    \/ Catch(p) \/ SendMail(p) \/ PublishDeadLetter(p) \/ Fulfil(p) \/ Reject(p)

HandOver == \/ \E r \in Record : Add(Pdf, r)
            \/ \E q \in Request : Add(q, None)

StallCheck(j) == Requeue(j) \/ GiveUp(j)

Next ==
    \/ HandOver
    \/ \E j \in Job : StallCheck(j) \/ \E p \in Run : Take(p, j)
    \/ \E p \in Run : Execute(p) \/ LoseLock(p) \/ Crash(p)

Spec == Init /\ [][Next]_vars

\* Consumers take jobs and execute them, the stall check runs periodically.
Fairness ==
    /\ \A j \in Job : /\ WF_vars(StallCheck(j))
                      /\ WF_vars(\E p \in Run : Take(p, j))
    /\ \A p \in Run : WF_vars(Execute(p))

FairSpec == Spec /\ Fairness

-----------------------------------------------------------------------------
Phase == {"DOWNLOADING", "LOADING_VALUES", "RENDERING", "UPLOADING"}
Steps == {"idle", "downloading", "loading", "rendering", "uploading", "upload",
          "record", "completed", "catch", "fulfilled", "rejected", "sending",
          "deadLetter"}
Executions == 1..(MaxStalls + 1)

JobRecord == [state : {"none", "waiting", "active", "completed", "failed"},
              payload : Record \cup {None}, owner : Run \cup {None},
              stalls : 0..MaxStalls]

TypeOK ==
    /\ job \in [Job -> JobRecord]
    /\ run \in [Run -> [job : Job \cup {None}, step : Steps,
                        nr : Executions \cup {0}]]
    /\ \A p \in Run : run[p].job # None => run[p].nr <= job[run[p].job].stalls + 1
    /\ record \in [Record -> {"QUEUED", "COMPLETED", "FAILED"} \cup Phase]
    /\ uploads \in Seq(Executions)
    /\ document \in Executions \cup {0}
    /\ audited \in Seq(Executions)
    /\ mailed \in [Request -> Nat]
    /\ dlq \in [Request -> {"none", "published", "refused"}]
    /\ crashes \in 0..MaxCrashes
    /\ overlapped \in BOOLEAN /\ unreported \in SUBSET Job

\* The document never names a file that was not uploaded, and its hash is the
\* one of the last FINAL_PDF_GENERATED event (the upload comes before the
\* transaction, and the transaction writes both).
RecordedWasUploaded ==
    /\ \A i \in DOMAIN audited : \E k \in DOMAIN uploads : audited[i] = uploads[k]
    /\ document = IF audited = <<>> THEN 0 ELSE audited[Len(audited)]

\* Whoever follows the progress of a job and reads COMPLETED can download the
\* file: no report comes ahead of what it reports, in no execution.
CompletedMeansFile == \A r \in Record : record[r] = "COMPLETED" => document # 0

\* A finalization that BullMQ settles as completed, whatever was lost and
\* repeated on the way, leaves the file in the store that the document's hash
\* describes, a record that says so and a history with one
\* FINAL_PDF_GENERATED event per execution at most, unless two executions
\* overlapped.  The record of one that is settled in either way tells how it
\* ended, unless an execution could not tell (it died, its job was given up, or
\* the report of the failure failed) or still goes on.
SettledJobIsSound ==
    /\ job[Pdf].state = "completed" /\ ~overlapped =>
          /\ uploads # <<>>
          /\ uploads[Len(uploads)] = document
          /\ record[job[Pdf].payload] = "COMPLETED"
          /\ Len(audited) <= 1 + job[Pdf].stalls
    /\ Settled(Pdf) /\ Working(Pdf) = {} /\ Pdf \notin unreported =>
          record[job[Pdf].payload] \in {"COMPLETED", "FAILED"}

\* Two submissions that both found the document complete made two records;
\* only the one whose event was handed over first is ever reported on.
OneRecordProgresses ==
    \A r \in Record : record[r] # "QUEUED" => r = job[Pdf].payload

\* Nothing tells that the e-mail did not arrive: the dead-letter queue refused
\* the letter, a process died with the job, or the job was given up.
Untold(q) == dlq[q] = "refused" \/ q \in unreported

\* What becomes of an e-mail: it is sent once at most for each time its job is
\* taken, and a job settled as completed did send it.  One that failed, once
\* the worker is done with it, has a dead letter or is among those of which
\* nothing tells.  Letters are only of jobs that failed.
MailsAreAccountedFor ==
    \A q \in Request :
        /\ mailed[q] <= 1 + job[q].stalls
        /\ job[q].state = "completed" => mailed[q] >= 1
        /\ job[q].state = "failed" /\ Working(q) = {} => dlq[q] = "published" \/ Untold(q)
        /\ dlq[q] # "none" => job[q].state = "failed"
=============================================================================
