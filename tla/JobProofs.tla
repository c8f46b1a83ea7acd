----------------------------- MODULE JobProofs -----------------------------
(***************************************************************************)
(* Theorems about JobWorkers, for any number of records, requests, stalls  *)
(* and consumers, and about its composition with the endpoints and the     *)
(* outbox in Finalization.                                                 *)
(*                                                                         *)
(* The argument for JobWorkers: an execution knows what it has done by its *)
(* next step (it is about to record only what it has uploaded, and to      *)
(* report completion only of a document with a file), the payload of the   *)
(* job never changes, and this is inductive together with the types. How a *)
(* job ends needs more: a job that was taken once may have one effect more *)
(* (what was done and what is still due never exceed the takes), an        *)
(* execution that is alone knows what it left in the store, and a job that *)
(* is over was told of by the last execution, or by nobody who could.      *)
(*                                                                         *)
(* For Finalization: its steps are steps of JobWorkers, so that all of     *)
(* this carries over; and a file, a job, an event and the last signature   *)
(* each presuppose the next.                                               *)
(***************************************************************************)
EXTENDS Finalization, TLAPS, FiniteSetTheorems

PdfSteps == {"downloading", "loading", "rendering", "uploading", "upload",
             "record", "completed", "catch"}
MailSteps == {"sending", "deadLetter"}

(* An execution works on the job that its step belongs to, and is          *)
(* numbered.                                                               *)
StepsFit ==
    \A p \in Run :
        /\ run[p].step \in PdfSteps => run[p].job = Pdf
        /\ run[p].step \in MailSteps => run[p].job \in Request
        /\ run[p].step \notin {"idle", "deadLetter"} => run[p].nr \in Executions
        /\ run[p].step # "idle" => run[p].job \in Job
        /\ run[p].step = "idle" => run[p].job = None

(* What an execution is about to record it has uploaded; what it is about  *)
(* to report, or has returned from, is recorded.                           *)
StepsFollow ==
    \A p \in Run :
        /\ run[p].step = "record" => \E k \in DOMAIN uploads : uploads[k] = run[p].nr
        /\ run[p].step = "completed" => document # 0

(* A job that nobody handed over was not worked on.                        *)
NoneIsUntouched ==
    /\ \A p \in Run : run[p].job # None => job[run[p].job].state # "none"
    /\ job[Pdf].state = "none" => \A r \in Record : record[r] = "QUEUED"

JobsTyped == job \in [Job -> JobRecord]
RunsTyped == run \in [Run -> [job : Job \cup {None}, step : Steps, nr : Executions \cup {0}]]
Numbered == \A p \in Run : run[p].job # None => run[p].nr <= job[run[p].job].stalls + 1
TablesTyped ==
    /\ record \in [Record -> {"QUEUED", "COMPLETED", "FAILED"} \cup Phase]
    /\ uploads \in Seq(Executions) /\ audited \in Seq(Executions)
    /\ document \in Executions \cup {0}
    /\ mailed \in [Request -> Nat]
    /\ dlq \in [Request -> {"none", "published", "refused"}]
Typed == JobsTyped /\ RunsTyped /\ Numbered /\ TablesTyped

IInv == /\ Typed /\ StepsFit /\ StepsFollow /\ NoneIsUntouched
        /\ RecordedWasUploaded /\ CompletedMeansFile /\ OneRecordProgresses

-----------------------------------------------------------------------------
LEMMA InitIInv == Init => IInv
<1> SUFFICES ASSUME Init PROVE IInv
  OBVIOUS
<1> USE JobAssumption DEF Init
<1>1. JobsTyped /\ RunsTyped
  BY DEF JobsTyped, RunsTyped, JobRecord, NoJob, Idle, Steps
<1>2. Numbered /\ TablesTyped
  BY DEF Numbered, TablesTyped, Idle
<1>3. StepsFit /\ StepsFollow
  BY DEF StepsFit, StepsFollow, Idle, PdfSteps, MailSteps
<1>4. NoneIsUntouched /\ RecordedWasUploaded /\ CompletedMeansFile /\ OneRecordProgresses
  BY DEF NoneIsUntouched, Idle, Job, RecordedWasUploaded, CompletedMeansFile,
         OneRecordProgresses
<1> QED
  BY <1>1, <1>2, <1>3, <1>4 DEF IInv, Typed

(* A step that leaves the tables alone, hands no job back, and starts no   *)
(* execution at a later step, keeps what relates them.                     *)
LEMMA TablesStay ==
    ASSUME IInv, UNCHANGED tables, JobsTyped', RunsTyped',
           \A p \in Run : run'[p].step \in {"record", "completed"} => run'[p] = run[p],
           \A j \in Job : job'[j].payload = job[j].payload \/ job[j].state = "none",
           \A j \in Job : job'[j].state = "none" => job'[j] = job[j],
           \A p \in Run : \/ run'[p].job = run[p].job \/ run'[p].job = None
                          \/ job'[run'[p].job].state # "none"
    PROVE  /\ TablesTyped' /\ StepsFollow' /\ NoneIsUntouched'
           /\ RecordedWasUploaded' /\ CompletedMeansFile' /\ OneRecordProgresses'
<1> USE JobAssumption DEF IInv, tables, Typed
<1>1. TablesTyped'
  BY DEF TablesTyped
<1>2. StepsFollow'
  BY DEF StepsFollow
<1>3. NoneIsUntouched'
  BY DEF NoneIsUntouched, RunsTyped, Job
<1>4. RecordedWasUploaded' /\ CompletedMeansFile'
  BY DEF RecordedWasUploaded, CompletedMeansFile
<1>5. OneRecordProgresses'
  BY DEF OneRecordProgresses, NoneIsUntouched, Job
<1> QED
  BY <1>1, <1>2, <1>3, <1>4, <1>5

(* The number of an execution stays below that of the stalls of its job.   *)
LEMMA Kept ==
    ASSUME Typed, JobsTyped', RunsTyped',
           \A k \in Job : job'[k].stalls >= job[k].stalls,
           \A p \in Run : \/ run'[p].job = run[p].job /\ run'[p].nr = run[p].nr
                          \/ run'[p].nr = 0
                          \/ run'[p].job = None
                          \/ run'[p].nr <= job'[run'[p].job].stalls + 1
    PROVE  Numbered'
<1> SUFFICES ASSUME NEW p \in Run, run'[p].job # None
             PROVE  run'[p].nr <= job'[run'[p].job].stalls + 1
  BY DEF Numbered
<1>1. run'[p].job \in Job
  BY DEF RunsTyped
<1>2. job'[run'[p].job].stalls \in Nat
  BY <1>1, JobAssumption DEF JobsTyped, JobRecord
<1>3. CASE run'[p].job = run[p].job /\ run'[p].nr = run[p].nr
  <2>1. run[p].nr <= job[run[p].job].stalls + 1
    BY <1>3 DEF Typed, Numbered
  <2>2. job[run[p].job].stalls \in Nat /\ run[p].nr \in Nat
    BY <1>1, <1>3, JobAssumption DEF Typed, JobsTyped, RunsTyped, JobRecord, Executions
  <2> QED
    BY <1>1, <1>2, <1>3, <2>1, <2>2
<1> QED
  BY <1>2, <1>3

(* The steps of the queue: they change jobs and who works on them.         *)
LEMMA AddStep ==
    ASSUME IInv, NEW j \in Job, NEW x \in Record \cup {None}, Add(j, x)
    PROVE  IInv'
<1> USE JobAssumption DEF IInv, Typed
<1>1. UNCHANGED tables /\ UNCHANGED run
  BY DEF Add
<1>2. \/ UNCHANGED job
      \/ /\ job[j].state = "none"
         /\ job' = [job EXCEPT ![j] = [state |-> "waiting", payload |-> x,
                                      owner |-> None, stalls |-> 0]]
  BY DEF Add, Addable, NoJob
<1>3. JobsTyped' /\ RunsTyped'
  BY <1>1, <1>2 DEF JobsTyped, RunsTyped, JobRecord
<1>4. StepsFit'
  BY <1>1 DEF StepsFit
<1>6. \A p \in Run : run[p].job # None => job'[run[p].job].stalls = job[run[p].job].stalls
  BY <1>2 DEF NoneIsUntouched, JobsTyped, RunsTyped
<1>7. Numbered'
  BY <1>1, <1>6 DEF Numbered
<1>5. \A k \in Job : /\ job'[k].payload = job[k].payload \/ job[k].state = "none"
                     /\ job'[k].state = "none" => job'[k] = job[k]
  BY <1>2 DEF JobsTyped
<1> QED
  BY <1>1, <1>3, <1>4, <1>5, <1>7, TablesStay

LEMMA StallStep ==
    ASSUME IInv, NEW j \in Job, StallCheck(j)
    PROVE  IInv'
<1> USE JobAssumption DEF IInv, Typed
<1>1. UNCHANGED tables
  BY DEF StallCheck, Requeue, GiveUp
<1>2. job[j].state = "active"
  BY DEF StallCheck, Requeue, GiveUp, Stalled
<1>3. \/ /\ job[j].stalls < MaxStalls
         /\ job' = [job EXCEPT ![j].state = "waiting", ![j].stalls = @ + 1]
      \/ job' = [job EXCEPT ![j].state = "failed"]
  BY DEF StallCheck, Requeue, GiveUp
<1>4. \/ UNCHANGED run
      \/ /\ j \in Request
         /\ \E q \in Run :
               run' = [run EXCEPT ![q] = [job |-> j, step |-> "deadLetter", nr |-> 0]]
  <2>1. CASE Requeue(j)
    BY <2>1 DEF Requeue
  <2>2. CASE GiveUp(j)
    BY <2>2 DEF GiveUp, Job
  <2> QED
    BY <2>1, <2>2 DEF StallCheck
<1>5. JobsTyped'
  BY <1>3 DEF JobsTyped, JobRecord
<1>6. RunsTyped'
  <2>1. ASSUME j \in Request, NEW q \in Run,
               run' = [run EXCEPT ![q] = [job |-> j, step |-> "deadLetter", nr |-> 0]]
        PROVE  RunsTyped'
    BY <2>1 DEF RunsTyped, Steps
  <2> QED
    BY <1>4, <2>1 DEF RunsTyped
<1>7. \A k \in Job : /\ job'[k].payload = job[k].payload
                     /\ job'[k].stalls >= job[k].stalls
                     /\ job'[k].state = "none" => job'[k] = job[k]
  BY <1>3 DEF JobsTyped, JobRecord
<1>8. job'[j].state # "none"
  BY <1>3 DEF JobsTyped, JobRecord
<1>9. \A p \in Run : \/ run'[p] = run[p]
                     \/ /\ run'[p].job = j /\ j \in Request
                        /\ run'[p].step = "deadLetter" /\ run'[p].nr = 0
  <2>1. ASSUME j \in Request, NEW p \in Run, NEW q \in Run,
               run' = [run EXCEPT ![q] = [job |-> j, step |-> "deadLetter", nr |-> 0]]
        PROVE  \/ run'[p] = run[p]
               \/ /\ run'[p].job = j /\ j \in Request
                  /\ run'[p].step = "deadLetter" /\ run'[p].nr = 0
    BY <2>1 DEF RunsTyped
  <2> QED
    BY <1>4, <2>1
<1>10. Numbered'
  BY <1>5, <1>6, <1>7, <1>9, Kept
<1>11. StepsFit'
  BY <1>9 DEF StepsFit, PdfSteps, MailSteps, Job
<1>12. \A p \in Run : /\ run'[p].job = run[p].job \/ job'[run'[p].job].state # "none"
                      /\ run'[p].step \in {"record", "completed"} => run'[p] = run[p]
  BY <1>8, <1>9
<1> QED
  BY <1>1, <1>5, <1>6, <1>7, <1>10, <1>11, <1>12, TablesStay

LEMMA TakeStep ==
    ASSUME IInv, NEW j \in Job, NEW p \in Run, Take(p, j)
    PROVE  IInv'
<1> USE JobAssumption DEF IInv, Typed
<1>1. /\ UNCHANGED tables /\ job[j].state = "waiting" /\ job[j].stalls \in 0..MaxStalls
      /\ job' = [job EXCEPT ![j].state = "active", ![j].owner = p]
      /\ run' = [run EXCEPT ![p] = [job |-> j, step |-> FirstStep(j), nr |-> job[j].stalls + 1]]
  BY DEF Take, JobsTyped, JobRecord
<1>2. JobsTyped'
  <2>1. job[j] \in JobRecord
    BY DEF JobsTyped
  <2>2. [job[j] EXCEPT !.state = "active", !.owner = p] \in JobRecord
    BY <2>1 DEF JobRecord
  <2>3. job' = [job EXCEPT ![j] = [job[j] EXCEPT !.state = "active", !.owner = p]]
    BY <1>1, <2>1 DEF JobsTyped
  <2> QED
    BY <2>2, <2>3 DEF JobsTyped
<1>3. job[j].stalls + 1 \in Executions
  BY <1>1 DEF Executions
<1>4. FirstStep(j) \in {"downloading", "sending"}
  BY DEF FirstStep
<1>5. RunsTyped'
  BY <1>1, <1>3, <1>4 DEF RunsTyped, Steps
<1>6. \A k \in Job : /\ job'[k].payload = job[k].payload
                     /\ job'[k].stalls = job[k].stalls
                     /\ job'[k].state = "none" => job'[k] = job[k]
  BY <1>1 DEF JobsTyped, JobRecord
<1>7. Numbered'
  <2>1. \A q \in Run : run'[q] = run[q] \/ run'[q] = [job |-> j, step |-> FirstStep(j),
                                                   nr |-> job[j].stalls + 1]
    BY <1>1 DEF RunsTyped
  <2>2. \A k \in Job : job'[k].stalls >= job[k].stalls
    BY <1>6, JobAssumption DEF JobsTyped, JobRecord
  <2>3. job[j].stalls + 1 <= job'[j].stalls + 1
    <3>1. job'[j].stalls = job[j].stalls
      BY <1>6
    <3>2. job[j].stalls \in Nat
      BY <1>1
    <3> QED
      BY <3>1, <3>2
  <2> QED
    BY <1>2, <1>5, <2>1, <2>2, <2>3, Kept
<1>8. StepsFit'
  BY <1>1, <1>3 DEF StepsFit, RunsTyped, PdfSteps, MailSteps, Job, FirstStep
<1>9. job'[j].state # "none"
  BY <1>1 DEF JobsTyped, JobRecord
<1>10. \A q \in Run : /\ run'[q].job = run[q].job \/ job'[run'[q].job].state # "none"
                      /\ run'[q].step \in {"record", "completed"} => run'[q] = run[q]
  BY <1>1, <1>4, <1>9 DEF RunsTyped
<1> QED
  BY <1>1, <1>2, <1>5, <1>6, <1>7, <1>8, <1>10, TablesStay

(* An execution that ends, or loses its lock.                              *)
LEMMA EndStep ==
    ASSUME IInv, NEW p \in Run, LoseLock(p) \/ Crash(p) \/ Fulfil(p) \/ Reject(p)
    PROVE  IInv'
<1> USE JobAssumption DEF IInv, Typed
<1>1. UNCHANGED tables
  BY DEF LoseLock, Crash, Fulfil, Reject, Return
<1>2. run[p].job \in Job
  BY DEF LoseLock, Crash, Fulfil, Reject, StepsFit, RunsTyped
<1>3. \/ UNCHANGED job
      \/ job' = [job EXCEPT ![run[p].job].owner = None]
      \/ /\ job[run[p].job].owner = p
         /\ \E state \in {"completed", "failed"} :
               job' = [job EXCEPT ![run[p].job].state = state, ![run[p].job].owner = None]
  BY DEF LoseLock, Crash, Fulfil, Reject, Return, Counts, Owns
<1>4. \/ UNCHANGED run
      \/ run' = [run EXCEPT ![p] = Idle]
      \/ /\ run[p].job # Pdf
         /\ run' = [run EXCEPT ![p] = [@ EXCEPT !.step = "deadLetter"]]
  BY DEF LoseLock, Crash, Fulfil, Reject, Return
<1>5. JobsTyped'
  BY <1>2, <1>3 DEF JobsTyped, JobRecord
<1>13. \A q \in Run :
          \/ run'[q] = run[q]
          \/ run'[q].job = None /\ run'[q].step = "idle"
          \/ /\ run[q].job \in Request /\ run'[q].job = run[q].job
             /\ run'[q].nr = run[q].nr /\ run'[q].step = "deadLetter"
  <2> SUFFICES ASSUME NEW q \in Run, run'[q] # run[q]
               PROVE  \/ run'[q].job = None /\ run'[q].step = "idle"
                      \/ /\ run[q].job \in Request /\ run'[q].job = run[q].job
                         /\ run'[q].nr = run[q].nr /\ run'[q].step = "deadLetter"
    OBVIOUS
  <2>1. CASE run' = [run EXCEPT ![p] = Idle]
    BY <2>1 DEF RunsTyped, Idle
  <2>2. CASE run[p].job # Pdf /\ run' = [run EXCEPT ![p] = [@ EXCEPT !.step = "deadLetter"]]
    <3>1. q = p /\ run'[p] = [run[p] EXCEPT !.step = "deadLetter"]
      BY <2>2 DEF RunsTyped
    <3>2. /\ run'[p].job = run[p].job /\ run'[p].nr = run[p].nr
          /\ run'[p].step = "deadLetter"
      BY <3>1 DEF RunsTyped
    <3>3. run[p].job \in Request
      BY <1>2, <2>2 DEF Job
    <3> QED
      BY <3>1, <3>2, <3>3
  <2> QED
    BY <1>4, <2>1, <2>2
<1>6. RunsTyped'
  <2>1. CASE UNCHANGED run
    BY <2>1 DEF RunsTyped
  <2>2. CASE run' = [run EXCEPT ![p] = Idle]
    BY <2>2 DEF RunsTyped, Steps, Idle
  <2>3. CASE run' = [run EXCEPT ![p] = [@ EXCEPT !.step = "deadLetter"]]
    BY <2>3 DEF RunsTyped, Steps
  <2> QED
    BY <1>4, <2>1, <2>2, <2>3
<1>7. \A k \in Job : /\ job'[k].payload = job[k].payload
                     /\ job'[k].stalls = job[k].stalls
                     /\ job'[k].state = "none" => job[k].state = "none"
  BY <1>2, <1>3 DEF JobsTyped, JobRecord
<1>8. job[run[p].job].state # "none"
  BY <1>2 DEF NoneIsUntouched
<1>9. \A k \in Job : job'[k].state = "none" => job'[k] = job[k]
  BY <1>2, <1>3, <1>7, <1>8 DEF JobsTyped
<1>14. \A k \in Job : job'[k].stalls >= job[k].stalls
  BY <1>7 DEF JobsTyped, JobRecord
<1>10. Numbered'
  BY <1>5, <1>6, <1>13, <1>14, Kept
<1>11. StepsFit'
  BY <1>13 DEF StepsFit, PdfSteps, MailSteps, Job
<1>12. \A q \in Run : /\ run'[q].job = run[q].job \/ run'[q].job = None
                      /\ run'[q].step \in {"record", "completed"} => run'[q] = run[q]
  BY <1>13
<1> QED
  BY <1>1, <1>5, <1>6, <1>7, <1>9, <1>10, <1>11, <1>12, TablesStay

-----------------------------------------------------------------------------
(* The steps of an execution: they change the tables and their own step.   *)
LEMMA Moved ==
    ASSUME IInv, NEW p \in Run, NEW s \in Steps \ {"idle", "deadLetter"},
           UNCHANGED job, Goto(p, s), run[p].step \notin {"idle", "deadLetter"},
           s \in PdfSteps => run[p].job = Pdf, s # "sending"
    PROVE  /\ JobsTyped' /\ RunsTyped' /\ Numbered' /\ StepsFit'
           /\ run'[p].step = s /\ run'[p].nr = run[p].nr
           /\ \A q \in Run : run'[q].job = run[q].job
           /\ \A q \in Run : q # p => run'[q] = run[q]
<1> USE JobAssumption DEF IInv, Typed
<1>1. run' = [run EXCEPT ![p].step = s]
  BY DEF Goto
<1>2. JobsTyped'
  BY DEF JobsTyped
<1>3. RunsTyped'
  BY <1>1 DEF RunsTyped
<1>4. \A q \in Run : /\ run'[q].job = run[q].job /\ run'[q].nr = run[q].nr
                     /\ q # p => run'[q] = run[q]
  BY <1>1 DEF RunsTyped
<1>5. run'[p].step = s
  BY <1>1 DEF RunsTyped
<1>6. Numbered'
  BY <1>4 DEF Numbered
<1>7. StepsFit'
  BY <1>4, <1>5 DEF StepsFit, MailSteps, Steps
<1> QED
  BY <1>2, <1>3, <1>4, <1>5, <1>6, <1>7

(* A report, of a phase or of the end.                                     *)
LEMMA ReportStep ==
    ASSUME IInv, NEW p \in Run, NEW s \in Steps \ {"idle", "deadLetter"},
           UNCHANGED <<job, uploads, document, audited, mailed, dlq>>, Goto(p, s),
           run[p].step \in PdfSteps, s \notin {"record", "completed", "sending"},
           NEW said \in Phase \cup {"COMPLETED", "FAILED"},
           said = "COMPLETED" => document # 0,
           record' = Reported(p, said) \/ record' = record
    PROVE  IInv'
<1> USE JobAssumption DEF IInv, Typed
<1>1. run[p].step \notin {"idle", "deadLetter"} /\ run[p].job = Pdf
  BY DEF StepsFit, PdfSteps
<1>2. /\ JobsTyped' /\ RunsTyped' /\ Numbered' /\ StepsFit'
      /\ run'[p].step = s /\ \A q \in Run : run'[q].job = run[q].job
      /\ \A q \in Run : q # p => run'[q] = run[q]
  BY <1>1, Moved
<1>3. \A r \in Record : \/ record'[r] = record[r]
                        \/ r = job[Pdf].payload /\ record'[r] = said
  <2>1. CASE record' = record
    BY <2>1
  <2>2. CASE record' = [record EXCEPT ![job[Pdf].payload] = said]
    BY <2>2 DEF TablesTyped
  <2> QED
    BY <2>1, <2>2 DEF Reported
<1>4. TablesTyped'
  <2>1. record' \in [Record -> {"QUEUED", "COMPLETED", "FAILED"} \cup Phase]
    <3>1. record \in [Record -> {"QUEUED", "COMPLETED", "FAILED"} \cup Phase]
      BY DEF TablesTyped
    <3>2. record' = record \/ record' = [record EXCEPT ![job[Pdf].payload] = said]
      BY DEF Reported
    <3> QED
      BY <3>1, <3>2
  <2> QED
    BY <2>1 DEF TablesTyped
<1>5. StepsFollow'
  BY <1>2 DEF StepsFollow
<1>6. job[Pdf].state # "none"
  BY <1>1 DEF NoneIsUntouched, Job
<1>7. NoneIsUntouched'
  BY <1>2, <1>6 DEF NoneIsUntouched
<1>8. RecordedWasUploaded'
  BY DEF RecordedWasUploaded
<1>9. CompletedMeansFile'
  BY <1>3 DEF CompletedMeansFile
<1>10. OneRecordProgresses'
  BY <1>3 DEF OneRecordProgresses
<1> QED
  BY <1>2, <1>4, <1>5, <1>7, <1>8, <1>9, <1>10

LEMMA UploadStep ==
    ASSUME IInv, NEW p \in Run, Upload(p)
    PROVE  IInv'
<1> USE JobAssumption DEF IInv, Typed
<1>1. PICK s \in {"record", "catch"} :
         /\ Goto(p, s)
         /\ \/ uploads' = Append(uploads, run[p].nr)
            \/ s = "catch" /\ uploads' = uploads
  BY DEF Upload, Call
<1>2. /\ run[p].step = "upload"
      /\ UNCHANGED <<job, record, document, audited, mailed, dlq>>
  BY DEF Upload, Local, At
<1>3. run[p].job = Pdf /\ run[p].nr \in Executions
  BY <1>2 DEF StepsFit, PdfSteps
<1>4. /\ JobsTyped' /\ RunsTyped' /\ Numbered' /\ StepsFit'
      /\ run'[p].step = s /\ run'[p].nr = run[p].nr
      /\ \A q \in Run : run'[q].job = run[q].job
      /\ \A q \in Run : q # p => run'[q] = run[q]
  <2>1. s \in Steps \ {"idle", "deadLetter"} /\ s # "sending"
    BY DEF Steps
  <2> QED
    BY <1>1, <1>2, <1>3, <2>1, Moved
<1>5. /\ uploads' \in Seq(Executions)
      /\ \A k \in DOMAIN uploads : k \in DOMAIN uploads' /\ uploads'[k] = uploads[k]
  <2>1. uploads \in Seq(Executions)
    BY DEF TablesTyped
  <2>2. CASE uploads' = uploads
    BY <2>1, <2>2
  <2>3. CASE uploads' = Append(uploads, run[p].nr)
    BY <1>3, <2>1, <2>3
  <2> QED
    BY <1>1, <2>2, <2>3
<1>6. s = "record" => \E k \in DOMAIN uploads' : uploads'[k] = run[p].nr
  <2> SUFFICES ASSUME s = "record" PROVE \E k \in DOMAIN uploads' : uploads'[k] = run[p].nr
    OBVIOUS
  <2>1. uploads' = Append(uploads, run[p].nr) /\ uploads \in Seq(Executions)
    BY <1>1 DEF TablesTyped
  <2>2. /\ Len(uploads) + 1 \in DOMAIN uploads'
        /\ uploads'[Len(uploads) + 1] = run[p].nr
    BY <1>3, <2>1
  <2> QED
    BY <2>2
<1>7. TablesTyped'
  BY <1>2, <1>5 DEF TablesTyped
<1>8. StepsFollow'
  BY <1>2, <1>4, <1>5, <1>6 DEF StepsFollow
<1>9. NoneIsUntouched'
  BY <1>2, <1>4 DEF NoneIsUntouched
<1>10. RecordedWasUploaded'
  BY <1>2, <1>5 DEF RecordedWasUploaded
<1>11. CompletedMeansFile' /\ OneRecordProgresses'
  BY <1>2 DEF CompletedMeansFile, OneRecordProgresses
<1> QED
  BY <1>4, <1>7, <1>8, <1>9, <1>10, <1>11

LEMMA RecordStep ==
    ASSUME IInv, NEW p \in Run, RecordResult(p)
    PROVE  IInv'
<1> USE JobAssumption DEF IInv, Typed
<1>1. PICK s \in {"completed", "catch"} :
         /\ Goto(p, s)
         /\ \/ document' = run[p].nr /\ audited' = Append(audited, run[p].nr)
            \/ s = "catch" /\ UNCHANGED <<document, audited>>
  BY DEF RecordResult, Call, Recorded
<1>2. /\ run[p].step = "record"
      /\ UNCHANGED <<job, record, uploads, mailed, dlq>>
  BY DEF RecordResult, Local, At
<1>3. /\ run[p].job = Pdf /\ run[p].nr \in Executions
      /\ \E k \in DOMAIN uploads : uploads[k] = run[p].nr
  BY <1>2 DEF StepsFit, StepsFollow, PdfSteps
<1>4. /\ JobsTyped' /\ RunsTyped' /\ Numbered' /\ StepsFit'
      /\ run'[p].step = s /\ \A q \in Run : run'[q].job = run[q].job
      /\ \A q \in Run : q # p => run'[q] = run[q]
  <2>1. s \in Steps \ {"idle", "deadLetter"} /\ s # "sending"
    BY DEF Steps
  <2> QED
    BY <1>1, <1>2, <1>3, <2>1, Moved
<1>5. run[p].nr # 0
  BY <1>3 DEF Executions
<1>6. TablesTyped'
  <2>1. CASE UNCHANGED <<document, audited>>
    BY <1>2, <2>1 DEF TablesTyped
  <2>2. CASE document' = run[p].nr /\ audited' = Append(audited, run[p].nr)
    <3>1. audited' \in Seq(Executions) /\ document' \in Executions \cup {0}
      BY <1>3, <2>2 DEF TablesTyped
    <3> QED
      BY <1>2, <3>1 DEF TablesTyped
  <2> QED
    BY <1>1, <2>1, <2>2
<1>7. (document # 0 => document' # 0) /\ (s = "completed" => document' # 0)
  BY <1>1, <1>5
<1>8. StepsFollow'
  BY <1>2, <1>4, <1>7 DEF StepsFollow
<1>9. NoneIsUntouched'
  BY <1>2, <1>4 DEF NoneIsUntouched
<1>10. RecordedWasUploaded'
  <2>1. CASE UNCHANGED <<document, audited>>
    BY <1>2, <2>1 DEF RecordedWasUploaded
  <2>2. CASE document' = run[p].nr /\ audited' = Append(audited, run[p].nr)
    <3>1. audited \in Seq(Executions)
      BY DEF TablesTyped
    <3>2. /\ Len(audited') = Len(audited) + 1 /\ audited'[Len(audited')] = run[p].nr
          /\ audited' # <<>>
          /\ \A i \in DOMAIN audited' : \/ i \in DOMAIN audited /\ audited'[i] = audited[i]
                                        \/ audited'[i] = run[p].nr
      BY <1>3, <2>2, <3>1
    <3> QED
      BY <1>2, <1>3, <2>2, <3>2 DEF RecordedWasUploaded
  <2> QED
    BY <1>1, <2>1, <2>2
<1>11. CompletedMeansFile' /\ OneRecordProgresses'
  BY <1>2, <1>7 DEF CompletedMeansFile, OneRecordProgresses
<1> QED
  BY <1>4, <1>6, <1>8, <1>9, <1>10, <1>11

(* The e-mails touch neither the records nor the document.                 *)
LEMMA MailStep ==
    ASSUME IInv, NEW p \in Run, SendMail(p) \/ PublishDeadLetter(p)
    PROVE  IInv'
<1> USE JobAssumption DEF IInv, Typed
<1>1. UNCHANGED <<job, record, uploads, document, audited>>
  BY DEF SendMail, PublishDeadLetter, Local
<1>2. run[p].step \in MailSteps /\ run[p].job \in Request
  BY DEF SendMail, PublishDeadLetter, At, StepsFit, MailSteps
<1>3. /\ mailed' \in [Request -> Nat]
      /\ dlq' \in [Request -> {"none", "published", "refused"}]
  <2>1. CASE SendMail(p)
    BY <1>2, <2>1 DEF SendMail, Call, TablesTyped
  <2>2. CASE PublishDeadLetter(p)
    BY <1>2, <2>2 DEF PublishDeadLetter, Letters, TablesTyped
  <2> QED
    BY <2>1, <2>2
<1>4. TablesTyped'
  BY <1>1, <1>3 DEF TablesTyped
<1>5. /\ JobsTyped' /\ RunsTyped' /\ Numbered' /\ StepsFit'
      /\ \A q \in Run : run'[q].job = run[q].job \/ run'[q].job = None
      /\ \A q \in Run : run'[q].step \in {"record", "completed"} => run'[q] = run[q]
  <2>1. CASE SendMail(p)
    <3>1. PICK s \in {"fulfilled", "rejected"} : Goto(p, s)
      BY <2>1 DEF SendMail, Call
    <3>2. s \in Steps \ {"idle", "deadLetter"} /\ s \notin PdfSteps /\ s # "sending"
      BY DEF Steps, PdfSteps
    <3>3. run[p].step = "sending"
      BY <2>1 DEF SendMail, At
    <3> QED
      BY <1>1, <3>1, <3>2, <3>3, Moved
  <2>2. CASE PublishDeadLetter(p)
    <3>1. run' = [run EXCEPT ![p] = Idle]
      BY <2>2 DEF PublishDeadLetter
    <3>2. \A q \in Run : \/ run'[q] = run[q]
                         \/ run'[q].job = None /\ run'[q].step = "idle"
      BY <3>1 DEF RunsTyped, Idle
    <3>3. JobsTyped' /\ RunsTyped'
      BY <1>1, <3>1 DEF JobsTyped, RunsTyped, Idle, Steps
    <3>4. Numbered' /\ StepsFit'
      BY <1>1, <3>2 DEF Numbered, StepsFit, PdfSteps, MailSteps
    <3> QED
      BY <3>2, <3>3, <3>4
  <2> QED
    BY <2>1, <2>2
<1>6. StepsFollow' /\ NoneIsUntouched'
  BY <1>1, <1>5 DEF StepsFollow, NoneIsUntouched
<1>7. RecordedWasUploaded' /\ CompletedMeansFile' /\ OneRecordProgresses'
  BY <1>1 DEF RecordedWasUploaded, CompletedMeansFile, OneRecordProgresses
<1> QED
  BY <1>4, <1>5, <1>6, <1>7

-----------------------------------------------------------------------------
LEMMA IInvStep == IInv /\ [Next]_vars => IInv'
<1> SUFFICES ASSUME IInv, [Next]_vars PROVE IInv'
  OBVIOUS
<1>1. ASSUME NEW j \in Job, NEW x \in Record \cup {None}, Add(j, x) PROVE IInv'
  BY <1>1, AddStep
<1>2. ASSUME NEW j \in Job, StallCheck(j) PROVE IInv'
  BY <1>2, StallStep
<1>3. ASSUME NEW j \in Job, NEW p \in Run, Take(p, j) PROVE IInv'
  BY <1>3, TakeStep
<1>4. ASSUME NEW p \in Run, LoseLock(p) \/ Crash(p) \/ Fulfil(p) \/ Reject(p) PROVE IInv'
  BY <1>4, EndStep
<1>5. ASSUME NEW p \in Run, Upload(p) \/ RecordResult(p) PROVE IInv'
  BY <1>5, UploadStep, RecordStep
<1>6. ASSUME NEW p \in Run, SendMail(p) \/ PublishDeadLetter(p) PROVE IInv'
  BY <1>6, MailStep
<1>7. ASSUME NEW p \in Run, Catch(p) PROVE IInv'
  <2>1. /\ run[p].step \in PdfSteps /\ Goto(p, "rejected")
        /\ UNCHANGED <<job, uploads, document, audited, mailed, dlq>>
        /\ record' = Reported(p, "FAILED") \/ record' = record
    BY <1>7 DEF Catch, Caught, Local, At, PdfSteps
  <2>2. /\ "rejected" \in Steps \ {"idle", "deadLetter"}
        /\ "rejected" \notin {"record", "completed", "sending"}
    BY DEF Steps
  <2>3. "FAILED" \in Phase \cup {"COMPLETED", "FAILED"} /\ "FAILED" # "COMPLETED"
    OBVIOUS
  <2>4. record' = Reported(p, "FAILED") \/ record' = record
    BY <2>1
  <2> QED
    BY <2>1, <2>2, <2>3, <2>4, ReportStep
<1>8. ASSUME NEW p \in Run, NEW step \in PdfSteps, NEW next \in Steps \ {"idle", "deadLetter"},
             next \notin {"record", "completed", "sending"},
             NEW said \in Phase \cup {"COMPLETED"}, said = "COMPLETED" => document # 0,
             Report(p, step, said, next)
      PROVE  IInv'
  <2>1. PICK s \in {next, "catch"} : Goto(p, s)
    BY <1>8 DEF Report, Call
  <2>2. s \in Steps \ {"idle", "deadLetter"} /\ s \notin {"record", "completed", "sending"}
    BY <1>8 DEF Steps
  <2>3. /\ run[p].step \in PdfSteps
        /\ UNCHANGED <<job, uploads, document, audited, mailed, dlq>>
        /\ record' = Reported(p, said) \/ record' = record
    BY <1>8 DEF Report, Call, Local, At
  <2> QED
    BY <1>8, <2>1, <2>2, <2>3, ReportStep
<1>9. ASSUME NEW p \in Run,
             \/ ReportDownloading(p) \/ ReportLoading(p) \/ ReportRendering(p)
             \/ ReportUploading(p) \/ ReportCompleted(p)
      PROVE  IInv'
  <2>1. CASE ReportDownloading(p)
    BY <2>1, <1>8 DEF ReportDownloading, PdfSteps, Steps, Phase
  <2>2. CASE ReportLoading(p)
    BY <2>2, <1>8 DEF ReportLoading, PdfSteps, Steps, Phase
  <2>3. CASE ReportRendering(p)
    BY <2>3, <1>8 DEF ReportRendering, PdfSteps, Steps, Phase
  <2>4. CASE ReportUploading(p)
    BY <2>4, <1>8 DEF ReportUploading, AfterRender, PdfSteps, Steps, Phase
  <2>5. CASE ReportCompleted(p)
    <3>1. document # 0
      BY <2>5 DEF ReportCompleted, Report, At, IInv, StepsFollow
    <3> QED
      BY <2>5, <3>1, <1>8 DEF ReportCompleted, PdfSteps, Steps
  <2> QED
    BY <1>9, <2>1, <2>2, <2>3, <2>4, <2>5
<1>10. CASE Next
  BY <1>10, <1>1, <1>2, <1>3, <1>4, <1>5, <1>6, <1>7, <1>9 DEF Next, HandOver, Execute, Job
<1>11. CASE UNCHANGED vars
  <2>1. UNCHANGED <<job, run, record, uploads, document, audited, mailed, dlq>>
    BY <1>11 DEF vars, tables
  <2> QED
    BY <2>1 DEF IInv, Typed, JobsTyped, RunsTyped, Numbered, TablesTyped, StepsFit, StepsFollow,
        NoneIsUntouched, RecordedWasUploaded, CompletedMeansFile, OneRecordProgresses
<1> QED
  BY <1>10, <1>11

LEMMA IInvCorrect == Spec => []IInv
<1> QED BY InitIInv, IInvStep, PTL DEF Spec

(* The bounds and the ghosts.                                              *)
Bounded == crashes \in 0..MaxCrashes
Flagged == overlapped \in BOOLEAN
Noted == unreported \in SUBSET Job

LEMMA RestStep == IInv /\ Bounded /\ Flagged /\ Noted /\ [Next]_vars => Bounded' /\ Flagged' /\ Noted'
<1> SUFFICES ASSUME IInv, Bounded, Flagged, Noted, [Next]_vars
             PROVE  Bounded' /\ Flagged' /\ Noted'
  OBVIOUS
<1> DEFINE Rests ==
      /\ UNCHANGED crashes \/ (crashes < MaxCrashes /\ crashes' = crashes + 1)
      /\ UNCHANGED overlapped \/ \E j \in Job : overlapped' = (overlapped \/ (j = Pdf /\ Working(Pdf) # {}))
      /\ UNCHANGED unreported \/ \E j \in Job : unreported' = unreported \cup {j}
<1>1. Rests
  <2>1. ASSUME NEW j \in Job, NEW x \in Record \cup {None}, Add(j, x) PROVE Rests
    BY <2>1 DEF Add, ghosts
  <2>2. ASSUME NEW j \in Job, StallCheck(j) PROVE Rests
    BY <2>2 DEF StallCheck, Requeue, GiveUp, ghosts
  <2>3. ASSUME NEW j \in Job, NEW p \in Run, Take(p, j) PROVE Rests
    BY <2>3 DEF Take
  <2>4. ASSUME NEW p \in Run, LoseLock(p) \/ Fulfil(p) \/ Reject(p) PROVE Rests
    BY <2>4 DEF LoseLock, Fulfil, Reject, Return, ghosts
  <2>5. ASSUME NEW p \in Run, Crash(p) PROVE Rests
    BY <2>5, JobAssumption DEF Crash, IInv, Typed, RunsTyped
  <2>6. ASSUME NEW p \in Run, \/ ReportDownloading(p) \/ ReportLoading(p) \/ ReportRendering(p)
                              \/ ReportUploading(p) \/ ReportCompleted(p)
        PROVE  Rests
    BY <2>6 DEF ReportDownloading, ReportLoading, ReportRendering, ReportUploading,
                ReportCompleted, Report, Local
  <2>7. ASSUME NEW p \in Run, Upload(p) \/ RecordResult(p) \/ SendMail(p) \/ PublishDeadLetter(p)
        PROVE  Rests
    BY <2>7 DEF Upload, RecordResult, SendMail, PublishDeadLetter, Local
  <2>8. ASSUME NEW p \in Run, Catch(p) PROVE Rests
    BY <2>8 DEF Catch, Caught, Local, Job
  <2>9. CASE UNCHANGED vars
    BY <2>9 DEF vars, ghosts
  <2> QED
    BY <2>1, <2>2, <2>3, <2>4, <2>5, <2>6, <2>7, <2>8, <2>9 DEF Next, HandOver, Execute, Job
<1>2. Bounded'
  BY <1>1, JobAssumption DEF Bounded
<1>3. Flagged'
  BY <1>1, Zenon DEF Flagged
<1>4. Noted'
  BY <1>1 DEF Noted
<1> QED
  BY <1>2, <1>3, <1>4

(* Jobs, executions and tables keep their types; an execution's number is  *)
(* never above that of its job's stalls.                                   *)
THEOREM TypeOKCorrect == Spec => []TypeOK
<1>1. Init => Bounded /\ Flagged /\ Noted
  <2>1. Init => Bounded /\ Noted
    BY JobAssumption DEF Init, Bounded, Noted
  <2>2. Init => Flagged
    BY Zenon DEF Init, Flagged
  <2> QED
    BY <2>1, <2>2
<1>2. IInv /\ Bounded /\ Flagged /\ Noted => TypeOK
  <2> SUFFICES ASSUME IInv, Bounded, Flagged, Noted PROVE TypeOK
    OBVIOUS
  <2>1. JobsTyped /\ RunsTyped /\ Numbered /\ TablesTyped
    BY DEF IInv, Typed
  <2> QED
    BY <2>1, Zenon DEF TypeOK, JobsTyped, RunsTyped, Numbered, TablesTyped, Bounded, Flagged, Noted
<1> QED
  BY <1>1, <1>2, RestStep, InitIInv, IInvStep, PTL DEF Spec

(* Whatever fails, stalls, dies or overlaps, a document never names a file *)
(* that was not put into the store, and its hash is the one of its last    *)
(* FINAL_PDF_GENERATED event.                                              *)
THEOREM RecordedWasUploadedCorrect == Spec => []RecordedWasUploaded
<1>1. IInv => RecordedWasUploaded
  BY DEF IInv
<1> QED BY <1>1, IInvCorrect, PTL

(* No execution reports completion of a document that has no file.         *)
THEOREM CompletedMeansFileCorrect == Spec => []CompletedMeansFile
<1>1. IInv => CompletedMeansFile
  BY DEF IInv
<1> QED BY <1>1, IInvCorrect, PTL

(* Only the record whose event was handed over first is ever reported on.  *)
THEOREM OneRecordProgressesCorrect == Spec => []OneRecordProgresses
<1>1. IInv => OneRecordProgresses
  BY DEF IInv
<1> QED BY <1>1, IInvCorrect, PTL

-----------------------------------------------------------------------------
(***************************************************************************)
(* How a job ends.  Every time a job is taken it may have one effect more; *)
(* an execution that is alone knows what it leaves; and a job that is over *)
(* has been told of, unless somebody who could not is noted.               *)
(***************************************************************************)
OwnersAreActive == \A j \in Job : job[j].owner # None => job[j].state = "active"
PdfHasRecord == job[Pdf].state # "none" => job[Pdf].payload \in Record

Alone == ~overlapped => \A p, q \in Run : run[p].job = Pdf /\ run[q].job = Pdf => p = q

(* The last upload is the one that the document names.                     *)
Stored == uploads # <<>> /\ uploads[Len(uploads)] = document
SaysCompleted == record[job[Pdf].payload] = "COMPLETED"
AloneIsSound ==
    ~overlapped =>
        /\ \A p \in Run : run[p].job = Pdf =>
              /\ run[p].step = "record" => uploads # <<>> /\ uploads[Len(uploads)] = run[p].nr
              /\ run[p].step = "completed" => Stored
              /\ run[p].step = "fulfilled" => Stored /\ SaysCompleted
        /\ job[Pdf].state = "completed" => Working(Pdf) = {} /\ Stored /\ SaysCompleted

(* A finalization that was taken is told of, or an execution still will.   *)
Taken(j) == job[j].state \in {"active", "completed", "failed"}
Told ==
    Taken(Pdf) /\ Pdf \notin unreported =>
        \/ record[job[Pdf].payload] \in {"COMPLETED", "FAILED"}
        \/ \E p \in Run : run[p].step \in PdfSteps

Lettered ==
    \A q \in Request : job[q].state = "failed" /\ q \notin unreported =>
        \/ dlq[q] # "none"
        \/ \E p \in Run : run[p].job = q /\ run[p].step = "deadLetter"
Sent ==
    \A q \in Request :
        /\ job[q].state = "completed" => mailed[q] >= 1
        /\ \A p \in Run : run[p].job = q /\ run[p].step = "fulfilled" => mailed[q] >= 1

(* Executions that have not had their effect yet, and the effects of a     *)
(* job.                                                                    *)
Due == (PdfSteps \ {"completed", "catch"}) \cup {"sending"}
Pending(j) == {p \in Run : run[p].job = j /\ run[p].step \in Due}
Takes(j) == IF job[j].state = "none" THEN 0
            ELSE IF job[j].state = "waiting" THEN job[j].stalls ELSE job[j].stalls + 1
Spent(j) == IF j = Pdf THEN Len(audited) ELSE mailed[j]
Budget == \A j \in Job : /\ IsFiniteSet(Pending(j))
                         /\ Spent(j) + Cardinality(Pending(j)) <= Takes(j)

Sound == /\ OwnersAreActive /\ PdfHasRecord /\ Alone /\ AloneIsSound
         /\ Told /\ Lettered /\ Sent /\ Budget

LEMMA InitSound == Init => Sound
<1> SUFFICES ASSUME Init PROVE Sound
  OBVIOUS
<1>1. /\ \A j \in Job : job[j].state = "none" /\ job[j].owner = None /\ job[j].stalls = 0
      /\ \A p \in Run : run[p].job = None /\ run[p].step = "idle"
      /\ Pdf \in Job /\ Request \subseteq Job /\ None \notin Job
  BY JobAssumption DEF Init, NoJob, Idle, Job
<1>2. \A j \in Job : Pending(j) = {}
  BY <1>1 DEF Pending
<1>3. \A j \in Job : Spent(j) = 0 /\ Takes(j) = 0
  BY <1>1 DEF Spent, Takes, Init, Job
<1>4. Budget
  BY <1>2, <1>3, FS_EmptySet DEF Budget
<1> QED
  BY <1>1, <1>4 DEF Sound, OwnersAreActive, PdfHasRecord, Alone, AloneIsSound, Told, Taken,
     Lettered, Sent

(* Counting: what is spent and what is due stay within what was taken.     *)
LEMMA Within ==
    ASSUME NEW S, IsFiniteSet(S), NEW T,
           NEW n \in Nat, NEW n2 \in Nat, NEW m \in Nat, NEW m2 \in Nat,
           n + Cardinality(S) <= m,
           \/ T \subseteq S /\ n2 = n /\ m2 >= m
           \/ \E x \in S : T \subseteq S \ {x} /\ n2 <= n + 1 /\ m2 >= m
           \/ \E x : T \subseteq S \cup {x} /\ n2 = n /\ m2 = m + 1
    PROVE  IsFiniteSet(T) /\ n2 + Cardinality(T) <= m2
<1>1. Cardinality(S) \in Nat
  BY FS_CardinalityType
<1>2. ASSUME NEW U, IsFiniteSet(U), T \subseteq U, n2 + Cardinality(U) <= m2
      PROVE  IsFiniteSet(T) /\ n2 + Cardinality(T) <= m2
  <2>1. IsFiniteSet(T) /\ Cardinality(T) <= Cardinality(U)
    BY <1>2, FS_Subset
  <2>2. Cardinality(T) \in Nat /\ Cardinality(U) \in Nat
    BY <1>2, <2>1, FS_CardinalityType
  <2> QED
    BY <1>2, <2>1, <2>2
<1>3. CASE T \subseteq S /\ n2 = n /\ m2 >= m
  BY <1>1, <1>2, <1>3
<1>4. ASSUME NEW x \in S, T \subseteq S \ {x}, n2 <= n + 1, m2 >= m
      PROVE  IsFiniteSet(T) /\ n2 + Cardinality(T) <= m2
  <2>1. IsFiniteSet(S \ {x}) /\ Cardinality(S \ {x}) = Cardinality(S) - 1
    BY FS_RemoveElement
  <2> QED
    BY <1>1, <1>2, <1>4, <2>1
<1>5. ASSUME NEW x, T \subseteq S \cup {x}, n2 = n, m2 = m + 1
      PROVE  IsFiniteSet(T) /\ n2 + Cardinality(T) <= m2
  <2>1. /\ IsFiniteSet(S \cup {x})
        /\ Cardinality(S \cup {x}) \in {Cardinality(S), Cardinality(S) + 1}
    BY FS_AddElement
  <2> QED
    BY <1>1, <1>2, <1>5, <2>1
<1> QED
  BY <1>3, <1>4, <1>5

NumbersTyped == \A j \in Job : Spent(j) \in Nat /\ Takes(j) \in Nat

LEMMA NumbersAreTyped == IInv => NumbersTyped
<1> SUFFICES ASSUME IInv PROVE NumbersTyped
  OBVIOUS
<1>1. \A j \in Job : job[j].stalls \in Nat
  BY JobAssumption DEF IInv, Typed, JobsTyped, JobRecord
<1>2. Len(audited) \in Nat /\ \A q \in Request : mailed[q] \in Nat
  BY DEF IInv, Typed, TablesTyped
<1> QED
  BY <1>1, <1>2 DEF NumbersTyped, Spent, Takes, Job

(* A step spends what was due, makes due what was taken, or leaves less    *)
(* due.                                                                    *)
LEMMA BudgetStays ==
    ASSUME IInv, IInv', Budget,
           \A j \in Job :
              \/ /\ Spent(j)' = Spent(j) /\ Takes(j)' >= Takes(j)
                 /\ Pending(j)' \subseteq Pending(j)
              \/ /\ Spent(j)' <= Spent(j) + 1 /\ Takes(j)' >= Takes(j)
                 /\ \E p \in Pending(j) : Pending(j)' \subseteq Pending(j) \ {p}
              \/ /\ Spent(j)' = Spent(j) /\ Takes(j)' = Takes(j) + 1
                 /\ \E p : Pending(j)' \subseteq Pending(j) \cup {p}
    PROVE  Budget'
<1>1. NumbersTyped /\ NumbersTyped'
  BY NumbersAreTyped, PTL
<1> SUFFICES ASSUME NEW j \in Job
             PROVE  IsFiniteSet(Pending(j)') /\ Spent(j)' + Cardinality(Pending(j)') <= Takes(j)'
  BY DEF Budget
<1>2. Spent(j) \in Nat /\ Takes(j) \in Nat /\ Spent(j)' \in Nat /\ Takes(j)' \in Nat
  BY <1>1 DEF NumbersTyped
<1>3. IsFiniteSet(Pending(j)) /\ Spent(j) + Cardinality(Pending(j)) <= Takes(j)
  BY DEF Budget
<1> QED
  BY <1>2, <1>3, Within

-----------------------------------------------------------------------------
(* The queue hands a job over, takes a lock away, or asks for a stalled    *)
(* job to be executed again.                                               *)
LEMMA QueueSound ==
    ASSUME IInv, IInv', Sound,
           \/ \E r \in Record : Add(Pdf, r)
           \/ \E q \in Request : Add(q, None)
           \/ \E j \in Job : Requeue(j)
           \/ \E p \in Run : LoseLock(p)
    PROVE  Sound'
<1> USE JobAssumption DEF Sound
<1>1. /\ UNCHANGED <<run, record, uploads, document, audited, mailed, dlq>>
      /\ UNCHANGED <<overlapped, unreported>>
  BY DEF Add, Requeue, LoseLock, tables, ghosts
<1>2. \A k \in Job :
         \/ job'[k] = job[k]
         \/ /\ job[k].state = "none" /\ job'[k].state = "waiting" /\ job'[k].owner = None
            /\ job'[k].stalls = 0 /\ (k = Pdf => job'[k].payload \in Record)
         \/ /\ job[k].state = "active" /\ job'[k].owner = None
            /\ job'[k].payload = job[k].payload
            /\ \/ job'[k].state = "active" /\ job'[k].stalls = job[k].stalls
               \/ job'[k].state = "waiting" /\ job'[k].stalls = job[k].stalls + 1
  <2> SUFFICES ASSUME NEW k \in Job, job'[k] # job[k]
               PROVE
         \/ /\ job[k].state = "none" /\ job'[k].state = "waiting" /\ job'[k].owner = None
            /\ job'[k].stalls = 0 /\ (k = Pdf => job'[k].payload \in Record)
         \/ /\ job[k].state = "active" /\ job'[k].owner = None
            /\ job'[k].payload = job[k].payload
            /\ \/ job'[k].state = "active" /\ job'[k].stalls = job[k].stalls
               \/ job'[k].state = "waiting" /\ job'[k].stalls = job[k].stalls + 1
    OBVIOUS
  <2>0. job \in [Job -> JobRecord]
    BY DEF IInv, Typed, JobsTyped
  <2>2. ASSUME NEW j \in Job, Requeue(j)
        PROVE  /\ k = j /\ job[k].state = "active" /\ job[k].owner = None
               /\ job'[k] = [job[k] EXCEPT !.state = "waiting", !.stalls = @ + 1]
    BY <2>0, <2>2 DEF Requeue, Stalled
  <2>3. ASSUME NEW p \in Run, LoseLock(p)
        PROVE  /\ job[k].state = "active" /\ job'[k] = [job[k] EXCEPT !.owner = None]
    BY <2>0, <2>3 DEF LoseLock, Owns, OwnersAreActive
  <2>4. job[k] \in JobRecord
    BY <2>0
  <2>5. ASSUME NEW r \in Record, Add(Pdf, r)
        PROVE  /\ job[k].state = "none" /\ job'[k].state = "waiting"
               /\ job'[k].owner = None /\ job'[k].stalls = 0 /\ job'[k].payload \in Record
    <3>1. Pdf \in Job
      BY DEF Job
    <3>2. /\ job[Pdf].state = "none"
          /\ job' = [job EXCEPT ![Pdf] = [state |-> "waiting", payload |-> r,
                                          owner |-> None, stalls |-> 0]]
      BY <2>5 DEF Add, Addable, NoJob
    <3>3. k = Pdf
      BY <2>0, <3>1, <3>2
    <3> QED
      BY <2>0, <3>1, <3>2, <3>3
  <2>6. ASSUME NEW q \in Request, Add(q, None)
        PROVE  /\ job[k].state = "none" /\ job'[k].state = "waiting"
               /\ job'[k].owner = None /\ job'[k].stalls = 0 /\ k # Pdf
    <3>1. q \in Job /\ q # Pdf
      BY DEF Job
    <3>2. /\ job[q].state = "none"
          /\ job' = [job EXCEPT ![q] = [state |-> "waiting", payload |-> None,
                                        owner |-> None, stalls |-> 0]]
      BY <2>6 DEF Add, Addable, NoJob
    <3>3. k = q
      BY <2>0, <3>1, <3>2
    <3> QED
      BY <2>0, <3>1, <3>2, <3>3
  <2>7. ASSUME NEW j \in Job, Requeue(j)
        PROVE  /\ job[k].state = "active" /\ job'[k].owner = None
               /\ job'[k].payload = job[k].payload
               /\ job'[k].state = "waiting" /\ job'[k].stalls = job[k].stalls + 1
    BY <2>2, <2>4, <2>7 DEF JobRecord
  <2>8. ASSUME NEW p \in Run, LoseLock(p)
        PROVE  /\ job[k].state = "active" /\ job'[k].owner = None
               /\ job'[k].payload = job[k].payload
               /\ job'[k].state = "active" /\ job'[k].stalls = job[k].stalls
    BY <2>3, <2>4, <2>8 DEF JobRecord
  <2> QED
    BY <2>5, <2>6, <2>7, <2>8
<1>3. OwnersAreActive'
  BY <1>2 DEF OwnersAreActive
<1>4. Pdf \in Job /\ Request \subseteq Job /\ Pdf \notin Request
  BY DEF Job
<1>5. PdfHasRecord'
  BY <1>2, <1>4 DEF PdfHasRecord
<1>6. Alone'
  BY <1>1 DEF Alone
<1>7. job'[Pdf].payload = job[Pdf].payload \/ Working(Pdf) = {}
  BY <1>2, <1>4 DEF IInv, NoneIsUntouched, Working
<1>8. AloneIsSound'
  BY <1>1, <1>2, <1>4, <1>7 DEF AloneIsSound, Stored, SaysCompleted, Working
<1>9. Told'
  BY <1>1, <1>2, <1>4 DEF Told, Taken
<1>10. Lettered' /\ Sent'
  BY <1>1, <1>2, <1>4 DEF Lettered, Sent
<1>11. Budget'
  <2>1. \A j \in Job : Spent(j)' = Spent(j) /\ Pending(j)' = Pending(j)
    BY <1>1 DEF Spent, Pending
  <2>2. \A j \in Job : Takes(j)' >= Takes(j)
    <3> SUFFICES ASSUME NEW j \in Job PROVE Takes(j)' >= Takes(j)
      OBVIOUS
    <3>1. job[j].stalls \in Nat
      BY DEF IInv, Typed, JobsTyped, JobRecord
    <3> QED
      BY <1>2, <3>1 DEF Takes
  <2> QED
    BY <2>1, <2>2, BudgetStays
<1> QED
  BY <1>3, <1>5, <1>6, <1>8, <1>9, <1>10, <1>11

(* The queue gives up a job; the failed handler may come up for it.        *)
LEMMA GiveUpSound ==
    ASSUME IInv, IInv', Sound, NEW j \in Job, GiveUp(j)
    PROVE  Sound'
<1> USE JobAssumption DEF Sound
<1>1. /\ UNCHANGED <<record, uploads, document, audited, mailed, dlq, overlapped>>
      /\ unreported' = unreported \cup {j}
      /\ job[j].state = "active" /\ job[j].owner = None
      /\ job' = [job EXCEPT ![j].state = "failed"]
  BY DEF GiveUp, Stalled, tables
<1>2. \A k \in Job : \/ job'[k] = job[k]
                     \/ /\ k = j /\ job'[k].state = "failed" /\ job'[k].owner = None
                        /\ job'[k].payload = job[k].payload /\ job'[k].stalls = job[k].stalls
  BY <1>1 DEF IInv, Typed, JobsTyped, JobRecord
<1>3. \A p \in Run : \/ run'[p] = run[p]
                     \/ /\ run[p].job = None /\ run[p].step = "idle"
                        /\ run'[p].job \in Request /\ run'[p].step = "deadLetter"
  <2>1. ASSUME NEW p \in Run, run[p] = Idle, j # Pdf,
               run' = [run EXCEPT ![p] = [job |-> j, step |-> "deadLetter", nr |-> 0]]
        PROVE  /\ \A q \in Run : q # p => run'[q] = run[q]
               /\ run[p].job = None /\ run[p].step = "idle"
               /\ run'[p].job \in Request /\ run'[p].step = "deadLetter"
    <3>1. run \in [Run -> [job : Job \cup {None}, step : Steps, nr : Executions \cup {0}]]
      BY DEF IInv, Typed, RunsTyped
    <3>2. j \in Request
      BY <2>1 DEF Job
    <3> DEFINE letter == [job |-> j, step |-> "deadLetter", nr |-> 0]
    <3>3. letter.job = j /\ letter.step = "deadLetter"
      OBVIOUS
    <3>4. Idle.job = None /\ Idle.step = "idle"
      BY DEF Idle
    <3>5. run' = [run EXCEPT ![p] = letter]
      BY <2>1
    <3> HIDE DEF letter
    <3>6. run'[p] = letter /\ \A q \in Run : q # p => run'[q] = run[q]
      BY <3>1, <3>5
    <3> QED
      BY <2>1, <3>2, <3>3, <3>4, <3>6
  <2>2. \/ UNCHANGED run
        \/ /\ j # Pdf
           /\ \E p \in Run : /\ run[p] = Idle
                             /\ run' = [run EXCEPT ![p] =
                                   [job |-> j, step |-> "deadLetter", nr |-> 0]]
    BY DEF GiveUp
  <2> QED
    BY <2>1, <2>2
<1>4. Pdf \in Job /\ Request \subseteq Job /\ Pdf \notin Request /\ job'[j].state = "failed"
  BY <1>1 DEF Job, IInv, Typed, JobsTyped, JobRecord
<1>5. OwnersAreActive' /\ PdfHasRecord'
  BY <1>1, <1>2, <1>4 DEF OwnersAreActive, PdfHasRecord
<1>6. Alone'
  BY <1>1, <1>3, <1>4 DEF Alone
<1>7. AloneIsSound'
  <2>1. \A p \in Run : run'[p].job = Pdf => run'[p] = run[p]
    BY <1>3, <1>4
  <2>2. /\ job'[Pdf].payload = job[Pdf].payload
        /\ job'[Pdf].state = "completed" => job[Pdf].state = "completed"
    BY <1>2, <1>4
  <2>3. Working(Pdf)' \subseteq Working(Pdf)
    BY <2>1 DEF Working
  <2>4. UNCHANGED <<record, uploads, document, overlapped>>
    BY <1>1
  <2> QED
    BY <2>1, <2>2, <2>3, <2>4 DEF AloneIsSound, Stored, SaysCompleted
<1>8. Told'
  BY <1>1, <1>2, <1>3, <1>4 DEF Told, Taken, PdfSteps
<1>9. Lettered'
  <2> SUFFICES ASSUME NEW q \in Request, job'[q].state = "failed", q \notin unreported'
               PROVE  \/ dlq'[q] # "none"
                      \/ \E p \in Run : run'[p].job = q /\ run'[p].step = "deadLetter"
    BY DEF Lettered
  <2>1. job[q].state = "failed" /\ q \notin unreported /\ dlq' = dlq
    BY <1>1, <1>2, <1>4
  <2> QED
    BY <1>3, <2>1 DEF Lettered
<1>10. Sent'
  <2> SUFFICES ASSUME NEW q \in Request,
                      \/ job'[q].state = "completed"
                      \/ \E p \in Run : run'[p].job = q /\ run'[p].step = "fulfilled"
               PROVE  mailed'[q] >= 1
    BY DEF Sent
  <2>1. job'[q].state = "completed" => job[q].state = "completed"
    BY <1>1, <1>2, <1>4
  <2>2. \A p \in Run : run'[p].step = "fulfilled" => run'[p] = run[p]
    BY <1>3
  <2>3. mailed' = mailed
    BY <1>1
  <2> QED
    BY <2>1, <2>2, <2>3 DEF Sent
<1>11. Budget'
  <2>1. \A k \in Job : Spent(k)' = Spent(k) /\ Pending(k)' \subseteq Pending(k)
    BY <1>1, <1>3 DEF Spent, Pending, Due, PdfSteps
  <2>2. \A k \in Job : Takes(k)' >= Takes(k)
    <3> SUFFICES ASSUME NEW k \in Job PROVE Takes(k)' >= Takes(k)
      OBVIOUS
    <3>1. job[k].stalls \in Nat
      BY DEF IInv, Typed, JobsTyped, JobRecord
    <3> QED
      BY <1>1, <1>2, <3>1 DEF Takes
  <2> QED
    BY <2>1, <2>2, BudgetStays
<1> QED
  BY <1>5, <1>6, <1>7, <1>8, <1>9, <1>10, <1>11

(* A consumer takes a job.                                                 *)
LEMMA TakeSound ==
    ASSUME IInv, IInv', Sound, NEW j \in Job, NEW p \in Run, Take(p, j)
    PROVE  Sound'
<1> USE JobAssumption DEF Sound
<1>1. /\ UNCHANGED <<record, uploads, document, audited, mailed, dlq, unreported>>
      /\ overlapped' = (overlapped \/ (j = Pdf /\ Working(Pdf) # {}))
      /\ job[j].state = "waiting" /\ run[p] = Idle
      /\ job' = [job EXCEPT ![j].state = "active", ![j].owner = p]
      /\ run' = [run EXCEPT ![p] = [job |-> j, step |-> FirstStep(j), nr |-> job[j].stalls + 1]]
  BY DEF Take, tables
<1>2. \A k \in Job : \/ k # j /\ job'[k] = job[k]
                     \/ /\ k = j /\ job'[k].state = "active"
                        /\ job'[k].payload = job[k].payload /\ job'[k].stalls = job[k].stalls
  <2> SUFFICES ASSUME NEW k \in Job
               PROVE  \/ k # j /\ job'[k] = job[k]
                      \/ /\ k = j /\ job'[k].state = "active"
                         /\ job'[k].payload = job[k].payload /\ job'[k].stalls = job[k].stalls
    OBVIOUS
  <2>1. job \in [Job -> JobRecord] /\ job[j] \in JobRecord
    BY DEF IInv, Typed, JobsTyped
  <2>2. job' = [job EXCEPT ![j] = [job[j] EXCEPT !.state = "active", !.owner = p]]
    BY <1>1, <2>1
  <2>3. k = j => job'[k] = [job[j] EXCEPT !.state = "active", !.owner = p]
    BY <2>1, <2>2
  <2> QED
    BY <2>1, <2>2, <2>3 DEF JobRecord
<1>3. /\ run'[p].job = j /\ run'[p].step = FirstStep(j)
      /\ run[p].job = None /\ run[p].step = "idle"
      /\ \A q \in Run : q # p => run'[q] = run[q]
  BY <1>1 DEF IInv, Typed, RunsTyped, Idle
<1>4. /\ Pdf \in Job /\ Request \subseteq Job /\ Pdf \notin Request
      /\ FirstStep(j) = IF j = Pdf THEN "downloading" ELSE "sending"
  BY DEF Job, FirstStep
<1>5. OwnersAreActive' /\ PdfHasRecord'
  BY <1>1, <1>2, <1>4 DEF OwnersAreActive, PdfHasRecord
<1>6. ~overlapped' => ~overlapped /\ (j = Pdf => Working(Pdf) = {})
  BY <1>1
<1>7. Alone'
  BY <1>3, <1>6 DEF Alone, Working
<1>8. AloneIsSound'
  <2> SUFFICES ASSUME ~overlapped' PROVE
        /\ \A q \in Run : run'[q].job = Pdf =>
              /\ run'[q].step = "record" => uploads # <<>> /\ uploads[Len(uploads)] = run'[q].nr
              /\ run'[q].step = "completed" => Stored
              /\ run'[q].step = "fulfilled" => Stored /\ record[job'[Pdf].payload] = "COMPLETED"
        /\ job'[Pdf].state = "completed" => 
              /\ \A q \in Run : run'[q].job # Pdf
              /\ Stored /\ record[job'[Pdf].payload] = "COMPLETED"
    BY <1>1 DEF AloneIsSound, Stored, SaysCompleted, Working
  <2>1. job'[Pdf].payload = job[Pdf].payload /\ (job'[Pdf].state = "completed" => j # Pdf /\ job[Pdf].state = "completed")
    BY <1>2, <1>4
  <2> QED
    BY <1>3, <1>4, <1>6, <2>1 DEF AloneIsSound, SaysCompleted, Working
<1>9. Told'
  <2>1. CASE j = Pdf
    BY <1>3, <1>4, <2>1 DEF Told, PdfSteps
  <2>2. CASE j # Pdf
    BY <1>1, <1>2, <1>3, <1>4, <2>2 DEF Told, Taken, PdfSteps
  <2> QED
    BY <2>1, <2>2
<1>10. Lettered'
  <2> SUFFICES ASSUME NEW q \in Request, job'[q].state = "failed", q \notin unreported'
               PROVE  \/ dlq'[q] # "none"
                      \/ \E c \in Run : run'[c].job = q /\ run'[c].step = "deadLetter"
    BY DEF Lettered
  <2>1. job[q].state = "failed" /\ q \notin unreported /\ dlq' = dlq
    BY <1>1, <1>2, <1>4
  <2>2. \A c \in Run : run[c].step = "deadLetter" => run'[c] = run[c]
    BY <1>3
  <2>3. \/ dlq[q] # "none"
        \/ \E c \in Run : run[c].job = q /\ run[c].step = "deadLetter"
    BY <2>1 DEF Lettered
  <2> QED
    BY <2>1, <2>2, <2>3
<1>11. Sent'
  <2> SUFFICES ASSUME NEW q \in Request,
                      \/ job'[q].state = "completed"
                      \/ \E c \in Run : run'[c].job = q /\ run'[c].step = "fulfilled"
               PROVE  mailed'[q] >= 1
    BY DEF Sent
  <2>1. job'[q].state = "completed" => job[q].state = "completed"
    BY <1>1, <1>2, <1>4
  <2>2. \A c \in Run : run'[c].step = "fulfilled" => run'[c] = run[c]
    BY <1>3, <1>4
  <2>3. mailed' = mailed
    BY <1>1
  <2> QED
    BY <2>1, <2>2, <2>3 DEF Sent
<1>12. Budget'
  <2>1. \A k \in Job : Spent(k)' = Spent(k)
    BY <1>1 DEF Spent
  <2>2. Pending(j)' \subseteq Pending(j) \cup {p}
    BY <1>3 DEF Pending
  <2>3. \A k \in Job : k # j => Pending(k)' \subseteq Pending(k)
    BY <1>3 DEF Pending
  <2>4. Takes(j)' = Takes(j) + 1
    BY <1>1, <1>2 DEF Takes
  <2>5. \A k \in Job : k # j => Takes(k)' = Takes(k)
    BY <1>2 DEF Takes
  <2>6. \A k \in Job : Takes(k) \in Nat
    BY NumbersAreTyped DEF NumbersTyped
  <2> QED
    BY <2>1, <2>2, <2>3, <2>4, <2>5, <2>6, BudgetStays
<1> QED
  BY <1>5, <1>7, <1>8, <1>9, <1>10, <1>11, <1>12

(* An execution ends: it returns, throws, or its process dies.             *)
LEMMA EndSound ==
    ASSUME IInv, IInv', Sound, NEW p \in Run, Fulfil(p) \/ Reject(p) \/ Crash(p)
    PROVE  Sound'
<1> USE JobAssumption DEF Sound
<1> DEFINE j == run[p].job
<1>1. UNCHANGED <<record, uploads, document, audited, mailed, dlq, overlapped>>
  BY DEF Fulfil, Reject, Crash, Return, tables, ghosts
<1>2. /\ Pdf \in Job /\ Request \subseteq Job /\ Pdf \notin Request /\ None \notin Job /\ j \in Job
      /\ run[p].step \in PdfSteps => j = Pdf
  BY DEF Fulfil, Reject, Crash, IInv, Typed, RunsTyped, StepsFit, Job
<1>3. \A k \in Job :
         \/ job'[k] = job[k]
         \/ /\ k = j /\ job[k].state = "active" /\ job'[k].owner = None
            /\ job'[k].payload = job[k].payload /\ job'[k].stalls = job[k].stalls
            /\ \/ job'[k].state = "active"
               \/ run[p].step = "fulfilled" /\ Fulfil(p) /\ job'[k].state = "completed"
               \/ /\ run[p].step = "rejected" /\ job'[k].state = "failed"
                  /\ k # Pdf => run' = [run EXCEPT ![p] = [@ EXCEPT !.step = "deadLetter"]]
  <2>1. job \in [Job -> JobRecord] /\ job[j] \in JobRecord
    BY <1>2 DEF IInv, Typed, JobsTyped
  <2>2. CASE UNCHANGED job
    BY <2>2
  <2>3. ASSUME job[j].owner = p, NEW state,
               job' = [job EXCEPT ![j].state = state, ![j].owner = None]
        PROVE  \A k \in Job :
                  \/ job'[k] = job[k]
                  \/ /\ k = j /\ job[k].state = "active" /\ job'[k].owner = None
                     /\ job'[k].payload = job[k].payload /\ job'[k].stalls = job[k].stalls
                     /\ job'[k].state = state
    <3>1. job[j].state = "active"
      BY <1>2, <2>3 DEF OwnersAreActive
    <3>2. job' = [job EXCEPT ![j] = [job[j] EXCEPT !.state = state, !.owner = None]]
      BY <2>1, <2>3
    <3>3. \A k \in Job : k # j => job'[k] = job[k]
      BY <3>2, <2>1
    <3>4. job'[j] = [job[j] EXCEPT !.state = state, !.owner = None]
      BY <1>2, <3>2, <2>1
    <3>5. /\ job'[j].owner = None /\ job'[j].state = state
          /\ job'[j].payload = job[j].payload /\ job'[j].stalls = job[j].stalls
      BY <2>1, <3>4 DEF JobRecord
    <3> QED
      BY <3>1, <3>3, <3>5
  <2>4. CASE Fulfil(p)
    BY <2>2, <2>3, <2>4 DEF Fulfil, Return, Counts, Owns
  <2>5. CASE Reject(p)
    <3>1. run[p].step = "rejected" /\ (UNCHANGED job \/ job[j].owner = p)
      BY <2>5 DEF Reject, Return, Counts, Owns
    <3>2. job[j].owner = p => /\ job' = [job EXCEPT ![j].state = "failed", ![j].owner = None]
                              /\ j # Pdf => run' = [run EXCEPT ![p] = [@ EXCEPT !.step = "deadLetter"]]
      BY <2>5 DEF Reject, Return, Counts, Owns
    <3> QED
      BY <2>2, <2>3, <3>1, <3>2
  <2>6. CASE Crash(p)
    <3>1. \/ UNCHANGED job
          \/ job[j].owner = p /\ job' = [job EXCEPT ![j].owner = None]
      BY <2>6 DEF Crash, Owns
    <3>2. ASSUME job[j].owner = p, job' = [job EXCEPT ![j].owner = None]
          PROVE  /\ \A k \in Job : k # j => job'[k] = job[k]
                 /\ job[j].state = "active" /\ job'[j].state = "active" /\ job'[j].owner = None
                 /\ job'[j].payload = job[j].payload /\ job'[j].stalls = job[j].stalls
      BY <1>2, <2>1, <3>2 DEF OwnersAreActive, JobRecord
    <3> QED
      BY <2>2, <3>1, <3>2
  <2> QED
    BY <2>4, <2>5, <2>6
<1>4. /\ \A q \in Run : q # p => run'[q] = run[q]
      /\ \/ run'[p].job = None /\ run'[p].step = "idle"
         \/ /\ j # Pdf /\ run'[p].job = j /\ run'[p].step = "deadLetter"
            /\ run[p].step = "rejected"
  <2>1. run \in [Run -> [job : Job \cup {None}, step : Steps, nr : Executions \cup {0}]]
    BY DEF IInv, Typed, RunsTyped
  <2>2. \/ run' = [run EXCEPT ![p] = Idle]
        \/ /\ j # Pdf /\ run[p].step = "rejected"
           /\ run' = [run EXCEPT ![p] = [@ EXCEPT !.step = "deadLetter"]]
    BY DEF Fulfil, Reject, Crash, Return
  <2>3. Idle.job = None /\ Idle.step = "idle"
    BY DEF Idle
  <2>4. CASE run' = [run EXCEPT ![p] = Idle]
    BY <2>1, <2>3, <2>4
  <2>5. CASE run' = [run EXCEPT ![p] = [@ EXCEPT !.step = "deadLetter"]]
    BY <2>1, <2>2, <2>3, <2>5
  <2> QED
    BY <2>2, <2>4, <2>5
<1>5. /\ unreported \subseteq unreported'
      /\ run[p].step \notin {"fulfilled", "rejected"} => j \in unreported'
  BY DEF Fulfil, Reject, Crash, Return, ghosts
<1>7. Alone'
  BY <1>1, <1>2, <1>4 DEF Alone
<1> HIDE DEF j
<1>6. OwnersAreActive' /\ PdfHasRecord'
  <2>1. ASSUME NEW k \in Job
        PROVE  /\ job'[k].owner # None => job'[k].state = "active"
               /\ job'[k].payload = job[k].payload
               /\ job'[k].state # "none" => job[k].state # "none"
    BY <1>3 DEF OwnersAreActive
  <2> QED
    BY <1>2, <2>1 DEF OwnersAreActive, PdfHasRecord
<1>8. AloneIsSound'
  <2> SUFFICES ASSUME ~overlapped PROVE AloneIsSound'
    BY <1>1 DEF AloneIsSound
  <2>1. \A q \in Run : run'[q].job = Pdf => run'[q] = run[q] /\ q # p
    BY <1>2, <1>4
  <2>2. job'[Pdf].payload = job[Pdf].payload
    BY <1>2, <1>3
  <2>3. UNCHANGED <<record, uploads, document>>
    BY <1>1
  <2>4. Working(Pdf)' \subseteq Working(Pdf)
    BY <2>1 DEF Working
  <2>5. ASSUME job'[Pdf].state = "completed"
        PROVE  Working(Pdf)' = {} /\ Stored /\ SaysCompleted
    <3>1. CASE job[Pdf].state = "completed"
      BY <2>4, <3>1 DEF AloneIsSound
    <3>2. CASE run[p].step = "fulfilled" /\ j = Pdf
      <4>1. Working(Pdf)' = {}
        BY <2>1, <3>2 DEF Working, Alone, j
      <4> QED
        BY <3>2, <4>1 DEF AloneIsSound, j
    <3> QED
      BY <1>2, <1>3, <2>5, <3>1, <3>2
  <2> QED
    BY <2>1, <2>2, <2>3, <2>5 DEF AloneIsSound, Stored, SaysCompleted
<1>9. Told'
  <2> SUFFICES ASSUME Taken(Pdf)', Pdf \notin unreported'
               PROVE  \/ record'[job'[Pdf].payload] \in {"COMPLETED", "FAILED"}
                      \/ \E q \in Run : run'[q].step \in PdfSteps
    BY DEF Told
  <2>1. /\ Taken(Pdf) /\ Pdf \notin unreported
        /\ record'[job'[Pdf].payload] = record[job[Pdf].payload]
    BY <1>1, <1>2, <1>3, <1>5 DEF Taken
  <2>2. run[p].step \notin PdfSteps
    BY <1>2, <1>5 DEF PdfSteps
  <2>3. \A q \in Run : run[q].step \in PdfSteps => run'[q] = run[q]
    BY <1>4, <2>2
  <2> QED
    BY <2>1, <2>3 DEF Told
<1>10. Lettered'
  <2> SUFFICES ASSUME NEW q \in Request, job'[q].state = "failed", q \notin unreported'
               PROVE  \/ dlq'[q] # "none"
                      \/ \E c \in Run : run'[c].job = q /\ run'[c].step = "deadLetter"
    BY DEF Lettered
  <2>1. CASE job[q].state = "failed"
    <3>1. \/ dlq[q] # "none"
          \/ \E c \in Run : run[c].job = q /\ run[c].step = "deadLetter"
      BY <1>5, <2>1 DEF Lettered
    <3>2. ASSUME NEW c \in Run, run[c].job = q, run[c].step = "deadLetter"
          PROVE  run'[c] = run[c]
      BY <1>4, <1>5, <3>2 DEF j
    <3> QED
      BY <1>1, <3>1, <3>2
  <2>2. CASE /\ q = j /\ run' = [run EXCEPT ![p] = [@ EXCEPT !.step = "deadLetter"]]
    <3>1. run \in [Run -> [job : Job \cup {None}, step : Steps, nr : Executions \cup {0}]]
      BY DEF IInv, Typed, RunsTyped
    <3>2. run'[p].job = q /\ run'[p].step = "deadLetter"
      BY <2>2, <3>1 DEF j
    <3> QED
      BY <3>2
  <2> QED
    BY <1>2, <1>3, <2>1, <2>2
<1>11. Sent'
  <2> SUFFICES ASSUME NEW q \in Request,
                      \/ job'[q].state = "completed"
                      \/ \E c \in Run : run'[c].job = q /\ run'[c].step = "fulfilled"
               PROVE  mailed'[q] >= 1
    BY DEF Sent
  <2>1. \/ job[q].state = "completed"
        \/ \E c \in Run : run[c].job = q /\ run[c].step = "fulfilled"
    BY <1>2, <1>3, <1>4 DEF j
  <2> QED
    BY <1>1, <2>1 DEF Sent
<1>12. Budget'
  <2>1. \A k \in Job : Spent(k)' = Spent(k)
    BY <1>1 DEF Spent
  <2>2. \A k \in Job : Pending(k)' \subseteq Pending(k)
    BY <1>2, <1>4 DEF Pending, Due, PdfSteps
  <2>3. \A k \in Job : Takes(k)' = Takes(k)
    BY <1>3 DEF Takes
  <2>4. \A k \in Job : Takes(k) \in Nat
    BY NumbersAreTyped DEF NumbersTyped
  <2> QED
    BY <2>1, <2>2, <2>3, <2>4, BudgetStays
<1> QED
  BY <1>6, <1>7, <1>8, <1>9, <1>10, <1>11, <1>12

-----------------------------------------------------------------------------
(* An execution of the finalization: what its reports, its upload and its  *)
(* transaction leave when it is alone.                                     *)
LEMMA WorkSound ==
    ASSUME IInv, IInv', Sound, NEW p \in Run, NEW s \in Steps,
           run[p].step \in PdfSteps, run' = [run EXCEPT ![p].step = s], s # "deadLetter",
           UNCHANGED <<job, overlapped, mailed, dlq>>, unreported \subseteq unreported',
           s \in Due => run[p].step \in Due,
           \* What is told, stored and recorded.
           \A r \in Record : r # job[Pdf].payload => record'[r] = record[r],
           s \in PdfSteps \/ Pdf \in unreported'
              \/ record'[job[Pdf].payload] \in {"COMPLETED", "FAILED"},
           \/ audited' = audited
           \/ Len(audited') = Len(audited) + 1 /\ run[p].step \in Due /\ s \notin Due,
           ~overlapped =>
              /\ s = "record" => uploads' # <<>> /\ uploads'[Len(uploads')] = run[p].nr
              /\ s = "completed" => Stored'
              /\ s = "fulfilled" => Stored' /\ SaysCompleted'
    PROVE  Sound'
<1> USE JobAssumption DEF Sound
<1>1. /\ run[p].job = Pdf /\ job[Pdf].state # "none"
      /\ Pdf \in Job /\ Request \subseteq Job /\ Pdf \notin Request
  BY DEF IInv, StepsFit, NoneIsUntouched, Job
<1>2. /\ \A q \in Run : q # p => run'[q] = run[q]
      /\ run'[p].job = Pdf /\ run'[p].step = s /\ run'[p].nr = run[p].nr
  BY <1>1 DEF Goto, IInv, Typed, RunsTyped
<1>3. OwnersAreActive' /\ PdfHasRecord'
  BY DEF OwnersAreActive, PdfHasRecord
<1>4. Alone'
  BY <1>1, <1>2 DEF Alone
<1>5. AloneIsSound'
  <2> SUFFICES ASSUME ~overlapped PROVE AloneIsSound'
    BY DEF AloneIsSound
  <2>1. \A q \in Run : run'[q].job = Pdf => q = p
    BY <1>1, <1>2 DEF Alone
  <2>2. job'[Pdf].state # "completed"
    BY <1>1 DEF AloneIsSound, Working
  <2> QED
    BY <1>2, <2>1, <2>2 DEF AloneIsSound
<1>6. Told'
  BY <1>2 DEF Told, Taken
<1>7. Lettered' /\ Sent'
  <2>1. \A q \in Request, c \in Run : run[c].job = q \/ run'[c].job = q => run'[c] = run[c]
    BY <1>1, <1>2
  <2>2. Lettered'
    <3> SUFFICES ASSUME NEW q \in Request, job[q].state = "failed", q \notin unreported
                 PROVE  \/ dlq[q] # "none"
                        \/ \E c \in Run : run'[c].job = q /\ run'[c].step = "deadLetter"
      BY DEF Lettered
    <3>1. \/ dlq[q] # "none"
          \/ \E c \in Run : run[c].job = q /\ run[c].step = "deadLetter"
      BY DEF Lettered
    <3> QED
      BY <2>1, <3>1
  <2>3. Sent'
    <3> SUFFICES ASSUME NEW q \in Request,
                        \/ job[q].state = "completed"
                        \/ \E c \in Run : run'[c].job = q /\ run'[c].step = "fulfilled"
                 PROVE  mailed[q] >= 1
      BY DEF Sent
    <3>1. \/ job[q].state = "completed"
          \/ \E c \in Run : run[c].job = q /\ run[c].step = "fulfilled"
      BY <2>1
    <3> QED
      BY <3>1 DEF Sent
  <2> QED
    BY <2>2, <2>3
<1>8. Budget'
  <2>1. \A k \in Job : k # Pdf => Spent(k)' = Spent(k) /\ Pending(k)' \subseteq Pending(k)
    BY <1>1, <1>2 DEF Spent, Pending
  <2>2. \A k \in Job : Takes(k)' = Takes(k)
    BY DEF Takes
  <2>3. \/ Spent(Pdf)' = Spent(Pdf) /\ Pending(Pdf)' \subseteq Pending(Pdf)
        \/ /\ Spent(Pdf)' = Spent(Pdf) + 1 /\ p \in Pending(Pdf)
           /\ Pending(Pdf)' \subseteq Pending(Pdf) \ {p}
    <3>1. CASE audited' = audited
      BY <1>1, <1>2, <3>1 DEF Spent, Pending
    <3>2. CASE Len(audited') = Len(audited) + 1 /\ run[p].step \in Due /\ s \notin Due
      BY <1>1, <1>2, <3>2 DEF Spent, Pending
    <3> QED
      BY <3>1, <3>2
  <2>4. \A k \in Job : Takes(k) \in Nat /\ Spent(k) \in Nat
    BY NumbersAreTyped DEF NumbersTyped
  <2>5. ASSUME NEW k \in Job
        PROVE  \/ /\ Spent(k)' = Spent(k) /\ Takes(k)' >= Takes(k)
                  /\ Pending(k)' \subseteq Pending(k)
               \/ /\ Spent(k)' <= Spent(k) + 1 /\ Takes(k)' >= Takes(k)
                  /\ \E q \in Pending(k) : Pending(k)' \subseteq Pending(k) \ {q}
    <3> DEFINE n == Takes(k)  m == Spent(k)  n2 == Takes(k)'  m2 == Spent(k)'
    <3>1. n \in Nat /\ m \in Nat
      BY <2>4
    <3>2. n2 = n
      BY <2>2
    <3>3. \/ m2 = m /\ Pending(k)' \subseteq Pending(k)
          \/ /\ m2 = m + 1
             /\ \E q \in Pending(k) : Pending(k)' \subseteq Pending(k) \ {q}
      BY <2>1, <2>3
    <3> HIDE DEF n, m, n2, m2
    <3>4. n2 >= n /\ (m2 = m + 1 => m2 <= m + 1)
      BY <3>1, <3>2
    <3>5. \/ m2 = m /\ n2 >= n /\ Pending(k)' \subseteq Pending(k)
          \/ /\ m2 <= m + 1 /\ n2 >= n
             /\ \E q \in Pending(k) : Pending(k)' \subseteq Pending(k) \ {q}
      BY <3>3, <3>4
    <3> QED
      BY <3>5 DEF n, m, n2, m2
  <2> QED
    BY <2>5, BudgetStays
<1> QED
  BY <1>3, <1>4, <1>5, <1>6, <1>7, <1>8

LEMMA ReportSound ==
    ASSUME IInv, IInv', Sound, NEW p \in Run, NEW step \in PdfSteps,
           NEW next \in Steps \ {"record", "completed", "deadLetter"}, NEW said,
           Report(p, step, said, next),
           next \in Due => step \in Due,
           next \notin PdfSteps => step = "completed" /\ next = "fulfilled" /\ said = "COMPLETED"
    PROVE  Sound'
<1> USE DEF Sound
<1>1. PICK s \in {next, "catch"} :
         /\ run' = [run EXCEPT ![p].step = s]
         /\ \/ record' = [record EXCEPT ![job[Pdf].payload] = said]
            \/ s = "catch" /\ record' = record
  BY DEF Report, Call, Goto, Reported
<1>2. /\ UNCHANGED <<job, overlapped, mailed, dlq, unreported, uploads, document, audited>>
      /\ run[p].step = step
  BY DEF Report, Local, At
<1>3. /\ run[p].job = Pdf /\ job[Pdf].payload \in Record
      /\ record \in [Record -> {"QUEUED", "COMPLETED", "FAILED"} \cup Phase]
  <2>1. run[p].job = Pdf
    BY <1>2 DEF IInv, StepsFit
  <2> QED
    BY <2>1, JobAssumption DEF IInv, Typed, TablesTyped, NoneIsUntouched, PdfHasRecord, Job
<1>4. /\ s \in Steps \ {"record", "completed", "deadLetter"}
      /\ s \in Due => run[p].step \in Due
      /\ s \notin PdfSteps => /\ s = next /\ step = "completed" /\ next = "fulfilled"
                              /\ said = "COMPLETED"
  BY <1>2 DEF Steps, Due, PdfSteps
<1>5. /\ \A r \in Record : r # job[Pdf].payload => record'[r] = record[r]
      /\ s \in PdfSteps \/ record'[job[Pdf].payload] = "COMPLETED"
  BY <1>1, <1>3, <1>4 DEF PdfSteps
<1>6. ~overlapped => (s = "fulfilled" => Stored' /\ SaysCompleted')
  BY <1>2, <1>3, <1>4, <1>5 DEF AloneIsSound, Stored, SaysCompleted, PdfSteps
<1> QED
  BY <1>1, <1>2, <1>4, <1>5, <1>6, WorkSound

LEMMA UploadSound ==
    ASSUME IInv, IInv', Sound, NEW p \in Run, Upload(p)
    PROVE  Sound'
<1>1. PICK s \in {"record", "catch"} :
         /\ run' = [run EXCEPT ![p].step = s]
         /\ s = "record" => uploads' = Append(uploads, run[p].nr)
  BY DEF Upload, Call, Goto
<1>2. /\ UNCHANGED <<job, record, overlapped, mailed, dlq, unreported, document, audited>>
      /\ run[p].step = "upload"
  BY DEF Upload, Local, At
<1>3. run[p].nr \in Executions /\ uploads \in Seq(Executions)
  BY <1>2 DEF IInv, Typed, TablesTyped, StepsFit
<1>4. s = "record" => uploads' # <<>> /\ uploads'[Len(uploads')] = run[p].nr
  BY <1>1, <1>3
<1>5. /\ s \in Steps /\ s # "deadLetter" /\ s \in PdfSteps /\ run[p].step \in Due
      /\ s \notin {"completed", "fulfilled"} /\ run[p].step \in PdfSteps
  BY <1>2 DEF Steps, PdfSteps, Due
<1> QED
  BY <1>1, <1>2, <1>4, <1>5, WorkSound

LEMMA RecordSound ==
    ASSUME IInv, IInv', Sound, NEW p \in Run, RecordResult(p)
    PROVE  Sound'
<1>1. PICK s \in {"completed", "catch"} :
         /\ run' = [run EXCEPT ![p].step = s]
         /\ s = "completed" => document' = run[p].nr
         /\ audited' = Append(audited, run[p].nr) \/ audited' = audited
  BY DEF RecordResult, Call, Goto, Recorded
<1>2. /\ UNCHANGED <<job, record, overlapped, mailed, dlq, unreported, uploads>>
      /\ run[p].step = "record"
  BY DEF RecordResult, Local, At
<1>3. run[p].nr \in Executions /\ audited \in Seq(Executions) /\ run[p].job = Pdf
  BY <1>2 DEF IInv, Typed, TablesTyped, StepsFit, PdfSteps
<1>4. audited' = audited \/ Len(audited') = Len(audited) + 1
  BY <1>1, <1>3
<1>5. ~overlapped => (s = "completed" => Stored')
  BY <1>1, <1>2, <1>3 DEF Sound, AloneIsSound, Stored
<1>6. /\ s \in Steps /\ s # "deadLetter" /\ s \in PdfSteps /\ run[p].step \in Due
      /\ s \notin {"record", "fulfilled"} /\ s \notin Due /\ run[p].step \in PdfSteps
  BY <1>2 DEF Steps, PdfSteps, Due
<1> QED
  BY <1>1, <1>2, <1>4, <1>5, <1>6, WorkSound

LEMMA CatchSound ==
    ASSUME IInv, IInv', Sound, NEW p \in Run, Catch(p)
    PROVE  Sound'
<1>1. /\ run' = [run EXCEPT ![p].step = "rejected"]
      /\ UNCHANGED <<job, overlapped, mailed, dlq, uploads, document, audited>>
      /\ run[p].step = "catch"
      /\ \/ record' = [record EXCEPT ![job[Pdf].payload] = "FAILED"] /\ unreported' = unreported
         \/ record' = record /\ unreported' = unreported \cup {Pdf}
  BY DEF Catch, Caught, Goto, Local, At, Reported
<1>2. /\ job[Pdf].payload \in Record
      /\ record \in [Record -> {"QUEUED", "COMPLETED", "FAILED"} \cup Phase]
  <2>1. run[p].job = Pdf
    BY <1>1 DEF IInv, StepsFit, PdfSteps
  <2> QED
    BY <2>1, JobAssumption
       DEF IInv, Typed, TablesTyped, NoneIsUntouched, Sound, PdfHasRecord, Job
<1>3. /\ \A r \in Record : r # job[Pdf].payload => record'[r] = record[r]
      /\ Pdf \in unreported' \/ record'[job[Pdf].payload] \in {"COMPLETED", "FAILED"}
      /\ unreported \subseteq unreported'
  BY <1>1, <1>2
<1>4. /\ "rejected" \in Steps /\ "rejected" \notin Due /\ "catch" \in PdfSteps
      /\ "rejected" \notin {"record", "completed", "fulfilled", "deadLetter"}
  BY DEF Steps, PdfSteps, Due
<1> QED
  BY <1>1, <1>3, <1>4, WorkSound

(* An e-mail is accepted, or not; and its dead letter is published.        *)
LEMMA MailSound ==
    ASSUME IInv, IInv', Sound, NEW p \in Run, SendMail(p) \/ PublishDeadLetter(p)
    PROVE  Sound'
<1> USE JobAssumption DEF Sound
<1>1. /\ UNCHANGED <<job, overlapped, record, uploads, document, audited, unreported>>
  BY DEF SendMail, PublishDeadLetter, Local
<1>2. /\ run[p].job \in Request /\ Pdf \in Job /\ Request \subseteq Job /\ Pdf \notin Request
      /\ run \in [Run -> [job : Job \cup {None}, step : Steps, nr : Executions \cup {0}]]
      /\ mailed \in [Request -> Nat] /\ None \notin Job
      /\ dlq \in [Request -> {"none", "published", "refused"}]
  BY DEF SendMail, PublishDeadLetter, At, IInv, Typed, RunsTyped, TablesTyped, StepsFit,
         MailSteps, Job
<1>3. /\ \A q \in Run : q # p => run'[q] = run[q]
      /\ \/ /\ run[p].step = "sending" /\ run'[p].job = run[p].job /\ UNCHANGED dlq
            /\ \/ /\ run'[p].step = "fulfilled"
                  /\ mailed' = [mailed EXCEPT ![run[p].job] = @ + 1]
               \/ /\ run'[p].step = "rejected"
                  /\ \/ mailed' = mailed
                     \/ mailed' = [mailed EXCEPT ![run[p].job] = @ + 1]
         \/ /\ run[p].step = "deadLetter" /\ run'[p].job = None /\ run'[p].step = "idle"
            /\ UNCHANGED mailed
            /\ \E letter \in {"published", "refused"} :
                  dlq' = [dlq EXCEPT ![run[p].job] = letter]
  <2>1. CASE SendMail(p)
    BY <1>2, <2>1 DEF SendMail, At, Call, Goto
  <2>2. CASE PublishDeadLetter(p)
    <3>1. run' = [run EXCEPT ![p] = Idle]
      BY <2>2 DEF PublishDeadLetter
    <3>2. \A q \in Run : q # p => run'[q] = run[q]
      BY <1>2, <3>1
    <3>3. run'[p].job = None /\ run'[p].step = "idle"
      BY <1>2, <3>1 DEF Idle
    <3> QED
      BY <2>2, <3>2, <3>3 DEF PublishDeadLetter, At, Letters
  <2> QED
    BY <2>1, <2>2
<1>4. \A q \in Request : /\ mailed'[q] >= mailed[q]
                         /\ dlq[q] # "none" => dlq'[q] # "none"
  BY <1>2, <1>3
<1>5. OwnersAreActive' /\ PdfHasRecord'
  BY <1>1 DEF OwnersAreActive, PdfHasRecord
<1>6. \A q \in Run : run'[q].job = Pdf <=> run[q].job = Pdf /\ run'[q] = run[q]
  BY <1>2, <1>3
<1>7. Alone' /\ AloneIsSound'
  BY <1>1, <1>6 DEF Alone, AloneIsSound, Stored, SaysCompleted, Working
<1>8. Told'
  <2>1. \A q \in Run : run[q].step \in PdfSteps => run'[q] = run[q]
    BY <1>3 DEF PdfSteps
  <2> QED
    BY <1>1, <2>1 DEF Told, Taken
<1>9. Lettered'
  <2> SUFFICES ASSUME NEW q \in Request, job[q].state = "failed", q \notin unreported
               PROVE  \/ dlq'[q] # "none"
                      \/ \E c \in Run : run'[c].job = q /\ run'[c].step = "deadLetter"
    BY <1>1 DEF Lettered
  <2>1. CASE dlq[q] # "none"
    BY <1>4, <2>1
  <2>2. ASSUME NEW c \in Run, run[c].job = q, run[c].step = "deadLetter"
        PROVE  run'[c] = run[c] \/ dlq'[q] # "none"
    BY <1>2, <1>3, <2>2
  <2> QED
    BY <2>1, <2>2 DEF Lettered
<1>10. Sent'
  <2> SUFFICES ASSUME NEW q \in Request,
                      \/ job[q].state = "completed"
                      \/ \E c \in Run : run'[c].job = q /\ run'[c].step = "fulfilled"
               PROVE  mailed'[q] >= 1
    BY <1>1 DEF Sent
  <2>1. mailed[q] \in Nat /\ mailed'[q] \in Nat
    BY <1>2 DEF IInv, Typed, TablesTyped
  <2>2. CASE mailed[q] >= 1
    BY <1>4, <2>1, <2>2
  <2>3. CASE run'[p].job = q /\ run'[p].step = "fulfilled"
    BY <1>2, <1>3, <2>1, <2>3
  <2> QED
    BY <1>3, <2>2, <2>3 DEF Sent
<1>11. Budget'
  <2>1. \A k \in Job : Takes(k)' >= Takes(k)
    <3>1. \A k \in Job : Takes(k)' = Takes(k)
      BY <1>1 DEF Takes
    <3> QED
      BY <3>1, NumbersAreTyped DEF NumbersTyped
  <2>2. ASSUME NEW k \in Job
        PROVE  \/ Spent(k)' = Spent(k) /\ Pending(k)' \subseteq Pending(k)
               \/ /\ Spent(k)' <= Spent(k) + 1 /\ p \in Pending(k)
                  /\ Pending(k)' \subseteq Pending(k) \ {p}
    <3>1. CASE k # run[p].job
      BY <1>1, <1>2, <1>3, <3>1 DEF Spent, Pending, Job
    <3>2. CASE k = run[p].job /\ run[p].step = "sending"
      <4>1. p \in Pending(k) /\ Pending(k)' \subseteq Pending(k) \ {p}
        BY <1>3, <3>2 DEF Pending, Due, PdfSteps
      <4>2. mailed'[k] <= mailed[k] + 1
        BY <1>2, <1>3, <3>2
      <4>3. Spent(k)' = mailed'[k] /\ Spent(k) = mailed[k]
        BY <1>2, <3>2 DEF Spent
      <4> QED
        BY <4>1, <4>2, <4>3
    <3>3. CASE k = run[p].job /\ run[p].step = "deadLetter"
      BY <1>1, <1>2, <1>3, <3>3 DEF Spent, Pending
    <3> QED
      BY <1>3, <3>1, <3>2, <3>3
  <2> QED
    BY <2>1, <2>2, BudgetStays
<1> QED
  BY <1>5, <1>7, <1>8, <1>9, <1>10, <1>11

LEMMA SoundStep == IInv /\ IInv' /\ Sound /\ [Next]_vars => Sound'
<1> SUFFICES ASSUME IInv, IInv', Sound, [Next]_vars PROVE Sound'
  OBVIOUS
<1>1. CASE HandOver \/ \E j \in Job : Requeue(j)
  BY <1>1, QueueSound DEF HandOver
<1>2. ASSUME NEW j \in Job, GiveUp(j) PROVE Sound'
  BY <1>2, GiveUpSound
<1>3. ASSUME NEW j \in Job, NEW p \in Run, Take(p, j) PROVE Sound'
  BY <1>3, TakeSound
<1>4. ASSUME NEW p \in Run, LoseLock(p) PROVE Sound'
  BY <1>4, QueueSound
<1>5. ASSUME NEW p \in Run, Fulfil(p) \/ Reject(p) \/ Crash(p) PROVE Sound'
  BY <1>5, EndSound
<1>6. ASSUME NEW p \in Run, Upload(p) \/ RecordResult(p) \/ Catch(p) PROVE Sound'
  BY <1>6, UploadSound, RecordSound, CatchSound
<1>7. ASSUME NEW p \in Run, SendMail(p) \/ PublishDeadLetter(p) PROVE Sound'
  BY <1>7, MailSound
<1>8. ASSUME NEW p \in Run,
             \/ ReportDownloading(p) \/ ReportLoading(p) \/ ReportRendering(p)
             \/ ReportUploading(p) \/ ReportCompleted(p)
      PROVE  Sound'
  <2>0. ASSUME NEW step \in PdfSteps, step \in Due, NEW next \in PdfSteps,
               next \in Steps \ {"record", "completed", "deadLetter"}, NEW said,
               Report(p, step, said, next)
        PROVE  Sound'
    BY <2>0, ReportSound
  <2>1. CASE ReportDownloading(p)
    <3>1. Report(p, "downloading", "DOWNLOADING", "loading")
      BY <2>1 DEF ReportDownloading
    <3>2. "loading" \in Steps \ {"record", "completed", "deadLetter"}
      BY DEF Steps
    <3> QED
      BY <2>0, <3>1, <3>2 DEF PdfSteps, Due
  <2>2. CASE ReportLoading(p)
    <3>1. Report(p, "loading", "LOADING_VALUES", "rendering")
      BY <2>2 DEF ReportLoading
    <3>2. "rendering" \in Steps \ {"record", "completed", "deadLetter"}
      BY DEF Steps
    <3> QED
      BY <2>0, <3>1, <3>2 DEF PdfSteps, Due
  <2>3. CASE ReportRendering(p)
    <3>1. Report(p, "rendering", "RENDERING", "uploading")
      BY <2>3 DEF ReportRendering
    <3>2. "uploading" \in Steps \ {"record", "completed", "deadLetter"}
      BY DEF Steps
    <3> QED
      BY <2>0, <3>1, <3>2 DEF PdfSteps, Due
  <2>4. CASE ReportUploading(p)
    <3>1. Report(p, "uploading", "UPLOADING", "upload")
      BY <2>4 DEF ReportUploading, AfterRender
    <3>2. "upload" \in Steps \ {"record", "completed", "deadLetter"}
      BY DEF Steps
    <3> QED
      BY <2>0, <3>1, <3>2 DEF PdfSteps, Due
  <2>5. CASE ReportCompleted(p)
    <3>1. Report(p, "completed", "COMPLETED", "fulfilled")
      BY <2>5 DEF ReportCompleted
    <3>2. "completed" \in PdfSteps /\ "fulfilled" \notin Due
      BY DEF PdfSteps, Due
    <3>3. "fulfilled" \in Steps \ {"record", "completed", "deadLetter"}
      BY DEF Steps
    <3> QED
      BY <3>1, <3>2, <3>3, ReportSound
  <2> QED
    BY <1>8, <2>1, <2>2, <2>3, <2>4, <2>5
<1>9. CASE UNCHANGED vars
  <2>1. UNCHANGED <<job, run, record, uploads, document, audited, mailed, dlq, overlapped, unreported>>
    BY <1>9 DEF vars, tables, ghosts
  <2> QED
    BY <2>1 DEF Sound, OwnersAreActive, PdfHasRecord, Alone, AloneIsSound, Stored, SaysCompleted,
        Working, Told, Taken, Lettered, Sent, Budget, Pending, Spent, Takes
<1> QED
  BY <1>1, <1>2, <1>3, <1>4, <1>5, <1>6, <1>7, <1>8, <1>9 DEF Next, StallCheck, Execute

LEMMA SoundCorrect == Spec => []Sound
<1> QED BY InitSound, SoundStep, IInvCorrect, PTL DEF Spec

-----------------------------------------------------------------------------
(* However often a finalization was taken, lost and repeated: if BullMQ    *)
(* settles it as completed and no two executions overlapped, the document  *)
(* names the file that lies in the store, its record says so, and there is *)
(* one event per execution at most; and the record of a finalization that  *)
(* is over tells how it ended, unless an execution that could not is       *)
(* noted.                                                                  *)
THEOREM SettledJobsAreSound == Spec => []SettledJobIsSound
<1>1. IInv /\ Sound => SettledJobIsSound
  <2> SUFFICES ASSUME IInv, Sound PROVE SettledJobIsSound
    OBVIOUS
  <2>1. ASSUME job[Pdf].state = "completed", ~overlapped
        PROVE  /\ uploads # <<>> /\ uploads[Len(uploads)] = document
               /\ record[job[Pdf].payload] = "COMPLETED"
    BY <2>1 DEF Sound, AloneIsSound, Stored, SaysCompleted
  <2>2. ASSUME job[Pdf].state = "completed"
        PROVE  Len(audited) <= 1 + job[Pdf].stalls
    <3>1. Pdf \in Job
      BY DEF Job
    <3>2. Spent(Pdf) = Len(audited) /\ Takes(Pdf) = job[Pdf].stalls + 1
      BY <2>2 DEF Spent, Takes
    <3>3. /\ IsFiniteSet(Pending(Pdf))
          /\ Len(audited) + Cardinality(Pending(Pdf)) <= job[Pdf].stalls + 1
      BY <3>1, <3>2 DEF Sound, Budget
    <3>4. Cardinality(Pending(Pdf)) \in Nat /\ Len(audited) \in Nat /\ job[Pdf].stalls \in Nat
      BY <3>1, <3>3, FS_CardinalityType, JobAssumption
         DEF IInv, Typed, TablesTyped, JobsTyped, JobRecord
    <3> QED
      BY <3>3, <3>4
  <2>3. ASSUME Settled(Pdf), Working(Pdf) = {}, Pdf \notin unreported
        PROVE  record[job[Pdf].payload] \in {"COMPLETED", "FAILED"}
    BY <2>3 DEF Sound, Told, Taken, Settled, Working, IInv, StepsFit
  <2> QED
    BY <2>1, <2>2, <2>3 DEF SettledJobIsSound
<1> QED
  BY <1>1, IInvCorrect, SoundCorrect, PTL

(* A job that failed stays so, and only such a job has a dead letter or    *)
(* somebody about to publish one.                                          *)
LettersFollow ==
    /\ \A p \in Run : run[p].step = "deadLetter" => job[run[p].job].state = "failed"
    /\ \A q \in Request : dlq[q] # "none" => job[q].state = "failed"

LEMMA FailedStays ==
    ASSUME IInv, OwnersAreActive, [Next]_vars, NEW j \in Job, job[j].state = "failed"
    PROVE  job'[j].state = "failed"
<1> USE DEF IInv, Typed, JobsTyped, JobRecord
<1>1. ASSUME NEW k \in Job, NEW payload, Add(k, payload) PROVE job'[j].state = "failed"
  BY <1>1 DEF Add, Addable
<1>2. ASSUME NEW k \in Job, NEW p \in Run, Take(p, k) PROVE job'[j].state = "failed"
  BY <1>2 DEF Take
<1>3. ASSUME NEW k \in Job, StallCheck(k) PROVE job'[j].state = "failed"
  BY <1>3 DEF StallCheck, Requeue, GiveUp, Stalled
<1>4. ASSUME NEW p \in Run, LoseLock(p) \/ Crash(p) PROVE job'[j].state = "failed"
  BY <1>4 DEF LoseLock, Crash
<1>5. ASSUME NEW p \in Run, Fulfil(p) \/ Reject(p) PROVE job'[j].state = "failed"
  <2>1. job[j].owner # p
    BY JobAssumption DEF OwnersAreActive
  <2>2. CASE Counts(p)
    BY <1>5, <2>1, <2>2 DEF Fulfil, Reject, Return, Counts, Owns
  <2>3. CASE ~Counts(p)
    BY <1>5, <2>3 DEF Fulfil, Reject, Return
  <2> QED
    BY <2>2, <2>3
<1>6. CASE UNCHANGED job
  BY <1>6
<1>7. ASSUME NEW p \in Run, Execute(p) PROVE job'[j].state = "failed"
  BY <1>5, <1>6, <1>7
     DEF Execute, ReportDownloading, ReportLoading, ReportRendering, ReportUploading, Report,
         ReportCompleted, Upload, RecordResult, Catch, SendMail, PublishDeadLetter, Local
<1>8. CASE HandOver
  BY <1>1, <1>8 DEF HandOver, Job
<1> QED
  BY <1>2, <1>3, <1>4, <1>6, <1>7, <1>8 DEF Next, vars

(* What a step does to the letters, and who comes to publish one.          *)
LEMMA LettersStay ==
    ASSUME LettersFollow, OwnersAreActive, IInv, [Next]_vars,
           \A p \in Run : run'[p].step = "deadLetter" =>
               \/ run[p].step = "deadLetter" /\ run'[p].job = run[p].job
               \/ job'[run'[p].job].state = "failed",
           \A q \in Request : dlq'[q] # "none" => dlq[q] # "none" \/ job[q].state = "failed"
    PROVE  LettersFollow'
<1>1. \A j \in Job : job[j].state = "failed" => job'[j].state = "failed"
  BY FailedStays
<1>2. \A p \in Run : run[p].step = "deadLetter" => run[p].job \in Job
  BY DEF IInv, StepsFit
<1>3. ASSUME NEW p \in Run, run'[p].step = "deadLetter" PROVE job'[run'[p].job].state = "failed"
  BY <1>1, <1>2, <1>3 DEF LettersFollow
<1>4. ASSUME NEW q \in Request, dlq'[q] # "none" PROVE job'[q].state = "failed"
  BY <1>1, <1>4 DEF LettersFollow, Job
<1> QED
  BY <1>3, <1>4 DEF LettersFollow

LEMMA LettersStep ==
    IInv /\ OwnersAreActive /\ LettersFollow /\ [Next]_vars => LettersFollow'
<1> SUFFICES ASSUME IInv, OwnersAreActive, LettersFollow, [Next]_vars PROVE LettersFollow'
  OBVIOUS
<1> DEFINE New == \A p \in Run : run'[p].step = "deadLetter" =>
                      \/ run[p].step = "deadLetter" /\ run'[p].job = run[p].job
                      \/ job'[run'[p].job].state = "failed"
           Old == \A q \in Request : dlq'[q] # "none" => dlq[q] # "none" \/ job[q].state = "failed"
<1> USE DEF IInv, Typed, JobsTyped, RunsTyped, JobRecord
<1>1. UNCHANGED run => New
  OBVIOUS
<1>2. UNCHANGED dlq => Old
  OBVIOUS
<1>3. ASSUME NEW k \in Job, NEW payload, Add(k, payload) PROVE New /\ Old
  BY <1>1, <1>2, <1>3 DEF Add, tables
<1>4. ASSUME NEW k \in Job, NEW p \in Run, Take(p, k) PROVE New /\ Old
  <2>1. run' = [run EXCEPT ![p] = [job |-> k, step |-> FirstStep(k), nr |-> job[k].stalls + 1]]
    BY <1>4 DEF Take
  <2>2. FirstStep(k) # "deadLetter"
    BY DEF FirstStep
  <2>3. New
    BY <2>1, <2>2
  <2> QED
    BY <1>2, <1>4, <2>3 DEF Take, tables
<1>5. ASSUME NEW k \in Job, StallCheck(k) PROVE New /\ Old
  <2>1. CASE Requeue(k)
    BY <1>1, <1>2, <2>1 DEF Requeue, tables
  <2>2. CASE GiveUp(k)
    <3>1. job'[k].state = "failed" /\ UNCHANGED dlq
      BY <2>2 DEF GiveUp, tables
    <3>2. ASSUME NEW p \in Run, run' = [run EXCEPT ![p] =
                                         [job |-> k, step |-> "deadLetter", nr |-> 0]]
          PROVE  New
      BY <3>1, <3>2
    <3>3. New
      BY <1>1, <2>2, <3>2 DEF GiveUp
    <3> QED
      BY <1>2, <3>1, <3>3
  <2> QED
    BY <1>5, <2>1, <2>2 DEF StallCheck
<1>6. ASSUME NEW p \in Run, LoseLock(p) \/ Crash(p) PROVE New /\ Old
  BY <1>1, <1>2, <1>6 DEF LoseLock, Crash, tables, Idle
<1>7. ASSUME NEW p \in Run, NEW state \in {"completed", "failed"}, Return(p, state),
             run[p].job \in Job
      PROVE  New /\ Old
  <2>1. UNCHANGED dlq
    BY <1>7 DEF Return, tables
  <2>2. CASE Counts(p) /\ state = "failed" /\ run[p].job # Pdf
    <3>1. job'[run[p].job].state = "failed"
      BY <1>7, <2>2 DEF Return
    <3>2. run' = [run EXCEPT ![p] = [run[p] EXCEPT !.step = "deadLetter"]]
      BY <1>7, <2>2 DEF Return
    <3>3. [run[p] EXCEPT !.step = "deadLetter"].job = run[p].job
      OBVIOUS
    <3>4. run'[p].job = run[p].job /\ \A q \in Run : q # p => run'[q] = run[q]
      BY <3>2, <3>3
    <3> QED
      BY <1>2, <2>1, <3>1, <3>4
  <2>3. CASE ~(Counts(p) /\ state = "failed" /\ run[p].job # Pdf)
    <3>1. run' = [run EXCEPT ![p] = Idle]
      BY <1>7, <2>3 DEF Return
    <3> QED
      BY <1>2, <2>1, <3>1 DEF Idle
  <2> QED
    BY <2>2, <2>3
<1>8. ASSUME NEW p \in Run, NEW s, s # "deadLetter", Goto(p, s) PROVE New
  BY <1>8 DEF Goto
<1>9. ASSUME NEW p \in Run, Execute(p) PROVE New /\ Old
  <2>1. CASE Fulfil(p) \/ Reject(p)
    BY <1>7, <2>1 DEF Fulfil, Reject, StepsFit
  <2>2. CASE PublishDeadLetter(p)
    <3>1. \A q \in Request : q # run[p].job => dlq'[q] = dlq[q]
      BY <2>2 DEF PublishDeadLetter, TablesTyped
    <3>2. job[run[p].job].state = "failed"
      BY <2>2 DEF PublishDeadLetter, At, LettersFollow
    <3>3. New
      BY <2>2 DEF PublishDeadLetter, Idle
    <3> QED
      BY <3>1, <3>2, <3>3
  <2>3. CASE Catch(p)
    BY <1>2, <1>8, <2>3 DEF Catch
  <2>4. CASE ReportDownloading(p) \/ ReportLoading(p) \/ ReportRendering(p)
             \/ ReportUploading(p) \/ ReportCompleted(p)
    BY <1>2, <1>8, <2>4
       DEF ReportDownloading, ReportLoading, ReportRendering, ReportUploading, ReportCompleted,
           Report, Call, AfterRender
  <2>5. CASE Upload(p) \/ RecordResult(p) \/ SendMail(p)
    BY <1>2, <1>8, <2>5 DEF Upload, RecordResult, SendMail, Call
  <2> QED
    BY <1>9, <2>1, <2>2, <2>3, <2>4, <2>5 DEF Execute
<1>10. ASSUME HandOver PROVE New /\ Old
  BY <1>3, <1>10 DEF HandOver, Job
<1>11. ASSUME UNCHANGED vars PROVE New /\ Old
  BY <1>1, <1>2, <1>11 DEF vars, tables
<1> HIDE DEF New, Old
<1>12. New /\ Old
  BY <1>4, <1>5, <1>6, <1>9, <1>10, <1>11 DEF Next
<1> QED
  BY <1>12, LettersStay DEF New, Old

LEMMA LettersCorrect == Spec => []LettersFollow
<1>1. Init => LettersFollow
  BY DEF Init, LettersFollow, Idle
<1>2. Sound => OwnersAreActive
  BY DEF Sound
<1> QED
  BY <1>1, <1>2, LettersStep, IInvCorrect, SoundCorrect, PTL DEF Spec

(* Each time its job is taken an e-mail is sent once at most, and one      *)
(* whose job completed was sent.  One whose job failed, once the worker is *)
(* done with it, has a dead letter, unless the dead-letter queue refused   *)
(* it, a process died with the job or the job was given up after stalling: *)
(* then nothing may tell of it.  Only jobs that failed have letters.       *)
THEOREM MailsAreSettled == Spec => []MailsAreAccountedFor
<1>1. IInv /\ Sound /\ LettersFollow => MailsAreAccountedFor
  <2> SUFFICES ASSUME IInv, Sound, LettersFollow, NEW q \in Request
               PROVE  /\ mailed[q] <= 1 + job[q].stalls
                      /\ job[q].state = "completed" => mailed[q] >= 1
                      /\ job[q].state = "failed" /\ Working(q) = {}
                         => dlq[q] = "published" \/ Untold(q)
                      /\ dlq[q] # "none" => job[q].state = "failed"
    BY DEF MailsAreAccountedFor
  <2>1. mailed[q] <= 1 + job[q].stalls
    <3>1. q \in Job /\ q # Pdf
      BY JobAssumption DEF Job
    <3>2. /\ job[q].stalls \in Nat /\ mailed[q] \in Nat
      BY <3>1, JobAssumption DEF IInv, Typed, TablesTyped, JobsTyped, JobRecord
    <3>3. Spent(q) = mailed[q] /\ Takes(q) <= job[q].stalls + 1
      BY <3>1, <3>2 DEF Spent, Takes
    <3>4. IsFiniteSet(Pending(q)) /\ mailed[q] + Cardinality(Pending(q)) <= Takes(q)
      BY <3>1, <3>3 DEF Sound, Budget
    <3>5. Cardinality(Pending(q)) \in Nat /\ Takes(q) \in Nat
      BY <3>1, <3>4, FS_CardinalityType, NumbersAreTyped DEF NumbersTyped
    <3> QED
      BY <3>2, <3>3, <3>4, <3>5
  <2>2. job[q].state = "completed" => mailed[q] >= 1
    BY DEF Sound, Sent
  <2>3. job[q].state = "failed" /\ Working(q) = {} => dlq[q] = "published" \/ Untold(q)
    <3>1. dlq[q] \in {"none", "published", "refused"}
      BY DEF IInv, Typed, TablesTyped
    <3> QED
      BY <3>1 DEF Sound, Lettered, Working, Untold
  <2>4. dlq[q] # "none" => job[q].state = "failed"
    BY DEF LettersFollow
  <2> QED
    BY <2>1, <2>2, <2>3, <2>4
<1> QED
  BY <1>1, IInvCorrect, SoundCorrect, LettersCorrect, PTL

-----------------------------------------------------------------------------
(* The composition.  A hand-over is that of the job of the event, and the  *)
(* consumers are those of JobWorkers: every step is one of JobWorkers or   *)
(* leaves its variables alone.                                             *)
LEMMA StepsAreJobSteps == [FinalNext]_system => [Next]_vars
<1> SUFFICES ASSUME [FinalNext]_system PROVE [Next]_vars
  OBVIOUS
<1>1. ASSUME NEW e \in Event, Dispatch(e) PROVE Next
  <2>1. CASE e \in Record
    <3>1. Add(Pdf, e)
      BY <1>1, <2>1 DEF Dispatch, JobOf, Payload
    <3> QED
      BY <2>1, <3>1 DEF Next, HandOver
  <2>2. CASE e \notin Record
    <3>1. e \in Request /\ Add(e, None)
      BY <1>1, <2>2 DEF Dispatch, JobOf, Payload, Event
    <3> QED
      BY <3>1 DEF Next, HandOver
  <2> QED
    BY <2>1, <2>2
<1>2. ASSUME NEW e \in Event, Try(e) \/ Acknowledge(e) \/ Abandon(e) PROVE UNCHANGED vars
  BY <1>2 DEF Try, Acknowledge, Abandon
<1>3. CASE SendDocument \/ \E r \in Signer : Sign(r)
  BY <1>3 DEF SendDocument, Sign
<1>4. CASE Aside(Consume)
  BY <1>4 DEF Aside, Consume, Next
<1>5. CASE UNCHANGED system
  BY <1>5 DEF system
<1> QED
  BY <1>1, <1>2, <1>3, <1>4, <1>5 DEF FinalNext, Settle

(* The composition keeps whatever JobWorkers guarantees.                   *)
THEOREM ConsumersAreJobWorkers == FinalSpec => Spec
<1>1. FinalInit => Init
  BY DEF FinalInit
<1> QED
  BY <1>1, StepsAreJobSteps, PTL DEF FinalSpec, Spec

(* A job that was handed over stays so, and consumers hand nothing over.   *)
LEMMA ConsumersHandNothingOver ==
    ASSUME IInv, Consume \/ UNCHANGED vars, NEW j \in Job
    PROVE  /\ job[j].state = "none" => job'[j] = job[j]
           /\ job[j].state # "none" => job'[j].state # "none"
<1> USE DEF IInv, Typed, JobsTyped, JobRecord
<1>1. ASSUME NEW k \in Job, StallCheck(k)
      PROVE  /\ job[k].state # "none"
             /\ \/ job' = [job EXCEPT ![k].state = "failed"]
                \/ job' = [job EXCEPT ![k].state = "waiting", ![k].stalls = @ + 1]
  BY <1>1 DEF StallCheck, Requeue, GiveUp, Stalled
<1>2. ASSUME NEW k \in Job, NEW p \in Run, Take(p, k)
      PROVE  /\ job[k].state # "none"
             /\ job' = [job EXCEPT ![k].state = "active", ![k].owner = p]
  BY <1>2 DEF Take
<1>3. ASSUME NEW p \in Run, LoseLock(p) \/ Crash(p) \/ Fulfil(p) \/ Reject(p)
      PROVE  /\ run[p].job \in Job /\ job[run[p].job].state # "none"
             /\ \/ UNCHANGED job
                \/ job' = [job EXCEPT ![run[p].job].owner = None]
                \/ \E state \in {"completed", "failed"} :
                      job' = [job EXCEPT ![run[p].job].state = state,
                                         ![run[p].job].owner = None]
  <2>1. run[p].job \in Job /\ run[p].job # None
    BY <1>3, JobAssumption DEF LoseLock, Crash, Fulfil, Reject, StepsFit, RunsTyped
  <2>2. job[run[p].job].state # "none"
    BY <2>1 DEF NoneIsUntouched
  <2> QED
    BY <1>3, <2>1, <2>2 DEF LoseLock, Crash, Fulfil, Reject, Return
<1>4. ASSUME NEW p \in Run, Execute(p), ~Fulfil(p), ~Reject(p) PROVE UNCHANGED job
  BY <1>4 DEF Execute, ReportDownloading, ReportLoading, ReportRendering, ReportUploading,
       ReportCompleted, Report, Upload, RecordResult, Catch, SendMail, PublishDeadLetter, Local
<1>5. CASE UNCHANGED job
  BY <1>5
<1>6. CASE UNCHANGED vars
  BY <1>6 DEF vars
<1>7. ASSUME NEW k \in Job, StallCheck(k)
      PROVE  /\ job[j].state = "none" => job'[j] = job[j]
             /\ job[j].state # "none" => job'[j].state # "none"
  <2>1. j # k => job'[j] = job[j]
    BY <1>1, <1>7
  <2>2. job'[k].state # "none" /\ job[k].state # "none"
    <3>1. job[k].state # "none"
      BY <1>1, <1>7
    <3>2. CASE job' = [job EXCEPT ![k].state = "failed"]
      BY <3>1, <3>2
    <3>3. CASE job' = [job EXCEPT ![k].state = "waiting", ![k].stalls = @ + 1]
      BY <3>1, <3>3
    <3> QED
      BY <1>1, <1>7, <3>2, <3>3
  <2> QED
    BY <2>1, <2>2
<1>8. ASSUME NEW k \in Job, NEW p \in Run, Take(p, k)
      PROVE  /\ job[j].state = "none" => job'[j] = job[j]
             /\ job[j].state # "none" => job'[j].state # "none"
  <2>1. j # k => job'[j] = job[j]
    BY <1>2, <1>8
  <2>2. job'[k].state # "none" /\ job[k].state # "none"
    <3>1. /\ job[k].state # "none"
          /\ job' = [job EXCEPT ![k].state = "active", ![k].owner = p]
      BY <1>2, <1>8
    <3> QED
      BY <3>1
  <2> QED
    BY <2>1, <2>2
<1>9. ASSUME NEW p \in Run, LoseLock(p) \/ Crash(p) \/ Fulfil(p) \/ Reject(p)
      PROVE  /\ job[j].state = "none" => job'[j] = job[j]
             /\ job[j].state # "none" => job'[j].state # "none"
  <2>1. j # run[p].job => job'[j] = job[j]
    BY <1>3, <1>9
  <2>2. job'[run[p].job].state # "none" /\ job[run[p].job].state # "none"
    <3> DEFINE k == run[p].job
    <3>1. k \in Job /\ job[k].state # "none"
      BY <1>3, <1>9
    <3>2. \/ UNCHANGED job
          \/ job' = [job EXCEPT ![k].owner = None]
          \/ \E state \in {"completed", "failed"} :
                job' = [job EXCEPT ![k].state = state, ![k].owner = None]
      BY <1>3, <1>9
    <3> HIDE DEF k
    <3>3. ASSUME job' = [job EXCEPT ![k].owner = None] PROVE job'[k].state # "none"
      BY <3>1, <3>3
    <3>4. ASSUME NEW state \in {"completed", "failed"},
                 job' = [job EXCEPT ![k].state = state, ![k].owner = None]
          PROVE  job'[k].state # "none"
      BY <3>1, <3>4
    <3> QED
      BY <3>1, <3>2, <3>3, <3>4 DEF k
  <2> QED
    BY <2>1, <2>2
<1> QED
  BY <1>4, <1>5, <1>6, <1>7, <1>8, <1>9 DEF Consume

(* Only executions of the finalization store and record files.             *)
LEMMA FilesComeFromTheJob ==
    ASSUME IInv, [Next]_vars
    PROVE  UNCHANGED <<uploads, document>> \/ job[Pdf].state # "none"
<1> USE DEF IInv, tables
<1>1. ASSUME NEW p \in Run, Upload(p) \/ RecordResult(p) PROVE job[Pdf].state # "none"
  <2>1. run[p].step \in PdfSteps
    BY <1>1 DEF Upload, RecordResult, At, PdfSteps
  <2>2. run[p].job = Pdf
    BY <2>1 DEF StepsFit
  <2> QED
    BY <2>2, JobAssumption DEF NoneIsUntouched, Job
<1>2. ASSUME NEW p \in Run, Execute(p), ~Upload(p), ~RecordResult(p)
      PROVE  UNCHANGED <<uploads, document>>
  BY <1>2 DEF Execute, ReportDownloading, ReportLoading, ReportRendering, ReportUploading,
       ReportCompleted, Report, Catch, SendMail, PublishDeadLetter, Fulfil, Reject, Return
<1>3. ASSUME NEW p \in Run, LoseLock(p) \/ Crash(p) PROVE UNCHANGED <<uploads, document>>
  BY <1>3 DEF LoseLock, Crash
<1>4. ASSUME NEW j \in Job, StallCheck(j) \/ \E p \in Run : Take(p, j)
      PROVE  UNCHANGED <<uploads, document>>
  BY <1>4 DEF StallCheck, Requeue, GiveUp, Take
<1>5. CASE HandOver \/ UNCHANGED vars
  BY <1>5 DEF HandOver, Add, vars
<1> QED
  BY <1>1, <1>2, <1>3, <1>4, <1>5 DEF Next

(* A file presupposes a job, a finalization job an event, an event the     *)
(* signatures of all; an acknowledged event has a job.                     *)
Presupposed ==
    /\ uploads # <<>> \/ document # 0 => job[Pdf].state # "none"
    /\ job[Pdf].state # "none" => promised \cap Record # {}
    /\ promised \cap Record # {} => signed = Signer
    /\ signed \subseteq Signer
    /\ \A j \in Job : job[j].state = "none" => job[j] = NoJob
    /\ \A e \in acked : e \in Event /\ job[JobOf[e]].state # "none"

LEMMA PresupposedStep == IInv /\ Presupposed /\ [FinalNext]_system => Presupposed'
<1> SUFFICES ASSUME IInv, Presupposed, [FinalNext]_system PROVE Presupposed'
  OBVIOUS
<1> USE JobAssumption, FinalAssumption
<1>1. [Next]_vars
  BY StepsAreJobSteps
<1>2. \A e \in Event : JobOf[e] \in Job /\ (e \notin Record => e \in Request /\ JobOf[e] = e)
  BY DEF Event, JobOf, Job
\* What the consumers and the endpoints leave of it, by the state of the jobs.
<1>3. ASSUME \A j \in Job : /\ job[j].state = "none" => job'[j] = job[j]
                            /\ job[j].state # "none" => job'[j].state # "none",
             UNCHANGED acked,
             promised' \cap Record # {} => signed' = Signer,
             promised \cap Record \subseteq promised', signed' \subseteq Signer
      PROVE  Presupposed'
  <2>1. Pdf \in Job
    BY DEF Job
  <2>2. UNCHANGED <<uploads, document>> \/ job[Pdf].state # "none"
    BY <1>1, FilesComeFromTheJob
  <2>3. (uploads # <<>> \/ document # 0 => job[Pdf].state # "none")'
    BY <1>3, <2>1, <2>2 DEF Presupposed
  <2>4. (job[Pdf].state # "none" => promised \cap Record # {})'
    BY <1>3, <2>1 DEF Presupposed
  <2>5. \A j \in Job : job'[j].state = "none" => job'[j] = NoJob
    BY <1>3 DEF Presupposed
  <2>6. \A e \in acked' : e \in Event /\ job'[JobOf[e]].state # "none"
    BY <1>2, <1>3 DEF Presupposed
  <2> QED
    BY <1>3, <2>3, <2>4, <2>5, <2>6 DEF Presupposed
<1>4. ASSUME UNCHANGED vars
      PROVE  \A j \in Job : /\ job[j].state = "none" => job'[j] = job[j]
                            /\ job[j].state # "none" => job'[j].state # "none"
  BY <1>4, ConsumersHandNothingOver
<1>5. CASE Aside(Consume)
  <2>1. UNCHANGED <<acked, promised, signed>>
    BY <1>5 DEF Aside, endpoints, outbox
  <2>2. Consume
    BY <1>5 DEF Aside
  <2> QED
    BY <1>3, <2>1, <2>2, ConsumersHandNothingOver DEF Presupposed
<1>6. CASE SendDocument
  <2>1. UNCHANGED <<vars, acked, signed>> /\ promised' = promised \cup Request
    BY <1>6 DEF SendDocument, L!Send
  <2>2. promised' \cap Record = promised \cap Record
    BY <2>1
  <2> QED
    BY <1>3, <1>4, <2>1, <2>2 DEF Presupposed
<1>7. ASSUME NEW r \in Signer, Sign(r) PROVE Presupposed'
  <2>1. UNCHANGED <<vars, acked>> /\ signed' = signed \cup {r} /\ promised \subseteq promised'
    BY <1>7 DEF Sign, L!Sign
  <2>2. promised' = promised \/ Remaining(r) = {}
    BY <1>7 DEF Sign
  <2>3. signed' \subseteq Signer
    BY <2>1 DEF Presupposed
  <2>4. promised' \cap Record # {} => signed' = Signer
    BY <2>1, <2>2, <2>3 DEF Presupposed, Remaining
  <2> QED
    BY <1>3, <1>4, <2>1, <2>3, <2>4
<1>8. ASSUME NEW e \in Event, Try(e) \/ Abandon(e) PROVE Presupposed'
  <2>1. UNCHANGED <<vars, signed, promised, acked>>
    BY <1>8 DEF Try, Abandon, endpoints, H!Try, H!GiveUp
  <2> QED
    BY <1>3, <1>4, <2>1 DEF Presupposed
<1>9. ASSUME NEW e \in Event, Acknowledge(e) PROVE Presupposed'
  <2>1. UNCHANGED <<vars, signed, promised>> /\ acked' = acked \cup {e} /\ JobOf[e] \in HandedOver
    BY <1>9 DEF Acknowledge, endpoints, Delivered
  <2>2. UNCHANGED <<job, uploads, document>>
    BY <2>1 DEF vars, tables
  <2>3. job[JobOf[e]].state # "none"
    BY <2>1 DEF HandedOver, Presupposed
  <2> QED
    BY <2>1, <2>2, <2>3 DEF Presupposed
<1>10. ASSUME NEW e \in Event, Dispatch(e) PROVE Presupposed'
  <2>1. /\ UNCHANGED <<signed, promised, acked, uploads, document>>
        /\ Add(JobOf[e], Payload(e)) /\ e \in promised
    BY <1>10 DEF Dispatch, endpoints, Add, tables, H!Enqueue, H!Open
  <2>2. \/ UNCHANGED job
        \/ /\ job[JobOf[e]].state = "none"
           /\ job' = [job EXCEPT ![JobOf[e]] = [NoJob EXCEPT !.state = "waiting",
                                                             !.payload = Payload(e)]]
    BY <2>1 DEF Add, Addable
  <2>3. CASE UNCHANGED job
    BY <2>1, <2>3 DEF Presupposed
  <2>4. CASE job' = [job EXCEPT ![JobOf[e]] = [NoJob EXCEPT !.state = "waiting",
                                                            !.payload = Payload(e)]]
    <3>1. job'[JobOf[e]].state # "none" /\ \A j \in Job \ {JobOf[e]} : job'[j] = job[j]
      BY <1>2, <2>4 DEF NoJob, IInv, Typed, JobsTyped
    <3>2. Pdf \in Job
      BY DEF Job
    <3>3. (uploads # <<>> \/ document # 0 => job[Pdf].state # "none")'
      BY <2>1, <3>1, <3>2 DEF Presupposed
    <3>4. (job[Pdf].state # "none" => promised \cap Record # {})'
      <4>1. CASE e \in Record
        BY <2>1, <4>1
      <4>2. CASE e \notin Record
        BY <1>2, <2>1, <3>1, <3>2, <4>2 DEF Presupposed
      <4> QED
        BY <4>1, <4>2
    <3>5. \A j \in Job : job'[j].state = "none" => job'[j] = NoJob
      BY <3>1 DEF Presupposed
    <3>6. \A f \in acked : f \in Event /\ job'[JobOf[f]].state # "none"
      BY <1>2, <3>1 DEF Presupposed
    <3> QED
      BY <2>1, <3>3, <3>4, <3>5, <3>6 DEF Presupposed
  <2> QED
    BY <2>2, <2>3, <2>4
<1>11. CASE UNCHANGED system
  BY <1>3, <1>4, <1>11 DEF system, endpoints, outbox, Presupposed
<1> QED
  BY <1>5, <1>6, <1>7, <1>8, <1>9, <1>10, <1>11 DEF FinalNext, Settle

LEMMA PresupposedCorrect == FinalSpec => []Presupposed
<1>1. FinalInit => Presupposed
  BY DEF FinalInit, Init, Presupposed, NoJob, Job
<1> QED
  BY <1>1, PresupposedStep, ConsumersAreJobWorkers, IInvCorrect, PTL DEF FinalSpec

(* There is no final PDF of a document that somebody has not signed, for   *)
(* any number of signers, repeated completions, jobs, stalls and crashes.  *)
THEOREM FinalPdfIsOfAll == FinalSpec => []FinalMeansSigned
<1>1. Presupposed => FinalMeansSigned
  BY DEF Presupposed, FinalMeansSigned
<1> QED
  BY <1>1, PresupposedCorrect, PTL

(* An event that was acknowledged has a job.                               *)
THEOREM AcknowledgedMeansJob == FinalSpec => []AcknowledgedHasJob
<1>1. \A e \in Event : JobOf[e] \in Job
  BY DEF Event, JobOf, Job
<1>2. \A j \in Job : job[j].state # "none" => job[j] # NoJob
  BY DEF NoJob
<1>3. Presupposed => AcknowledgedHasJob
  BY <1>1, <1>2 DEF Presupposed, AcknowledgedHasJob, HandedOver
<1> QED
  BY <1>3, PresupposedCorrect, PTL

(* What the consumers promise of jobs that they were handed, they promise  *)
(* of the jobs of the whole system.  A signing e-mail whose job is settled *)
(* was sent, or has a dead letter, or is among those of which nothing need *)
(* tell (Untold: the letter was refused, a process died with the job, or   *)
(* the job was given up).  A finalization that is over says how it ended,  *)
(* unless an execution could not.  One that completed, without two         *)
(* executions at the same time, left a document that everybody has signed  *)
(* with the file that it names.                                            *)
EndsAreKnown ==
    /\ \A q \in Request : Settled(q) /\ Working(q) = {} =>
          mailed[q] >= 1 \/ dlq[q] = "published" \/ Untold(q)
    /\ Settled(Pdf) /\ Working(Pdf) = {} /\ Pdf \notin unreported =>
          record[job[Pdf].payload] \in {"COMPLETED", "FAILED"}
    /\ job[Pdf].state = "completed" /\ ~overlapped =>
          signed = Signer /\ uploads # <<>> /\ uploads[Len(uploads)] = document

THEOREM EndsOfTheChain == FinalSpec => []EndsAreKnown
<1>1. SettledJobIsSound /\ MailsAreAccountedFor /\ FinalMeansSigned => EndsAreKnown
  BY DEF SettledJobIsSound, MailsAreAccountedFor, FinalMeansSigned, EndsAreKnown, Settled
<1> QED
  BY <1>1, ConsumersAreJobWorkers, SettledJobsAreSound, MailsAreSettled, FinalPdfIsOfAll, PTL
=============================================================================
