------------------------------ MODULE JobStatus ------------------------------
(***************************************************************************)
(* How the owner of a document follows a job: the reports of the worker,   *)
(* the event stream and the list of jobs of the API, the polling query of  *)
(* the web application and the hook that reads the stream.                 *)
(*                                                                         *)
(* A report updates the row of the job and then publishes to Redis, which  *)
(* hands it to the streams subscribed at that moment.  The hook answers an *)
(* event by invalidating the query: a fetch on its way is given up, its    *)
(* answer ignored, and a new one begun, which the hook waits for.  The     *)
(* query polls on its own as soon as the page knows the document as        *)
(* completed.                                                              *)
(*                                                                         *)
(* What a report says is abstracted to its number; the last one says       *)
(* COMPLETED or FAILED.                                                    *)
(***************************************************************************)
EXTENDS Naturals, Sequences

CONSTANTS Stream,    \* slots for event streams
          Call,      \* slots for GET /v1/jobs/document/:documentId
          Final,     \* the number of the last report of the job
          MaxActs,   \* bound on failures, interruptions and token renewals
          None

ASSUME StatusAssumption ==
    Final \in Nat \ {0} /\ MaxActs \in Nat /\ None \notin Stream \cup Nat

VARIABLES
    row,      \* job_records: the last report
    report,   \* the report being made: its number and next step
    stream,   \* streams: where the API is, whether the browser reads, events on their way
    current,  \* the stream that the effect of the hook opened
    waiting,  \* the event that the hook has invalidated the query for; 0 is none
    active,   \* the page knows the document as COMPLETED
    call,     \* requests: step, what was read, whether the query waits for it
    shown,    \* the jobs in the cache of the query
    heard,    \* the newest event whose invalidation was answered
    acts

api == <<row, report, stream>>
web == <<current, waiting, active, call, shown, heard>>
vars == <<api, web, acts>>

NoReport == [nr |-> 0, step |-> "none"]
NoStream == [step |-> "none", open |-> FALSE, events |-> <<>>]
NoCall == [step |-> "none", read |-> 0, live |-> FALSE]

\* The job has just been recorded, with the completion of the document.
Init ==
    /\ row = 0
    /\ report = NoReport
    /\ stream = [s \in Stream |-> NoStream]
    /\ current = None
    /\ waiting = 0
    /\ active = FALSE
    /\ call = [c \in Call |-> NoCall]
    /\ shown = None
    /\ heard = 0
    /\ acts = 0

Act == acts < MaxActs /\ acts' = acts + 1

-----------------------------------------------------------------------------
(***************************************************************************)
(* The worker: JobProgressService.report.                                  *)
(***************************************************************************)
BeginReport ==
    /\ report = NoReport /\ row < Final
    /\ report' = [nr |-> row + 1, step |-> "update"]
    /\ UNCHANGED <<row, stream, web, acts>>

UpdateRow ==
    /\ report.step = "update"
    /\ row' = report.nr
    /\ report' = [report EXCEPT !.step = "publish"]
    /\ UNCHANGED <<stream, web, acts>>

Publish ==
    /\ report.step = "publish"
    /\ stream' = [s \in Stream |->
                    IF stream[s].step = "subscribed" /\ stream[s].open
                    THEN [stream[s] EXCEPT !.events = Append(@, report.nr)] ELSE stream[s]]
    /\ report' = NoReport
    /\ UNCHANGED <<row, web, acts>>

\* Redis refuses it, or the process dies.
NotPublished ==
    /\ report.step = "publish"
    /\ Act
    /\ report' = NoReport
    /\ UNCHANGED <<row, stream, web>>

-----------------------------------------------------------------------------
(***************************************************************************)
(* The API: JobsController.events, over a Redis connection of its own.     *)
(***************************************************************************)
At(s, step) == stream[s].step = step
Goto(s, step) == /\ stream' = [stream EXCEPT ![s].step = step]
                 /\ UNCHANGED <<row, report, web>>

\* The job is looked up; a teardown that is added to a subscriber that is
\* already closed runs at once.
Authorize(s) ==
    /\ At(s, "checking")
    /\ Goto(s, IF stream[s].open THEN "connecting" ELSE "over")
    /\ UNCHANGED acts

Subscribe(s) == At(s, "connecting") /\ Goto(s, "subscribed") /\ UNCHANGED acts

\* The token is refused, the subscription fails, the connection breaks (it is
\* made again, and what was published meanwhile is gone).
Refuse(s) == stream[s].step \in {"checking", "connecting"} /\ Act /\ Goto(s, "over")
Interrupt(s) == At(s, "subscribed") /\ Act /\ Goto(s, "connecting")

TornDown(s) == ~stream[s].open

TearDown(s) ==
    /\ stream[s].step \in {"connecting", "subscribed"}
    /\ TornDown(s)
    /\ Goto(s, "over")
    /\ UNCHANGED acts

Forget(s) ==
    /\ At(s, "over") /\ ~stream[s].open
    /\ stream' = [stream EXCEPT ![s] = NoStream]
    /\ UNCHANGED <<row, report, web, acts>>

-----------------------------------------------------------------------------
(***************************************************************************)
(* The query of the jobs.                                                  *)
(***************************************************************************)
Fetching == \E c \in Call : call[c].live

Free(c) == call[c] = NoCall

\* The document has been fetched again, and the query is enabled.
Enable(c) ==
    /\ ~active
    /\ Free(c)
    /\ active' = TRUE
    /\ call' = [call EXCEPT ![c] = [NoCall EXCEPT !.step = "sent", !.live = TRUE]]
    /\ UNCHANGED <<api, current, waiting, shown, heard, acts>>

\* refetchInterval.  (Mutant: the page relies on the stream.)
DueNever == FALSE
Due == active /\ ~Fetching

Poll(c) ==
    /\ Due
    /\ Free(c)
    /\ call' = [call EXCEPT ![c] = [NoCall EXCEPT !.step = "sent", !.live = TRUE]]
    /\ UNCHANGED <<api, current, waiting, active, shown, heard, acts>>

Read(c) ==
    /\ call[c].step = "sent"
    /\ call' = [call EXCEPT ![c].step = "read", ![c].read = row]
    /\ UNCHANGED <<api, current, waiting, active, shown, heard, acts>>

\* (Mutant: answers to requests that were given up are taken as well.)
TakenAlways(c) == TRUE
Taken(c) == call[c].live

Answer(c) ==
    /\ call[c].step = "read"
    /\ call' = [call EXCEPT ![c] = NoCall]
    /\ IF Taken(c)
       THEN /\ shown' = call[c].read
            /\ heard' = IF waiting > heard THEN waiting ELSE heard
            /\ waiting' = 0
       ELSE UNCHANGED <<shown, heard, waiting>>
    /\ UNCHANGED <<api, current, active, acts>>

\* A request fails, its retry too; the hook goes on.
Fail(c) ==
    /\ ~Free(c)
    /\ Act
    /\ call' = [call EXCEPT ![c] = NoCall]
    /\ waiting' = IF call[c].live THEN 0 ELSE waiting
    /\ UNCHANGED <<api, current, active, shown, heard>>

-----------------------------------------------------------------------------
(***************************************************************************)
(* The hook: useJobProgressStream.                                         *)
(***************************************************************************)
\* The id of the job is known from the list; the effect runs, and runs again
\* with a new access token, which aborts the stream it had.
Open(s) ==
    /\ shown # None
    /\ At(s, "none")
    /\ current # None => Act
    /\ current = None => UNCHANGED acts
    /\ stream' = [t \in Stream |->
                    IF t = s THEN [NoStream EXCEPT !.step = "checking", !.open = TRUE]
                    ELSE [stream[t] EXCEPT !.open = FALSE, !.events = <<>>]]
    /\ current' = s
    /\ waiting' = 0
    /\ UNCHANGED <<row, report, active, call, shown, heard>>

Invalidated(c) ==
    [d \in Call |-> IF d = c THEN [NoCall EXCEPT !.step = "sent", !.live = TRUE]
                    ELSE [call[d] EXCEPT !.live = FALSE]]

Handle(c) ==
    /\ current # None /\ stream[current].events # <<>>
    /\ waiting = 0
    /\ Free(c)
    /\ waiting' = Head(stream[current].events)
    /\ stream' = [stream EXCEPT ![current].events = Tail(@)]
    /\ call' = Invalidated(c)
    /\ UNCHANGED <<row, report, current, active, shown, heard, acts>>

-----------------------------------------------------------------------------
Report == BeginReport \/ UpdateRow \/ Publish
Serve(s) == Authorize(s) \/ Subscribe(s) \/ TearDown(s) \/ Forget(s)
Request(c) == Read(c) \/ Answer(c)

Next ==
    \/ Report \/ NotPublished
    \/ \E s \in Stream : Serve(s) \/ Refuse(s) \/ Interrupt(s) \/ Open(s)
    \/ \E c \in Call : Enable(c) \/ Poll(c) \/ Request(c) \/ Fail(c) \/ Handle(c)

Spec == Init /\ [][Next]_vars

\* The API works on its streams and requests, the page polls.
Fairness ==
    /\ \A s \in Stream : WF_vars(Serve(s))
    /\ \A c \in Call : WF_vars(Request(c))
    /\ WF_vars(\E c \in Call : Poll(c))

FairSpec == Spec /\ Fairness

-----------------------------------------------------------------------------
Reports == 0..Final

TypeOK ==
    /\ row \in Reports
    /\ report \in [nr : Reports, step : {"none", "update", "publish"}]
    /\ stream \in [Stream -> [step : {"none", "checking", "connecting", "subscribed", "over"},
                              open : BOOLEAN, events : Seq(Reports)]]
    /\ current \in Stream \cup {None}
    /\ waiting \in Reports /\ heard \in Reports
    /\ active \in BOOLEAN
    /\ call \in [Call -> [step : {"none", "sent", "read"}, read : Reports, live : BOOLEAN]]
    /\ shown \in Reports \cup {None}
    /\ acts \in 0..MaxActs
    /\ \A c, d \in Call : call[c].live /\ call[d].live => c = d

\* An event is only a hint, and a reliable one: when the fetch that it caused
\* is answered, the page shows what was announced or something newer, however
\* the event races with polls and with requests on their way.
EventsAreCovered == heard > 0 => shown # None /\ shown >= heard

\* The progress shown to the owner never goes back to an older report,
\* although answers may come in any order.
ShownNeverGoesBack == [][shown # None => shown' >= shown]_shown

\* The owner gets to see how the job ended, although the last event may be
\* published before the stream is subscribed, or not at all; and a stream whose
\* browser has gone gives its Redis connection back, also when it goes while
\* the API is still looking up the job.
FollowingEnds ==
    /\ row = Final /\ active ~> shown = Final
    /\ \A s \in Stream : (~At(s, "none") /\ ~stream[s].open) ~> At(s, "none")
=============================================================================
