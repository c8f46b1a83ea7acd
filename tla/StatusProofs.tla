---------------------------- MODULE StatusProofs ----------------------------
(***************************************************************************)
(* Theorems about what the API says of the work that is done elsewhere: of *)
(* a job (JobStatus), for any number of streams, requests, reports and     *)
(* interruptions, and of Redis (Readiness), for any number of pings and    *)
(* changes of it.                                                          *)
(*                                                                         *)
(* JobStatus: the hook invalidates the query before it looks away, so the  *)
(* request that the query waits for was sent after the event, and after    *)
(* everything that is shown was read: what it reads of the row is at least *)
(* as new.  Readiness: only an answer clears the trouble with Redis.       *)
(***************************************************************************)
EXTENDS JobStatus, Readiness, TLAPS

ReportRecord == [nr : Reports, step : {"none", "update", "publish"}]
StreamRecord == [step : {"none", "checking", "connecting", "subscribed", "over"},
                 open : BOOLEAN, events : Seq(Reports)]
CallRecord == [step : {"none", "sent", "read"}, read : Reports, live : BOOLEAN]

\* The worker and the streams only speak of reports that are in the row.
Announced ==
    /\ row \in Reports /\ report \in ReportRecord
    /\ report.step = "update" => report.nr = row + 1
    /\ report.step = "publish" => report.nr <= row
    /\ stream \in [Stream -> StreamRecord]
    /\ \A s \in Stream : \A i \in 1..Len(stream[s].events) : stream[s].events[i] <= row

\* At most one request counts, and what it has read is new enough.
Asked ==
    /\ call \in [Call -> CallRecord]
    /\ \A c, d \in Call : call[c].live = TRUE /\ call[d].live = TRUE => c = d
    /\ \A c \in Call : call[c].live = TRUE => active = TRUE
    /\ \A c \in Call : call[c].live = TRUE /\ call[c].step = "read" =>
          /\ call[c].read <= row
          /\ call[c].read >= waiting
          /\ shown # None => call[c].read >= shown

\* What the page knows comes from the row, and from requests that were answered.
Seen ==
    /\ current \in Stream \cup {None} /\ active \in BOOLEAN
    /\ waiting \in Reports /\ waiting <= row
    /\ heard \in Reports
    /\ shown \in Reports \cup {None}
    /\ shown # None => shown <= row /\ active = TRUE
    /\ current # None => shown # None

IInv == Announced /\ Asked /\ Seen /\ EventsAreCovered

LEMMA Apart == /\ \A r \in Reports : r \in Nat /\ r # None
               /\ \A s \in Stream : s # None
               /\ 0 \in Reports
<1>1. Final \in Nat /\ None \notin Nat /\ None \notin Stream
  BY StatusAssumption
<1>2. \A r \in Reports : r \in Nat
  BY <1>1 DEF Reports
<1> QED
  BY <1>1, <1>2 DEF Reports

LEMMA InitIInv == Init => IInv
<1> SUFFICES ASSUME Init PROVE IInv
  OBVIOUS
<1> USE StatusAssumption
<1>1. Announced
  BY DEF Init, Announced, NoReport, NoStream, Reports, ReportRecord, StreamRecord
<1>2. Asked
  BY DEF Init, Asked, NoCall, Reports, CallRecord
<1>3. Seen
  <2>1. waiting \in Reports /\ waiting <= row /\ heard \in Reports
    BY Apart DEF Init
  <2>2. current \in Stream \cup {None} /\ active \in BOOLEAN
    BY DEF Init
  <2>3. shown \in Reports \cup {None} /\ shown = None /\ current = None
    BY DEF Init
  <2> QED
    BY <2>1, <2>2, <2>3 DEF Seen
<1>4. EventsAreCovered
  BY DEF Init, EventsAreCovered
<1> QED
  BY <1>1, <1>2, <1>3, <1>4 DEF IInv

-----------------------------------------------------------------------------
(* The worker.                                                             *)
LEMMA WorkerStep == ASSUME IInv, Report \/ NotPublished PROVE IInv'
<1> USE StatusAssumption DEF Reports
<1>1. CASE BeginReport
  <2>1. row + 1 \in Reports /\ row \in Reports
    BY <1>1 DEF BeginReport, IInv, Announced
  <2>2. Announced'
    BY <1>1, <2>1 DEF BeginReport, IInv, Announced, ReportRecord
  <2> QED
    BY <1>1, <2>2 DEF BeginReport, web, IInv, Asked, Seen, EventsAreCovered
<1>2. CASE UpdateRow
  <2>1. row \in Nat /\ row' = row + 1 /\ row' \in Reports
    BY <1>2 DEF UpdateRow, IInv, Announced, ReportRecord
  <2>2. report' = [report EXCEPT !.step = "publish"] /\ report' \in ReportRecord
        /\ report'.nr = row' /\ report'.step = "publish"
    BY <1>2 DEF UpdateRow, IInv, Announced, ReportRecord
  <2>3. Announced'
    <3>1. \A s \in Stream : \A i \in 1..Len(stream[s].events) :
             stream[s].events[i] \in Nat /\ stream[s].events[i] <= row'
      BY <2>1 DEF IInv, Announced, StreamRecord
    <3> QED
      BY <1>2, <2>1, <2>2, <3>1 DEF UpdateRow, IInv, Announced
  <2>4. Asked'
    BY <1>2, <2>1 DEF UpdateRow, web, IInv, Asked, CallRecord
  <2>5. Seen' /\ EventsAreCovered'
    BY <1>2, <2>1 DEF UpdateRow, web, IInv, Seen, EventsAreCovered
  <2> QED
    BY <2>3, <2>4, <2>5 DEF IInv
<1>3. CASE Publish
  <2>1. row' = row /\ report' = NoReport /\ report.nr \in Reports /\ report.nr <= row
    BY <1>3 DEF Publish, IInv, Announced, ReportRecord
  <2>2. ASSUME NEW s \in Stream
        PROVE  /\ stream'[s] \in StreamRecord
               /\ \A i \in 1..Len(stream'[s].events) : stream'[s].events[i] <= row
    <3>1. /\ stream[s] \in StreamRecord
          /\ \A i \in 1..Len(stream[s].events) : stream[s].events[i] <= row
      BY DEF IInv, Announced
    <3>2. CASE stream'[s] = stream[s]
      BY <3>1, <3>2
    <3>3. CASE stream'[s] = [stream[s] EXCEPT !.events = Append(@, report.nr)]
      <4> DEFINE old == stream[s].events
                 new == Append(old, report.nr)
      <4>1. old \in Seq(Reports) /\ new \in Seq(Reports) /\ Len(new) = Len(old) + 1
        BY <3>1, <2>1 DEF StreamRecord
      <4>2. \A i \in 1..Len(new) : new[i] <= row
        <5> TAKE i \in 1..Len(new)
        <5>1. CASE i \in 1..Len(old)
          <6>1. new[i] = old[i]
            BY <4>1, <5>1
          <6> QED
            BY <3>1, <5>1, <6>1
        <5>2. CASE i = Len(old) + 1
          <6>1. new[i] = report.nr
            BY <4>1, <5>2
          <6> QED
            BY <2>1, <6>1
        <5> QED
          BY <4>1, <5>1, <5>2
      <4>3. stream'[s] = [stream[s] EXCEPT !.events = new]
        BY <3>3
      <4> HIDE DEF new
      <4> QED
        BY <3>1, <4>1, <4>2, <4>3 DEF StreamRecord
    <3> QED
      BY <1>3, <3>2, <3>3 DEF Publish
  <2>3. Announced'
    BY <1>3, <2>1, <2>2 DEF Publish, IInv, Announced, NoReport, ReportRecord
  <2> QED
    BY <1>3, <2>3 DEF Publish, web, IInv, Asked, Seen, EventsAreCovered
<1>4. CASE NotPublished
  <2>1. Announced'
    BY <1>4 DEF NotPublished, IInv, Announced, NoReport, ReportRecord
  <2> QED
    BY <1>4, <2>1 DEF NotPublished, web, IInv, Asked, Seen, EventsAreCovered
<1> QED
  BY <1>1, <1>2, <1>3, <1>4 DEF Report

-----------------------------------------------------------------------------
(* The API only moves streams and drops events.                            *)
LEMMA ApiStep ==
    ASSUME IInv, NEW s \in Stream, Serve(s) \/ Refuse(s) \/ Interrupt(s)
    PROVE  IInv'
<1> USE StatusAssumption DEF Reports
<1>1. CASE \E step \in {"over", "connecting", "subscribed"} : Goto(s, step)
  <2>1. PICK step \in {"over", "connecting", "subscribed"} : Goto(s, step)
    BY <1>1
  <2>2. \A t \in Stream : /\ stream'[t] \in StreamRecord
                          /\ stream'[t].events = stream[t].events
    BY <2>1 DEF Goto, IInv, Announced, StreamRecord
  <2>3. Announced'
    BY <2>1, <2>2 DEF Goto, IInv, Announced
  <2> QED
    BY <2>1, <2>3 DEF Goto, web, IInv, Asked, Seen, EventsAreCovered
<1>2. CASE Forget(s)
  <2>1. NoStream \in StreamRecord /\ Len(NoStream.events) = 0
    BY DEF NoStream, StreamRecord
  <2>2. Announced'
    BY <1>2, <2>1 DEF Forget, IInv, Announced
  <2> QED
    BY <1>2, <2>2 DEF Forget, web, IInv, Asked, Seen, EventsAreCovered
<1> QED
  BY <1>1, <1>2 DEF Serve, Authorize, Subscribe, TearDown, Refuse, Interrupt

-----------------------------------------------------------------------------
Sent == [NoCall EXCEPT !.step = "sent", !.live = TRUE]

LEMMA SentTyped ==
    /\ NoCall \in CallRecord /\ NoCall.live = FALSE
    /\ Sent \in CallRecord /\ Sent.live = TRUE /\ Sent.step = "sent"
<1> DEFINE a == [NoCall EXCEPT !.step = "sent"]
<1>1. NoCall \in CallRecord /\ NoCall.live = FALSE
  BY StatusAssumption DEF NoCall, CallRecord, Reports
<1>2. a \in CallRecord /\ a.step = "sent"
  BY <1>1 DEF CallRecord
<1>3. Sent = [a EXCEPT !.live = TRUE]
  BY DEF Sent
<1> HIDE DEF a
<1> QED
  BY <1>1, <1>2, <1>3 DEF CallRecord

(* The requests of the page.                                               *)
LEMMA AskStep ==
    ASSUME IInv, NEW c \in Call, Enable(c) \/ Poll(c)
    PROVE  IInv'
<1> USE StatusAssumption
<1>1. /\ call' = [call EXCEPT ![c] = Sent]
      /\ UNCHANGED <<api, current, waiting, shown, heard>>
      /\ active' = TRUE
    BY DEF Enable, Poll, Due, Sent, IInv, Seen
<1>2. \A d \in Call : call[d].live # TRUE
  <2>1. CASE Enable(c)
    BY <2>1 DEF Enable, IInv, Asked, Seen
  <2>2. CASE Poll(c)
    BY <2>2 DEF Poll, Due, Fetching, IInv, Asked
  <2> QED
    BY <2>1, <2>2
<1>3. Asked'
  BY <1>1, <1>2, SentTyped DEF api, IInv, Asked
<1>4. Announced' /\ Seen' /\ EventsAreCovered'
  BY <1>1 DEF api, IInv, Announced, Seen, EventsAreCovered
<1> QED
  BY <1>3, <1>4 DEF IInv

LEMMA ReadStep == ASSUME IInv, NEW c \in Call, Read(c) PROVE IInv'
<1> USE StatusAssumption
<1>1. /\ UNCHANGED <<api, current, waiting, active, shown, heard>>
      /\ row \in Reports
  BY DEF Read, IInv, Announced
<1>2. /\ call' \in [Call -> CallRecord]
      /\ \A d \in Call : d # c => call'[d] = call[d]
      /\ call'[c].live = call[c].live /\ call'[c].read = row
  <2> DEFINE a == [call[c] EXCEPT !.step = "read"]
             b == [a EXCEPT !.read = row]
  <2>1. a \in CallRecord /\ a.live = call[c].live
    BY DEF IInv, Asked, CallRecord
  <2>2. b \in CallRecord /\ b.live = call[c].live /\ b.read = row
    BY <2>1, <1>1 DEF CallRecord
  <2>3. call' = [call EXCEPT ![c] = b]
    BY DEF Read, IInv, Asked
  <2> HIDE DEF b
  <2> QED
    BY <2>2, <2>3 DEF IInv, Asked
<1>3. Asked'
  BY <1>1, <1>2 DEF api, IInv, Asked, Seen, Reports
<1>4. Announced' /\ Seen' /\ EventsAreCovered'
  BY <1>1 DEF api, IInv, Announced, Seen, EventsAreCovered
<1> QED
  BY <1>3, <1>4 DEF IInv

(* An answer that counts: nothing that was announced or shown is newer.    *)
LEMMA AnswerCounts ==
    ASSUME IInv, NEW c \in Call, Answer(c), call[c].live = TRUE
    PROVE  /\ shown' = call[c].read /\ shown' \in Reports /\ shown' <= row
           /\ shown' >= waiting /\ (shown # None => shown' >= shown)
           /\ heard' = IF waiting > heard THEN waiting ELSE heard
           /\ waiting' = 0 /\ active = TRUE
BY DEF Answer, Taken, IInv, Asked, CallRecord

LEMMA AnswerStep == ASSUME IInv, NEW c \in Call, Answer(c) PROVE IInv'
<1> USE StatusAssumption DEF Reports
<1>1. /\ call' = [call EXCEPT ![c] = NoCall]
      /\ UNCHANGED <<api, current, active>>
  BY DEF Answer
<1>2. Announced'
  BY <1>1 DEF api, IInv, Announced
<1>3. CASE call[c].live = TRUE
  <2>1. \A d \in Call : call'[d].live # TRUE
    BY <1>1, <1>3, SentTyped DEF IInv, Asked
  <2>2. Asked'
    BY <1>1, <2>1, SentTyped DEF IInv, Asked
  <2>3. heard' \in Reports
    BY <1>3, AnswerCounts DEF IInv, Seen
  <2>4. shown' \in Reports /\ shown' # None
    BY <1>3, AnswerCounts, Apart
  <2>5. heard' <= shown'
    <3>1. CASE waiting > heard
      BY <1>3, <3>1, AnswerCounts DEF IInv, Seen
    <3>2. CASE ~(waiting > heard) /\ heard > 0
      <4>1. heard' = heard /\ shown # None /\ shown >= heard
        BY <1>3, <3>2, AnswerCounts DEF IInv, EventsAreCovered
      <4>2. shown \in Nat /\ heard \in Nat /\ shown' \in Nat
        BY <4>1, <2>4, Apart DEF IInv, Seen
      <4>3. shown' >= shown
        BY <1>3, <4>1, AnswerCounts
      <4> QED
        BY <4>1, <4>2, <4>3
    <3>3. CASE ~(waiting > heard) /\ heard = 0
      <4>1. heard' = 0
        BY <1>3, <3>3, AnswerCounts
      <4>2. shown' \in Nat
        BY <2>4, Apart
      <4> QED
        BY <4>1, <4>2
    <3> QED
      BY <3>1, <3>2, <3>3 DEF IInv, Seen
  <2>6. Seen'
    <3>1. waiting' = 0 /\ row' = row /\ row \in Nat /\ current' = current /\ active' = active
      BY <1>1, <1>3, AnswerCounts, Apart DEF api, IInv, Announced
    <3>2. shown' <= row' /\ active' = TRUE
      BY <1>3, <3>1, AnswerCounts
    <3> QED
      BY <2>3, <2>4, <3>1, <3>2, Apart DEF IInv, Seen
  <2>7. EventsAreCovered'
    BY <2>3, <2>4, <2>5 DEF EventsAreCovered
  <2> QED
    BY <1>2, <2>2, <2>6, <2>7 DEF IInv
<1>4. CASE call[c].live # TRUE
  <2>1. UNCHANGED <<shown, heard, waiting>>
    BY <1>4 DEF Answer, Taken, IInv, Asked, CallRecord
  <2>2. Asked'
    BY <1>1, <2>1, SentTyped DEF api, IInv, Asked
  <2> QED
    BY <1>1, <1>2, <2>1, <2>2 DEF api, IInv, Seen, EventsAreCovered
<1> QED
  BY <1>3, <1>4

LEMMA FailStep == ASSUME IInv, NEW c \in Call, Fail(c) PROVE IInv'
<1> USE StatusAssumption DEF Reports
<1>1. /\ call' = [call EXCEPT ![c] = NoCall]
      /\ waiting' \in {0, waiting}
      /\ UNCHANGED <<api, current, active, shown, heard>>
  BY DEF Fail
<1>2. Asked'
  BY <1>1, SentTyped DEF api, IInv, Asked, Seen, CallRecord
<1> QED
  BY <1>1, <1>2 DEF api, IInv, Announced, Seen, EventsAreCovered

-----------------------------------------------------------------------------
(* The hook.                                                               *)
LEMMA OpenStep == ASSUME IInv, NEW s \in Stream, Open(s) PROVE IInv'
<1> USE StatusAssumption DEF Reports
<1>1. /\ current' = s /\ waiting' = 0 /\ shown # None
      /\ UNCHANGED <<row, report, active, call, shown, heard>>
  BY DEF Open
<1>2. ASSUME NEW t \in Stream
      PROVE  stream'[t] \in StreamRecord /\ Len(stream'[t].events) = 0
  <2> DEFINE a == [stream[t] EXCEPT !.open = FALSE]
             b == [a EXCEPT !.events = <<>>]
             m == [NoStream EXCEPT !.step = "checking"]
             n == [m EXCEPT !.open = TRUE]
  <2>1. a \in StreamRecord
    BY DEF IInv, Announced, StreamRecord
  <2>2. b \in StreamRecord /\ Len(b.events) = 0
    <3> HIDE DEF a
    <3>1. b.events = <<>> /\ <<>> \in Seq(Reports)
      BY <2>1 DEF StreamRecord
    <3> QED
      BY <2>1, <3>1 DEF StreamRecord
  <2>3. n \in StreamRecord /\ Len(n.events) = 0
    <3>1. NoStream \in StreamRecord /\ NoStream.events = <<>>
      BY DEF NoStream, StreamRecord
    <3>2. m \in StreamRecord /\ m.events = <<>>
      BY <3>1 DEF StreamRecord
    <3> HIDE DEF m
    <3> QED
      BY <3>2 DEF StreamRecord
  <2>4. n = [NoStream EXCEPT !.step = "checking", !.open = TRUE]
    OBVIOUS
  <2>5. stream'[t] = n \/ stream'[t] = b
    BY <2>4 DEF Open, IInv, Announced
  <2> HIDE DEF b, m, n
  <2> QED
    BY <2>2, <2>3, <2>5
<1>3. stream' = [t \in Stream |-> stream'[t]]
  BY DEF Open
<1>4. Announced'
  BY <1>1, <1>2, <1>3 DEF IInv, Announced
<1>5. Asked'
  BY <1>1 DEF IInv, Asked, CallRecord
<1>6. Seen'
  <2>1. waiting' \in Reports /\ waiting' <= row'
    BY <1>1, Apart DEF IInv, Announced
  <2> QED
    BY <1>1, <2>1, Apart DEF IInv, Seen
<1>7. EventsAreCovered'
  BY <1>1 DEF IInv, EventsAreCovered
<1> QED
  BY <1>4, <1>5, <1>6, <1>7 DEF IInv

LEMMA HandleStep == ASSUME IInv, NEW c \in Call, Handle(c) PROVE IInv'
<1> USE StatusAssumption DEF Reports
<1>1. UNCHANGED <<row, report, current, active, shown, heard>>
  BY DEF Handle
<1> DEFINE old == stream[current].events
<1>2. /\ current \in Stream /\ old \in Seq(Reports) /\ Len(old) > 0
      /\ stream[current] \in StreamRecord
      /\ \A i \in 1..Len(old) : old[i] <= row
  BY DEF Handle, IInv, Seen, Announced, StreamRecord
<1>3. waiting' \in Reports /\ waiting' <= row
  <2>1. waiting' = old[1]
    BY <1>2 DEF Handle
  <2> QED
    BY <1>2, <2>1
<1>4. Announced'
  <2> DEFINE new == Tail(old)
  <2>1. new \in Seq(Reports) /\ \A i \in 1..Len(new) : new[i] <= row
    <3>1. new \in Seq(Reports) /\ Len(new) = Len(old) - 1
      <4> HIDE DEF old
      <4>1. old # <<>>
        BY <1>2
      <4> QED
        BY <1>2, <4>1
    <3>2. \A i \in 1..Len(new) : new[i] = old[i + 1] /\ i + 1 \in 1..Len(old)
      BY <1>2, <3>1
    <3> QED
      BY <1>2, <3>1, <3>2
  <2>2. stream' = [stream EXCEPT ![current] = [stream[current] EXCEPT !.events = new]]
    BY <1>2 DEF Handle, IInv, Announced
  <2> HIDE DEF new
  <2>3. [stream[current] EXCEPT !.events = new] \in StreamRecord
    BY <1>2, <2>1 DEF StreamRecord
  <2>4. [stream[current] EXCEPT !.events = new].events = new
    BY <1>2 DEF StreamRecord
  <2> QED
    BY <1>1, <1>2, <2>1, <2>2, <2>3, <2>4 DEF IInv, Announced
<1>5. Asked'
  <2>1. call' = [d \in Call |-> IF d = c THEN Sent ELSE [call[d] EXCEPT !.live = FALSE]]
    BY DEF Handle, Invalidated, Sent
  <2>2. \A d \in Call : /\ call'[d] \in CallRecord
                        /\ d # c => call'[d].live = FALSE
    BY <2>1, SentTyped DEF IInv, Asked, CallRecord
  <2>3. call'[c] = Sent
    BY <2>1
  <2>4. active' = TRUE
    BY <1>1, <1>2, StatusAssumption DEF IInv, Seen
  <2> QED
    BY <2>1, <2>2, <2>3, <2>4, SentTyped DEF Asked
<1>6. Seen' /\ EventsAreCovered'
  BY <1>1, <1>3 DEF IInv, Seen, EventsAreCovered
<1> QED
  BY <1>4, <1>5, <1>6 DEF IInv

-----------------------------------------------------------------------------
LEMMA IInvStep == IInv /\ [Next]_vars => IInv'
<1> SUFFICES ASSUME IInv, [Next]_vars PROVE IInv'
  OBVIOUS
<1>1. CASE UNCHANGED vars
  BY <1>1 DEF vars, api, web, IInv, Announced, Asked, Seen, EventsAreCovered
<1>2. CASE Next
  BY <1>2, WorkerStep, ApiStep, AskStep, ReadStep, AnswerStep, FailStep, OpenStep, HandleStep
     DEF Next, Request
<1> QED
  BY <1>1, <1>2

LEMMA IInvCorrect == Spec => []IInv
BY InitIInv, IInvStep, PTL DEF Spec

(* When the fetch that an event caused is answered, the page shows what    *)
(* was announced or something newer, with any number of polls and streams. *)
THEOREM EventsCount == Spec => []EventsAreCovered
<1>1. IInv => EventsAreCovered
  BY DEF IInv
<1> QED
  BY <1>1, IInvCorrect, PTL

(* No answer takes the page back to an older report, in whatever order     *)
(* answers come.                                                           *)
THEOREM ProgressGoesOn == Spec => ShownNeverGoesBack
<1>1. IInv /\ [Next]_vars => [shown # None => shown' >= shown]_shown
  <2> SUFFICES ASSUME IInv, [Next]_vars PROVE shown' = shown \/ (shown # None => shown' >= shown)
    BY DEF IInv
  <2>1. CASE \E c \in Call : Answer(c)
    <3>1. PICK c \in Call : Answer(c)
      BY <2>1
    <3>2. CASE call[c].live = TRUE
      BY <3>1, <3>2, AnswerCounts
    <3>3. CASE call[c].live # TRUE
      BY <3>1, <3>3 DEF Answer, Taken, IInv, Asked, CallRecord
    <3> QED
      BY <3>2, <3>3
  <2>2. CASE ~\E c \in Call : Answer(c)
    BY <2>2 DEF Next, vars, web, Report, BeginReport, UpdateRow, Publish, NotPublished, Serve,
       Authorize, Subscribe, TearDown, Forget, Refuse, Interrupt, Goto, Open, Enable, Poll,
       Request, Read, Fail, Handle
  <2> QED
    BY <2>1, <2>2
<1> QED
  BY <1>1, IInvCorrect, PTL DEF Spec, ShownNeverGoesBack

-----------------------------------------------------------------------------
(* Readiness: whatever Redis does, each variable keeps its type.           *)
LEMMA ReadinessInitTyped == ReadinessInit => ReadinessTypeOK
<1> SUFFICES ASSUME ReadinessInit PROVE ReadinessTypeOK
  OBVIOUS
<1>1. troubled \in BOOLEAN
  BY DEF ReadinessInit
<1>2. pings \in 0..MaxPings /\ broken \in 0..MaxPings /\ changes \in 0..MaxChanges
  BY ReadinessAssumption DEF ReadinessInit
<1>3. worker = "connecting" /\ connected \subseteq Client
  BY DEF ReadinessInit
<1>4. /\ redis \in {"up", "down", "hung"} /\ apiStart \in {"starting", "listening"}
      /\ connecting \in BOOLEAN /\ ready \in BOOLEAN
  BY DEF ReadinessInit
<1> QED
  BY <1>1, <1>2, <1>3, <1>4 DEF ReadinessTypeOK

LEMMA ReadinessStepTyped == ReadinessTypeOK /\ [ReadinessNext]_readinessVars => ReadinessTypeOK'
<1> SUFFICES ASSUME ReadinessTypeOK, [ReadinessNext]_readinessVars PROVE ReadinessTypeOK'
  OBVIOUS
<1> USE ReadinessAssumption
    DEF ReadinessTypeOK, server, service, process
<1>1. ASSUME NEW state \in {"up", "down", "hung"}, Change(state) PROVE ReadinessTypeOK'
  BY <1>1 DEF Change, Counted
<1>2. CASE Refresh
  BY <1>2 DEF Refresh, Meanwhile
<1>3. CASE Probing
  <2>1. pings' \in 0..MaxPings /\ UNCHANGED <<server, process, broken, troubled>>
    BY <1>3 DEF Probing, Connect, ConnectFails, Counted, Reported
  <2>2. connecting' \in BOOLEAN /\ ready' \in BOOLEAN /\ apiStart' \in {"starting", "listening"}
    BY <1>3 DEF Probing, Connect, ConnectFails, Reported
  <2> QED
    BY <2>1, <2>2
<1>4. CASE Answering
  <2>1. /\ pings' \in 0..MaxPings /\ broken' \in 0..MaxPings
        /\ UNCHANGED <<server, process, connecting>>
    BY <1>4 DEF Answering, Pong, PingFails, Reported
  <2>2. troubled' \in BOOLEAN /\ ready' \in BOOLEAN /\ apiStart' \in {"starting", "listening"}
    BY <1>4 DEF Answering, Pong, PingFails, Reported
  <2> QED
    BY <2>1, <2>2
<1>5. CASE WorkerConnects \/ WorkerPings \/ WorkerStarts
  BY <1>5 DEF WorkerConnects, WorkerPings, WorkerStarts, Bootstrap, Refused
<1>6. ASSUME NEW c \in Client, ClientConnects(c) PROVE ReadinessTypeOK'
  BY <1>6 DEF ClientConnects
<1>7. CASE UNCHANGED readinessVars
  BY <1>7 DEF readinessVars
<1> QED
  BY <1>1, <1>2, <1>3, <1>4, <1>5, <1>6, <1>7 DEF ReadinessNext, Starting

(* As long as Redis is not up, the API has a reason to say so.             *)
Told == redis # "up" => troubled = TRUE

(* The health check turns to degraded only if Redis was away since it was  *)
(* last heard, or for a ping that broke then.                              *)
THEOREM DegradedHasCause == ReadinessSpec => DegradedIsExplained
<1> USE DEF server, service, process, Told
<1>1. ReadinessInit => Told
  BY DEF ReadinessInit
<1>2. ReadinessTypeOK /\ Told /\ [ReadinessNext]_readinessVars => Told'
  <2> SUFFICES ASSUME ReadinessTypeOK, Told, [ReadinessNext]_readinessVars PROVE Told'
    OBVIOUS
  <2>1. ASSUME NEW state \in {"up", "down", "hung"}, Change(state) PROVE Told'
    BY <2>1 DEF Change, ReadinessTypeOK
  <2>2. Answering => Told'
    BY DEF Answering, Pong, PingFails
  <2>3. UNCHANGED <<redis, troubled>> => Told'
    OBVIOUS
  <2>4. Refresh \/ Probing \/ Starting \/ UNCHANGED readinessVars => UNCHANGED <<redis, troubled>>
    BY DEF Refresh, Probing, Connect, ConnectFails, Starting, WorkerConnects, WorkerPings,
           WorkerStarts, ClientConnects, Bootstrap, readinessVars
  <2> QED
    BY <2>1, <2>2, <2>3, <2>4 DEF ReadinessNext
<1>3. ReadinessTypeOK /\ Told /\ [ReadinessNext]_readinessVars
         => [ready /\ ~ready' => troubled \/ broken > 0]_ready
  <2> SUFFICES ASSUME Told, [ReadinessNext]_readinessVars, ready, ~ready'
               PROVE  troubled \/ broken > 0
    OBVIOUS
  <2>1. CASE ConnectFails
    BY <2>1 DEF ConnectFails, Unreachable
  <2>2. CASE PingFails
    BY <2>2 DEF PingFails
  <2>3. ~Pong
    BY DEF Pong, Reported
  <2>4. Connect \/ Refresh \/ Starting \/ UNCHANGED readinessVars
        \/ (\E state \in {"up", "down", "hung"} : Change(state)) => (ready' <=> ready)
    BY DEF Connect, Refresh, Meanwhile, Starting, WorkerConnects, WorkerPings, WorkerStarts,
           ClientConnects, Bootstrap, Change, readinessVars
  <2> QED
    BY <2>1, <2>2, <2>3, <2>4 DEF ReadinessNext, Probing, Answering
<1> QED
  BY <1>1, <1>2, <1>3, ReadinessInitTyped, ReadinessStepTyped, PTL DEF ReadinessSpec, DegradedIsExplained
=============================================================================
