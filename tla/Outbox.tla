------------------------------- MODULE Outbox -------------------------------
(***************************************************************************)
(* The transactional outbox and its dispatcher                             *)
(* (apps/worker/src/outbox).  Business transactions of the API commit      *)
(* outbox rows; every worker replica runs one dispatcher, which is woken   *)
(* by its own start, by PostgreSQL notifications and by a periodic sweep.  *)
(* One wake-up is a ROUND: recover expired leases, select a batch, then    *)
(* for each event of the batch claim it, hand it to BullMQ and record the  *)
(* outcome.  Every await of the code is a step of its own here: a round    *)
(* reads the attempt count once and other replicas run in between.         *)
(*                                                                         *)
(* Time is abstracted to two facts a query can observe about a row:        *)
(*   lapsed[e]  lockedAt is more than LEASE_MS ago,                        *)
(*   due[e]     availableAt is not in the future.                          *)
(* Events are numbered by creation time.                                   *)
(***************************************************************************)
EXTENDS Naturals, FiniteSets

CONSTANTS Worker,       \* dispatcher replicas
          Event,        \* outbox rows, numbered in createdAt order
          Job,          \* BullMQ job ids
          JobOf,        \* the stable job id the handler derives from an event
          Notified,     \* events whose transaction also calls pg_notify
          MaxAttempts,  \* MAX_ATTEMPTS
          BatchSize,    \* the "take" of the select
          MaxFaults,    \* bound on worker exits and failed boots
          MaxStalls,    \* bound on claims that outlive their lease
          NoWorker, NoEvent

ASSUME OutboxAssumption ==
    /\ IsFiniteSet(Worker) /\ Worker # {}
    /\ Event \subseteq Nat
    /\ JobOf \in [Event -> Job]
    /\ Notified \subseteq Event
    /\ MaxAttempts \in Nat \ {0}
    /\ BatchSize \in Nat \ {0}
    /\ MaxFaults \in Nat
    /\ MaxStalls \in Nat
    /\ NoWorker \notin Worker
    /\ NoEvent \notin Event

VARIABLES
    \* the outbox_events table
    status,     \* "ABSENT" before the row is committed, then OutboxEventStatus
    attempts,   \* attemptCount
    owner,      \* lockedBy
    lapsed, due,
    \* Redis
    jobs,       \* job ids that were ever added (they are never removed)
    \* each worker process
    pc,         \* where its round is; "idle" is dispatching = false
    timer,      \* the sweep interval: "off", "pending" the first round, "on"
    listening,  \* the LISTEN connection is up
    inbox,      \* notifications not yet handled
    wanted,     \* the events the round may select: one id, or all
    batch,      \* selected events not yet processed
    seen,       \* attemptCount as the select returned it
    current,    \* the event being claimed or dispatched
    \* what the bounds count
    faults, stalls

rowVars    == <<status, attempts, owner, lapsed, due>>
roundVars  == <<wanted, batch, seen, current>>
wakeVars   == <<timer, listening, inbox>>
boundVars  == <<faults, stalls>>
vars == <<rowVars, jobs, pc, wakeVars, roundVars, boundVars>>

Status == {"ABSENT", "PENDING", "PROCESSING", "DISPATCHED", "FAILED"}
Settled == {"DISPATCHED", "FAILED"}
Pc == {"down", "idle", "recover", "select", "loop", "dispatch", "ack", "fail"}

\* Worker w has claimed e and has not yet recorded an outcome.
Working(w) == pc[w] \in {"dispatch", "ack", "fail"}
Holds(w, e) == Working(w) /\ current[w] = e

Init ==
    /\ status = [e \in Event |-> "ABSENT"]
    /\ attempts = [e \in Event |-> 0]
    /\ owner = [e \in Event |-> NoWorker]
    /\ lapsed = [e \in Event |-> FALSE]
    /\ due = [e \in Event |-> TRUE]
    /\ jobs = {}
    /\ pc = [w \in Worker |-> "down"]
    /\ timer = [w \in Worker |-> "off"]
    /\ listening = [w \in Worker |-> FALSE]
    /\ inbox = [w \in Worker |-> {}]
    /\ wanted = [w \in Worker |-> {}]
    /\ batch = [w \in Worker |-> {}]
    /\ seen = [w \in Worker |-> [e \in Event |-> 0]]
    /\ current = [w \in Worker |-> NoEvent]
    /\ faults = 0
    /\ stalls = 0

(***************************************************************************)
(* The API: a business transaction commits the row, and with it delivers   *)
(* the notification to every connection that is listening.                 *)
(***************************************************************************)
CommitEvent(e) ==
    /\ status[e] = "ABSENT"
    /\ status' = [status EXCEPT ![e] = "PENDING"]
    /\ inbox' = [w \in Worker |->
                    IF e \in Notified /\ listening[w]
                    THEN inbox[w] \cup {e} ELSE inbox[w]]
    /\ UNCHANGED <<attempts, owner, lapsed, due, jobs, pc, timer, listening,
                   roundVars, boundVars>>

(***************************************************************************)
(* Waking up: dispatchSafely when no round is running.                     *)
(***************************************************************************)
BeginRound(w, events) ==
    /\ pc' = [pc EXCEPT ![w] = "recover"]
    /\ wanted' = [wanted EXCEPT ![w] = events]
    /\ UNCHANGED <<rowVars, jobs, batch, seen, current, boundVars>>

\* onModuleInit: LISTEN, then a first round; the interval is armed after it.
Start(w) ==
    /\ pc[w] = "down"
    /\ BeginRound(w, Event)
    /\ listening' = [listening EXCEPT ![w] = TRUE]
    /\ timer' = [timer EXCEPT ![w] = "pending"]
    /\ UNCHANGED inbox

\* The interval callback; a tick that finds a round running does nothing.
Sweep(w) ==
    /\ pc[w] = "idle"
    /\ timer[w] = "on"
    /\ BeginRound(w, Event)
    /\ UNCHANGED wakeVars

\* The notification callback.  While a round is running the flag makes
\* dispatchSafely return at once, and the notification is gone.
HandleNotification(w) ==
    \E e \in inbox[w] :
        /\ inbox' = [inbox EXCEPT ![w] = @ \ {e}]
        /\ UNCHANGED <<timer, listening>>
        /\ \/ /\ pc[w] = "idle"
              /\ BeginRound(w, {e})
           \/ /\ pc[w] # "idle"
              /\ UNCHANGED <<rowVars, jobs, pc, roundVars, boundVars>>

(***************************************************************************)
(* One round.                                                              *)
(***************************************************************************)
\* Which claims recoverExpiredLeases takes back.  (Mutants: without looking
\* at lockedAt; no recovery at all.)
ExpiredAnyAge(e) == status[e] = "PROCESSING"
ExpiredNever(e) == FALSE
Expired(e) == status[e] = "PROCESSING" /\ lapsed[e]

Recover(w) ==
    LET expired == {e \in Event : Expired(e)} IN
    /\ pc[w] = "recover"
    /\ pc' = [pc EXCEPT ![w] = "select"]
    /\ status' = [e \in Event |-> IF e \in expired THEN "PENDING" ELSE status[e]]
    /\ owner' = [e \in Event |-> IF e \in expired THEN NoWorker ELSE owner[e]]
    /\ lapsed' = [e \in Event |-> e \notin expired /\ lapsed[e]]
    /\ due' = [e \in Event |-> e \in expired \/ due[e]]
    /\ UNCHANGED <<attempts, jobs, wakeVars, roundVars, boundVars>>

\* findMany: the oldest BatchSize events that are pending and due.
Eligible(w) == {e \in wanted[w] : status[e] = "PENDING" /\ due[e]}
Oldest(S) == {e \in S : Cardinality({f \in S : f < e}) < BatchSize}

Select(w) ==
    /\ pc[w] = "select"
    /\ pc' = [pc EXCEPT ![w] = "loop"]
    /\ batch' = [batch EXCEPT ![w] = Oldest(Eligible(w))]
    /\ seen' = [seen EXCEPT ![w] =
                   [e \in Event |-> IF e \in batch'[w] THEN attempts[e] ELSE 0]]
    /\ UNCHANGED <<rowVars, jobs, wakeVars, wanted, current, boundVars>>

\* The where clause of the claim looks at the status only.  (Mutant: the
\* update is by id, like the other updates of the round.)
ClaimableAnyStatus(e) == TRUE
Claimable(e) == status[e] = "PENDING"

\* The conditional updateMany on the next event; when another replica was
\* faster it matches no row and the event is skipped.
Claim(w) ==
    \E e \in batch[w] :
        /\ pc[w] = "loop"
        /\ \A f \in batch[w] : e <= f
        /\ batch' = [batch EXCEPT ![w] = @ \ {e}]
        /\ \/ /\ Claimable(e)
              /\ status' = [status EXCEPT ![e] = "PROCESSING"]
              /\ owner' = [owner EXCEPT ![e] = w]
              /\ lapsed' = [lapsed EXCEPT ![e] = FALSE]
              /\ attempts' = [attempts EXCEPT ![e] = @ + 1]
              /\ current' = [current EXCEPT ![w] = e]
              /\ pc' = [pc EXCEPT ![w] = "dispatch"]
              /\ UNCHANGED due
           \/ /\ ~Claimable(e)
              /\ UNCHANGED <<rowVars, current, pc>>
        /\ UNCHANGED <<jobs, wakeVars, wanted, seen, boundVars>>

\* Where a round goes when the handler throws.  (Mutant: the error is
\* swallowed and the event acknowledged.)
OnErrorAck == "ack"
OnError == "fail"

\* queue.add with the stable id of the handler: BullMQ drops an id it has.
Enqueue(e) == jobs' = jobs \cup {JobOf[e]}

\* Lookup of the handler, decryption, parse and queue.add.  They can throw
\* before the job is in Redis (no handler, a bad payload, Redis down), or
\* after it when the reply of the add is lost.
Dispatch(w) ==
    /\ pc[w] = "dispatch"
    /\ \/ /\ Enqueue(current[w])
          /\ \E next \in {"ack", OnError} : pc' = [pc EXCEPT ![w] = next]
       \/ /\ pc' = [pc EXCEPT ![w] = OnError]
          /\ UNCHANGED jobs
    /\ UNCHANGED <<rowVars, wakeVars, roundVars, boundVars>>

\* Both outcomes are an update by primary key: neither looks at the owner.
Release(w, newStatus, isDue) ==
    LET e == current[w] IN
    /\ status' = [status EXCEPT ![e] = newStatus]
    /\ owner' = [owner EXCEPT ![e] = NoWorker]
    /\ lapsed' = [lapsed EXCEPT ![e] = FALSE]
    /\ due' = [due EXCEPT ![e] = isDue]
    /\ current' = [current EXCEPT ![w] = NoEvent]
    /\ pc' = [pc EXCEPT ![w] = "loop"]
    /\ UNCHANGED <<attempts, jobs, wakeVars, wanted, batch, seen, boundVars>>

MarkDispatched(w) ==
    /\ pc[w] = "ack"
    /\ Release(w, "DISPATCHED", due[current[w]])

\* The update to DISPATCHED is inside the try block: its failure is caught
\* like a failure of the handler.
MarkDispatchedThrows(w) ==
    /\ pc[w] = "ack"
    /\ pc' = [pc EXCEPT ![w] = "fail"]
    /\ UNCHANGED <<rowVars, jobs, wakeVars, roundVars, boundVars>>

\* n is the attempt count before the claim.  (Mutant: the limit is
\* never applied.)
ExhaustedNever(n) == FALSE
Exhausted(n) == n + 1 >= MaxAttempts

\* The catch block, with the attempt count of the select.
MarkFailed(w) ==
    /\ pc[w] = "fail"
    /\ Release(w, IF Exhausted(seen[w][current[w]])
                  THEN "FAILED" ELSE "PENDING", FALSE)

ForgetRound(w) ==
    /\ wanted' = [wanted EXCEPT ![w] = {}]
    /\ batch' = [batch EXCEPT ![w] = {}]
    /\ seen' = [seen EXCEPT ![w] = [e \in Event |-> 0]]
    /\ current' = [current EXCEPT ![w] = NoEvent]

EndRound(w) ==
    /\ pc[w] = "loop"
    /\ batch[w] = {}
    /\ pc' = [pc EXCEPT ![w] = "idle"]
    /\ timer' = [timer EXCEPT ![w] = IF @ = "pending" THEN "on" ELSE @]
    /\ ForgetRound(w)
    /\ UNCHANGED <<rowVars, jobs, listening, inbox, boundVars>>

(***************************************************************************)
(* Faults and time.                                                        *)
(***************************************************************************)
\* The process ends: killed, shut down (onModuleDestroy does not await the
\* round), or a database error leaves dispatchSafely as an unhandled
\* rejection.
Crash(w) ==
    /\ pc[w] # "down"
    /\ faults < MaxFaults
    /\ faults' = faults + 1
    /\ pc' = [pc EXCEPT ![w] = "down"]
    /\ timer' = [timer EXCEPT ![w] = "off"]
    /\ listening' = [listening EXCEPT ![w] = FALSE]
    /\ inbox' = [inbox EXCEPT ![w] = {}]
    /\ ForgetRound(w)
    /\ UNCHANGED <<rowVars, jobs, stalls>>

\* A database error in the first round rejects bootstrap(), which only sets
\* the exit code: the connections keep the process alive, with no interval.
FirstRoundFails(w) ==
    /\ timer[w] = "pending"
    /\ faults < MaxFaults
    /\ faults' = faults + 1
    /\ pc' = [pc EXCEPT ![w] = "idle"]
    /\ timer' = [timer EXCEPT ![w] = "off"]
    /\ ForgetRound(w)
    /\ UNCHANGED <<rowVars, jobs, listening, inbox, stalls>>

\* The LISTEN connection breaks; the error is logged and nobody reconnects.
ListenerLost(w) ==
    /\ listening[w]
    /\ listening' = [listening EXCEPT ![w] = FALSE]
    /\ inbox' = [inbox EXCEPT ![w] = {}]
    /\ UNCHANGED <<rowVars, jobs, pc, timer, roundVars, boundVars>>

ClaimantAlive(e) == \E w \in Worker : owner[e] = w /\ Holds(w, e)

\* LEASE_MS pass since the claim.
LeaseElapses(e) ==
    /\ status[e] = "PROCESSING"
    /\ ~lapsed[e]
    /\ lapsed' = [lapsed EXCEPT ![e] = TRUE]
    /\ \/ ~ClaimantAlive(e) /\ UNCHANGED stalls
       \/ ClaimantAlive(e) /\ stalls < MaxStalls /\ stalls' = stalls + 1
    /\ UNCHANGED <<status, attempts, owner, due, jobs, pc, wakeVars, roundVars,
                   faults>>

BackoffElapses(e) ==
    /\ ~due[e]
    /\ due' = [due EXCEPT ![e] = TRUE]
    /\ UNCHANGED <<status, attempts, owner, lapsed, jobs, pc, wakeVars,
                   roundVars, boundVars>>

-----------------------------------------------------------------------------
Wake(w) == Start(w) \/ Sweep(w) \/ HandleNotification(w)
RoundStep(w) == \/ Recover(w) \/ Select(w) \/ Claim(w) \/ Dispatch(w)
                \/ MarkDispatched(w) \/ MarkDispatchedThrows(w)
                \/ MarkFailed(w) \/ EndRound(w)
Fault(w) == Crash(w) \/ FirstRoundFails(w) \/ ListenerLost(w)
Clock(e) == LeaseElapses(e) \/ BackoffElapses(e)

Next == \/ \E e \in Event : CommitEvent(e) \/ Clock(e)
        \/ \E w \in Worker : Wake(w) \/ RoundStep(w) \/ Fault(w)

Spec == Init /\ [][Next]_vars

\* A supervisor restarts dead workers, the interval keeps ticking, awaits
\* return, clocks run.
Fairness == /\ \A w \in Worker : /\ WF_vars(Start(w) \/ Sweep(w))
                                 /\ WF_vars(RoundStep(w))
            /\ \A e \in Event : WF_vars(Clock(e))

FairSpec == Spec /\ Fairness

-----------------------------------------------------------------------------
TypeOK ==
    /\ status \in [Event -> Status]
    /\ attempts \in [Event -> Nat]
    /\ owner \in [Event -> Worker \cup {NoWorker}]
    /\ lapsed \in [Event -> BOOLEAN]
    /\ due \in [Event -> BOOLEAN]
    /\ jobs \subseteq Job
    /\ pc \in [Worker -> Pc]
    /\ timer \in [Worker -> {"off", "pending", "on"}]
    /\ listening \in [Worker -> BOOLEAN]
    /\ inbox \in [Worker -> SUBSET Event]
    /\ wanted \in [Worker -> SUBSET Event]
    /\ batch \in [Worker -> SUBSET Event]
    /\ seen \in [Worker -> [Event -> Nat]]
    /\ current \in [Worker -> Event \cup {NoEvent}]
    /\ \A w \in Worker : Working(w) <=> current[w] \in Event
    /\ faults \in 0..MaxFaults
    /\ stalls \in 0..MaxStalls

(***************************************************************************)
(* Properties.                                                             *)
(***************************************************************************)
\* An event is marked DISPATCHED only after its job is in the queue, whatever
\* crashes, retries or lost replies came before (dispatch, outbox rows).
DispatchedWasEnqueued ==
    \A e \in Event : status[e] = "DISPATCHED" => JobOf[e] \in jobs

\* No event is given up early: FAILED means at least MaxAttempts claims were
\* made, although each replica decides with the count its own select read.
FailedWasExhausted ==
    \A e \in Event : status[e] = "FAILED" => attempts[e] >= MaxAttempts

\* While no claim outlives its lease, the conditional update makes a claim
\* exclusive: whoever is working on an event is the owner named in the row.
ClaimIsExclusive ==
    stalls = 0 =>
        \A w \in Worker, e \in Event :
            Holds(w, e) => status[e] = "PROCESSING" /\ owner[e] = w

\* The inductive strengthening: a round's view of an event is never ahead of
\* the row, what it acknowledges is in the queue, and, before any overrun, a
\* claim in progress has not lapsed.
SeenIsBehind ==
    \A w \in Worker, e \in Event :
        /\ seen[w][e] <= attempts[e]
        /\ Holds(w, e) => seen[w][e] + 1 <= attempts[e]
AckIsEarned ==
    \A w \in Worker, e \in Event :
        pc[w] = "ack" /\ current[w] = e => JobOf[e] \in jobs
LeaseIsHeld ==
    stalls = 0 => \A w \in Worker, e \in Event : Holds(w, e) => ~lapsed[e]

IInv == /\ SeenIsBehind /\ AckIsEarned /\ LeaseIsHeld
        /\ ClaimIsExclusive /\ DispatchedWasEnqueued /\ FailedWasExhausted

\* Updates by primary key let a late owner release the claim of its successor,
\* and stale counts let an event be dispatched more often than MaxAttempts, but
\* the damage does not spread: each overrun adds at most one simultaneous
\* holder, and each further replica, fault and overrun at most one attempt.
DamageIsBounded ==
    \A e \in Event :
        /\ Cardinality({w \in Worker : Holds(w, e)}) <= 1 + stalls
        /\ attempts[e] <= MaxAttempts + (Cardinality(Worker) - 1)
                            + faults + stalls

\* While no claim outlives its lease, DISPATCHED and FAILED are final.
SettledIsFinal ==
    [][stalls' = 0 =>
         \A e \in Event : status[e] \in Settled => status'[e] = status[e]]_vars

\* Every committed event ends DISPATCHED or FAILED, although notifications
\* are lost, rounds in progress swallow them and workers die holding claims.
EventuallySettled ==
    \A e \in Event : status[e] # "ABSENT" ~> status[e] \in Settled

\* Until the first overrun the dispatcher implements the hand-over contract:
\* every step of a replica is a step of the contract or invisible to it.
H == INSTANCE Handoff WITH
        promised <- {e \in Event : status[e] # "ABSENT"},
        tries    <- attempts,
        queue    <- jobs,
        acked    <- {e \in Event : status[e] = "DISPATCHED"},
        dead     <- {e \in Event : status[e] = "FAILED"}

HandoffSpec == H!Init /\ [][stalls' = 0 => [H!Next]_(H!vars)]_vars
=============================================================================
