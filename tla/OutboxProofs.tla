---------------------------- MODULE OutboxProofs ----------------------------
(***************************************************************************)
(* Theorems about Outbox, for any number of replicas, events and faults.   *)
(* The argument: TypeOK is inductive by itself; IInv is inductive relative *)
(* to it and contains the three safety invariants; until an overrun it     *)
(* also makes every step a step of the Handoff contract.  What overruns    *)
(* cost is a matter of counting: the holders that the row does not keep    *)
(* the event for, and the attempts that are still allowed (Bound).         *)
(***************************************************************************)
EXTENDS Outbox, TLAPS, FiniteSetTheorems

(* Every variable keeps its type, and a round knows the event it works on. *)
THEOREM TypeCorrect == Spec => []TypeOK
<1> USE OutboxAssumption
    DEF TypeOK, Working, rowVars, roundVars, wakeVars, boundVars
<1>1. Init => TypeOK
  BY DEF Init, Status, Pc
<1>2. TypeOK /\ [Next]_vars => TypeOK'
  <2> SUFFICES ASSUME TypeOK, [Next]_vars PROVE TypeOK'
    OBVIOUS
  <2> USE DEF Status, Pc
  <2>1. ASSUME NEW e \in Event, CommitEvent(e) PROVE TypeOK'
    BY <2>1 DEF CommitEvent
  <2>2. ASSUME NEW e \in Event, LeaseElapses(e) PROVE TypeOK'
    BY <2>2 DEF LeaseElapses
  <2>3. ASSUME NEW e \in Event, BackoffElapses(e) PROVE TypeOK'
    BY <2>3 DEF BackoffElapses
  <2>4. ASSUME NEW w \in Worker, Start(w) PROVE TypeOK'
    BY <2>4 DEF Start, BeginRound
  <2>5. ASSUME NEW w \in Worker, Sweep(w) PROVE TypeOK'
    BY <2>5 DEF Sweep, BeginRound
  <2>6. ASSUME NEW w \in Worker, HandleNotification(w) PROVE TypeOK'
    <3> PICK e \in inbox[w] :
           /\ inbox' = [inbox EXCEPT ![w] = @ \ {e}]
           /\ UNCHANGED <<timer, listening>>
           /\ \/ pc[w] = "idle" /\ BeginRound(w, {e})
              \/ UNCHANGED <<rowVars, jobs, pc, roundVars, boundVars>>
      BY <2>6 DEF HandleNotification
    <3>1. e \in Event /\ inbox' \in [Worker -> SUBSET Event]
      OBVIOUS
    <3>2. CASE pc[w] = "idle" /\ BeginRound(w, {e})
      BY <3>1, <3>2 DEF BeginRound
    <3>3. CASE UNCHANGED <<rowVars, jobs, pc, roundVars, boundVars>>
      BY <3>1, <3>3
    <3> QED
      BY <3>2, <3>3
  <2>7. ASSUME NEW w \in Worker, Recover(w) PROVE TypeOK'
    BY <2>7 DEF Recover
  <2>8. ASSUME NEW w \in Worker, Select(w) PROVE TypeOK'
    BY <2>8 DEF Select, Oldest, Eligible
  <2>9. ASSUME NEW w \in Worker, Claim(w) PROVE TypeOK'
    <3> PICK e \in batch[w] :
           /\ batch' = [batch EXCEPT ![w] = @ \ {e}]
           /\ \/ /\ status' = [status EXCEPT ![e] = "PROCESSING"]
                 /\ owner' = [owner EXCEPT ![e] = w]
                 /\ lapsed' = [lapsed EXCEPT ![e] = FALSE]
                 /\ attempts' = [attempts EXCEPT ![e] = @ + 1]
                 /\ current' = [current EXCEPT ![w] = e]
                 /\ pc' = [pc EXCEPT ![w] = "dispatch"]
                 /\ UNCHANGED due
              \/ UNCHANGED <<rowVars, current, pc>>
           /\ UNCHANGED <<jobs, wakeVars, wanted, seen, boundVars>>
      BY <2>9 DEF Claim
    <3>1. e \in Event /\ batch' \in [Worker -> SUBSET Event]
      OBVIOUS
    <3>2. CASE UNCHANGED <<rowVars, current, pc>>
      BY <3>1, <3>2
    <3>3. CASE /\ status' = [status EXCEPT ![e] = "PROCESSING"]
               /\ owner' = [owner EXCEPT ![e] = w]
               /\ lapsed' = [lapsed EXCEPT ![e] = FALSE]
               /\ attempts' = [attempts EXCEPT ![e] = @ + 1]
               /\ current' = [current EXCEPT ![w] = e]
               /\ pc' = [pc EXCEPT ![w] = "dispatch"]
               /\ UNCHANGED due
      <4>1. attempts[e] + 1 \in Nat
        BY <3>1
      <4>2. /\ status' \in [Event -> Status]
            /\ owner' \in [Event -> Worker \cup {NoWorker}]
            /\ lapsed' \in [Event -> BOOLEAN]
            /\ attempts' \in [Event -> Nat]
        BY <3>1, <3>3, <4>1
      <4>3. /\ current' \in [Worker -> Event \cup {NoEvent}]
            /\ pc' \in [Worker -> Pc]
            /\ \A v \in Worker : Working(v)' <=> current'[v] \in Event
        BY <3>1, <3>3
      <4> QED
        BY <3>1, <3>3, <4>2, <4>3
    <3> QED
      BY <3>2, <3>3
  <2>10. ASSUME NEW w \in Worker, Dispatch(w) PROVE TypeOK'
    <3>1. current[w] \in Event
      BY <2>10 DEF Dispatch, Enqueue
    <3>2. JobOf[current[w]] \in Job
      BY <3>1
    <3>3. jobs' \subseteq Job
      BY <2>10, <3>2 DEF Dispatch, Enqueue
    <3>4. \E next \in {"ack", "fail"} : pc' = [pc EXCEPT ![w] = next]
      BY <2>10 DEF Dispatch, Enqueue, OnError
    <3> QED
      BY <2>10, <3>1, <3>3, <3>4 DEF Dispatch, Enqueue
  <2>11. ASSUME NEW w \in Worker, MarkDispatched(w) PROVE TypeOK'
    BY <2>11 DEF MarkDispatched, Release
  <2>12. ASSUME NEW w \in Worker, MarkDispatchedThrows(w) PROVE TypeOK'
    BY <2>12 DEF MarkDispatchedThrows
  <2>13. ASSUME NEW w \in Worker, MarkFailed(w) PROVE TypeOK'
    BY <2>13 DEF MarkFailed, Release
  <2>14. ASSUME NEW w \in Worker, EndRound(w) PROVE TypeOK'
    BY <2>14 DEF EndRound, ForgetRound
  <2>15. ASSUME NEW w \in Worker, Crash(w) PROVE TypeOK'
    BY <2>15 DEF Crash, ForgetRound
  <2>16. ASSUME NEW w \in Worker, FirstRoundFails(w) PROVE TypeOK'
    BY <2>16 DEF FirstRoundFails, ForgetRound
  <2>17. ASSUME NEW w \in Worker, ListenerLost(w) PROVE TypeOK'
    BY <2>17 DEF ListenerLost
  <2>18. CASE UNCHANGED vars
    BY <2>18 DEF vars
  <2> QED
    BY <2>1, <2>2, <2>3, <2>4, <2>5, <2>6, <2>7, <2>8, <2>9, <2>10, <2>11,
       <2>12, <2>13, <2>14, <2>15, <2>16, <2>17, <2>18
       DEF Next, Wake, RoundStep, Clock, Fault
<1> QED
  BY <1>1, <1>2, PTL DEF Spec

-----------------------------------------------------------------------------
LEMMA IInvInit == Init => IInv
BY OutboxAssumption
   DEF Init, IInv, SeenIsBehind, AckIsEarned, LeaseIsHeld, ClaimIsExclusive,
       DispatchedWasEnqueued, FailedWasExhausted, Holds, Working

LEMMA IInvStep == TypeOK /\ TypeOK' /\ IInv /\ [Next]_vars => IInv'
<1> SUFFICES ASSUME TypeOK, TypeOK', IInv, [Next]_vars PROVE IInv'
  OBVIOUS
<1> USE OutboxAssumption
    DEF TypeOK, IInv, SeenIsBehind, AckIsEarned, LeaseIsHeld, ClaimIsExclusive,
        DispatchedWasEnqueued, FailedWasExhausted, Holds, Working,
        rowVars, roundVars, wakeVars, boundVars
<1>1. ASSUME NEW e \in Event, CommitEvent(e) PROVE IInv'
  <2>1. /\ UNCHANGED <<attempts, owner, lapsed, jobs, pc, seen, current, stalls>>
        /\ status[e] = "ABSENT"
        /\ status' = [status EXCEPT ![e] = "PENDING"]
    BY <1>1 DEF CommitEvent
  <2>2. SeenIsBehind' /\ AckIsEarned' /\ LeaseIsHeld'
    BY <2>1
  <2>3. ASSUME stalls' = 0, NEW w \in Worker, NEW f \in Event, Holds(w, f)'
        PROVE  status'[f] = "PROCESSING" /\ owner'[f] = w
    <3>1. status[f] = "PROCESSING" /\ owner[f] = w
      BY <2>1, <2>3
    <3> QED
      BY <2>1, <3>1
  <2>4. DispatchedWasEnqueued' /\ FailedWasExhausted'
    BY <2>1
  <2> QED
    BY <2>2, <2>3, <2>4
<1>2. ASSUME NEW e \in Event, LeaseElapses(e) PROVE IInv'
  <2>1. /\ UNCHANGED <<status, attempts, owner, jobs, pc, seen, current>>
        /\ lapsed' = [lapsed EXCEPT ![e] = TRUE]
    BY <1>2 DEF LeaseElapses
  <2>2. /\ SeenIsBehind' /\ AckIsEarned'
        /\ DispatchedWasEnqueued' /\ FailedWasExhausted'
    BY <2>1
  <2>3. CASE ClaimantAlive(e)
    \* an overrun: from here on the conditional invariants promise nothing
    <3>1. stalls' # 0
      BY <1>2, <2>3 DEF LeaseElapses
    <3> QED
      BY <2>2, <3>1
  <2>4. CASE ~ClaimantAlive(e)
    \* nobody works on e, since whoever does is its owner
    <3>1. stalls' = stalls
      BY <1>2, <2>4 DEF LeaseElapses
    <3>2. stalls = 0 => \A v \in Worker : ~Holds(v, e)
      BY <2>4 DEF ClaimantAlive
    <3>3. LeaseIsHeld' /\ ClaimIsExclusive'
      BY <2>1, <3>1, <3>2
    <3> QED
      BY <2>2, <3>3
  <2> QED
    BY <2>3, <2>4
<1>3. ASSUME NEW e \in Event, BackoffElapses(e) PROVE IInv'
  BY <1>3 DEF BackoffElapses
<1>4. ASSUME NEW w \in Worker, Wake(w) PROVE IInv'
  BY <1>4 DEF Wake, Start, Sweep, HandleNotification, BeginRound
<1>5. ASSUME NEW w \in Worker, Recover(w) PROVE IInv'
  BY <1>5 DEF Recover, Expired
<1>6. ASSUME NEW w \in Worker, Select(w) PROVE IInv'
  BY <1>6 DEF Select
<1>7. ASSUME NEW w \in Worker, Claim(w) PROVE IInv'
  <2> PICK e \in batch[w] :
         /\ pc[w] = "loop"
         /\ UNCHANGED <<jobs, seen, stalls>>
         /\ \/ /\ status[e] = "PENDING"
               /\ status' = [status EXCEPT ![e] = "PROCESSING"]
               /\ owner' = [owner EXCEPT ![e] = w]
               /\ lapsed' = [lapsed EXCEPT ![e] = FALSE]
               /\ attempts' = [attempts EXCEPT ![e] = @ + 1]
               /\ current' = [current EXCEPT ![w] = e]
               /\ pc' = [pc EXCEPT ![w] = "dispatch"]
            \/ UNCHANGED <<rowVars, current, pc>>
    BY <1>7 DEF Claim, Claimable
  <2>1. CASE UNCHANGED <<rowVars, current, pc>>
    BY <2>1
  <2>2. CASE /\ status[e] = "PENDING"
             /\ status' = [status EXCEPT ![e] = "PROCESSING"]
             /\ owner' = [owner EXCEPT ![e] = w]
             /\ lapsed' = [lapsed EXCEPT ![e] = FALSE]
             /\ attempts' = [attempts EXCEPT ![e] = @ + 1]
             /\ current' = [current EXCEPT ![w] = e]
             /\ pc' = [pc EXCEPT ![w] = "dispatch"]
    <3>1. e \in Event
      OBVIOUS
    <3>2. SeenIsBehind'
      BY <2>2, <3>1
    <3>3. AckIsEarned' /\ DispatchedWasEnqueued' /\ FailedWasExhausted'
      <4>1. AckIsEarned'
        BY <2>2, <3>1
      <4>2. \A f \in Event : /\ status'[f] \in Settled => status'[f] = status[f]
                             /\ status'[f] = "FAILED" => attempts'[f] = attempts[f]
        BY <2>2, <3>1 DEF Settled
      <4>3. DispatchedWasEnqueued' /\ FailedWasExhausted'
        BY <4>2 DEF Settled
      <4> QED
        BY <4>1, <4>3
    <3>4. LeaseIsHeld'
      BY <2>2, <3>1
    <3>5. ClaimIsExclusive'
      \* nobody else can be working on an event that is pending
      BY <2>2, <3>1
    <3> QED
      BY <3>2, <3>3, <3>4, <3>5
  <2> QED
    BY <2>1, <2>2
<1>8. ASSUME NEW w \in Worker, Dispatch(w) PROVE IInv'
  BY <1>8 DEF Dispatch, Enqueue, OnError
<1>9. ASSUME NEW w \in Worker, MarkDispatched(w) PROVE IInv'
  BY <1>9 DEF MarkDispatched, Release
<1>10. ASSUME NEW w \in Worker, MarkDispatchedThrows(w) PROVE IInv'
  BY <1>10 DEF MarkDispatchedThrows
<1>11. ASSUME NEW w \in Worker, MarkFailed(w) PROVE IInv'
  BY <1>11 DEF MarkFailed, Release, Exhausted
<1>12. ASSUME NEW w \in Worker, EndRound(w) PROVE IInv'
  BY <1>12 DEF EndRound, ForgetRound
<1>13. ASSUME NEW w \in Worker, Crash(w) PROVE IInv'
  BY <1>13 DEF Crash, ForgetRound
<1>14. ASSUME NEW w \in Worker, FirstRoundFails(w) PROVE IInv'
  BY <1>14 DEF FirstRoundFails, ForgetRound
<1>15. ASSUME NEW w \in Worker, ListenerLost(w) PROVE IInv'
  BY <1>15 DEF ListenerLost
<1>16. CASE UNCHANGED vars
  BY <1>16 DEF vars
<1> QED
  BY <1>1, <1>2, <1>3, <1>4, <1>5, <1>6, <1>7, <1>8, <1>9, <1>10, <1>11,
     <1>12, <1>13, <1>14, <1>15, <1>16 DEF Next, RoundStep, Clock, Fault

(* In every reachable state a worker about to acknowledge has handed over, *)
(* a count that was read is behind the stored one, and a claim that has    *)
(* not lapsed is left to its owner.                                        *)
THEOREM InvariantHolds == Spec => []IInv
<1>1. TypeOK /\ TypeOK' /\ IInv /\ [Next]_vars => IInv'
  BY IInvStep
<1> QED
  BY <1>1, IInvInit, TypeCorrect, PTL DEF Spec

LEMMA IInvCorrect == Spec => [](TypeOK /\ IInv)
BY InvariantHolds, TypeCorrect, PTL

(* A row says DISPATCHED only if its job reached the queue: MarkDispatched *)
(* is behind the handler in every interleaving, crash and retry.           *)
THEOREM NoFalseDispatch == Spec => []DispatchedWasEnqueued
<1>1. IInv => DispatchedWasEnqueued
  BY DEF IInv
<1> QED
  BY <1>1, IInvCorrect, PTL

(* No replica gives an event up before MaxAttempts claims, although each   *)
(* decides with the count that its own select returned.                    *)
THEOREM NoEarlyFailure == Spec => []FailedWasExhausted
<1>1. IInv => FailedWasExhausted
  BY DEF IInv
<1> QED
  BY <1>1, IInvCorrect, PTL

(* Without overruns the conditional update gives exclusive ownership.      *)
THEOREM ExclusiveOwnership == Spec => []ClaimIsExclusive
<1>1. IInv => ClaimIsExclusive
  BY DEF IInv
<1> QED
  BY <1>1, IInvCorrect, PTL

(* Without overruns DISPATCHED and FAILED are final: the only updates that *)
(* could take them back are those of a round that holds the event, and     *)
(* then the row is PROCESSING.                                             *)
THEOREM OutcomesAreFinal == Spec => SettledIsFinal
<1>1. TypeOK /\ IInv /\ [Next]_vars =>
        [stalls' = 0 =>
           \A e \in Event : status[e] \in Settled => status'[e] = status[e]]_vars
  <2> SUFFICES ASSUME TypeOK, IInv, Next, stalls' = 0,
                      NEW e \in Event, status[e] \in Settled
               PROVE  status'[e] = status[e]
    OBVIOUS
  <2> USE OutboxAssumption
      DEF TypeOK, Settled, rowVars, roundVars, wakeVars, boundVars
  <2>1. ASSUME NEW f \in Event, CommitEvent(f) \/ Clock(f)
        PROVE  status'[e] = status[e]
    BY <2>1 DEF CommitEvent, Clock, LeaseElapses, BackoffElapses
  <2>2. ASSUME NEW w \in Worker, Wake(w) \/ Fault(w)
        PROVE  status'[e] = status[e]
    BY <2>2 DEF Wake, Start, Sweep, HandleNotification, BeginRound, Fault,
                Crash, FirstRoundFails, ListenerLost
  <2>3. ASSUME NEW w \in Worker, Recover(w) PROVE status'[e] = status[e]
    BY <2>3 DEF Recover, Expired
  <2>4. ASSUME NEW w \in Worker, Claim(w) PROVE status'[e] = status[e]
    BY <2>4 DEF Claim, Claimable
  <2>5. ASSUME NEW w \in Worker, MarkDispatched(w) \/ MarkFailed(w)
        PROVE  status'[e] = status[e]
    <3>1. Working(w) /\ stalls = 0
      BY <2>5 DEF MarkDispatched, MarkFailed, Release, Working
    <3>2. e # current[w]
      BY <3>1 DEF IInv, ClaimIsExclusive, Holds
    <3> QED
      BY <2>5, <3>2 DEF MarkDispatched, MarkFailed, Release
  <2>6. ASSUME NEW w \in Worker,
               Select(w) \/ Dispatch(w) \/ MarkDispatchedThrows(w) \/ EndRound(w)
        PROVE  status'[e] = status[e]
    BY <2>6 DEF Select, Dispatch, Enqueue, MarkDispatchedThrows, EndRound
  <2> QED
    BY <2>1, <2>2, <2>3, <2>4, <2>5, <2>6 DEF Next, RoundStep
<1> QED
  BY <1>1, IInvCorrect, PTL DEF Spec, SettledIsFinal

-----------------------------------------------------------------------------
(* Overruns are counted, never forgotten.                                  *)
LEMMA OverrunsRemain ==
    ASSUME TypeOK, [Next]_vars, stalls' = 0
    PROVE  stalls = 0
<1> USE DEF TypeOK, rowVars, roundVars, wakeVars, boundVars
<1>1. ASSUME NEW e \in Event, CommitEvent(e) \/ Clock(e) PROVE stalls = 0
  BY <1>1 DEF CommitEvent, Clock, LeaseElapses, BackoffElapses
<1>2. ASSUME NEW w \in Worker, Wake(w) \/ Fault(w) PROVE stalls = 0
  BY <1>2 DEF Wake, Start, Sweep, HandleNotification, BeginRound, Fault,
              Crash, FirstRoundFails, ListenerLost
<1>3. ASSUME NEW w \in Worker, RoundStep(w) PROVE stalls = 0
  BY <1>3 DEF RoundStep, Recover, Select, Claim, Dispatch, Enqueue,
              MarkDispatched, MarkDispatchedThrows, MarkFailed, Release, EndRound
<1>4. CASE UNCHANGED vars
  BY <1>4 DEF vars
<1> QED
  BY <1>1, <1>2, <1>3, <1>4 DEF Next

(* As long as no claim has outlived its lease, every step of a dispatcher  *)
(* is a step of the hand-over contract or invisible to it.                 *)
LEMMA HandoffStep ==
    ASSUME TypeOK, TypeOK', IInv, [Next]_vars, stalls' = 0
    PROVE  [H!Next]_(H!vars)
<1> USE OutboxAssumption
    DEF TypeOK, rowVars, roundVars, wakeVars, boundVars, H!vars, H!Next
<1>0. stalls = 0
  BY OverrunsRemain
<1>1. ASSUME NEW e \in Event, CommitEvent(e) PROVE H!Promise(e)
  BY <1>1 DEF CommitEvent, H!Promise
<1>2. ASSUME UNCHANGED <<status, attempts, jobs>> PROVE UNCHANGED H!vars
  BY <1>2
<1>3. ASSUME NEW w \in Worker, Recover(w) PROVE UNCHANGED H!vars
  BY <1>3 DEF Recover, Expired
<1>4. ASSUME NEW w \in Worker, Claim(w) PROVE [H!Next]_(H!vars)
  <2> PICK e \in batch[w] :
         /\ UNCHANGED jobs
         /\ \/ /\ status[e] = "PENDING"
               /\ status' = [status EXCEPT ![e] = "PROCESSING"]
               /\ attempts' = [attempts EXCEPT ![e] = @ + 1]
            \/ UNCHANGED <<status, attempts>>
    BY <1>4 DEF Claim, Claimable
  <2>1. CASE /\ status[e] = "PENDING"
             /\ status' = [status EXCEPT ![e] = "PROCESSING"]
             /\ attempts' = [attempts EXCEPT ![e] = @ + 1]
    <3>1. e \in Event
      OBVIOUS
    <3>2. H!Try(e)
      BY <2>1, <3>1 DEF H!Try, H!Open
    <3> QED
      BY <3>1, <3>2
  <2> QED
    BY <1>2, <2>1
<1>5. ASSUME NEW w \in Worker, Working(w)
      PROVE  /\ current[w] \in Event
             /\ status[current[w]] = "PROCESSING"
             /\ attempts[current[w]] > 0
             /\ seen[w][current[w]] \in Nat
             /\ attempts[current[w]] \in Nat
             /\ seen[w][current[w]] + 1 <= attempts[current[w]]
  <2>1. current[w] \in Event
    BY <1>5
  <2>2. Holds(w, current[w])
    BY <1>5 DEF Holds
  <2>3. status[current[w]] = "PROCESSING"
    BY <1>0, <2>1, <2>2 DEF IInv, ClaimIsExclusive
  <2>4. seen[w][current[w]] + 1 <= attempts[current[w]]
    BY <2>1, <2>2 DEF IInv, SeenIsBehind
  <2>5. seen[w] \in [Event -> Nat]
    OBVIOUS
  <2>6. seen[w][current[w]] \in Nat /\ attempts[current[w]] \in Nat
    BY <2>1, <2>5
  <2> QED
    BY <2>1, <2>3, <2>4, <2>6
<1>6. ASSUME NEW w \in Worker, Dispatch(w) PROVE [H!Next]_(H!vars)
  <2>1. Working(w)
    BY <1>6 DEF Dispatch, Enqueue, Working
  <2>2. PICK e \in Event : e = current[w]
    BY <1>5, <2>1
  <2>3. CASE jobs' = jobs \cup {JobOf[current[w]]}
    <3>1. H!Enqueue(e)
      BY <1>5, <1>6, <2>1, <2>2, <2>3 DEF Dispatch, Enqueue, H!Enqueue, H!Open
    <3> QED
      BY <3>1
  <2>4. CASE UNCHANGED jobs
    BY <1>2, <1>6, <2>4 DEF Dispatch, Enqueue
  <2> QED
    BY <1>6, <2>3, <2>4 DEF Dispatch, Enqueue
<1>7. ASSUME NEW w \in Worker, MarkDispatched(w) PROVE [H!Next]_(H!vars)
  <2>1. Working(w)
    BY <1>7 DEF MarkDispatched, Working
  <2>2. PICK e \in Event : e = current[w]
    BY <1>5, <2>1
  <2>3. JobOf[e] \in jobs
    BY <1>7, <2>2 DEF MarkDispatched, IInv, AckIsEarned
  <2>4. H!Acknowledge(e)
    BY <1>5, <1>7, <2>1, <2>2, <2>3
       DEF MarkDispatched, Release, H!Acknowledge, H!Open
  <2> QED
    BY <2>4
<1>8. ASSUME NEW w \in Worker, MarkFailed(w) PROVE [H!Next]_(H!vars)
  <2>1. Working(w)
    BY <1>8 DEF MarkFailed, Working
  <2>2. PICK e \in Event : e = current[w]
    BY <1>5, <2>1
  <2>3. CASE Exhausted(seen[w][current[w]])
    <3>1. attempts[e] >= MaxAttempts
      BY <1>5, <2>1, <2>2, <2>3 DEF Exhausted
    <3>2. H!GiveUp(e)
      BY <1>5, <1>8, <2>1, <2>2, <2>3, <3>1
         DEF MarkFailed, Release, H!GiveUp, H!Open
    <3> QED
      BY <3>2
  <2>4. CASE ~Exhausted(seen[w][current[w]])
    BY <1>5, <1>8, <2>1, <2>4 DEF MarkFailed, Release
  <2> QED
    BY <2>3, <2>4
<1>9. ASSUME NEW e \in Event, Clock(e) PROVE UNCHANGED H!vars
  BY <1>2, <1>9 DEF Clock, LeaseElapses, BackoffElapses
<1>10. ASSUME NEW w \in Worker, Wake(w) \/ Fault(w) PROVE UNCHANGED H!vars
  BY <1>2, <1>10 DEF Wake, Start, Sweep, HandleNotification, BeginRound, Fault,
                     Crash, FirstRoundFails, ListenerLost
<1>11. ASSUME NEW w \in Worker,
              Select(w) \/ MarkDispatchedThrows(w) \/ EndRound(w)
       PROVE  UNCHANGED H!vars
  BY <1>2, <1>11 DEF Select, MarkDispatchedThrows, EndRound
<1>12. CASE UNCHANGED vars
  BY <1>2, <1>12 DEF vars
<1> QED
  BY <1>1, <1>3, <1>4, <1>6, <1>7, <1>8, <1>9, <1>10, <1>11, <1>12
     DEF Next, RoundStep

(* Until a claim outlives its lease, the dispatcher implements the         *)
(* contract: at least once, acknowledged only after the hand-over, never   *)
(* taken back.                                                             *)
THEOREM ImplementsHandoff == Spec => HandoffSpec
<1>1. Init => H!Init
  BY DEF Init, H!Init
<1>2. TypeOK /\ TypeOK' /\ IInv /\ [Next]_vars =>
        [stalls' = 0 => [H!Next]_(H!vars)]_vars
  BY HandoffStep
<1> QED
  BY <1>1, <1>2, IInvCorrect, TypeCorrect, PTL DEF Spec, HandoffSpec

-----------------------------------------------------------------------------
(* What an overrun costs.  A holder is stale when the row does not keep    *)
(* the event for it; only an overrun makes one.  A replica is early when   *)
(* it selected the event with a count that allows another attempt after    *)
(* its own; once the limit is near, nobody becomes early any more.  The    *)
(* event is open when it can be claimed now or after a lease, without a    *)
(* further fault.                                                          *)
Keeps(w, e) == /\ current[w] = e
               /\ status[e] = "PROCESSING" /\ owner[e] = w /\ lapsed[e] = FALSE
Stale(e) == {w \in Worker : current[w] = e /\ ~Keeps(w, e)}
Early(e) == {w \in Worker : /\ current[w] = e \/ e \in batch[w]
                            /\ seen[w][e] + 1 < MaxAttempts}
Open(e) == status[e] \notin Settled /\ \A w \in Worker : ~Keeps(w, e)

Bound(e) ==
    /\ \A w \in Worker : current[w] = e => e \notin batch[w]
    /\ Cardinality(Stale(e)) <= stalls
    /\ attempts[e] + 1 >= MaxAttempts =>
          attempts[e] + Cardinality(Early(e)) + (IF Open(e) THEN 1 ELSE 0)
             <= MaxAttempts + (Cardinality(Worker) - 1) + faults + stalls

LEMMA Counting ==
    ASSUME NEW S \in SUBSET Worker, NEW T \in SUBSET Worker
    PROVE  /\ Cardinality(S) \in Nat
           /\ S \subseteq T => Cardinality(S) <= Cardinality(T)
           /\ \A w \in Worker : S \subseteq T \cup {w} => Cardinality(S) <= Cardinality(T) + 1
           /\ \A w \in T : S \subseteq T \ {w} => Cardinality(S) + 1 <= Cardinality(T)
<1>1. IsFiniteSet(S) /\ IsFiniteSet(T)
  BY OutboxAssumption, FS_Subset
<1>2. Cardinality(S) \in Nat /\ Cardinality(T) \in Nat
  BY <1>1, FS_CardinalityType
<1>3. S \subseteq T => Cardinality(S) <= Cardinality(T)
  BY <1>1, FS_Subset
<1>4. ASSUME NEW w \in Worker, S \subseteq T \cup {w}
      PROVE  Cardinality(S) <= Cardinality(T) + 1
  <2>1. /\ IsFiniteSet(T \cup {w})
        /\ Cardinality(T \cup {w}) <= Cardinality(T) + 1
    <3>1. /\ IsFiniteSet(T \cup {w})
          /\ Cardinality(T \cup {w}) = IF w \in T THEN Cardinality(T) ELSE Cardinality(T) + 1
      BY <1>1, FS_AddElement
    <3> QED
      BY <1>2, <3>1
  <2>2. Cardinality(S) <= Cardinality(T \cup {w})
    BY <1>4, <2>1, FS_Subset
  <2>3. Cardinality(T \cup {w}) \in Nat
    BY <2>1, FS_CardinalityType
  <2> QED
    BY <1>2, <2>1, <2>2, <2>3
<1>5. ASSUME NEW w \in T, S \subseteq T \ {w}
      PROVE  Cardinality(S) + 1 <= Cardinality(T)
  <2>1. /\ IsFiniteSet(T \ {w})
        /\ Cardinality(T \ {w}) = Cardinality(T) - 1
    BY <1>1, FS_RemoveElement
  <2>2. Cardinality(S) <= Cardinality(T \ {w})
    BY <1>5, <2>1, FS_Subset
  <2> QED
    BY <1>2, <2>1, <2>2
<1> QED
  BY <1>2, <1>3, <1>4, <1>5

(* The sets that are counted are sets of replicas.                         *)
LEMMA Counted ==
    ASSUME NEW e \in Event
    PROVE  /\ Stale(e) \in SUBSET Worker /\ Stale(e)' \in SUBSET Worker
           /\ Early(e) \in SUBSET Worker /\ Early(e)' \in SUBSET Worker
           /\ Cardinality(Worker) \in Nat \ {0}
           /\ Cardinality(Stale(e)) \in Nat /\ Cardinality(Stale(e)') \in Nat
           /\ Cardinality(Early(e)) \in Nat /\ Cardinality(Early(e)') \in Nat
<1>1. /\ Stale(e) \in SUBSET Worker /\ Stale(e)' \in SUBSET Worker
      /\ Early(e) \in SUBSET Worker /\ Early(e)' \in SUBSET Worker
  BY DEF Stale, Early
<1>2. Cardinality(Worker) \in Nat \ {0}
  <2>1. IsFiniteSet(Worker) /\ Worker # {}
    BY OutboxAssumption
  <2> QED
    BY <2>1, FS_CardinalityType, FS_EmptySet
<1> QED
  BY <1>1, <1>2, Counting

(* Most steps add nothing: no stale holder, no early replica near the      *)
(* limit, and the event is not opened.                                     *)
LEMMA Adds ==
    ASSUME TypeOK, TypeOK', NEW e \in Event, Bound(e),
           \A w \in Worker : current'[w] = e => e \notin batch'[w],
           attempts'[e] = attempts[e], faults' >= faults, stalls' >= stalls,
           Stale(e)' \subseteq Stale(e),
           attempts[e] + 1 >= MaxAttempts => Early(e)' \subseteq Early(e),
           Open(e)' => Open(e)
    PROVE  Bound(e)'
<1>1. /\ attempts[e] \in Nat /\ stalls \in Nat /\ faults \in Nat
      /\ stalls' \in Nat /\ faults' \in Nat /\ MaxAttempts \in Nat
  BY OutboxAssumption DEF TypeOK
<1>2. /\ Cardinality(Stale(e)) \in Nat /\ Cardinality(Stale(e)') \in Nat
      /\ Cardinality(Early(e)) \in Nat /\ Cardinality(Early(e)') \in Nat
      /\ Cardinality(Worker) \in Nat
  BY Counted
<1>3. Cardinality(Stale(e)') <= Cardinality(Stale(e))
  BY Counted, Counting
<1>4. attempts[e] + 1 >= MaxAttempts => Cardinality(Early(e)') <= Cardinality(Early(e))
  BY Counted, Counting
<1>5. Cardinality(Stale(e)') <= stalls'
  BY <1>1, <1>2, <1>3 DEF Bound
<1>6. attempts'[e] + 1 >= MaxAttempts =>
         attempts'[e] + Cardinality(Early(e)') + (IF Open(e)' THEN 1 ELSE 0)
            <= MaxAttempts + (Cardinality(Worker) - 1) + faults' + stalls'
  BY <1>1, <1>2, <1>4 DEF Bound
<1> QED
  BY <1>5, <1>6 DEF Bound

LEMMA SameRound ==
    ASSUME TypeOK, TypeOK', NEW e \in Event, Bound(e),
           UNCHANGED <<status, owner, lapsed, attempts, current, batch, seen, faults, stalls>>
    PROVE  Bound(e)'
  BY DEF Bound, Stale, Early, Open, Keeps

(* The row changes, nobody's round does.                                   *)
LEMMA RowChanges ==
    ASSUME TypeOK, TypeOK', NEW e \in Event, Bound(e),
           UNCHANGED <<attempts, current, batch, seen, faults, stalls>>,
           \A w \in Worker : Keeps(w, e)' <=> Keeps(w, e),
           status'[e] \notin Settled => status[e] \notin Settled
    PROVE  Bound(e)'
<1>1. /\ \A w \in Worker : current'[w] = e => e \notin batch'[w]
      /\ attempts'[e] = attempts[e]
  BY DEF Bound
<1>2. faults' >= faults /\ stalls' >= stalls
  BY DEF TypeOK
<1>3. Stale(e)' \subseteq Stale(e)
  BY DEF Stale
<1>4. Early(e)' \subseteq Early(e)
  BY DEF Early
<1>5. Open(e)' => Open(e)
  BY DEF Open
<1> QED
  BY <1>1, <1>2, <1>3, <1>4, <1>5, Adds

LEMMA BoundCommit ==
    ASSUME TypeOK, TypeOK', NEW e \in Event, Bound(e), NEW f \in Event, CommitEvent(f)
    PROVE  Bound(e)'
<1>1. /\ UNCHANGED <<attempts, current, batch, seen, faults, stalls, owner, lapsed>>
      /\ status[f] = "ABSENT" /\ status' = [status EXCEPT ![f] = "PENDING"]
  BY DEF CommitEvent, roundVars, boundVars
<1>2. /\ status'[e] = status[e] \/ (status[e] = "ABSENT" /\ status'[e] = "PENDING")
  BY <1>1 DEF TypeOK
<1>3. \A w \in Worker : Keeps(w, e)' <=> Keeps(w, e)
  BY <1>1, <1>2 DEF Keeps
<1> QED
  BY <1>1, <1>2, <1>3, RowChanges DEF Settled

LEMMA BoundRecover ==
    ASSUME TypeOK, TypeOK', NEW e \in Event, Bound(e), NEW w \in Worker, Recover(w)
    PROVE  Bound(e)'
<1>1. /\ UNCHANGED <<attempts, current, batch, seen, faults, stalls>>
      /\ ~Expired(e) => status'[e] = status[e] /\ owner'[e] = owner[e] /\ lapsed'[e] = lapsed[e]
      /\ Expired(e) => status'[e] = "PENDING" /\ status[e] = "PROCESSING" /\ lapsed[e] = TRUE
  BY DEF Recover, Expired, roundVars, boundVars, TypeOK
<1>2. \A v \in Worker : Keeps(v, e)' <=> Keeps(v, e)
  BY <1>1 DEF Keeps
<1> QED
  BY <1>1, <1>2, RowChanges DEF Settled

LEMMA BoundLease ==
    ASSUME TypeOK, TypeOK', NEW e \in Event, Bound(e), NEW f \in Event, LeaseElapses(f)
    PROVE  Bound(e)'
<1>1. /\ UNCHANGED <<status, owner, attempts, current, batch, seen, faults>>
      /\ lapsed' = [lapsed EXCEPT ![f] = TRUE]
      /\ stalls' = stalls \/ (stalls' = stalls + 1 /\ ClaimantAlive(f))
      /\ stalls' = stalls => ~ClaimantAlive(f)
  BY DEF LeaseElapses, roundVars, TypeOK
<1>2. CASE e # f \/ ~ClaimantAlive(f)
  <2>1. \A w \in Worker : Keeps(w, e)' <=> Keeps(w, e)
    <3>1. CASE e # f
      BY <1>1, <3>1 DEF Keeps, TypeOK
    <3>2. CASE e = f /\ ~ClaimantAlive(f)
      <4>1. \A w \in Worker : ~(owner[e] = w /\ current[w] = e)
        BY <3>2 DEF ClaimantAlive, Holds, TypeOK
      <4> QED
        BY <1>1, <4>1 DEF Keeps
    <3> QED
      BY <1>2, <3>1, <3>2
  <2>2. Stale(e)' \subseteq Stale(e)
    BY <1>1, <2>1 DEF Stale
  <2>3. Early(e)' \subseteq Early(e)
    BY <1>1 DEF Early
  <2>4. Open(e)' => Open(e)
    BY <1>1, <2>1 DEF Open
  <2>5. stalls' >= stalls /\ faults' >= faults
    BY <1>1 DEF TypeOK
  <2>6. \A w \in Worker : current'[w] = e => e \notin batch'[w]
    BY <1>1 DEF Bound
  <2> QED
    BY <1>1, <2>2, <2>3, <2>4, <2>5, <2>6, Adds
<1>3. CASE e = f /\ stalls' = stalls + 1
  <2>1. /\ attempts[e] \in Nat /\ stalls \in Nat /\ faults \in Nat /\ MaxAttempts \in Nat
        /\ owner[e] \in Worker \cup {NoWorker}
    BY OutboxAssumption DEF TypeOK
  <2>2. Early(e)' = Early(e)
    BY <1>1 DEF Early
  <2>3. Cardinality(Stale(e)') <= Cardinality(Stale(e)) + 1
    <3>1. owner[e] \in Worker
      BY <1>1, <1>3, <2>1 DEF ClaimantAlive
    <3>2. Stale(e)' \subseteq Stale(e) \cup {owner[e]}
      BY <1>1 DEF Stale, Keeps
    <3> QED
      BY <3>1, <3>2, Counted, Counting
  <2>4. /\ Cardinality(Stale(e)) \in Nat /\ Cardinality(Stale(e)') \in Nat
        /\ Cardinality(Early(e)) \in Nat /\ Cardinality(Worker) \in Nat
    BY Counted
  <2>5. Cardinality(Stale(e)') <= stalls'
    BY <1>3, <2>1, <2>3, <2>4 DEF Bound
  <2>6. attempts'[e] + 1 >= MaxAttempts =>
         attempts'[e] + Cardinality(Early(e)') + (IF Open(e)' THEN 1 ELSE 0)
            <= MaxAttempts + (Cardinality(Worker) - 1) + faults' + stalls'
    BY <1>1, <1>3, <2>1, <2>2, <2>4 DEF Bound
  <2>7. \A w \in Worker : current'[w] = e => e \notin batch'[w]
    BY <1>1 DEF Bound
  <2> QED
    BY <2>5, <2>6, <2>7 DEF Bound
<1> QED
  BY <1>1, <1>2, <1>3

(* A round ends, or its process does.                                      *)
LEMMA BoundEnd ==
    ASSUME TypeOK, TypeOK', NEW e \in Event, Bound(e), NEW w \in Worker,
           UNCHANGED <<rowVars, stalls>>, ForgetRound(w),
           \/ current[w] \notin Event /\ faults' = faults
           \/ faults' = faults + 1
    PROVE  Bound(e)'
<1>1. /\ UNCHANGED <<status, owner, lapsed, attempts>>
      /\ attempts[e] \in Nat /\ stalls \in Nat /\ faults \in Nat /\ MaxAttempts \in Nat
      /\ e # NoEvent
  BY OutboxAssumption DEF TypeOK, rowVars
<1>2. /\ current'[w] = NoEvent /\ batch'[w] = {}
      /\ \A v \in Worker \ {w} : /\ current'[v] = current[v] /\ batch'[v] = batch[v]
                                 /\ seen'[v] = seen[v]
  BY DEF ForgetRound, TypeOK
<1>3. \A v \in Worker : current'[v] = e => e \notin batch'[v]
  BY <1>2 DEF Bound
<1>4. Stale(e)' \subseteq Stale(e)
  BY <1>1, <1>2 DEF Stale, Keeps
<1>5. Early(e)' \subseteq Early(e)
  BY <1>1, <1>2 DEF Early
<1>6. CASE current[w] \notin Event /\ faults' = faults
  <2>1. Open(e)' => Open(e)
    BY <1>1, <1>2, <1>6 DEF Open, Keeps
  <2> QED
    BY <1>1, <1>3, <1>4, <1>5, <1>6, <2>1, Adds
<1>7. CASE faults' = faults + 1
  <2>1. /\ Cardinality(Stale(e)) \in Nat /\ Cardinality(Stale(e)') \in Nat
        /\ Cardinality(Early(e)) \in Nat /\ Cardinality(Early(e)') \in Nat
        /\ Cardinality(Worker) \in Nat
    BY Counted
  <2>2. /\ Cardinality(Stale(e)') <= Cardinality(Stale(e))
        /\ Cardinality(Early(e)') <= Cardinality(Early(e))
    BY <1>4, <1>5, Counted, Counting
  <2>3. Cardinality(Stale(e)') <= stalls'
    BY <1>1, <2>1, <2>2 DEF Bound
  <2>4. attempts'[e] + 1 >= MaxAttempts =>
           attempts'[e] + Cardinality(Early(e)') + (IF Open(e)' THEN 1 ELSE 0)
              <= MaxAttempts + (Cardinality(Worker) - 1) + faults' + stalls'
    BY <1>1, <1>7, <2>1, <2>2 DEF Bound
  <2> QED
    BY <1>3, <2>3, <2>4 DEF Bound
<1> QED
  BY <1>6, <1>7

LEMMA BoundSelect ==
    ASSUME TypeOK, TypeOK', NEW e \in Event, Bound(e), NEW w \in Worker, Select(w)
    PROVE  Bound(e)'
<1>1. /\ UNCHANGED <<status, owner, lapsed, attempts, current, faults, stalls>>
      /\ current[w] \notin Event
      /\ \A v \in Worker \ {w} : batch'[v] = batch[v] /\ seen'[v] = seen[v]
      /\ e \in batch'[w] => seen'[w][e] = attempts[e]
  BY DEF Select, rowVars, boundVars, TypeOK, Working
<1>2. /\ attempts[e] \in Nat /\ stalls \in Nat /\ faults \in Nat /\ MaxAttempts \in Nat
  BY OutboxAssumption DEF TypeOK
<1>3. \A v \in Worker : current'[v] = e => e \notin batch'[v]
  BY <1>1 DEF Bound
<1>4. Stale(e)' \subseteq Stale(e)
  BY <1>1 DEF Stale, Keeps
<1>5. attempts[e] + 1 >= MaxAttempts => Early(e)' \subseteq Early(e)
  BY <1>1, <1>2 DEF Early
<1>6. Open(e)' => Open(e)
  BY <1>1 DEF Open, Keeps
<1>7. faults' >= faults /\ stalls' >= stalls /\ attempts'[e] = attempts[e]
  BY <1>1, <1>2
<1> QED
  BY <1>3, <1>4, <1>5, <1>6, <1>7, Adds

(* Another replica was faster.                                             *)
LEMMA BoundSkip ==
    ASSUME TypeOK, TypeOK', NEW e \in Event, Bound(e), NEW w \in Worker, NEW f \in batch[w],
           UNCHANGED <<rowVars, current, seen, boundVars>>,
           batch' = [batch EXCEPT ![w] = @ \ {f}]
    PROVE  Bound(e)'
<1>1. UNCHANGED <<status, owner, lapsed, attempts, current, seen, faults, stalls>>
  BY DEF rowVars, boundVars
<1>2. \A v \in Worker : batch'[v] \subseteq batch[v]
  BY DEF TypeOK
<1>3. \A v \in Worker : current'[v] = e => e \notin batch'[v]
  BY <1>1, <1>2 DEF Bound
<1>4. Stale(e)' \subseteq Stale(e) /\ Early(e)' \subseteq Early(e) /\ (Open(e)' => Open(e))
  BY <1>1, <1>2 DEF Stale, Early, Open, Keeps
<1>5. faults' >= faults /\ stalls' >= stalls /\ attempts'[e] = attempts[e]
  BY <1>1 DEF TypeOK
<1> QED
  BY <1>3, <1>4, <1>5, Adds

LEMMA BoundClaim ==
    ASSUME TypeOK, TypeOK', NEW e \in Event, Bound(e), NEW w \in Worker, NEW f \in batch[w],
           pc[w] = "loop", Claimable(f),
           batch' = [batch EXCEPT ![w] = @ \ {f}],
           status' = [status EXCEPT ![f] = "PROCESSING"],
           owner' = [owner EXCEPT ![f] = w],
           lapsed' = [lapsed EXCEPT ![f] = FALSE],
           attempts' = [attempts EXCEPT ![f] = @ + 1],
           current' = [current EXCEPT ![w] = f],
           UNCHANGED <<seen, faults, stalls>>
    PROVE  Bound(e)'
<1>1. /\ attempts[e] \in Nat /\ stalls \in Nat /\ faults \in Nat /\ MaxAttempts \in Nat
      /\ current[w] \notin Event /\ f \in Event
  <2>1. attempts[e] \in Nat /\ stalls \in Nat /\ faults \in Nat /\ MaxAttempts \in Nat
    BY OutboxAssumption DEF TypeOK
  <2>2. batch[w] \in SUBSET Event
    BY DEF TypeOK
  <2>3. current[w] \notin Event
    BY DEF TypeOK, Working
  <2> QED
    BY <2>1, <2>2, <2>3
<1>2. /\ current'[w] = f /\ batch'[w] = batch[w] \ {f} /\ seen' = seen
      /\ \A v \in Worker \ {w} : current'[v] = current[v] /\ batch'[v] = batch[v]
  BY DEF TypeOK
<1>3. \A v \in Worker : current'[v] = e => e \notin batch'[v]
  BY <1>2 DEF Bound
<1>4. CASE e # f
  <2>1. /\ status'[e] = status[e] /\ owner'[e] = owner[e] /\ lapsed'[e] = lapsed[e]
        /\ attempts'[e] = attempts[e]
    BY <1>4 DEF TypeOK
  <2>2. \A v \in Worker : Keeps(v, e)' <=> Keeps(v, e)
    BY <1>1, <1>2, <1>4, <2>1 DEF Keeps
  <2>3. Stale(e)' \subseteq Stale(e)
    BY <1>2, <1>4, <2>2 DEF Stale
  <2>4. Early(e)' \subseteq Early(e)
    BY <1>2, <1>4 DEF Early
  <2>5. Open(e)' => Open(e)
    BY <2>1, <2>2 DEF Open
  <2>6. faults' >= faults /\ stalls' >= stalls
    BY <1>1
  <2> QED
    BY <1>3, <2>1, <2>3, <2>4, <2>5, <2>6, Adds
<1>5. CASE e = f
  <2>1. /\ status[e] = "PENDING" /\ status'[e] = "PROCESSING" /\ owner'[e] = w /\ lapsed'[e] = FALSE
        /\ attempts'[e] = attempts[e] + 1
    BY <1>1, <1>5 DEF Claimable, TypeOK
  <2>2. ~Open(e)' /\ Open(e)
    BY <1>2, <1>5, <2>1 DEF Open, Keeps, Settled
  <2>3. Stale(e)' \subseteq Stale(e)
    BY <1>2, <1>5, <2>1 DEF Stale, Keeps
  <2>4. /\ Cardinality(Stale(e)) \in Nat /\ Cardinality(Stale(e)') \in Nat
        /\ Cardinality(Early(e)) \in Nat /\ Cardinality(Early(e)') \in Nat
        /\ Cardinality(Worker) \in Nat
    BY Counted
  <2>5. Cardinality(Stale(e)') <= stalls'
    <3>1. Cardinality(Stale(e)') <= Cardinality(Stale(e))
      BY <2>3, Counted, Counting
    <3> QED
      BY <1>1, <2>4, <3>1 DEF Bound
  <2>6. Cardinality(Early(e)') <= Cardinality(Early(e))
    <3>1. Early(e)' \subseteq Early(e)
      BY <1>2, <1>5 DEF Early
    <3> QED
      BY <3>1, Counted, Counting
  <2>7. Cardinality(Early(e)') <= Cardinality(Worker)
    <3>1. Worker \in SUBSET Worker /\ Early(e)' \subseteq Worker
      BY DEF Early
    <3> QED
      BY <3>1, Counted, Counting
  <2>8. ASSUME attempts'[e] + 1 >= MaxAttempts
        PROVE  attempts'[e] + Cardinality(Early(e)') + (IF Open(e)' THEN 1 ELSE 0)
                  <= MaxAttempts + (Cardinality(Worker) - 1) + faults' + stalls'
    <3>1. CASE attempts[e] + 1 >= MaxAttempts
      BY <1>1, <2>1, <2>2, <2>4, <2>6, <3>1 DEF Bound
    <3>2. CASE ~(attempts[e] + 1 >= MaxAttempts)
      <4>1. attempts'[e] + 1 <= MaxAttempts
        BY <1>1, <2>1, <3>2
      <4> QED
        BY <1>1, <2>1, <2>2, <2>4, <2>7, <4>1
    <3> QED
      BY <3>1, <3>2
  <2> QED
    BY <1>3, <2>5, <2>8 DEF Bound
<1> QED
  BY <1>4, <1>5

(* The outcome is recorded, by an update that does not look at the owner:  *)
(* the stale holder who records it leaves, and may make the owner stale    *)
(* instead.                                                                *)
LEMMA BoundRelease ==
    ASSUME TypeOK, TypeOK', NEW e \in Event, Bound(e), NEW w \in Worker, Working(w),
           NEW newStatus \in {"PENDING", "FAILED", "DISPATCHED"}, NEW isDue,
           newStatus = "PENDING" => seen[w][current[w]] + 1 < MaxAttempts,
           Release(w, newStatus, isDue)
    PROVE  Bound(e)'
<1> DEFINE f == current[w]
<1>1. /\ attempts[e] \in Nat /\ stalls \in Nat /\ faults \in Nat /\ MaxAttempts \in Nat
      /\ f \in Event /\ e # NoEvent
  BY OutboxAssumption DEF TypeOK, Working
<1>2. /\ status' = [status EXCEPT ![f] = newStatus] /\ owner' = [owner EXCEPT ![f] = NoWorker]
      /\ lapsed' = [lapsed EXCEPT ![f] = FALSE] /\ current' = [current EXCEPT ![w] = NoEvent]
      /\ UNCHANGED <<attempts, batch, seen, faults, stalls>>
  BY DEF Release, boundVars
<1>3. /\ current'[w] = NoEvent
      /\ \A v \in Worker \ {w} : current'[v] = current[v]
  BY <1>2 DEF TypeOK
<1>4. \A v \in Worker : current'[v] = e => e \notin batch'[v]
  BY <1>1, <1>2, <1>3 DEF Bound
<1>5. CASE e # f
  <2>1. /\ status'[e] = status[e] /\ owner'[e] = owner[e] /\ lapsed'[e] = lapsed[e]
    BY <1>2, <1>5 DEF TypeOK
  <2>2. \A v \in Worker : Keeps(v, e)' <=> Keeps(v, e)
    BY <1>1, <1>3, <1>5, <2>1 DEF Keeps
  <2>3. Stale(e)' \subseteq Stale(e)
    BY <1>1, <1>3, <1>5, <2>2 DEF Stale
  <2>4. Early(e)' \subseteq Early(e)
    BY <1>1, <1>2, <1>3, <1>5 DEF Early
  <2>5. Open(e)' => Open(e)
    BY <2>1, <2>2 DEF Open
  <2>6. faults' >= faults /\ stalls' >= stalls /\ attempts'[e] = attempts[e]
    BY <1>1, <1>2
  <2> QED
    BY <1>4, <2>3, <2>4, <2>5, <2>6, Adds
<1>6. CASE e = f
  <2>1. status'[e] = newStatus
    BY <1>1, <1>2, <1>6 DEF TypeOK
  <2>2. /\ Cardinality(Stale(e)) \in Nat /\ Cardinality(Stale(e)') \in Nat
        /\ Cardinality(Early(e)) \in Nat /\ Cardinality(Early(e)') \in Nat
        /\ Cardinality(Worker) \in Nat
    BY Counted
  <2>3. Cardinality(Stale(e)') <= Cardinality(Stale(e))
    <3>1. CASE Keeps(w, e)
      <4>1. \A v \in Worker : Keeps(v, e) => v = w
        BY <3>1 DEF Keeps
      <4>2. Stale(e)' \subseteq Stale(e)
        BY <1>1, <1>3, <4>1 DEF Stale
      <4> QED
        BY <4>2, Counted, Counting
    <3>2. CASE ~Keeps(w, e)
      <4>1. w \in Stale(e) /\ w \notin Stale(e)'
        BY <1>1, <1>3, <1>6, <3>2 DEF Stale
      <4>2. Stale(e) \ {w} \in SUBSET Worker
        BY Counted
      <4>3. /\ Cardinality(Stale(e) \ {w}) \in Nat
            /\ Cardinality(Stale(e) \ {w}) + 1 <= Cardinality(Stale(e))
        BY <4>1, <4>2, Counted, Counting
      <4>4. Cardinality(Stale(e)') <= Cardinality(Stale(e) \ {w}) + 1
        <5>1. \E u \in Worker : Stale(e)' \subseteq (Stale(e) \ {w}) \cup {u}
          <6>1. CASE \E u \in Worker : Keeps(u, e)
            BY <1>1, <1>3, <6>1 DEF Stale, Keeps
          <6>2. CASE \A u \in Worker : ~Keeps(u, e)
            <7>1. Stale(e)' \subseteq (Stale(e) \ {w}) \cup {w}
              BY <1>1, <1>3, <6>2 DEF Stale
            <7> QED
              BY <7>1
          <6> QED
            BY <6>1, <6>2
        <5> QED
          BY <4>2, <5>1, Counted, Counting
      <4> QED
        BY <2>2, <4>3, <4>4
    <3> QED
      BY <3>1, <3>2
  <2>4. Early(e)' \subseteq Early(e) /\ w \notin Early(e)'
    BY <1>1, <1>2, <1>3, <1>6 DEF Early, Bound
  <2>5. Cardinality(Early(e)') <= Cardinality(Early(e))
    BY <2>4, Counted, Counting
  <2>6. newStatus = "PENDING" => Cardinality(Early(e)') + 1 <= Cardinality(Early(e))
    <3>1. newStatus = "PENDING" => w \in Early(e)
      BY <1>6 DEF Early
    <3> QED
      BY <2>4, <3>1, Counted, Counting
  <2>7. newStatus # "PENDING" => ~Open(e)'
    BY <2>1 DEF Open, Settled
  <2>8. Cardinality(Stale(e)') <= stalls'
    BY <1>1, <1>2, <2>2, <2>3 DEF Bound
  <2>9. ASSUME attempts'[e] + 1 >= MaxAttempts
        PROVE  attempts'[e] + Cardinality(Early(e)') + (IF Open(e)' THEN 1 ELSE 0)
                  <= MaxAttempts + (Cardinality(Worker) - 1) + faults' + stalls'
    <3>1. attempts[e] + Cardinality(Early(e))
                  <= MaxAttempts + (Cardinality(Worker) - 1) + faults + stalls
      BY <1>1, <1>2, <2>2, <2>9 DEF Bound
    <3>2. CASE newStatus = "PENDING"
      BY <1>1, <1>2, <2>2, <2>6, <3>1, <3>2
    <3>3. CASE newStatus # "PENDING"
      BY <1>1, <1>2, <2>2, <2>5, <2>7, <3>1, <3>3
    <3> QED
      BY <3>2, <3>3
  <2> QED
    BY <1>4, <2>8, <2>9 DEF Bound
<1> QED
  BY <1>5, <1>6

LEMMA BoundStep ==
    ASSUME TypeOK, TypeOK', [Next]_vars, NEW e \in Event, Bound(e)
    PROVE  Bound(e)'
<1>1. ASSUME NEW f \in Event, CommitEvent(f) \/ Clock(f) PROVE Bound(e)'
  <2>1. CASE BackoffElapses(f)
    BY <2>1, SameRound DEF BackoffElapses, roundVars, boundVars
  <2> QED
    BY <1>1, <2>1, BoundCommit, BoundLease DEF Clock
<1>2. ASSUME NEW w \in Worker, Claim(w) PROVE Bound(e)'
  <2>1. PICK f \in batch[w] :
           /\ pc[w] = "loop"
           /\ batch' = [batch EXCEPT ![w] = @ \ {f}]
           /\ UNCHANGED <<seen, boundVars>>
           /\ \/ /\ Claimable(f)
                 /\ status' = [status EXCEPT ![f] = "PROCESSING"]
                 /\ owner' = [owner EXCEPT ![f] = w]
                 /\ lapsed' = [lapsed EXCEPT ![f] = FALSE]
                 /\ attempts' = [attempts EXCEPT ![f] = @ + 1]
                 /\ current' = [current EXCEPT ![w] = f]
              \/ UNCHANGED <<rowVars, current>>
    BY <1>2 DEF Claim
  <2>2. CASE UNCHANGED <<rowVars, current>>
    BY <2>1, <2>2, BoundSkip
  <2>3. CASE ~UNCHANGED <<rowVars, current>>
    BY <2>1, <2>3, BoundClaim DEF boundVars
  <2> QED
    BY <2>2, <2>3
<1>3. ASSUME NEW w \in Worker, MarkDispatched(w) \/ MarkFailed(w) PROVE Bound(e)'
  <2>1. Working(w) /\ current[w] \in Event
    BY <1>3 DEF MarkDispatched, MarkFailed, Working, TypeOK
  <2>2. seen[w][current[w]] \in Nat /\ MaxAttempts \in Nat
    <3>1. seen[w] \in [Event -> Nat] /\ MaxAttempts \in Nat
      BY OutboxAssumption DEF TypeOK
    <3> QED
      BY <2>1, <3>1
  <2>3. CASE MarkDispatched(w)
    BY <2>1, <2>3, BoundRelease DEF MarkDispatched
  <2>4. CASE MarkFailed(w) /\ Exhausted(seen[w][current[w]])
    BY <2>1, <2>4, BoundRelease DEF MarkFailed
  <2>5. CASE MarkFailed(w) /\ ~Exhausted(seen[w][current[w]])
    <3>1. seen[w][current[w]] + 1 < MaxAttempts
      BY <2>2, <2>5 DEF Exhausted
    <3> QED
      BY <2>1, <2>5, <3>1, BoundRelease DEF MarkFailed
  <2> QED
    BY <1>3, <2>3, <2>4, <2>5
<1>4. ASSUME NEW w \in Worker, Wake(w) \/ Dispatch(w) \/ MarkDispatchedThrows(w) \/ ListenerLost(w)
      PROVE  Bound(e)'
  <2>1. UNCHANGED <<rowVars, current, batch, seen, boundVars>>
    BY <1>4 DEF Wake, Start, Sweep, HandleNotification, BeginRound, Dispatch, MarkDispatchedThrows,
                ListenerLost, roundVars
  <2> QED
    BY <2>1, SameRound DEF rowVars, boundVars
<1>5. ASSUME NEW w \in Worker, EndRound(w) \/ Crash(w) \/ FirstRoundFails(w) PROVE Bound(e)'
  <2>1. /\ UNCHANGED <<rowVars, stalls>> /\ ForgetRound(w)
        /\ \/ current[w] \notin Event /\ faults' = faults
           \/ faults' = faults + 1
    BY <1>5 DEF EndRound, Crash, FirstRoundFails, boundVars, TypeOK, Working
  <2> QED
    BY <2>1, BoundEnd
<1>6. CASE UNCHANGED vars
  BY <1>6, SameRound DEF vars, rowVars, roundVars, boundVars
<1> QED
  BY <1>1, <1>2, <1>3, <1>4, <1>5, <1>6, BoundRecover, BoundSelect
     DEF Next, RoundStep, Fault, Wake

(* The damage of updates by primary key and of stale counts does not       *)
(* spread: each overrun adds at most one simultaneous holder, and each     *)
(* further replica, fault and overrun at most one attempt.                 *)
THEOREM DamageStaysBounded == Spec => []DamageIsBounded
<1> DEFINE AllBound == \A e \in Event : Bound(e)
<1>1. Init /\ TypeOK => AllBound
  <2> SUFFICES ASSUME Init, TypeOK, NEW e \in Event PROVE Bound(e)
    OBVIOUS
  <2>1. /\ \A w \in Worker : current[w] # e /\ batch[w] = {}
        /\ attempts[e] = 0 /\ stalls = 0 /\ faults = 0
    BY OutboxAssumption DEF Init
  <2>2. Stale(e) = {} /\ Early(e) = {}
    BY <2>1 DEF Stale, Early
  <2>3. Cardinality(Stale(e)) = 0 /\ Cardinality(Early(e)) = 0
    BY <2>2, FS_EmptySet
  <2> QED
    BY <2>1, <2>3, Counted, OutboxAssumption DEF Bound
<1>2. TypeOK /\ TypeOK' /\ AllBound /\ [Next]_vars => AllBound'
  BY BoundStep
<1>3. TypeOK /\ AllBound => DamageIsBounded
  <2> SUFFICES ASSUME TypeOK, AllBound, NEW e \in Event
               PROVE  /\ Cardinality({w \in Worker : Holds(w, e)}) <= 1 + stalls
                      /\ attempts[e] <= MaxAttempts + (Cardinality(Worker) - 1) + faults + stalls
    BY DEF DamageIsBounded
  <2>1. Bound(e)
    OBVIOUS
  <2>2. /\ attempts[e] \in Nat /\ stalls \in Nat /\ faults \in Nat /\ MaxAttempts \in Nat
    BY OutboxAssumption DEF TypeOK
  <2>3. /\ Cardinality(Stale(e)) \in Nat /\ Cardinality(Early(e)) \in Nat
        /\ Cardinality(Worker) \in Nat \ {0}
    BY Counted
  <2> DEFINE holders == {w \in Worker : Holds(w, e)}
  <2>4. \E u \in Worker : holders \subseteq Stale(e) \cup {u}
    <3>1. \A w \in holders : current[w] = e
      BY DEF Holds
    <3>2. CASE \E u \in Worker : Keeps(u, e)
      BY <3>1, <3>2 DEF Stale, Keeps
    <3>3. CASE \A u \in Worker : ~Keeps(u, e)
      BY <3>1, <3>3, OutboxAssumption DEF Stale
    <3> QED
      BY <3>2, <3>3
  <2>5. holders \in SUBSET Worker
    OBVIOUS
  <2> HIDE DEF holders
  <2>6. Cardinality(holders) \in Nat /\ Cardinality(holders) <= Cardinality(Stale(e)) + 1
    BY <2>4, <2>5, Counted, Counting
  <2>7. Cardinality(holders) <= 1 + stalls
    BY <2>1, <2>2, <2>3, <2>6 DEF Bound
  <2>8. attempts[e] <= MaxAttempts + (Cardinality(Worker) - 1) + faults + stalls
    BY <2>1, <2>2, <2>3 DEF Bound
  <2> QED
    BY <2>7, <2>8 DEF holders
<1> QED BY <1>1, <1>2, <1>3, TypeCorrect, PTL DEF Spec
=============================================================================
