------------------------------ MODULE Handoff ------------------------------
(***************************************************************************)
(* What the outbox promises to the business transactions that write to it  *)
(* and to the queues behind it: a promised event is handed over at least   *)
(* once or given up after MaxAttempts tries, an acknowledgement follows    *)
(* the hand-over, and neither outcome is ever taken back.  Who dispatches, *)
(* leases, batches, wake-ups and restarts are not visible here.            *)
(***************************************************************************)
EXTENDS Naturals

CONSTANTS Event, Job, JobOf, MaxAttempts

VARIABLES promised,  \* events whose transaction has committed
          tries,     \* how often each was tried
          queue,     \* jobs that reached the queue
          acked,     \* events recorded as handed over
          dead       \* events given up

vars == <<promised, tries, queue, acked, dead>>

Init == /\ promised = {}
        /\ tries = [e \in Event |-> 0]
        /\ queue = {}
        /\ acked = {}
        /\ dead = {}

Open == promised \ (acked \cup dead)

Promise(e) == /\ e \notin promised
              /\ promised' = promised \cup {e}
              /\ UNCHANGED <<tries, queue, acked, dead>>

Try(e) == /\ e \in Open
          /\ tries' = [tries EXCEPT ![e] = @ + 1]
          /\ UNCHANGED <<promised, queue, acked, dead>>

Enqueue(e) == /\ e \in Open
              /\ tries[e] > 0
              /\ queue' = queue \cup {JobOf[e]}
              /\ UNCHANGED <<promised, tries, acked, dead>>

Acknowledge(e) == /\ e \in Open
                  /\ JobOf[e] \in queue
                  /\ acked' = acked \cup {e}
                  /\ UNCHANGED <<promised, tries, queue, dead>>

GiveUp(e) == /\ e \in Open
             /\ tries[e] >= MaxAttempts
             /\ dead' = dead \cup {e}
             /\ UNCHANGED <<promised, tries, queue, acked>>

Next == \E e \in Event : \/ Promise(e) \/ Try(e) \/ Enqueue(e)
                         \/ Acknowledge(e) \/ GiveUp(e)

Spec == Init /\ [][Next]_vars
=============================================================================
