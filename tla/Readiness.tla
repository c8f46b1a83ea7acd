------------------------------ MODULE Readiness ------------------------------
(***************************************************************************)
(* What the API and the worker do about Redis: the probe, the readiness    *)
(* that the API keeps and shows in its health check, and the start of      *)
(* both.                                                                   *)
(*                                                                         *)
(* Redis is up, down (connections are refused and broken) or hung          *)
(* (connections are accepted and kept, nothing is answered).  A probe      *)
(* connects, for five seconds at most, and then pings, without a limit.    *)
(* The API begins a probe every fifteen seconds, whether or not a ping is  *)
(* still waited for; pings that wait are counted.                          *)
(***************************************************************************)
EXTENDS Naturals

CONSTANTS Client,     \* connections that the worker waits for when it starts
          MaxPings,   \* pings told apart; more are counted as that many
          MaxChanges  \* bound on the changes of Redis

ASSUME ReadinessAssumption == MaxPings \in Nat \ {0} /\ MaxChanges \in Nat

VARIABLES
    redis,
    apiStart,    \* "starting" until the first probe has ended
    connecting,  \* a probe of the API connects
    pings,       \* pings of the API that are waited for
    broken,      \* those whose connection broke meanwhile
    ready,       \* readiness.ready
    worker,      \* the start of the worker
    connected,   \* its connections that were ready once
    troubled,    \* Redis was not up at some time since the API was last answered
    changes

server == <<redis, changes>>
service == <<apiStart, connecting, pings, broken, ready, troubled>>
process == <<worker, connected>>
readinessVars == <<server, service, process>>

ReadinessInit ==
    /\ redis \in {"up", "down", "hung"}
    /\ apiStart = "starting" /\ connecting = TRUE
    /\ pings = 0 /\ broken = 0
    /\ ready = FALSE
    /\ worker = "connecting" /\ connected = {}
    /\ troubled = (redis # "up")
    /\ changes = 0

Counted(n) == IF n < MaxPings THEN n ELSE MaxPings

\* The connection is refused, or Redis says nothing for five seconds.
\* (Mutant: no limit on the time.)
UnreachableRefused == redis = "down"
Unreachable == redis # "up"

-----------------------------------------------------------------------------
Change(state) ==
    /\ redis # state
    /\ changes < MaxChanges
    /\ changes' = changes + 1
    /\ redis' = state
    /\ troubled' = (troubled \/ state # "up")
    /\ IF state = "down"
       THEN /\ pings' = 0
            /\ broken' = Counted(pings + broken)
            /\ worker' = IF worker = "pinging" THEN "broken" ELSE worker
       ELSE UNCHANGED <<pings, broken, worker>>
    /\ UNCHANGED <<apiStart, connecting, ready, connected>>

-----------------------------------------------------------------------------
(***************************************************************************)
(* The API: QueueReadinessService.                                         *)
(***************************************************************************)
\* The timer is set when the first probe has ended.
\* (Mutant: a refresh waits for the one before.)
RefreshDuePatient == apiStart = "listening" /\ ~connecting /\ pings = 0 /\ broken = 0
RefreshDue == apiStart = "listening" /\ ~connecting

\* (Mutant: the readiness is reset while a probe is on its way.)
MeanwhileUnverified == FALSE
Meanwhile == ready

Refresh ==
    /\ RefreshDue
    /\ connecting' = TRUE
    /\ ready' = Meanwhile
    /\ UNCHANGED <<server, process, apiStart, pings, broken, troubled>>

Connect ==
    /\ connecting /\ redis = "up"
    /\ connecting' = FALSE
    /\ pings' = Counted(pings + 1)
    /\ UNCHANGED <<server, process, apiStart, broken, ready, troubled>>

Reported(answer) == ready' = answer /\ apiStart' = "listening"

ConnectFails ==
    /\ connecting /\ Unreachable
    /\ connecting' = FALSE
    /\ Reported(FALSE)
    /\ UNCHANGED <<server, process, pings, broken, troubled>>

Pong ==
    /\ pings > 0 /\ redis = "up"
    /\ pings' = pings - 1
    /\ Reported(TRUE)
    /\ troubled' = FALSE
    /\ UNCHANGED <<server, process, connecting, broken>>

PingFails ==
    /\ broken > 0
    /\ broken' = broken - 1
    /\ Reported(FALSE)
    /\ UNCHANGED <<server, process, connecting, pings, troubled>>

\* GET /health.
Health == IF ready THEN "ok" ELSE "degraded"

-----------------------------------------------------------------------------
(***************************************************************************)
(* The worker: bootstrap.                                                  *)
(***************************************************************************)
Bootstrap(next) == worker' = next /\ UNCHANGED <<server, service, connected>>

Refused == "exited"

WorkerConnects ==
    /\ worker = "connecting"
    /\ \/ redis = "up" /\ Bootstrap("pinging")
       \/ Unreachable /\ Bootstrap(Refused)

WorkerPings ==
    \/ worker = "pinging" /\ redis = "up" /\ Bootstrap("creating")
    \/ worker = "broken" /\ Bootstrap(Refused)

\* Connections of the processors retry until Redis is there.
ClientConnects(c) ==
    /\ worker = "creating" /\ c \notin connected
    /\ redis = "up"
    /\ connected' = connected \cup {c}
    /\ UNCHANGED <<server, service, worker>>

WorkerStarts ==
    /\ worker = "creating" /\ connected = Client
    /\ Bootstrap("started")

-----------------------------------------------------------------------------
Probing == Connect \/ ConnectFails
Answering == Pong \/ PingFails
Starting == WorkerConnects \/ WorkerPings \/ WorkerStarts \/ \E c \in Client : ClientConnects(c)

ReadinessNext == \/ \E state \in {"up", "down", "hung"} : Change(state)
        \/ Refresh \/ Probing \/ Answering \/ Starting

ReadinessSpec == ReadinessInit /\ [][ReadinessNext]_readinessVars

\* Timers fire, probes are answered when Redis answers; Redis promises nothing.
ReadinessFairness == /\ WF_readinessVars(Refresh) /\ WF_readinessVars(Probing)
                     /\ WF_readinessVars(Pong) /\ WF_readinessVars(PingFails)
                     /\ WF_readinessVars(Starting)

ReadinessFairSpec == ReadinessSpec /\ ReadinessFairness

-----------------------------------------------------------------------------
ReadinessTypeOK ==
    /\ redis \in {"up", "down", "hung"}
    /\ apiStart \in {"starting", "listening"} /\ connecting \in BOOLEAN
    /\ pings \in 0..MaxPings /\ broken \in 0..MaxPings
    /\ ready \in BOOLEAN /\ troubled \in BOOLEAN
    /\ worker \in {"connecting", "pinging", "broken", "creating", "started", "exited"}
    /\ connected \subseteq Client
    /\ changes \in 0..MaxChanges

\* What Redis decides in the end: once it stays up the health check is and stays
\* ok, once it stays away or hangs it is degraded, also when probes wait for
\* pings that are never answered.
RedisDecides ==
    /\ <>[](redis = "up") => <>[](Health = "ok")
    /\ <>[](redis # "up") => <>[](Health = "degraded")

\* How long a start may wait for Redis, whose ping has no limit.  A Redis that is
\* not there, or accepts connections and never answers, keeps nobody: the API
\* listens and the worker exits.  One that hangs when it is pinged keeps both, but
\* no longer than it hangs: whether it comes back or goes away, the API listens
\* and the worker goes on or exits.
StartsEnd ==
    /\ [](redis # "up") => <>(worker = "exited") /\ <>(apiStart = "listening")
    /\ <>[](redis # "hung") => /\ <>(worker \in {"creating", "started", "exited"})
                               /\ <>(apiStart = "listening")

\* The health check turns to degraded only if Redis was away since it was last
\* heard, or a ping broke then that is answered late.
DegradedIsExplained == [][ready /\ ~ready' => troubled \/ broken > 0]_ready
=============================================================================
