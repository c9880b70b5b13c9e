---------------------------- MODULE ZrpcHeartbeat ----------------------------
(***************************************************************************)
(* The failure detector of src/ZrpcHeartbeat.cc: a table of services under *)
(* one mutex and a worker thread that, round after round, erases the       *)
(* services whose last heartbeat is too old and probes the others with a   *)
(* TCP connect.  The worker holds the mutex for a whole round, so time     *)
(* passes while it does; the model has an explicit clock (in seconds).     *)
(*                                                                         *)
(* Threads are timely: the worker takes no time but in a probe, in its     *)
(* wait (which may overrun by Latency) and when the mutex is taken.        *)
(* Start, Stop and the two flags they set are in HeartbeatLifecycle.       *)
(***************************************************************************)
EXTENDS Integers, FiniteSets

CONSTANTS
    Services,   \* service keys "Service.Method@ip:port"; a key is its own node
    NoService,  \* not a service key
    Interval,   \* HEARTBEAT_INTERVAL, the wait between two rounds
    ProbeTime,  \* the longest a connect may take (SO_SNDTIMEO)
    Timeout,    \* timeout_ms, the same at every call of RegisterService
    Latency,    \* how late the worker may be when its wait is over
    Triggered,  \* keys for which somebody calls TriggerHeartbeat
    MaxClock    \* bound on the clock

ASSUME ConstantsAssumption ==
    /\ IsFiniteSet(Services)
    /\ NoService \notin Services
    /\ Triggered \subseteq Services
    /\ Interval \in Nat /\ ProbeTime \in Nat /\ Timeout \in Nat
    /\ Latency \in Nat /\ MaxClock \in Nat

VARIABLES
    clock,           \* std::chrono::steady_clock
    reachable,       \* nodes that accept a connection now
    m_services,      \* keys in the table
    last_heartbeat,  \* ServiceInfo.last_heartbeat; 0 for a key not in the table
    m_mutex,         \* who holds it: "free", "worker" or "trigger"
    pc,              \* where the worker is
    now,             \* HeartbeatWorker's local: the clock when the round began
    todo,            \* the part of the table the round's iterator has not passed
    probed,          \* the node being probed under the mutex, or NoService
    probeStart,      \* when that probe began
    waitStart,       \* when the worker began its wait
    misses           \* history: failed probes by the worker since the service
                     \* last answered or was last registered

vars == <<clock, reachable, m_services, last_heartbeat, m_mutex, pc, now, todo,
          probed, probeStart, waitStart, misses>>
table == <<m_services, last_heartbeat, misses>>
worker == <<pc, now, todo, waitStart>>
probe == <<probed, probeStart>>

Init ==
    /\ clock = 0
    /\ reachable \in SUBSET Services
    /\ m_services = {}
    /\ last_heartbeat = [k \in Services |-> 0]
    /\ m_mutex = "free"
    /\ pc = "loop" /\ now = 0 /\ todo = {} /\ waitStart = 0
    /\ probed = NoService /\ probeStart = 0
    /\ misses = [k \in Services |-> 0]

-----------------------------------------------------------------------------
(* The environment: nodes come and go, and time passes.                    *)

NodeChange(k) ==
    /\ reachable' = IF k \in reachable THEN reachable \ {k} ELSE reachable \cup {k}
    /\ UNCHANGED <<clock, table, m_mutex, worker, probe>>

Tick ==
    /\ clock < MaxClock
    /\ pc # "scan"
    /\ pc \in {"loop", "gap"} => m_mutex # "free"
    /\ pc = "wait" => clock < waitStart + Interval + Latency \/ m_mutex # "free"
    /\ probed # NoService => clock < probeStart + ProbeTime
    /\ clock' = clock + 1
    /\ UNCHANGED <<reachable, table, m_mutex, worker, probe>>

-----------------------------------------------------------------------------
(* Calls of the client threads.  Each locks m_mutex for the whole call.    *)

\* Mutants: the lock is forgotten; the deadline is stored for the last heartbeat.
RegisterServiceUnlocked(k) ==
    /\ m_services' = m_services \cup {k}
    /\ last_heartbeat' = [last_heartbeat EXCEPT ![k] = clock]
    /\ misses' = [misses EXCEPT ![k] = 0]
    /\ UNCHANGED <<clock, reachable, m_mutex, worker, probe>>
RegisterServiceDeadline(k) ==
    /\ m_mutex = "free"
    /\ m_services' = m_services \cup {k}
    /\ last_heartbeat' = [last_heartbeat EXCEPT ![k] = clock + Timeout]
    /\ misses' = [misses EXCEPT ![k] = 0]
    /\ UNCHANGED <<clock, reachable, m_mutex, worker, probe>>

\* Mutant: emplace() instead of operator[]: an existing entry is left as it is.
RegisterServiceKeepsOld(k) ==
    /\ m_mutex = "free"
    /\ m_services' = m_services \cup {k}
    /\ last_heartbeat' = [last_heartbeat EXCEPT ![k] = IF k \in m_services THEN @ ELSE clock]
    /\ misses' = [misses EXCEPT ![k] = IF k \in m_services THEN @ ELSE 0]
    /\ UNCHANGED <<clock, reachable, m_mutex, worker, probe>>

RegisterService(k) ==
    /\ m_mutex = "free"
    /\ m_services' = m_services \cup {k}
    /\ last_heartbeat' = [last_heartbeat EXCEPT ![k] = clock]
    /\ misses' = [misses EXCEPT ![k] = 0]
    /\ UNCHANGED <<clock, reachable, m_mutex, worker, probe>>

Erase(k) ==
    /\ m_services' = m_services \ {k}
    /\ last_heartbeat' = [last_heartbeat EXCEPT ![k] = 0]
    /\ misses' = [misses EXCEPT ![k] = 0]

\* Mutant: the lock is forgotten.
UnregisterServiceUnlocked(k) ==
    /\ k \in m_services
    /\ Erase(k)
    /\ UNCHANGED <<clock, reachable, m_mutex, worker, probe>>

UnregisterService(k) ==
    /\ m_mutex = "free"
    /\ k \in m_services
    /\ Erase(k)
    /\ UNCHANGED <<clock, reachable, m_mutex, worker, probe>>

IsServiceAvailable(k) == k \in m_services

\* DoHeartbeat: one TCP connect by whoever holds the mutex, who goes on holding it.
DoHeartbeat(k) == probed' = k /\ probeStart' = clock
DoHeartbeatDone == probed' = NoService /\ probeStart' = 0

TriggerHeartbeatBegin(k) ==
    /\ m_mutex = "free"
    /\ k \in Triggered \cap m_services
    /\ m_mutex' = "trigger"
    /\ DoHeartbeat(k)
    /\ UNCHANGED <<clock, reachable, table, worker>>

TriggerHeartbeatEnd ==
    /\ m_mutex = "trigger"
    /\ IF probed \in reachable
       THEN /\ last_heartbeat' = [last_heartbeat EXCEPT ![probed] = clock]
            /\ misses' = [misses EXCEPT ![probed] = 0]
       ELSE UNCHANGED <<last_heartbeat, misses>>
    /\ m_mutex' = "free"
    /\ DoHeartbeatDone
    /\ UNCHANGED <<clock, reachable, m_services, worker>>

-----------------------------------------------------------------------------
(* HeartbeatWorker, with the flags of its loop at "running".               *)

\* Mutant: now is taken once, before the loop.
BeginRoundOldNow ==
    /\ pc = "loop" /\ m_mutex = "free"
    /\ m_mutex' = "worker"
    /\ pc' = "scan" /\ todo' = m_services
    /\ UNCHANGED <<clock, reachable, table, now, waitStart, probe>>

BeginRound ==
    /\ pc = "loop" /\ m_mutex = "free"
    /\ m_mutex' = "worker"
    /\ pc' = "scan" /\ now' = clock /\ todo' = m_services
    /\ UNCHANGED <<clock, reachable, table, waitStart, probe>>

TimedOut(k) == now - last_heartbeat[k] >= Timeout

Evict(k) ==
    /\ pc = "scan" /\ k \in todo
    /\ TimedOut(k)
    /\ Erase(k)
    /\ todo' = todo \ {k}
    /\ UNCHANGED <<clock, reachable, m_mutex, pc, now, waitStart, probe>>

ProbeBegin(k) ==
    /\ pc = "scan" /\ k \in todo
    /\ ~TimedOut(k)
    /\ pc' = "probe"
    /\ todo' = todo \ {k}
    /\ DoHeartbeat(k)
    /\ UNCHANGED <<clock, reachable, table, m_mutex, now, waitStart>>

\* Mutants: a success does not refresh the entry; a failure does.
ProbeEndNoRefresh ==
    /\ pc = "probe"
    /\ misses' = [misses EXCEPT ![probed] = IF probed \in reachable THEN 0 ELSE @ + 1]
    /\ pc' = "scan"
    /\ DoHeartbeatDone
    /\ UNCHANGED <<clock, reachable, m_services, last_heartbeat, m_mutex, now, todo, waitStart>>
ProbeEndAlwaysRefresh ==
    /\ pc = "probe"
    /\ last_heartbeat' = [last_heartbeat EXCEPT ![probed] = now]
    /\ misses' = [misses EXCEPT ![probed] = IF probed \in reachable THEN 0 ELSE @ + 1]
    /\ pc' = "scan"
    /\ DoHeartbeatDone
    /\ UNCHANGED <<clock, reachable, m_services, m_mutex, now, todo, waitStart>>

\* The entry is refreshed with the time the round began, not the present.
ProbeEnd ==
    /\ pc = "probe"
    /\ IF probed \in reachable
       THEN /\ last_heartbeat' = [last_heartbeat EXCEPT ![probed] = now]
            /\ misses' = [misses EXCEPT ![probed] = 0]
       ELSE /\ misses' = [misses EXCEPT ![probed] = @ + 1]
            /\ UNCHANGED last_heartbeat
    /\ pc' = "scan"
    /\ DoHeartbeatDone
    /\ UNCHANGED <<clock, reachable, m_services, m_mutex, now, todo, waitStart>>

EndRound ==
    /\ pc = "scan" /\ todo = {}
    /\ m_mutex' = "free"
    /\ pc' = "gap"
    /\ UNCHANGED <<clock, reachable, table, now, todo, waitStart, probe>>

\* Locks m_mutex again for wait_for, which releases it.
BeginWait ==
    /\ pc = "gap" /\ m_mutex = "free"
    /\ pc' = "wait" /\ waitStart' = clock
    /\ UNCHANGED <<clock, reachable, table, m_mutex, now, todo, probe>>

EndWait ==
    /\ pc = "wait" /\ m_mutex = "free"
    /\ clock >= waitStart + Interval
    /\ pc' = "loop"
    /\ UNCHANGED <<clock, reachable, table, m_mutex, now, todo, waitStart, probe>>

HeartbeatWorker ==
    \/ BeginRound
    \/ \E k \in Services : Evict(k) \/ ProbeBegin(k)
    \/ ProbeEnd
    \/ EndRound
    \/ BeginWait
    \/ EndWait

-----------------------------------------------------------------------------
Next ==
    \/ \E k \in Services :
          \/ NodeChange(k)
          \/ RegisterService(k)
          \/ UnregisterService(k)
          \/ TriggerHeartbeatBegin(k)
    \/ Tick
    \/ TriggerHeartbeatEnd
    \/ HeartbeatWorker

Spec == Init /\ [][Next]_vars

-----------------------------------------------------------------------------
(* Properties.                                                             *)

TypeOK ==
    /\ clock \in 0 .. MaxClock
    /\ reachable \in SUBSET Services
    /\ m_services \in SUBSET Services
    /\ last_heartbeat \in [Services -> 0 .. MaxClock]
    /\ m_mutex \in {"free", "worker", "trigger"}
    /\ pc \in {"loop", "scan", "probe", "gap", "wait"}
    /\ now \in 0 .. MaxClock
    /\ todo \in SUBSET Services
    /\ probed \in Services \cup {NoService}
    /\ probeStart \in 0 .. MaxClock
    /\ waitStart \in 0 .. MaxClock
    /\ misses \in [Services -> Nat]

\* While the worker iterates over the table, every entry it has still to visit
\* and the entry it is probing stay in the table: nobody erases under its
\* iterator or under the reference `info` (ZrpcHeartbeat.cc:108-138).
IteratorValid ==
    pc \in {"scan", "probe"} => todo \cup ({probed} \ {NoService}) \subseteq m_services

\* A refresh never takes a heartbeat back: the round's start, which the worker
\* writes, is not older than any registration or manual probe it overwrites.
LastHeartbeatMonotone ==
    [][\A k \in m_services \cap m_services' : last_heartbeat'[k] >= last_heartbeat[k]]_vars

\* The longest time from the start of a round to the start of the next one.
RoundTime == ProbeTime * Cardinality(Services) + Interval + Latency

\* Accuracy: a service is about to be erased only if enough probes in a row
\* have failed for their rounds to fill the timeout.  In particular a service
\* that answered its last probe is safe when RoundTime < Timeout.
EvictionNeedsMisses ==
    \A k \in todo : pc = "scan" /\ TimedOut(k) => (misses[k] + 1) * RoundTime >= Timeout

\* Freshness: no entry of the table is older than the timeout, two rounds of
\* probing and one wait.
DetectionBound ==
    \A k \in m_services :
        clock - last_heartbeat[k] <= Timeout + ProbeTime * Cardinality(Services) + RoundTime

\* Completeness: a service that does not answer is gone after as many failed
\* probes as intervals fit in the timeout, and one.
MissesBound ==
    \A k \in m_services : misses[k] > 0 => (misses[k] - 1) * Interval < Timeout
=============================================================================
