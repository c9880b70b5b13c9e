---------------------------- MODULE HeartbeatGate ----------------------------
(***************************************************************************)
(* The admission gate of ZrpcChannel::CallMethod over the failure detector:*)
(* a client thread that opens a connection registers the service with      *)
(* ZrpcHeartbeat and then asks whether it is available.  The two calls     *)
(* lock m_mutex separately, so the worker, which may hold it for a whole   *)
(* round, and the other threads run in between.                            *)
(***************************************************************************)
EXTENDS ZrpcHeartbeat

VARIABLES
    gate,     \* the client thread: "idle", "check", "connect" or "refused"
    key,      \* its m_service_key
    regTime,  \* history: when it registered the key
    evicted   \* history: keys the worker erased that have been down ever since

gateVars == <<gate, key, regTime>>
allVars == <<vars, gateVars, evicted>>

GateInit ==
    /\ Init
    /\ gate = "idle" /\ key \in Services /\ regTime = 0
    /\ evicted = {}

\* RegisterService(m_service_key, m_ip, m_port, 15000)
GateRegister ==
    /\ gate = "idle"
    /\ \E k \in Services :
          /\ RegisterService(k)
          /\ key' = k
    /\ gate' = "check" /\ regTime' = clock
    /\ UNCHANGED evicted

\* if (!IsServiceAvailable(m_service_key)) { SetFailed; return; }
GateCheck ==
    /\ gate = "check" /\ m_mutex = "free"
    /\ gate' = IF IsServiceAvailable(key) THEN "connect" ELSE "refused"
    /\ UNCHANGED <<vars, key, regTime, evicted>>

\* The call ends; the thread goes on to its next one.
GateDone ==
    /\ gate \in {"connect", "refused"}
    /\ gate' = "idle" /\ regTime' = 0
    /\ UNCHANGED <<vars, key, evicted>>

\* A step of the detector: other threads register too.  Nothing in the
\* repository calls UnregisterService or TriggerHeartbeat.
Detector ==
    /\ \/ \E k \in Services : NodeChange(k) \/ RegisterService(k)
       \/ Tick
       \/ HeartbeatWorker
    /\ evicted' = (evicted \cup (m_services \ m_services')) \ reachable'
    /\ UNCHANGED gateVars

GateNext == GateRegister \/ GateCheck \/ GateDone \/ Detector

GateSpec == GateInit /\ [][GateNext]_allVars

-----------------------------------------------------------------------------
(* Properties.                                                             *)

GateTypeOK ==
    /\ TypeOK
    /\ gate \in {"idle", "check", "connect", "refused"}
    /\ key \in Services
    /\ regTime \in 0 .. MaxClock
    /\ evicted \in SUBSET Services

\* The gate refuses a call only if the thread was held up between its two
\* critical sections for the whole timeout: the entry it made was fresh.
RefusalIsLate ==
    [][gate = "check" /\ gate' = "refused" => clock - regTime >= Timeout]_allVars

\* The documented purpose of the gate: a service the worker has erased, and
\* that has been down since, is found unavailable and the call returns.
DeadIsRefused ==
    [][gate = "check" /\ gate' = "connect" => key \notin evicted]_allVars
=============================================================================
