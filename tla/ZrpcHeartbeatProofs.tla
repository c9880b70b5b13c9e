------------------------ MODULE ZrpcHeartbeatProofs ------------------------
(***************************************************************************)
(* The failure detector for every set of services and every choice of the  *)
(* interval, the probe time, the timeout and the latency, and the gate     *)
(* that CallMethod asks; and, for any number of threads, Start and Stop of *)
(* the worker that runs it.                                                *)
(***************************************************************************)
EXTENDS HeartbeatGate, HeartbeatLifecycle, FiniteSetTheorems, TLAPS

(***************************************************************************)
(* Part 1: m_mutex keeps the worker's iterator valid and time in order.    *)
(***************************************************************************)

\* Who holds m_mutex, and what is probed under it.
Holder ==
    /\ m_mutex = "worker" <=> pc \in {"scan", "probe"}
    /\ m_mutex = "trigger" => probed \in m_services
    /\ pc = "probe" => probed \in m_services \ todo
    /\ m_mutex = "free" \/ pc = "scan" => probed = NoService

\* Recorded times lie in the past; those in the table, before the round that is
\* looking at it.
Past ==
    /\ now <= clock /\ probeStart <= clock /\ waitStart <= clock
    /\ \A k \in Services : last_heartbeat[k] <= clock
    /\ pc \in {"scan", "probe"} => \A k \in m_services : last_heartbeat[k] <= now

Inv == TypeOK /\ Holder /\ Past /\ IteratorValid

LEMMA InitInv == Init => Inv
BY ConstantsAssumption DEF Init, Inv, TypeOK, Holder, Past, IteratorValid

LEMMA NextInv ==
    ASSUME Inv, [Next]_vars
    PROVE  Inv'
<1> USE ConstantsAssumption
    DEF Inv, TypeOK, Holder, Past, IteratorValid, table, worker, probe
<1>1. ASSUME NEW k \in Services, NodeChange(k) PROVE Inv'
  BY <1>1 DEF NodeChange
<1>2. ASSUME Tick PROVE Inv'
  BY <1>2 DEF Tick
<1>3. ASSUME NEW k \in Services, RegisterService(k) PROVE Inv'
  BY <1>3 DEF RegisterService
<1>4. ASSUME NEW k \in Services, UnregisterService(k) PROVE Inv'
  BY <1>4 DEF UnregisterService, Erase
<1>5. ASSUME NEW k \in Services, TriggerHeartbeatBegin(k) PROVE Inv'
  BY <1>5 DEF TriggerHeartbeatBegin, DoHeartbeat
<1>6. ASSUME TriggerHeartbeatEnd PROVE Inv'
  BY <1>6 DEF TriggerHeartbeatEnd, DoHeartbeatDone
<1>7. ASSUME BeginRound PROVE Inv'
  BY <1>7 DEF BeginRound
<1>8. ASSUME NEW k \in Services, Evict(k) PROVE Inv'
  BY <1>8 DEF Evict, Erase
<1>9. ASSUME NEW k \in Services, ProbeBegin(k) PROVE Inv'
  BY <1>9 DEF ProbeBegin, DoHeartbeat
<1>10. ASSUME ProbeEnd PROVE Inv'
  BY <1>10 DEF ProbeEnd, DoHeartbeatDone
<1>11. ASSUME EndRound PROVE Inv'
  BY <1>11 DEF EndRound
<1>12. ASSUME BeginWait PROVE Inv'
  BY <1>12 DEF BeginWait
<1>13. ASSUME EndWait PROVE Inv'
  BY <1>13 DEF EndWait
<1>14. CASE UNCHANGED vars
  BY <1>14 DEF vars
<1> QED
  BY <1>1, <1>2, <1>3, <1>4, <1>5, <1>6, <1>7, <1>8, <1>9, <1>10, <1>11, <1>12, <1>13,
     <1>14 DEF Next, HeartbeatWorker

THEOREM InvHolds == Spec => []Inv
<1>1. Inv /\ [Next]_vars => Inv'
  BY NextInv
<1> QED
  BY InitInv, <1>1, PTL DEF Spec

\* The variables keep their types, and the heartbeats and the clock their range.
THEOREM TypeCorrect == Spec => []TypeOK
<1>1. Inv => TypeOK
  BY DEF Inv
<1> QED
  BY <1>1, InvHolds, PTL

\* No call erases an entry the worker is iterating over.
THEOREM IteratorAlwaysValid == Spec => []IteratorValid
<1>1. Inv => IteratorValid
  BY DEF Inv
<1> QED
  BY <1>1, InvHolds, PTL

LEMMA NextMonotone ==
    ASSUME Inv, Inv', [Next]_vars
    PROVE  \A k \in m_services \cap m_services' : last_heartbeat'[k] >= last_heartbeat[k]
<1> USE DEF Inv, TypeOK, Holder, Past, table
<1>1. ASSUME NEW k \in Services, RegisterService(k)
      PROVE  \A j \in m_services : last_heartbeat'[j] >= last_heartbeat[j]
  BY <1>1 DEF RegisterService
<1>2. ASSUME NEW k \in Services, UnregisterService(k) \/ Evict(k)
      PROVE  \A j \in m_services' : last_heartbeat'[j] >= last_heartbeat[j]
  BY <1>2 DEF UnregisterService, Evict, Erase
<1>3. ASSUME TriggerHeartbeatEnd
      PROVE  \A j \in m_services : last_heartbeat'[j] >= last_heartbeat[j]
  BY <1>3 DEF TriggerHeartbeatEnd
<1>4. ASSUME ProbeEnd
      PROVE  \A j \in m_services : last_heartbeat'[j] >= last_heartbeat[j]
  BY <1>4 DEF ProbeEnd
<1>5. ASSUME NEW k \in Services,
             NodeChange(k) \/ TriggerHeartbeatBegin(k) \/ ProbeBegin(k)
      PROVE  last_heartbeat' = last_heartbeat
  BY <1>5 DEF NodeChange, TriggerHeartbeatBegin, ProbeBegin
<1>6. ASSUME last_heartbeat' = last_heartbeat
      PROVE  \A k \in m_services : last_heartbeat'[k] >= last_heartbeat[k]
  BY <1>6
<1>7. ASSUME Tick \/ BeginRound \/ EndRound \/ BeginWait \/ EndWait \/ UNCHANGED vars
      PROVE  last_heartbeat' = last_heartbeat
  BY <1>7 DEF Tick, BeginRound, EndRound, BeginWait, EndWait, vars
<1> QED
  BY <1>1, <1>2, <1>3, <1>4, <1>5, <1>6, <1>7 DEF Next, HeartbeatWorker

\* No refresh takes a heartbeat back, whichever of the worker, TriggerHeartbeat
\* and RegisterService writes it.
THEOREM HeartbeatsAdvance == Spec => LastHeartbeatMonotone
<1>1. Inv /\ Inv' /\ [Next]_vars
        => [\A k \in m_services \cap m_services' :
               last_heartbeat'[k] >= last_heartbeat[k]]_vars
  BY NextMonotone
<1> QED
  BY <1>1, InvHolds, PTL DEF Spec, LastHeartbeatMonotone

(***************************************************************************)
(* Part 2: accuracy and completeness, when nobody calls TriggerHeartbeat.  *)
(*                                                                         *)
(* A round probes every service once, and each probe takes ProbeTime at    *)
(* most: Paced bounds the clock by the part of the table already passed.   *)
(* Then rounds begin no more than RoundTime apart, and what is added to an *)
(* entry's age between two visits is at most one RoundTime: Aged.          *)
(***************************************************************************)

N == Cardinality(Services)
Left == Cardinality(todo)

\* The time n probes, and n rounds, may take.
Probes(n) == ProbeTime * n
Rounds(n) == n * RoundTime

Paced ==
    /\ m_mutex # "trigger"
    /\ pc = "loop" => clock <= now + RoundTime
    /\ pc = "scan" => clock <= now + Probes(N - Left)
    /\ pc = "probe" => /\ Left < N
                       /\ probeStart <= now + Probes(N - Left - 1)
                       /\ clock <= probeStart + ProbeTime
    /\ pc = "gap" => clock <= now + Probes(N)
    /\ pc = "wait" => /\ waitStart <= now + Probes(N)
                      /\ clock <= waitStart + Interval + Latency

\* The entries this round has not dealt with yet.
Pending == IF pc \in {"scan", "probe"} THEN todo \cup ({probed} \ {NoService}) ELSE {}

Aged == \A k \in m_services :
    /\ k \notin Pending => now - last_heartbeat[k] <= Rounds(misses[k])
    /\ k \in Pending => now - last_heartbeat[k] <= Rounds(misses[k] + 1)
    /\ k \notin todo \/ pc \notin {"scan", "probe"} => now - last_heartbeat[k] <= Timeout
    /\ now - last_heartbeat[k] <= Timeout + RoundTime

LEMMA CountTodo ==
    ASSUME Inv
    PROVE  /\ N \in Nat /\ Left \in Nat /\ Left <= N
           /\ \A k \in todo : Cardinality(todo \ {k}) = Left - 1
           /\ todo = {} => Left = 0
<1>1. IsFiniteSet(Services) /\ todo \subseteq Services
  BY ConstantsAssumption DEF Inv, TypeOK
<1>2. IsFiniteSet(todo) /\ N \in Nat /\ Left \in Nat /\ Left <= N
  BY <1>1, FS_Subset, FS_CardinalityType DEF N, Left
<1>3. \A k \in todo : Cardinality(todo \ {k}) = Left - 1
  BY <1>2, FS_RemoveElement DEF Left
<1> QED
  BY <1>2, <1>3, FS_EmptySet DEF Left

LEMMA ProbesArith ==
    /\ \A n \in Nat : Probes(n) \in Nat
    /\ \A n \in Nat : Probes(n + 1) = Probes(n) + ProbeTime
    /\ \A m, n \in Nat : m <= n => Probes(m) <= Probes(n)
<1>1. \A n \in Nat : Probes(n) \in Nat /\ Probes(n + 1) = Probes(n) + ProbeTime
  BY ConstantsAssumption DEF Probes
<1>2. ASSUME NEW m \in Nat, NEW n \in Nat, m <= n PROVE Probes(m) <= Probes(n)
  <2>1. n - m \in Nat /\ ProbeTime \in Nat
    BY <1>2, ConstantsAssumption
  <2>2. ProbeTime * n = ProbeTime * m + ProbeTime * (n - m)
    BY <2>1
  <2>3. ProbeTime * (n - m) \in Nat
    BY <2>1
  <2> QED
    BY <2>1, <2>2, <2>3 DEF Probes
<1> QED
  BY <1>1, <1>2

LEMMA RoundTimeFact == RoundTime \in Nat /\ RoundTime = Probes(N) + Interval + Latency
<1>1. N \in Nat
  BY ConstantsAssumption, FS_CardinalityType DEF N
<1> QED
  BY <1>1, ProbesArith, ConstantsAssumption DEF RoundTime, Probes, N

LEMMA RoundsArith ==
    /\ Rounds(0) = 0
    /\ \A n \in Nat : Rounds(n) \in Nat /\ Rounds(n + 1) = Rounds(n) + RoundTime
BY RoundTimeFact DEF Rounds

LEMMA InitPaced == Triggered = {} /\ Init => Paced /\ Aged
BY RoundTimeFact DEF Init, Paced, Aged

LEMMA NextPaced ==
    ASSUME Triggered = {}, Inv, Paced, [Next]_vars
    PROVE  Paced'
<1>0. N \in Nat /\ Left \in Nat /\ Left <= N
  BY CountTodo
<1>c. /\ ProbeTime \in Nat /\ Interval \in Nat /\ Latency \in Nat /\ RoundTime \in Nat
      /\ Probes(N) \in Nat /\ RoundTime = Probes(N) + Interval + Latency
  <2>1. Probes(N) \in Nat
    BY <1>0, ProbesArith
  <2> QED
    BY <2>1, RoundTimeFact, ConstantsAssumption
<1>v. clock \in Nat /\ now \in Nat /\ probeStart \in Nat /\ waitStart \in Nat
  BY ConstantsAssumption DEF Inv, TypeOK
<1>m. /\ m_mutex = "worker" <=> pc \in {"scan", "probe"}
      /\ m_mutex \in {"free", "worker"}
      /\ pc \in {"loop", "scan", "probe", "gap", "wait"}
      /\ pc = "probe" => probed # NoService
  BY ConstantsAssumption DEF Inv, TypeOK, Holder, Paced
<1>1. ASSUME Tick PROVE Paced'
  <2>1. /\ clock' = clock + 1
        /\ UNCHANGED <<m_mutex, pc, now, todo, waitStart, probed, probeStart>>
    BY <1>1 DEF Tick, worker, probe
  <2>2. /\ pc = "probe" => clock < probeStart + ProbeTime
        /\ pc = "wait" => clock < waitStart + Interval + Latency
        /\ pc \in {"probe", "wait"}
    BY <1>c, <1>v, <1>m, <1>1 DEF Tick
  <2>3. Left' = Left
    BY <2>1 DEF Left
  <2> QED
    BY <1>c, <1>v, <1>m, <2>1, <2>2, <2>3 DEF Paced, N, Probes
<1>2. ASSUME UNCHANGED <<clock, m_mutex, worker, probe>> PROVE Paced'
  <2>1. UNCHANGED <<clock, m_mutex, pc, now, todo, waitStart, probed, probeStart>>
    BY <1>2 DEF worker, probe
  <2>2. Left' = Left
    BY <2>1 DEF Left
  <2> QED
    BY <2>1, <2>2 DEF Paced, N, Probes, RoundTime
<1>3. ASSUME BeginRound PROVE Paced'
  <2>1. pc' = "scan" /\ now' = clock /\ clock' = clock /\ m_mutex' = "worker"
    BY <1>3 DEF BeginRound
  <2>2. todo' \subseteq Services
    BY <1>3 DEF BeginRound, Inv, TypeOK
  <2>3. N - Left' \in Nat
    <3> DEFINE C == Cardinality(todo')
    <3>1. C \in Nat /\ C <= N
      BY <2>2, ConstantsAssumption, FS_Subset, FS_CardinalityType DEF N
    <3> HIDE DEF C
    <3>2. N - C \in Nat
      BY <3>1, <1>0
    <3> QED
      BY <3>2 DEF C, Left
  <2>4. Probes(N - Left') \in Nat
    BY <2>3, ProbesArith
  <2> QED
    BY <1>c, <1>v, <1>m, <2>1, <2>4 DEF Paced, N, Probes
<1>4. ASSUME NEW k \in Services, Evict(k) PROVE Paced'
  <2>1. pc' = "scan" /\ UNCHANGED <<clock, now, m_mutex>> /\ Left' = Left - 1 /\ pc = "scan"
    BY <1>4, CountTodo DEF Evict, Left
  <2>2. N - Left \in Nat /\ N - Left' = (N - Left) + 1
    BY <1>0, <2>1
  <2>3. Probes(N - Left') = Probes(N - Left) + ProbeTime /\ Probes(N - Left) \in Nat
    BY <2>2, ProbesArith
  <2> QED
    BY <1>c, <1>v, <1>m, <2>1, <2>3 DEF Paced, N, Probes
<1>5. ASSUME NEW k \in Services, ProbeBegin(k) PROVE Paced'
  <2>1. /\ pc = "scan" /\ pc' = "probe" /\ UNCHANGED <<clock, now, m_mutex>>
        /\ Left' = Left - 1 /\ probeStart' = clock
    BY <1>5, CountTodo DEF ProbeBegin, DoHeartbeat, Left
  <2>2. N - Left' - 1 = N - Left /\ Left' < N
    BY <1>0, <2>1
  <2> QED
    BY <1>c, <1>v, <1>m, <2>1, <2>2 DEF Paced, N, Probes
<1>6. ASSUME ProbeEnd PROVE Paced'
  <2>1. pc = "probe" /\ pc' = "scan" /\ UNCHANGED <<clock, now, m_mutex>> /\ Left' = Left
    BY <1>6 DEF ProbeEnd, Left
  <2>2. N - Left - 1 \in Nat /\ N - Left = (N - Left - 1) + 1
    BY <1>0, <2>1 DEF Paced
  <2>3. Probes(N - Left) = Probes(N - Left - 1) + ProbeTime /\ Probes(N - Left - 1) \in Nat
    BY <2>2, ProbesArith
  <2> QED
    BY <1>c, <1>v, <1>m, <2>1, <2>3 DEF Paced, N, Probes
<1>7. ASSUME EndRound PROVE Paced'
  <2>1. pc = "scan" /\ pc' = "gap" /\ UNCHANGED <<clock, now>> /\ m_mutex' = "free" /\ Left = 0
    BY <1>7, CountTodo DEF EndRound
  <2> QED
    BY <1>0, <2>1 DEF Paced, N, Probes
<1>8. ASSUME BeginWait PROVE Paced'
  <2>1. pc = "gap" /\ pc' = "wait" /\ UNCHANGED <<clock, now, m_mutex>> /\ waitStart' = clock
    BY <1>8 DEF BeginWait
  <2> QED
    BY <1>c, <1>v, <1>m, <2>1 DEF Paced, N, Probes
<1>9. ASSUME EndWait PROVE Paced'
  <2>1. pc = "wait" /\ pc' = "loop" /\ UNCHANGED <<clock, now, m_mutex, waitStart>>
    BY <1>9 DEF EndWait
  <2> QED
    BY <1>c, <1>v, <1>m, <2>1 DEF Paced, RoundTime
<1>10. ASSUME NEW k \in Services, NodeChange(k) \/ RegisterService(k) \/ UnregisterService(k)
       PROVE  UNCHANGED <<clock, m_mutex, worker, probe>>
  BY <1>10 DEF NodeChange, RegisterService, UnregisterService
<1>11. UNCHANGED vars => UNCHANGED <<clock, m_mutex, worker, probe>>
  BY DEF vars, worker, probe
<1>12. ~TriggerHeartbeatEnd /\ \A k \in Services : ~TriggerHeartbeatBegin(k)
  BY <1>c, <1>v, <1>m DEF TriggerHeartbeatBegin, TriggerHeartbeatEnd
<1> QED
  BY <1>1, <1>2, <1>3, <1>4, <1>5, <1>6, <1>7, <1>8, <1>9, <1>10, <1>11, <1>12
     DEF Next, HeartbeatWorker

LEMMA NextAged ==
    ASSUME Triggered = {}, Inv, Paced, Aged, [Next]_vars
    PROVE  Aged'
<1>t. /\ clock \in Nat /\ now \in Nat /\ now <= clock /\ Timeout \in Nat /\ RoundTime \in Nat
      /\ m_services \subseteq Services
      /\ todo \subseteq m_services \/ pc \notin {"scan", "probe"}
      /\ last_heartbeat \in [Services -> Nat] /\ misses \in [Services -> Nat]
      /\ m_mutex = "free" => pc \notin {"scan", "probe"}
      /\ pc \in {"loop", "scan", "probe", "gap", "wait"}
      /\ pc = "probe" => probed \in m_services \ todo /\ probed # NoService
      /\ pc = "scan" => probed = NoService
      /\ m_mutex = "free" => probed = NoService
  BY ConstantsAssumption, RoundTimeFact DEF Inv, TypeOK, Holder, Past, IteratorValid
<1>s. m_services \subseteq Services
  BY <1>t
<1>r. \A k \in Services : /\ Rounds(misses[k]) \in Nat
                          /\ Rounds(misses[k] + 1) = Rounds(misses[k]) + RoundTime
  BY <1>t, RoundsArith
<1>1. ASSUME UNCHANGED <<table, now>>, Pending' = Pending,
             UNCHANGED todo, {pc, pc'} \cap {"scan", "probe"} = {} \/ UNCHANGED pc
      PROVE  Aged'
  BY <1>1 DEF Aged, table, Rounds, RoundTime
<1>2. ASSUME Tick \/ BeginWait \/ EndWait \/ UNCHANGED vars PROVE Aged'
  <2>1. UNCHANGED <<table, now, todo, probed>>
    BY <1>2 DEF Tick, BeginWait, EndWait, vars, worker, probe, table
  <2>2. {pc, pc'} \cap {"scan", "probe"} = {} \/ UNCHANGED pc
    BY <1>2 DEF Tick, BeginWait, EndWait, vars, worker
  <2> QED
    BY <1>1, <2>1, <2>2 DEF Pending
<1>3. ASSUME NEW k \in Services, NodeChange(k) PROVE Aged'
  <2>1. UNCHANGED <<table, worker, probe>>
    BY <1>3 DEF NodeChange
  <2> QED
    BY <1>1, <2>1 DEF Pending, worker, probe
<1>4. ASSUME NEW k \in Services, RegisterService(k) PROVE Aged'
  <2>1. /\ pc \notin {"scan", "probe"} /\ UNCHANGED <<now, pc, todo>>
        /\ m_services' = m_services \cup {k}
        /\ last_heartbeat' = [last_heartbeat EXCEPT ![k] = clock]
        /\ misses' = [misses EXCEPT ![k] = 0]
    BY <1>t, <1>4 DEF RegisterService, worker
  <2>2. Pending = {} /\ Pending' = {}
    BY <2>1 DEF Pending
  <2>3. ASSUME NEW j \in m_services'
        PROVE  now - last_heartbeat'[j] <= Rounds(misses'[j]) /\ now - last_heartbeat'[j] <= Timeout
    <3>1. CASE j = k
      BY <1>t, <2>1, <3>1, RoundsArith
    <3>2. CASE j # k
      <4>1. j \in m_services /\ last_heartbeat'[j] = last_heartbeat[j] /\ misses'[j] = misses[j]
        BY <1>t, <2>1, <2>3, <3>2
      <4> QED
        BY <2>1, <2>2, <4>1 DEF Aged
    <3> QED
      BY <3>1, <3>2
  <2>4. \A j \in m_services' : now - last_heartbeat'[j] <= Timeout + RoundTime
    <3>1. ASSUME NEW j \in m_services' PROVE now - last_heartbeat'[j] <= Timeout + RoundTime
      <4>1. m_services \cup {k} \subseteq Services
        BY <1>s, <1>4
      <4>2. j \in Services
        BY <2>1, <3>1, <4>1
      <4>3. last_heartbeat'[j] \in Nat
        BY <1>t, <2>1, <4>2
      <4> QED
        BY <1>t, <2>3, <3>1, <4>3
    <3> QED
      BY <3>1
  <2> QED
    BY <2>1, <2>2, <2>3, <2>4 DEF Aged, Rounds, RoundTime
<1>5. ASSUME NEW k \in Services, UnregisterService(k) PROVE Aged'
  <2>1. /\ pc \notin {"scan", "probe"} /\ UNCHANGED <<now, pc, todo>>
        /\ m_services' = m_services \ {k}
        /\ last_heartbeat' = [last_heartbeat EXCEPT ![k] = 0]
        /\ misses' = [misses EXCEPT ![k] = 0]
    BY <1>t, <1>5 DEF UnregisterService, Erase, worker
  <2>2. Pending = {} /\ Pending' = {}
    BY <2>1 DEF Pending
  <2>3. \A j \in m_services' : /\ j \in m_services
                               /\ last_heartbeat'[j] = last_heartbeat[j]
                               /\ misses'[j] = misses[j]
    BY <1>t, <2>1
  <2> QED
    BY <2>1, <2>2, <2>3 DEF Aged, Rounds, RoundTime
<1>6. ASSUME BeginRound PROVE Aged'
  <2>1. /\ pc = "loop" /\ pc' = "scan" /\ now' = clock /\ todo' = m_services
        /\ UNCHANGED <<table, probed>> /\ probed = NoService
    BY <1>t, <1>6 DEF BeginRound, probe
  <2>2. Pending = {} /\ Pending' = m_services
    BY <2>1 DEF Pending
  <2>3. now' <= now + RoundTime /\ now' \in Nat
    BY <1>t, <2>1 DEF Paced
  <2>4. ASSUME NEW j \in m_services
        PROVE  /\ now' - last_heartbeat[j] <= Rounds(misses[j] + 1)
               /\ now' - last_heartbeat[j] <= Timeout + RoundTime
    <3>1. /\ now - last_heartbeat[j] <= Rounds(misses[j])
          /\ now - last_heartbeat[j] <= Timeout
      BY <2>1, <2>2 DEF Aged
    <3>2. j \in Services
      BY <1>s, <2>4
    <3>3. last_heartbeat[j] \in Nat
      BY <1>t, <3>2
    <3>4. /\ Rounds(misses[j]) \in Nat
          /\ Rounds(misses[j] + 1) = Rounds(misses[j]) + RoundTime
      BY <1>r, <3>2
    <3> QED
      BY <1>t, <2>3, <3>1, <3>3, <3>4
  <2> QED
    BY <2>1, <2>2, <2>4 DEF Aged, Rounds, RoundTime, table
<1>7. ASSUME NEW k \in Services, Evict(k) PROVE Aged'
  <2>1. /\ pc = "scan" /\ UNCHANGED <<pc, now, probed>> /\ todo' = todo \ {k}
        /\ m_services' = m_services \ {k} /\ probed = NoService
        /\ last_heartbeat' = [last_heartbeat EXCEPT ![k] = 0]
        /\ misses' = [misses EXCEPT ![k] = 0]
    BY <1>t, <1>7 DEF Evict, Erase, probe
  <2>2. Pending = todo /\ Pending' = todo \ {k}
    BY <2>1 DEF Pending
  <2>3. \A j \in m_services' : /\ j \in m_services /\ j # k
                               /\ last_heartbeat'[j] = last_heartbeat[j]
                               /\ misses'[j] = misses[j]
    BY <1>t, <2>1
  <2> QED
    BY <2>1, <2>2, <2>3 DEF Aged, Rounds, RoundTime
<1>8. ASSUME NEW k \in Services, ProbeBegin(k) PROVE Aged'
  <2>1. /\ pc = "scan" /\ pc' = "probe" /\ now' = now /\ probed = NoService /\ probed' = k
        /\ k \in todo /\ todo' = todo \ {k} /\ UNCHANGED table
        /\ ~(now - last_heartbeat[k] >= Timeout)
    BY <1>t, <1>8 DEF ProbeBegin, DoHeartbeat, TimedOut
  <2>2. Pending = todo /\ Pending' = todo
    BY <2>1, ConstantsAssumption DEF Pending
  <2>3. now - last_heartbeat[k] <= Timeout
    BY <1>t, <2>1
  <2> QED
    BY <2>1, <2>2, <2>3 DEF Aged, Rounds, RoundTime, table
<1>9. ASSUME ProbeEnd PROVE Aged'
  <2>1. /\ pc = "probe" /\ pc' = "scan" /\ probed' = NoService
        /\ UNCHANGED <<now, todo, m_services>>
        /\ \/ /\ last_heartbeat' = [last_heartbeat EXCEPT ![probed] = now]
              /\ misses' = [misses EXCEPT ![probed] = 0]
           \/ /\ misses' = [misses EXCEPT ![probed] = @ + 1]
              /\ last_heartbeat' = last_heartbeat
    BY <1>9 DEF ProbeEnd, DoHeartbeatDone
  <2>2. Pending = todo \cup {probed} /\ Pending' = todo
    BY <1>t, <2>1, ConstantsAssumption DEF Pending
  <2>3. ASSUME NEW j \in m_services, j # probed
        PROVE  last_heartbeat'[j] = last_heartbeat[j] /\ misses'[j] = misses[j]
    BY <1>t, <2>1, <2>3
  <2>4. /\ now - last_heartbeat'[probed] <= Rounds(misses'[probed])
        /\ now - last_heartbeat'[probed] <= Timeout
        /\ now - last_heartbeat'[probed] <= Timeout + RoundTime
    <3>1. probed \in Services /\ probed \in m_services /\ probed \notin todo
      BY <1>t, <2>1
    <3>2. /\ now - last_heartbeat[probed] <= Rounds(misses[probed] + 1)
          /\ now - last_heartbeat[probed] <= Timeout
          /\ now - last_heartbeat[probed] <= Timeout + RoundTime
      BY <2>1, <2>2, <3>1 DEF Aged
    <3>3. CASE last_heartbeat'[probed] = now /\ misses'[probed] = 0
      BY <1>t, <3>3, RoundsArith
    <3>4. CASE last_heartbeat'[probed] = last_heartbeat[probed] /\ misses'[probed] = misses[probed] + 1
      BY <3>2, <3>4
    <3> QED
      BY <1>t, <2>1, <3>1, <3>3, <3>4
  <2>5. ASSUME NEW j \in m_services, j # probed
        PROVE  /\ j \notin todo => /\ now - last_heartbeat'[j] <= Rounds(misses'[j])
                                   /\ now - last_heartbeat'[j] <= Timeout
               /\ j \in todo => now - last_heartbeat'[j] <= Rounds(misses'[j] + 1)
               /\ now - last_heartbeat'[j] <= Timeout + RoundTime
    BY <2>1, <2>2, <2>3, <2>5 DEF Aged
  <2>6. probed \notin todo
    BY <1>t, <2>1
  <2> QED
    BY <2>1, <2>2, <2>4, <2>5, <2>6 DEF Aged, Rounds, RoundTime
<1>10. ASSUME EndRound PROVE Aged'
  <2>1. /\ pc = "scan" /\ pc' = "gap" /\ todo = {} /\ UNCHANGED <<now, todo, table>>
        /\ probed = NoService
    BY <1>t, <1>10 DEF EndRound
  <2>2. Pending = {} /\ Pending' = {}
    BY <2>1 DEF Pending
  <2> QED
    BY <2>1, <2>2 DEF Aged, Rounds, RoundTime, table
<1>11. ~TriggerHeartbeatEnd /\ \A k \in Services : ~TriggerHeartbeatBegin(k)
  BY DEF Paced, TriggerHeartbeatBegin, TriggerHeartbeatEnd
<1> QED
  BY <1>2, <1>3, <1>4, <1>5, <1>6, <1>7, <1>8, <1>9, <1>10, <1>11 DEF Next, HeartbeatWorker

THEOREM TimingHolds ==
    ASSUME Triggered = {}
    PROVE  Spec => [](Inv /\ Paced /\ Aged)
<1>1. Init => Inv /\ Paced /\ Aged
  BY InitInv, InitPaced
<1>2. Inv /\ Paced /\ Aged /\ [Next]_vars => (Inv /\ Paced /\ Aged)'
  BY NextInv, NextPaced, NextAged
<1> QED
  BY <1>1, <1>2, PTL DEF Spec

LEMMA AgedIsEnough ==
    ASSUME Inv, Paced, Aged
    PROVE  EvictionNeedsMisses /\ DetectionBound
<1>t. /\ clock \in Nat /\ now \in Nat /\ Timeout \in Nat /\ RoundTime \in Nat
      /\ ProbeTime \in Nat /\ Interval \in Nat /\ Latency \in Nat
      /\ probeStart \in Nat /\ waitStart \in Nat
      /\ last_heartbeat \in [Services -> Nat] /\ misses \in [Services -> Nat]
      /\ pc \in {"loop", "scan", "probe", "gap", "wait"}
      /\ m_services \subseteq Services
  BY ConstantsAssumption, RoundTimeFact DEF Inv, TypeOK
<1>1. ASSUME NEW k \in todo, pc = "scan", TimedOut(k)
      PROVE  (misses[k] + 1) * RoundTime >= Timeout
  <2>1. k \in m_services /\ k \in Pending
    BY <1>1 DEF Inv, IteratorValid, Pending
  <2>2. now - last_heartbeat[k] <= Rounds(misses[k] + 1) /\ now - last_heartbeat[k] >= Timeout
    BY <1>1, <2>1 DEF Aged, TimedOut
  <2>3. /\ last_heartbeat[k] \in Nat /\ misses[k] \in Nat
        /\ Rounds(misses[k] + 1) \in Nat
    BY <1>t, <2>1, RoundsArith
  <2>4. Rounds(misses[k] + 1) >= Timeout
    BY <1>t, <2>2, <2>3
  <2> QED
    BY <2>4 DEF Rounds
<1>2. ASSUME NEW k \in m_services
      PROVE  clock - last_heartbeat[k] <= Timeout + ProbeTime * Cardinality(Services) + RoundTime
  <2>1. /\ last_heartbeat[k] \in Nat
        /\ now - last_heartbeat[k] <= Timeout + RoundTime
        /\ pc \notin {"scan", "probe"} => now - last_heartbeat[k] <= Timeout
    BY <1>t DEF Aged
  <2>2. Probes(N) \in Nat /\ RoundTime = Probes(N) + Interval + Latency
    BY CountTodo, ProbesArith, RoundTimeFact
  <2>3. CASE pc \in {"scan", "probe"}
    <3>1. clock <= now + Probes(N)
      <4>1. CASE pc = "scan"
        <5>1. N - Left \in Nat /\ N \in Nat /\ N - Left <= N
          BY CountTodo
        <5>2. Probes(N - Left) <= Probes(N) /\ Probes(N - Left) \in Nat
          BY <5>1, ProbesArith
        <5> QED
          BY <1>t, <2>2, <4>1, <5>2 DEF Paced
      <4>2. CASE pc = "probe"
        <5>1. N - Left - 1 \in Nat /\ N \in Nat /\ N - Left - 1 + 1 \in Nat /\ N - Left - 1 + 1 <= N
          BY <4>2, CountTodo DEF Paced
        <5>2. /\ Probes(N - Left - 1 + 1) <= Probes(N) /\ Probes(N - Left - 1) \in Nat
              /\ Probes(N - Left - 1 + 1) = Probes(N - Left - 1) + ProbeTime
          BY <5>1, ProbesArith
        <5> QED
          BY <1>t, <2>2, <4>2, <5>2 DEF Paced
      <4> QED
        BY <2>3, <4>1, <4>2
    <3> QED
      BY <1>t, <2>1, <2>2, <3>1 DEF Probes, N
  <2>4. CASE pc \notin {"scan", "probe"}
    <3>1. clock <= now + RoundTime
      BY <1>t, <2>2, <2>4 DEF Paced
    <3>2. ProbeTime * Cardinality(Services) \in Nat
      BY <2>2 DEF Probes, N
    <3> QED
      BY <1>t, <2>1, <2>4, <3>1, <3>2
  <2> QED
    BY <2>3, <2>4
<1> QED
  BY <1>1, <1>2 DEF EvictionNeedsMisses, DetectionBound

\* Accuracy: a service is erased only after as many failed probes in a row as
\* there are rounds in the timeout.
THEOREM EvictionIsJustified ==
    ASSUME Triggered = {}
    PROVE  Spec => []EvictionNeedsMisses
<1>1. Inv /\ Paced /\ Aged => EvictionNeedsMisses
  BY AgedIsEnough
<1> QED
  BY <1>1, TimingHolds, PTL

\* Freshness: how old an entry of the table can be.
THEOREM DetectionIsBounded ==
    ASSUME Triggered = {}
    PROVE  Spec => []DetectionBound
<1>1. Inv /\ Paced /\ Aged => DetectionBound
  BY AgedIsEnough
<1> QED
  BY <1>1, TimingHolds, PTL

(***************************************************************************)
(* Part 3: completeness, also when somebody calls TriggerHeartbeat.  Rounds *)
(* begin at least Interval apart, so that each failed probe finds the entry *)
(* an Interval older than the one before, and it was not yet timed out.    *)
(***************************************************************************)

Waits(n) == n * Interval

\* The entries the worker has still to probe in this round.
Unprobed == IF pc = "scan" THEN todo ELSE IF pc = "probe" THEN todo \cup {probed} ELSE {}

Spaced ==
    /\ pc = "wait" => now <= waitStart
    /\ pc = "loop" => clock >= now + Interval \/ \A k \in Services : misses[k] = 0
    /\ pc = "probe" => ~TimedOut(probed)
    /\ \A k \in m_services : misses[k] > 0 =>
          /\ k \notin Unprobed => Waits(misses[k] - 1) <= now - last_heartbeat[k]
          /\ k \in Unprobed => Waits(misses[k]) <= now - last_heartbeat[k]
          /\ Waits(misses[k] - 1) < Timeout

LEMMA WaitsArith ==
    /\ Waits(0) = 0
    /\ \A n \in Nat : Waits(n) \in Nat /\ Waits(n + 1) = Waits(n) + Interval
BY ConstantsAssumption DEF Waits

LEMMA NextSpaced ==
    ASSUME Inv, Spaced, [Next]_vars
    PROVE  Spaced'
<1> DEFINE Ok(k) == misses[k] > 0 =>
          /\ k \notin Unprobed => Waits(misses[k] - 1) <= now - last_heartbeat[k]
          /\ k \in Unprobed => Waits(misses[k]) <= now - last_heartbeat[k]
          /\ Waits(misses[k] - 1) < Timeout
<1>t. /\ clock \in Nat /\ now \in Nat /\ waitStart \in Nat /\ now <= clock
      /\ Timeout \in Nat /\ Interval \in Nat
      /\ m_services \subseteq Services
      /\ last_heartbeat \in [Services -> Nat] /\ misses \in [Services -> Nat]
      /\ m_mutex = "free" \/ m_mutex = "trigger" => pc \notin {"scan", "probe"}
      /\ pc \in {"loop", "scan", "probe", "gap", "wait"}
      /\ pc = "probe" => probed \in m_services \ todo
  BY ConstantsAssumption DEF Inv, TypeOK, Holder, Past
<1>o. \A k \in m_services : Ok(k)
  BY DEF Spaced
\* Steps that leave an entry and its round alone.
<1>k. ASSUME NEW k \in m_services, misses'[k] = misses[k], last_heartbeat'[k] = last_heartbeat[k],
             now' = now, k \in Unprobed' <=> k \in Unprobed
      PROVE  Ok(k)'
  BY <1>o, <1>k DEF Waits
<1>z. ASSUME NEW k, misses'[k] = 0 PROVE Ok(k)'
  BY <1>z
<1> HIDE DEF Ok
<1>q. ASSUME pc' = "wait" => now' <= waitStart',
             pc' = "loop" => clock' >= now' + Interval \/ \A k \in Services : misses'[k] = 0,
             pc' = "probe" => ~TimedOut(probed)',
             \A k \in m_services' : Ok(k)'
      PROVE  Spaced'
  BY <1>q DEF Spaced, Ok
<1> USE DEF table, worker, probe
<1>1. ASSUME NEW k \in Services, NodeChange(k) PROVE Spaced'
  BY <1>1, <1>o, <1>k, <1>q DEF NodeChange, Spaced, Unprobed, TimedOut
<1>2. ASSUME Tick PROVE Spaced'
  BY <1>2, <1>t, <1>o, <1>k, <1>q DEF Tick, Spaced, Unprobed, TimedOut
<1>3. ASSUME NEW k \in Services, RegisterService(k) PROVE Spaced'
  <2>1. /\ UNCHANGED <<clock, pc, now, todo, waitStart, probed>> /\ pc \notin {"scan", "probe"}
        /\ m_services' = m_services \cup {k}
        /\ last_heartbeat' = [last_heartbeat EXCEPT ![k] = clock]
        /\ misses' = [misses EXCEPT ![k] = 0]
    BY <1>t, <1>3 DEF RegisterService
  <2>2. ASSUME NEW j \in m_services' PROVE Ok(j)'
    <3>1. CASE j = k
      BY <1>t, <1>z, <2>1, <3>1
    <3>2. CASE j # k
      BY <1>t, <1>k, <2>1, <2>2, <3>2 DEF Unprobed
    <3> QED
      BY <3>1, <3>2
  <2> QED
    BY <1>t, <1>q, <2>1, <2>2 DEF Spaced
<1>4. ASSUME NEW k \in Services, UnregisterService(k) \/ Evict(k) PROVE Spaced'
  <2>1. /\ UNCHANGED <<clock, pc, now, waitStart, probed>> /\ pc # "probe"
        /\ todo' \in {todo, todo \ {k}}
        /\ m_services' = m_services \ {k}
        /\ last_heartbeat' = [last_heartbeat EXCEPT ![k] = 0]
        /\ misses' = [misses EXCEPT ![k] = 0]
    BY <1>t, <1>4 DEF UnregisterService, Evict, Erase
  <2>2. ASSUME NEW j \in m_services' PROVE Ok(j)'
    BY <1>t, <1>k, <2>1, <2>2 DEF Unprobed
  <2> QED
    BY <1>t, <1>q, <2>1, <2>2 DEF Spaced
<1>5. ASSUME NEW k \in Services, TriggerHeartbeatBegin(k) PROVE Spaced'
  <2>1. /\ UNCHANGED <<clock, pc, now, todo, waitStart, table>> /\ pc \notin {"scan", "probe"}
    BY <1>t, <1>5 DEF TriggerHeartbeatBegin
  <2> QED
    BY <1>t, <1>k, <1>q, <2>1 DEF Spaced, Unprobed
<1>6. ASSUME TriggerHeartbeatEnd PROVE Spaced'
  <2>1. /\ UNCHANGED <<clock, pc, now, todo, waitStart, m_services>> /\ pc \notin {"scan", "probe"}
        /\ probed \in m_services
        /\ \/ misses' = [misses EXCEPT ![probed] = 0]
              /\ last_heartbeat' = [last_heartbeat EXCEPT ![probed] = clock]
           \/ UNCHANGED <<misses, last_heartbeat>>
    BY <1>t, <1>6 DEF TriggerHeartbeatEnd, Inv, Holder
  <2>2. ASSUME NEW j \in m_services' PROVE Ok(j)'
    BY <1>t, <1>k, <1>z, <2>1, <2>2 DEF Unprobed
  <2>3. pc' = "loop" => clock' >= now' + Interval \/ \A k \in Services : misses'[k] = 0
    BY <1>t, <2>1 DEF Spaced
  <2> QED
    BY <1>t, <1>q, <2>1, <2>2, <2>3 DEF Spaced
<1>7. ASSUME BeginRound PROVE Spaced'
  <2>1. /\ pc = "loop" /\ pc' = "scan" /\ now' = clock /\ todo' = m_services
        /\ UNCHANGED <<clock, table>>
    BY <1>7 DEF BeginRound
  <2>2. ASSUME NEW j \in m_services, misses[j] > 0 PROVE Ok(j)'
    <3>1. misses[j] \in Nat /\ misses[j] - 1 \in Nat /\ last_heartbeat[j] \in Nat /\ j \in Services
      BY <1>t, <2>2
    <3>2. clock >= now + Interval
      BY <2>1, <2>2, <3>1 DEF Spaced
    <3>3. Waits(misses[j] - 1) <= now - last_heartbeat[j] /\ Waits(misses[j] - 1) < Timeout
      BY <1>o, <2>1, <2>2 DEF Ok, Unprobed
    <3>4. Waits(misses[j]) = Waits(misses[j] - 1) + Interval /\ Waits(misses[j] - 1) \in Nat
      <4>1. misses[j] = misses[j] - 1 + 1
        BY <3>1
      <4> QED
        BY <3>1, <4>1, WaitsArith
    <3>5. Waits(misses[j]) <= clock - last_heartbeat[j]
      BY <1>t, <3>1, <3>2, <3>3, <3>4
    <3>6. misses'[j] = misses[j] /\ last_heartbeat'[j] = last_heartbeat[j] /\ j \in Unprobed'
      BY <2>1, <2>2 DEF Unprobed
    <3> QED
      BY <2>1, <3>3, <3>5, <3>6 DEF Ok, Waits
  <2>3. ASSUME NEW j \in m_services, ~(misses[j] > 0) PROVE Ok(j)'
    <3>1. misses'[j] = 0
      BY <1>t, <2>1, <2>3
    <3> QED
      BY <3>1, <1>z
  <2> QED
    BY <1>q, <2>1, <2>2, <2>3
<1>8. ASSUME NEW k \in Services, ProbeBegin(k) PROVE Spaced'
  <2>1. /\ pc = "scan" /\ pc' = "probe" /\ probed' = k /\ todo' = todo \ {k} /\ k \in todo
        /\ UNCHANGED <<clock, now, table>> /\ ~TimedOut(k)
    BY <1>8 DEF ProbeBegin, DoHeartbeat
  <2>2. Unprobed' = Unprobed
    BY <2>1 DEF Unprobed
  <2> QED
    BY <1>k, <1>q, <2>1, <2>2 DEF TimedOut
<1>9. ASSUME ProbeEnd PROVE Spaced'
  <2>1. /\ pc = "probe" /\ pc' = "scan" /\ UNCHANGED <<clock, now, todo, m_services>>
        /\ probed \in m_services /\ probed \in Services /\ probed \notin todo
        /\ \/ misses' = [misses EXCEPT ![probed] = 0]
           \/ /\ misses' = [misses EXCEPT ![probed] = @ + 1]
              /\ UNCHANGED last_heartbeat
    BY <1>t, <1>9 DEF ProbeEnd
  <2>2. \A j \in m_services \ {probed} :
           misses'[j] = misses[j] /\ last_heartbeat'[j] = last_heartbeat[j]
    BY <1>t, <1>9 DEF ProbeEnd
  <2>3. Unprobed' = todo /\ Unprobed = todo \cup {probed}
    BY <2>1 DEF Unprobed
  <2>4. ASSUME NEW j \in m_services, j # probed PROVE Ok(j)'
    BY <1>k, <2>1, <2>2, <2>3, <2>4
  <2>5. CASE misses'[probed] = 0
    BY <1>q, <1>z, <2>1, <2>4, <2>5
  <2>6. CASE misses' = [misses EXCEPT ![probed] = @ + 1] /\ UNCHANGED last_heartbeat
    <3> DEFINE m == misses[probed]
               h == last_heartbeat[probed]
    <3>1. m \in Nat /\ h \in Nat /\ misses'[probed] = m + 1 /\ misses'[probed] - 1 = m
      BY <1>t, <2>1, <2>6
    <3>2. now - h < Timeout
      BY <1>t, <2>1, <3>1 DEF Spaced, TimedOut
    <3>3. Waits(m) <= now - h
      <4>1. CASE m = 0
        <5>1. h <= now
          BY <2>1 DEF Inv, Past
        <5> QED
          BY <1>t, <3>1, <4>1, <5>1, WaitsArith
      <4>2. CASE m > 0
        BY <1>o, <2>1, <2>3, <4>2 DEF Ok
      <4> QED
        BY <3>1, <4>1, <4>2
    <3>4. Waits(m) < Timeout
      BY <1>t, <3>1, <3>2, <3>3, WaitsArith
    <3>5. ASSUME NEW j \in m_services, j = probed PROVE Ok(j)'
      BY <2>1, <2>3, <2>6, <3>1, <3>3, <3>4, <3>5 DEF Ok, Waits
    <3> QED
      BY <1>q, <2>1, <2>4, <3>5
  <2> QED
    BY <1>t, <2>1, <2>5, <2>6
<1>10. ASSUME EndRound \/ BeginWait \/ UNCHANGED vars PROVE Spaced'
  <2>1. UNCHANGED <<clock, now, table>> /\ Unprobed' = Unprobed
    BY <1>10 DEF EndRound, BeginWait, vars, Unprobed
  <2>2. pc' = "wait" => now' <= waitStart'
    BY <1>t, <1>10 DEF EndRound, BeginWait, vars, Spaced
  <2>3. pc' \in {"loop", "probe"} => UNCHANGED <<pc, probed>>
    BY <1>10 DEF EndRound, BeginWait, vars
  <2> QED
    BY <1>k, <1>q, <2>1, <2>2, <2>3 DEF Spaced, TimedOut
<1>11. ASSUME EndWait PROVE Spaced'
  <2>1. /\ UNCHANGED <<clock, now, table>> /\ Unprobed' = Unprobed /\ pc' = "loop"
        /\ clock >= waitStart + Interval /\ now <= waitStart
    BY <1>11 DEF EndWait, Unprobed, Spaced
  <2> QED
    BY <1>t, <1>k, <1>q, <2>1
<1> QED
  BY <1>1, <1>2, <1>3, <1>4, <1>5, <1>6, <1>7, <1>8, <1>9, <1>10, <1>11 DEF Next, HeartbeatWorker

\* Completeness: a service that does not answer leaves the table after as many
\* failed probes as intervals fit in the timeout, and one.
THEOREM MissesAreBounded == Spec => []MissesBound
<1>1. Init => Spaced
  BY DEF Init, Spaced
<1>2. Inv /\ Spaced /\ [Next]_vars => Spaced'
  BY NextSpaced
<1>3. Spaced => MissesBound
  BY DEF Spaced, MissesBound, Waits
<1> QED
  BY <1>1, <1>2, <1>3, InvHolds, PTL DEF Spec

(***************************************************************************)
(* Part 4: the admission gate.  It only uses the detector as its other     *)
(* callers do, and refuses no call that asks in time.                      *)
(***************************************************************************)

\* A step of the gate is a step of the detector, or none.
LEMMA GateStep == GateNext \/ UNCHANGED allVars => [Next]_vars
BY DEF GateNext, GateRegister, GateCheck, GateDone, Detector, Next, allVars

\* The gate and its detector, for what is proved of the detector alone.
THEOREM GateUsesDetector == GateSpec => Spec
<1>1. GateInit => Init
  BY DEF GateInit
<1>2. [GateNext]_allVars => [Next]_vars
  BY GateStep
<1> QED
  BY <1>1, <1>2, PTL DEF GateSpec, Spec

\* The client thread and the history keep their types.
THEOREM GateTypeCorrect == GateSpec => []GateTypeOK
<1>1. GateInit => GateTypeOK
  BY InitInv, ConstantsAssumption DEF GateInit, GateTypeOK, Inv
<1>2. Inv /\ GateTypeOK /\ [GateNext]_allVars => GateTypeOK'
  <2> SUFFICES ASSUME Inv, GateTypeOK, [GateNext]_allVars
               PROVE  GateTypeOK'
    OBVIOUS
  <2>1. TypeOK'
    BY GateStep, NextInv DEF Inv
  <2> USE DEF GateTypeOK, gateVars
  <2>2. CASE GateRegister
    BY <2>1, <2>2 DEF GateRegister, TypeOK
  <2>3. CASE GateCheck \/ GateDone \/ UNCHANGED allVars
    BY <2>1, <2>3, ConstantsAssumption DEF GateCheck, GateDone, allVars
  <2>4. CASE Detector
    BY <2>1, <2>4 DEF Detector, TypeOK
  <2> QED
    BY <2>2, <2>3, <2>4 DEF GateNext
<1>3. GateSpec => []Inv
  BY GateUsesDetector, InvHolds, PTL
<1> QED
  BY <1>1, <1>2, <1>3, PTL DEF GateSpec

\* No service is erased by the worker of a running client before its rounds of
\* failed probes fill the timeout: HeartbeatWorker under CallMethod's gate.
THEOREM GateEvictionIsJustified ==
    ASSUME Triggered = {}
    PROVE  GateSpec => []EvictionNeedsMisses
BY GateUsesDetector, EvictionIsJustified, PTL

\* And every entry it asks about is fresh enough.
THEOREM GateDetectionIsBounded ==
    ASSUME Triggered = {}
    PROVE  GateSpec => []DetectionBound
BY GateUsesDetector, DetectionIsBounded, PTL

-----------------------------------------------------------------------------
(* What the thread that asks knows: since it registered its key nobody has *)
(* made the entry older, and only the worker erases it, when it times out. *)

Asking ==
    /\ regTime \in Nat /\ key \in Services
    /\ gate = "check" =>
          /\ regTime <= clock
          /\ key \in m_services => last_heartbeat[key] >= regTime
          /\ key \notin m_services => clock - regTime >= Timeout

LEMMA DetectorAsking ==
    ASSUME Inv, Asking, Detector
    PROVE  Asking'
<1> USE ConstantsAssumption DEF Inv, TypeOK, Holder, Past, Asking, table, worker, probe, gateVars
<1>1. UNCHANGED <<gate, key, regTime>> /\ regTime' \in Nat /\ key' \in Services
  BY DEF Detector
<1>2. SUFFICES ASSUME gate = "check"
               PROVE  /\ regTime <= clock'
                      /\ key \in m_services' => last_heartbeat'[key] >= regTime
                      /\ key \notin m_services' => clock' - regTime >= Timeout
  BY <1>1
<1>3. CASE UNCHANGED <<clock, table>>
  BY <1>2, <1>3
<1>4. CASE Tick
  BY <1>2, <1>4 DEF Tick
<1>5. ASSUME NEW k \in Services, RegisterService(k)
      PROVE  /\ regTime <= clock'
             /\ key \in m_services' => last_heartbeat'[key] >= regTime
             /\ key \notin m_services' => clock' - regTime >= Timeout
  BY <1>2, <1>5 DEF RegisterService
<1>6. ASSUME NEW k \in Services, Evict(k)
      PROVE  /\ regTime <= clock'
             /\ key \in m_services' => last_heartbeat'[key] >= regTime
             /\ key \notin m_services' => clock' - regTime >= Timeout
  <2>1. CASE k = key /\ key \in m_services
    <3>1. now - last_heartbeat[key] >= Timeout /\ now <= clock /\ last_heartbeat[key] >= regTime
      BY <1>2, <1>6, <2>1 DEF Evict, TimedOut
    <3>2. clock' - regTime >= Timeout /\ clock' = clock
      BY <1>6, <3>1 DEF Evict
    <3>3. key \notin m_services'
      BY <1>6, <2>1 DEF Evict, Erase
    <3> QED
      BY <1>2, <3>2, <3>3
  <2>2. CASE ~(k = key /\ key \in m_services)
    BY <1>2, <1>6, <2>2 DEF Evict, Erase
  <2> QED
    BY <2>1, <2>2
<1>7. CASE ProbeEnd
  BY <1>2, <1>7 DEF ProbeEnd
<1>8. ASSUME NEW k \in Services, NodeChange(k) \/ ProbeBegin(k) PROVE UNCHANGED <<clock, table>>
  BY <1>8 DEF NodeChange, ProbeBegin
<1>9. BeginRound \/ EndRound \/ BeginWait \/ EndWait => UNCHANGED <<clock, table>>
  BY DEF BeginRound, EndRound, BeginWait, EndWait
<1> QED
  BY <1>3, <1>4, <1>5, <1>6, <1>7, <1>8, <1>9 DEF Detector, HeartbeatWorker

LEMMA NextAsking ==
    ASSUME Inv, Asking, [GateNext]_allVars
    PROVE  Asking'
<1> USE DEF Inv, TypeOK, Asking
<1>1. CASE GateRegister
  BY <1>1, ConstantsAssumption DEF GateRegister, RegisterService
<1>2. CASE GateCheck
  BY <1>2 DEF GateCheck, vars
<1>3. CASE GateDone
  BY <1>3 DEF GateDone, vars
<1>4. CASE Detector
  BY <1>4, DetectorAsking
<1>5. CASE UNCHANGED allVars
  BY <1>5 DEF allVars, vars, gateVars
<1> QED
  BY <1>1, <1>2, <1>3, <1>4, <1>5 DEF GateNext

\* The gate refuses a call only if its thread was held up for the whole timeout
\* between RegisterService and IsServiceAvailable: Zrpcchannel.cc:47-55.
THEOREM OnlyLateCallsRefused == GateSpec => RefusalIsLate
<1>1. GateInit => Asking
  BY DEF GateInit, Asking
<1>2. Inv /\ Asking /\ [GateNext]_allVars => Asking'
  BY NextAsking
<1>3. Inv /\ Asking /\ [GateNext]_allVars
        => [gate = "check" /\ gate' = "refused" => clock - regTime >= Timeout]_allVars
  <2>1. ASSUME Asking, GateNext, gate = "check", gate' = "refused"
        PROVE  clock - regTime >= Timeout
    <3>1. GateCheck
      BY <2>1 DEF GateNext, GateRegister, GateDone, Detector, gateVars
    <3> QED
      BY <2>1, <3>1 DEF GateCheck, IsServiceAvailable, Asking
  <2> QED
    BY <2>1 DEF allVars, gateVars
<1>4. GateSpec => []Inv
  BY GateUsesDetector, InvHolds, PTL
<1> QED
  BY <1>1, <1>2, <1>3, <1>4, PTL DEF GateSpec, RefusalIsLate

(***************************************************************************)
(* Part 5: Start and Stop are safe for any number of threads as long as a  *)
(* call of Stop overlaps no other call.  The argument: m_running.exchange  *)
(* lets one thread at a time into the body of Start or of Stop, and hands  *)
(* it the handle in the state that body needs, empty for Start and         *)
(* joinable for Stop.                                                      *)
(***************************************************************************)

\* One thread at a time in a body; a Stop alone.
OneInside == \A t, u \in Threads : t # u =>
    /\ InStop(t) => cpc[u] = "idle"
    /\ InStart(t) => ~InStart(u)

\* The body of Start works on an empty handle, the body of Stop on a full one.
HandleReady == \A t \in Threads :
    /\ InStart(t) => m_running /\ wpc = "none"
    /\ cpc[t] = "launch" => ~m_stop_requested
    /\ InStop(t) => ~m_running /\ wpc # "none"

\* Between the bodies, m_running tells whether there is a worker.
Settled == (\A t \in Threads : cpc[t] = "idle") =>
    IF m_running THEN ~m_stop_requested /\ wpc \notin {"none", "done"}
    ELSE wpc = "none"

\* Only a Start ends the state a Stop has left.
StoppedRests == stopped # {} => ~m_running /\ \A t \in Threads : cpc[t] = "idle"

LifecycleInv ==
    LifecycleTypeOK /\ NoTerminate /\ OneInside /\ HandleReady /\ Settled /\ StoppedRests

LEMMA LifecycleInitInv == LifecycleInit => LifecycleInv
BY DEF LifecycleInit, LifecycleInv, LifecycleTypeOK, NoTerminate, OneInside, HandleReady,
       Settled, StoppedRests,
       InStart, InStop

\* One step per action.
LEMMA LifecycleNextInv ==
    ASSUME ~Overlap, LifecycleInv, [LifecycleNext]_lifecycleVars
    PROVE  LifecycleInv'
<1> USE DEF LifecycleInv, LifecycleTypeOK, NoTerminate, OneInside, HandleReady, Settled,
            StoppedRests,
            InStart, InStop, Goto, Joinable
<1>1. ASSUME NEW t \in Threads, Start(t) PROVE LifecycleInv'
  BY <1>1 DEF Start
<1>2. ASSUME NEW t \in Threads, Stop(t) PROVE LifecycleInv'
  <2>1. \A u \in Threads : cpc[u] = "idle"
    BY <1>2 DEF Stop
  <2>2. CASE m_running
    <3>1. /\ cpc' = [cpc EXCEPT ![t] = "requestStop"]
          /\ m_running' = FALSE /\ stopped' = {}
          /\ UNCHANGED <<m_stop_requested, wpc, terminated>>
      BY <1>2, <2>1, <2>2 DEF Stop
    <3>2. LifecycleTypeOK' /\ NoTerminate'
      BY <3>1
    <3>3. \A u \in Threads : u # t => cpc'[u] = "idle"
      BY <2>1, <3>1
    <3>4. OneInside'
      BY <3>1, <3>3
    <3>5. HandleReady' /\ Settled' /\ StoppedRests'
      BY <2>1, <2>2, <3>1, <3>3
    <3> QED
      BY <3>2, <3>4, <3>5
  <2>3. CASE ~m_running
    BY <1>2, <2>1, <2>3 DEF Stop
  <2> QED
    BY <2>2, <2>3
<1>3. ASSUME NEW t \in Threads, ClearStop(t) PROVE LifecycleInv'
  BY <1>3 DEF ClearStop
<1>4. ASSUME NEW t \in Threads, Launch(t) PROVE LifecycleInv'
  BY <1>4 DEF Launch
<1>5. ASSUME NEW t \in Threads, RequestStop(t) PROVE LifecycleInv'
  BY <1>5 DEF RequestStop
<1>6. ASSUME NEW t \in Threads, Notify(t) PROVE LifecycleInv'
  BY <1>6 DEF Notify
<1>7. ASSUME NEW t \in Threads, TestJoinable(t) PROVE LifecycleInv'
  BY <1>7 DEF TestJoinable
<1>8. ASSUME NEW t \in Threads, Join(t) PROVE LifecycleInv'
  BY <1>8 DEF Join
<1>9. ASSUME Worker PROVE LifecycleInv'
  BY <1>9 DEF Worker, TestRunning, TestRequest, Round, TestStop, Sleep, WaitTimeout, WorkerAt
<1>10. CASE UNCHANGED lifecycleVars
  BY <1>10 DEF lifecycleVars
<1> QED
  BY <1>1, <1>2, <1>3, <1>4, <1>5, <1>6, <1>7, <1>8, <1>9, <1>10 DEF LifecycleNext, Call

THEOREM LifecycleInvHolds ==
    ASSUME ~Overlap
    PROVE  LifecycleSpec => []LifecycleInv
<1>1. LifecycleInit => LifecycleInv
  BY LifecycleInitInv
<1>2. LifecycleInv /\ [LifecycleNext]_lifecycleVars => LifecycleInv'
  BY LifecycleNextInv
<1> QED
  BY <1>1, <1>2, PTL DEF LifecycleSpec

\* No sequence of calls ends in std::terminate: Launch finds the handle empty
\* and Join finds it full, whoever else calls Start at the same time.
THEOREM LifecycleSafe ==
    ASSUME ~Overlap
    PROVE  LifecycleSpec => []NoTerminate
<1>1. LifecycleInv => NoTerminate
  BY DEF LifecycleInv
<1> QED
  BY <1>1, LifecycleInvHolds, PTL

\* A Stop that has returned has left no worker behind, and an idle heartbeat
\* that was started has one that is going to scan.
THEOREM LifecycleMeansWhatItSays ==
    ASSUME ~Overlap
    PROVE  LifecycleSpec => []MeansWhatItSays
<1>1. LifecycleInv => MeansWhatItSays
  BY DEF LifecycleInv, Settled, StoppedRests, MeansWhatItSays
<1> QED
  BY <1>1, LifecycleInvHolds, PTL
=============================================================================
