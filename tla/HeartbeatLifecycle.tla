------------------------- MODULE HeartbeatLifecycle -------------------------
(***************************************************************************)
(* Start, Stop and the destructor of ZrpcHeartbeat against the worker      *)
(* thread they create, at the granularity of one atomic access per step.   *)
(*                                                                         *)
(* Start and Stop take no lock: they rely on m_running.exchange.  Stop     *)
(* notifies m_cv without m_mutex, so the notification may fall between the *)
(* worker's test of its predicate and its sleep and be lost.  What a round *)
(* does, and m_mutex, are in ZrpcHeartbeat: no step here depends on them.  *)
(***************************************************************************)
EXTENDS Naturals

CONSTANTS
    Threads,  \* threads that call Start (EnableHeartbeat) and Stop (destructor)
    Overlap   \* TRUE: a call of Stop may overlap other calls of Start and Stop

ASSUME OverlapAssumption == Overlap \in BOOLEAN

VARIABLES
    m_running,         \* std::atomic<bool>
    m_stop_requested,  \* std::atomic<bool>
    cpc,               \* cpc[t]: the next step of t's call of Start or Stop
    wpc,               \* the worker; "none" iff m_heartbeat_thread is not joinable
    terminated,        \* std::terminate was called
    stopped            \* history: threads back from Stop, no Start called since

lifecycleVars == <<m_running, m_stop_requested, cpc, wpc, terminated, stopped>>

LifecycleInit ==
    /\ m_running = FALSE /\ m_stop_requested = FALSE
    /\ cpc = [t \in Threads |-> "idle"]
    /\ wpc = "none"
    /\ terminated = FALSE
    /\ stopped = {}

InStart(t) == cpc[t] \in {"clearStop", "launch"}
InStop(t) == cpc[t] \in {"requestStop", "notify", "joinable", "join"}
Joinable == wpc # "none"
Goto(t, l) == cpc' = [cpc EXCEPT ![t] = l]

-----------------------------------------------------------------------------
(* Start                                                                   *)

\* Mutant: m_running is read here and written with the launch.
StartTested(t) ==
    /\ cpc[t] = "idle" /\ (Overlap \/ \A u \in Threads : ~InStop(u))
    /\ stopped' = {}
    /\ IF m_running THEN UNCHANGED cpc ELSE Goto(t, "clearStop")
    /\ UNCHANGED <<m_running, m_stop_requested, wpc, terminated>>

Start(t) ==
    /\ cpc[t] = "idle" /\ (Overlap \/ \A u \in Threads : ~InStop(u))
    /\ stopped' = {}
    /\ m_running' = TRUE
    /\ IF m_running THEN UNCHANGED cpc ELSE Goto(t, "clearStop")
    /\ UNCHANGED <<m_stop_requested, wpc, terminated>>

\* Mutant: a restart does not take back the stop request of the previous run.
ClearStopForgotten(t) ==
    /\ cpc[t] = "clearStop"
    /\ Goto(t, "launch")
    /\ UNCHANGED <<m_running, m_stop_requested, wpc, terminated, stopped>>

ClearStop(t) ==
    /\ cpc[t] = "clearStop"
    /\ m_stop_requested' = FALSE
    /\ Goto(t, "launch")
    /\ UNCHANGED <<m_running, wpc, terminated, stopped>>

\* Assigning to a std::thread that is still joinable calls std::terminate.
Launch(t) ==
    /\ cpc[t] = "launch"
    /\ IF Joinable THEN terminated' = TRUE /\ UNCHANGED wpc
       ELSE wpc' = "testRunning" /\ UNCHANGED terminated
    /\ Goto(t, "idle")
    /\ UNCHANGED <<m_running, m_stop_requested, stopped>>

-----------------------------------------------------------------------------
(* Stop                                                                    *)

Stop(t) ==
    /\ cpc[t] = "idle"
    /\ Overlap \/ \A u \in Threads : cpc[u] = "idle"
    /\ m_running' = FALSE
    /\ IF m_running THEN Goto(t, "requestStop") /\ UNCHANGED stopped
       ELSE stopped' = stopped \cup {t} /\ UNCHANGED cpc
    /\ UNCHANGED <<m_stop_requested, wpc, terminated>>

RequestStop(t) ==
    /\ cpc[t] = "requestStop"
    /\ m_stop_requested' = TRUE
    /\ Goto(t, "notify")
    /\ UNCHANGED <<m_running, wpc, terminated, stopped>>

Notify(t) ==
    /\ cpc[t] = "notify"
    /\ wpc' = IF wpc = "blocked" THEN "testStop" ELSE wpc
    /\ Goto(t, "joinable")
    /\ UNCHANGED <<m_running, m_stop_requested, terminated, stopped>>

\* Mutant: Stop does not wait for the worker.
TestJoinableDetach(t) ==
    /\ cpc[t] = "joinable"
    /\ Goto(t, "idle") /\ stopped' = stopped \cup {t}
    /\ UNCHANGED <<m_running, m_stop_requested, wpc, terminated>>

TestJoinable(t) ==
    /\ cpc[t] = "joinable"
    /\ IF Joinable THEN Goto(t, "join") /\ UNCHANGED stopped
       ELSE Goto(t, "idle") /\ stopped' = stopped \cup {t}
    /\ UNCHANGED <<m_running, m_stop_requested, wpc, terminated>>

\* Two joins of one handle are undefined behaviour, or std::system_error that
\* nobody catches; of the possible outcomes the model keeps the last.
Join(t) ==
    /\ cpc[t] = "join" /\ wpc \in {"done", "none"}
    /\ wpc' = "none"
    /\ terminated' = (wpc = "none")
    /\ Goto(t, "idle") /\ stopped' = stopped \cup {t}
    /\ UNCHANGED <<m_running, m_stop_requested>>

-----------------------------------------------------------------------------
(* HeartbeatWorker: while (m_running && !m_stop_requested) { round; wait }  *)

WorkerAt(from, to) ==
    /\ wpc = from /\ wpc' = to
    /\ UNCHANGED <<m_running, m_stop_requested, cpc, terminated, stopped>>

TestRunning == WorkerAt("testRunning", IF m_running THEN "testRequest" ELSE "done")
TestRequest == WorkerAt("testRequest", IF m_stop_requested THEN "done" ELSE "round")
Round == WorkerAt("round", "testStop")
\* wait_for: the predicate, tested before the first sleep and at every wakeup,
\* and the sleep.  m_mutex makes them one step for those who take it; Stop,
\* which does not, may store its request and notify in between.
TestStop == WorkerAt("testStop", IF m_stop_requested THEN "testRunning" ELSE "sleep")
Sleep == WorkerAt("sleep", "blocked")

\* Mutant: wait() instead of wait_for().  It never returns by itself.
WaitForever == FALSE /\ UNCHANGED lifecycleVars

WaitTimeout == WorkerAt("blocked", "testRunning")

Worker == TestRunning \/ TestRequest \/ Round \/ TestStop \/ Sleep \/ WaitTimeout

-----------------------------------------------------------------------------
Call(t) ==
    \/ ClearStop(t) \/ Launch(t)
    \/ RequestStop(t) \/ Notify(t) \/ TestJoinable(t) \/ Join(t)

LifecycleNext ==
    /\ ~terminated
    /\ \/ \E t \in Threads : Start(t) \/ Stop(t) \/ Call(t)
       \/ Worker

\* Every runnable thread is scheduled, and a wait_for times out.
LifecycleFairness ==
    /\ \A t \in Threads : WF_lifecycleVars(~terminated /\ Call(t))
    /\ WF_lifecycleVars(~terminated /\ Worker)

LifecycleSpec == LifecycleInit /\ [][LifecycleNext]_lifecycleVars
LifecycleFairSpec == LifecycleSpec /\ LifecycleFairness

-----------------------------------------------------------------------------
(* Properties.                                                             *)

LifecycleTypeOK ==
    /\ m_running \in BOOLEAN /\ m_stop_requested \in BOOLEAN
    /\ cpc \in [Threads -> {"idle", "clearStop", "launch",
                           "requestStop", "notify", "joinable", "join"}]
    /\ wpc \in {"none", "testRunning", "testRequest", "round", "testStop",
                "sleep", "blocked", "done"}
    /\ terminated \in BOOLEAN
    /\ stopped \in SUBSET Threads

\* No sequence of Start and Stop makes the C++ runtime kill the process: a
\* thread is never assigned over a joinable one nor joined twice.
NoTerminate == ~terminated

\* When Stop has returned, and until somebody calls Start again, there is no
\* worker: the singleton may be destroyed.  When it was started and nobody is
\* in a call, the worker exists, is in its loop and will not leave it: a
\* service registered now is going to be probed.
MeansWhatItSays ==
    /\ stopped # {} => wpc = "none"
    /\ m_running /\ (\A t \in Threads : cpc[t] = "idle")
           => ~m_stop_requested /\ wpc \notin {"none", "done"}

\* Stop returns, the notification lost or not.
StopReturns == \A t \in Threads : InStop(t) ~> cpc[t] = "idle"

\* The worker of a heartbeat that stays on begins round after round.
KeepsScanning == []<>(wpc = "round" \/ ~m_running)
=============================================================================
