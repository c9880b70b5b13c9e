---------------------------- MODULE ZkClientStart ----------------------------
(***************************************************************************)
(* ZkClient::Start and GetData as CallMethod uses them: every call of a    *)
(* client thread makes a ZkClient of its own, waits for its session and    *)
(* reads one node.  The flag the wait is for, its mutex and its condition  *)
(* variable are globals, shared by all the handles of the process.         *)
(***************************************************************************)
EXTENDS Naturals

CONSTANTS
    Threads,   \* client threads
    MaxCalls,  \* bound: calls of a thread
    Nobody,    \* not a thread
    Outage     \* TRUE: established sessions may be disconnected again

ASSUME StartAssumption == Nobody \notin Threads /\ MaxCalls \in Nat /\ Outage \in BOOLEAN

VARIABLES
    is_connected,
    cv_mutex,     \* who holds it, or Nobody
    g_data_mutx,  \* who is in GetData, or Nobody
    tpc,          \* per thread: "idle", "lock", "test", "sleep", "asleep", "get" or "blocked"
    handle,       \* per thread's handle: "none", "connecting", "connected"
    watcher,      \* per handle, global_watcher: "idle", "set" or "notify"
    calls         \* per thread: calls so far

startVars == <<is_connected, cv_mutex, g_data_mutx, tpc, handle, watcher, calls>>

StartInit ==
    /\ is_connected = FALSE
    /\ cv_mutex = Nobody /\ g_data_mutx = Nobody
    /\ tpc = [t \in Threads |-> "idle"]
    /\ handle = [t \in Threads |-> "none"]
    /\ watcher = [t \in Threads |-> "idle"]
    /\ calls = [t \in Threads |-> 0]

StepTo(t, l) == tpc' = [tpc EXCEPT ![t] = l]

-----------------------------------------------------------------------------
(* Start                                                                   *)

\* zookeeper_init connects in the background.
Begin(t) ==
    /\ tpc[t] = "idle" /\ calls[t] < MaxCalls
    /\ calls' = [calls EXCEPT ![t] = @ + 1]
    /\ handle' = [handle EXCEPT ![t] = "connecting"]
    /\ StepTo(t, "lock")
    /\ UNCHANGED <<is_connected, cv_mutex, g_data_mutx, watcher>>

\* The lock is taken, at first or on waking up.
Lock(t) ==
    /\ tpc[t] = "lock" /\ cv_mutex = Nobody
    /\ cv_mutex' = t
    /\ StepTo(t, "test")
    /\ UNCHANGED <<is_connected, g_data_mutx, handle, watcher, calls>>

\* cv.wait: the predicate, ...
Test(t) ==
    /\ tpc[t] = "test"
    /\ cv_mutex' = IF is_connected THEN Nobody ELSE cv_mutex
    /\ StepTo(t, IF is_connected THEN "get" ELSE "sleep")
    /\ UNCHANGED <<is_connected, g_data_mutx, handle, watcher, calls>>

\* ... and the release of the lock together with the sleep.
Sleep(t) ==
    /\ tpc[t] = "sleep"
    /\ cv_mutex' = Nobody
    /\ StepTo(t, "asleep")
    /\ UNCHANGED <<is_connected, g_data_mutx, handle, watcher, calls>>

-----------------------------------------------------------------------------
(* GetData under g_data_mutx, and the end of the handle.                   *)

GetData(t) ==
    /\ tpc[t] = "get" /\ g_data_mutx = Nobody
    /\ g_data_mutx' = t
    /\ StepTo(t, "blocked")
    /\ UNCHANGED <<is_connected, cv_mutex, handle, watcher, calls>>

\* zoo_get waits for the handle to connect; it fails (and the address is blank,
\* Resolve of ZrpcChannel) if the connection does.
\* zookeeper_close then waits for the handle's watcher.
GetDataDone(t) ==
    /\ tpc[t] = "blocked" /\ watcher[t] = "idle"
    /\ handle[t] = "connected" \/ Outage
    /\ g_data_mutx' = Nobody
    /\ handle' = [handle EXCEPT ![t] = "none"]
    /\ StepTo(t, "idle")
    /\ UNCHANGED <<is_connected, cv_mutex, watcher, calls>>

-----------------------------------------------------------------------------
(* The server, and the thread of each handle that runs global_watcher.     *)

Connect(t) ==
    /\ handle[t] = "connecting" /\ watcher[t] = "idle"
    /\ handle' = [handle EXCEPT ![t] = "connected"]
    /\ watcher' = [watcher EXCEPT ![t] = "set"]
    /\ UNCHANGED <<is_connected, cv_mutex, g_data_mutx, tpc, calls>>

\* The event of a lost connection only notifies.
Disconnect(t) ==
    /\ Outage
    /\ handle[t] = "connected" /\ watcher[t] = "idle"
    /\ handle' = [handle EXCEPT ![t] = "connecting"]
    /\ watcher' = [watcher EXCEPT ![t] = "notify"]
    /\ UNCHANGED <<is_connected, cv_mutex, g_data_mutx, tpc, calls>>

\* Mutant: the flag is set without the lock.
SetConnectedUnlocked(t) ==
    /\ watcher[t] = "set"
    /\ is_connected' = TRUE
    /\ watcher' = [watcher EXCEPT ![t] = "notify"]
    /\ UNCHANGED <<cv_mutex, g_data_mutx, tpc, handle, calls>>

SetConnected(t) ==
    /\ watcher[t] = "set" /\ cv_mutex = Nobody
    /\ is_connected' = TRUE
    /\ watcher' = [watcher EXCEPT ![t] = "notify"]
    /\ UNCHANGED <<cv_mutex, g_data_mutx, tpc, handle, calls>>

\* Mutant: notify_one instead of notify_all.
NotifyOne(t) ==
    /\ watcher[t] = "notify"
    /\ \/ \E u \in Threads : tpc[u] = "asleep" /\ StepTo(u, "lock")
       \/ (\A u \in Threads : tpc[u] # "asleep") /\ UNCHANGED tpc
    /\ watcher' = [watcher EXCEPT ![t] = "idle"]
    /\ UNCHANGED <<is_connected, cv_mutex, g_data_mutx, handle, calls>>

NotifyAll(t) ==
    /\ watcher[t] = "notify"
    /\ tpc' = [u \in Threads |-> IF tpc[u] = "asleep" THEN "lock" ELSE tpc[u]]
    /\ watcher' = [watcher EXCEPT ![t] = "idle"]
    /\ UNCHANGED <<is_connected, cv_mutex, g_data_mutx, handle, calls>>

-----------------------------------------------------------------------------
Step(t) == Lock(t) \/ Test(t) \/ Sleep(t) \/ GetData(t) \/ GetDataDone(t)
Watch(t) == SetConnected(t) \/ NotifyAll(t)

StartNext == \E t \in Threads : Begin(t) \/ Step(t) \/ Connect(t) \/ Disconnect(t) \/ Watch(t)

\* Threads run, mutexes are fair, the server takes connections, and a zoo_get ends
\* at the latest with the connection it waits on.
StartFairness == \A t \in Threads :
    /\ SF_startVars(Lock(t)) /\ WF_startVars(Test(t)) /\ WF_startVars(Sleep(t))
    /\ SF_startVars(GetData(t)) /\ SF_startVars(GetDataDone(t))
    /\ WF_startVars(Connect(t))
    /\ SF_startVars(SetConnected(t)) /\ WF_startVars(NotifyAll(t))

StartSpec == StartInit /\ [][StartNext]_startVars
StartFairSpec == StartSpec /\ StartFairness

-----------------------------------------------------------------------------
(* Properties.                                                             *)

\* Whoever sleeps is going to be woken: once some handle has connected, a
\* thread is asleep only while a notification is on its way.
NoLostWakeup ==
    is_connected /\ (\E t \in Threads : tpc[t] = "asleep")
        => \E t \in Threads : watcher[t] = "notify"

\* Start and the lookup return, all threads sharing one flag and one mutex.
LookupReturns == \A t \in Threads : tpc[t] # "idle" ~> tpc[t] = "idle"
=============================================================================
