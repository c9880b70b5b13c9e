----------------------------- MODULE ZkRegistry -----------------------------
(***************************************************************************)
(* Service registration: ZrpcProvider::Run publishes the methods of a      *)
(* provider as nodes of ZooKeeper through ZkClient::Create.  A service is  *)
(* a persistent node, a method an ephemeral one below it, which holds the  *)
(* provider's address and goes when the provider's session expires.        *)
(*                                                                         *)
(* Create is two operations on the server, exists and create, and other    *)
(* providers run in between.  The session of a process that has ended      *)
(* lives on until it times out: neither a crash nor exit() closes it.      *)
(***************************************************************************)
EXTENDS Integers, Sequences

CONSTANTS
    Providers,  \* provider processes; a provider's name is its address
    Services, Methods,
    ServiceOf,  \* ServiceOf[m]: the service of method m
    PathsOf,    \* PathsOf[p]: the nodes p publishes, in the order of its maps
    NoSession,
    MaxRuns,    \* bound: MaxRuns[p], how often p's process is started
    Impatient,  \* TRUE: it may be started while its last session is still alive
    Partition,  \* TRUE: the session of a running process may expire
    Lossy       \* TRUE: an operation may end with ZCONNECTIONLOSS

Sessions == UNION {{p} \X (1 .. MaxRuns[p]) : p \in Providers}

ASSUME ConstantsAssumption ==
    /\ Services \cap Methods = {}
    /\ ServiceOf \in [Methods -> Services]
    /\ PathsOf \in [Providers -> Seq(Services \cup Methods)]
    /\ \A p \in Providers : \A i, j \in 1 .. Len(PathsOf[p]) :
          PathsOf[p][i] = PathsOf[p][j] => i = j
    /\ NoSession \notin Sessions
    /\ MaxRuns \in [Providers -> Nat]
    /\ {Impatient, Partition, Lossy} \subseteq BOOLEAN

\* Run iterates over the methods of a service right after it created its node.
ASSUME OrderAssumption ==
    \A p \in Providers : \A j \in 1 .. Len(PathsOf[p]) :
        PathsOf[p][j] \in Methods =>
            \E i \in 1 .. j - 1 : PathsOf[p][i] = ServiceOf[PathsOf[p][j]]

VARIABLES
    sessions,    \* the sessions the server keeps alive
    persistent,  \* the service nodes there are
    owner,       \* per method: the session that owns its node, or NoSession
    pc,          \* per provider: "down", "exists", "create", "serving", "exited"
    run,         \* per provider: how often it was started
    next,        \* per provider: the index of the node Run is at
    skipped,     \* history, per provider: the method nodes it did not try to create
    undisturbed, \* history: no session has expired since the provider started
    lost         \* history: the providers that have lost an answer since then

server == <<sessions, persistent, owner>>
history == <<skipped, undisturbed, lost>>
vars == <<server, pc, run, next, history>>

Init ==
    /\ sessions = {} /\ persistent = {}
    /\ owner = [m \in Methods |-> NoSession]
    /\ pc = [p \in Providers |-> "down"]
    /\ run = [p \in Providers |-> 0]
    /\ next = [p \in Providers |-> 1]
    /\ skipped = [p \in Providers |-> {}]
    /\ undisturbed = [p \in Providers |-> TRUE] /\ lost = {}

Me(p) == <<p, run[p]>>
Path(p) == PathsOf[p][next[p]]
\* What zoo_exists tells: that there is a node, not whose it is.
Present(path) == IF path \in Services THEN path \in persistent ELSE owner[path] # NoSession
ParentPresent(path) == path \in Methods => ServiceOf[path] \in persistent

Goto(p, l) == pc' = [pc EXCEPT ![p] = l]

-----------------------------------------------------------------------------
(* A provider's process.                                                   *)

\* Mutant: the loop over the nodes begins at the first method.
StartAtMethods(p) ==
    /\ pc[p] \in {"down", "exited"} /\ run[p] < MaxRuns[p]
    /\ Impatient \/ Me(p) \notin sessions
    /\ run' = [run EXCEPT ![p] = @ + 1]
    /\ sessions' = sessions \cup {<<p, run[p] + 1>>}
    /\ next' = [next EXCEPT ![p] = 2]
    /\ skipped' = [skipped EXCEPT ![p] = {}]
    /\ undisturbed' = [undisturbed EXCEPT ![p] = TRUE] /\ lost' = lost \ {p}
    /\ Goto(p, "exists")
    /\ UNCHANGED <<persistent, owner>>

\* The process begins and ZkClient::Start has connected.
Start(p) ==
    /\ pc[p] \in {"down", "exited"} /\ run[p] < MaxRuns[p]
    /\ Impatient \/ Me(p) \notin sessions
    /\ run' = [run EXCEPT ![p] = @ + 1]
    /\ sessions' = sessions \cup {<<p, run[p] + 1>>}
    /\ next' = [next EXCEPT ![p] = 1]
    /\ skipped' = [skipped EXCEPT ![p] = {}]
    /\ undisturbed' = [undisturbed EXCEPT ![p] = TRUE] /\ lost' = lost \ {p}
    /\ Goto(p, "exists")
    /\ UNCHANGED <<persistent, owner>>

Skip(p) ==
    /\ next' = [next EXCEPT ![p] = @ + 1]
    /\ skipped' = [skipped EXCEPT ![p] = @ \cup ({Path(p)} \cap Methods)]
    /\ UNCHANGED pc
Proceed(p) == Goto(p, "create") /\ UNCHANGED <<next, skipped>>

\* zoo_exists.  Only ZNONODE leads to zoo_create: a node that is there is taken
\* for the provider's own, whoever created it, and so is an error.
Exists(p) ==
    /\ pc[p] = "exists" /\ next[p] <= Len(PathsOf[p])
    /\ \/ (Present(Path(p)) \/ Me(p) \notin sessions) /\ Skip(p) /\ UNCHANGED lost
       \/ Lossy /\ Skip(p) /\ lost' = lost \cup {p}
       \/ Me(p) \in sessions /\ ~Present(Path(p)) /\ Proceed(p) /\ UNCHANGED lost
    /\ UNCHANGED <<server, run, undisturbed>>

\* What zoo_create does on the server.
CanCreate(p) == Me(p) \in sessions /\ ~Present(Path(p)) /\ ParentPresent(Path(p))
Apply(p) ==
    /\ persistent' = persistent \cup ({Path(p)} \cap Services)
    /\ owner' = [m \in Methods |-> IF m = Path(p) THEN Me(p) ELSE owner[m]]

\* Mutant: ZNODEEXISTS is no error.
CreateTaken(p) ==
    /\ pc[p] = "create"
    /\ \/ CanCreate(p) /\ Apply(p)
       \/ Me(p) \in sessions /\ Present(Path(p)) /\ UNCHANGED <<persistent, owner>>
    /\ next' = [next EXCEPT ![p] = @ + 1]
    /\ Goto(p, "exists")
    /\ UNCHANGED <<sessions, run, history>>

CreateOk(p) ==
    /\ pc[p] = "create" /\ CanCreate(p)
    /\ Apply(p)
    /\ next' = [next EXCEPT ![p] = @ + 1]
    /\ Goto(p, "exists")
    /\ UNCHANGED <<sessions, run, history>>

\* Any error is exit(EXIT_FAILURE); a connection lost during the operation may
\* have lost the answer only.
CreateFail(p) ==
    /\ pc[p] = "create"
    /\ \/ ~CanCreate(p) /\ UNCHANGED <<server, lost>>
       \/ /\ Lossy /\ lost' = lost \cup {p}
          /\ \/ UNCHANGED server
             \/ CanCreate(p) /\ Apply(p) /\ UNCHANGED sessions
    /\ Goto(p, "exited")
    /\ UNCHANGED <<run, next, skipped, undisturbed>>

\* server->start(); event_loop.loop(), which never returns
Serve(p) ==
    /\ pc[p] = "exists" /\ next[p] > Len(PathsOf[p])
    /\ Goto(p, "serving")
    /\ UNCHANGED <<server, run, next, history>>

Crash(p) ==
    /\ pc[p] \notin {"down", "exited"}
    /\ Goto(p, "down")
    /\ UNCHANGED <<server, run, next, history>>

-----------------------------------------------------------------------------
(* The server ends a session and removes its nodes.  A process that is     *)
(* told so does nothing: global_watcher looks for ZOO_CONNECTED_STATE only.*)

Dead(s) == s # Me(s[1]) \/ pc[s[1]] \in {"down", "exited"}

\* Mutant: the method nodes are created without ZOO_EPHEMERAL.
ExpireKeepsNodes(s) ==
    /\ s \in sessions
    /\ Dead(s) \/ Partition
    /\ sessions' = sessions \ {s}
    /\ undisturbed' = [p \in Providers |-> FALSE]
    /\ UNCHANGED <<persistent, owner, pc, run, next, skipped, lost>>

Expire(s) ==
    /\ s \in sessions
    /\ Dead(s) \/ Partition
    /\ sessions' = sessions \ {s}
    /\ owner' = [m \in Methods |-> IF owner[m] = s THEN NoSession ELSE owner[m]]
    /\ undisturbed' = [p \in Providers |-> FALSE]
    /\ UNCHANGED <<persistent, pc, run, next, skipped, lost>>

-----------------------------------------------------------------------------
Run(p) == Exists(p) \/ CreateOk(p) \/ CreateFail(p) \/ Serve(p)

Next ==
    \/ \E p \in Providers : Start(p) \/ Run(p) \/ Crash(p)
    \/ \E s \in Sessions : Expire(s)

\* A process that runs goes on, and the server does end dead sessions.
Fairness ==
    /\ \A p \in Providers : WF_vars(Run(p))
    /\ \A s \in Sessions : WF_vars(Dead(s) /\ Expire(s))

Spec == Init /\ [][Next]_vars
FairSpec == Spec /\ Fairness

-----------------------------------------------------------------------------
(* Properties.                                                             *)

TypeOK ==
    /\ sessions \in SUBSET Sessions
    /\ persistent \in SUBSET Services
    /\ owner \in [Methods -> Sessions \cup {NoSession}]
    /\ pc \in [Providers -> {"down", "exists", "create", "serving", "exited"}]
    /\ run \in [Providers -> Nat] /\ \A p \in Providers : run[p] <= MaxRuns[p]
    /\ next \in [Providers -> Nat \ {0}]
    /\ skipped \in [Providers -> SUBSET Methods]
    /\ undisturbed \in [Providers -> BOOLEAN]
    /\ lost \in SUBSET Providers

\* The methods p publishes.
MethodsOf(p) == {PathsOf[p][i] : i \in 1 .. Len(PathsOf[p])} \cap Methods

\* What a provider that serves, and has its session, has published: the node of
\* a method is its own and holds its address, unless it did not try to create
\* it.  Such a node is another session's, and clients are sent to whoever that
\* was, another provider or p before it was restarted; and that it is there at
\* all is only sure until a session expires, and if no answer was lost.
ServingIsPublished == \A p \in Providers :
    pc[p] = "serving" /\ Me(p) \in sessions => \A m \in MethodsOf(p) :
        IF m \notin skipped[p] THEN owner[m] = Me(p)
        ELSE undisturbed[p] /\ p \notin lost => owner[m] \in Sessions \ {Me(p)}

\* A provider gives up during registration only if another one created the
\* node between its exists and its create, or if it has lost its session or an
\* answer: it never finds a parent missing or its own node in the way.
ExitMeansRace ==
    [][\A p \in Providers : pc[p] = "create" /\ pc'[p] = "exited" =>
          \/ Me(p) \notin sessions \/ p \in lost'
          \/ Path(p) \in persistent
          \/ \E s \in Sessions : s[1] # p /\ Path(p) \in Methods /\ owner[Path(p)] = s]_vars

\* A node that a process left behind, when it crashed or when it gave up though
\* its create had been applied, does not send clients to it for ever.
StaleNodeGoes == \A m \in Methods : \A s \in Sessions :
    owner[m] = s /\ Dead(s) ~> owner[m] # s

\* Clients are sent to the address of a provider that serves for good again and
\* again, whatever happened before: restarts, expired sessions.
ServingStaysDiscoverable == \A p \in Providers :
    <>[](pc[p] = "serving") =>
        \A m \in MethodsOf(p) : []<>(\E s \in Sessions : s[1] = p /\ owner[m] = s)
=============================================================================
