# A TLA+ model of the ZooKeeper-based RPC framework

The repository is a small RPC framework in C++: a provider publishes its
services in ZooKeeper and serves them over muduo, a client's `ZrpcChannel` looks
a method up, asks a heartbeat detector whether the address is worth trying,
connects and makes one call; callers keep their channels for more. Two services ship with it, a user service and a
cache, and two client programs. These modules model that code, `TLC` checks them
on small instances and `TLAPS` proves the core of them for every value of the
constants.

    tlasany M.tla                          parse a module
    tlc -workers 2 -config X.cfg M         check run X (see PROJECT.json, "runs")
    tlapm M.tla                            check the proofs of module M

`PROJECT.json` has the machine-readable index: components, runs, the source
lines every definition stands for, hazards, findings and theorems.

## 1. Inventory

| Component (source under `src/`) | State | Operations | What is hard |
|---|---|---|---|
| Heartbeat detector (`src/ZrpcHeartbeat.cc`) | `m_services` with `last_heartbeat`, `m_mutex` | `RegisterService`, `UnregisterService`, `IsServiceAvailable`, `TriggerHeartbeat`, the worker's round and wait | one mutex held during blocking connects; time read once per round; an iterator kept across them |
| Heartbeat lifecycle (same file) | `m_running`, `m_stop_requested`, the thread handle, `m_cv` | `Start`, `Stop`, the destructor, the worker's loop | two atomics and no lock; a notification that can be lost |
| Admission gate (`src/Zrpcchannel.cc:49-58`) | the channel's `m_service_key` | register, then ask | two critical sections where one is meant |
| RPC channel (`src/Zrpcchannel.cc`) | `m_clientfd`, names, the process's descriptors | `CallMethod`, `newConnectWithTimeout` | a closed number that is kept, and reused by others; many error paths, some without `close`; no receive timeout; one `recv` for a whole reply |
| ZooKeeper client (`src/zookeeperutil.cc`) | the global flag, mutexes and condition variable; a handle | `Start`, `Create`, `GetData`, `global_watcher` | globals shared by all handles; callbacks on other threads |
| Service registry (`src/Zrpcprovider.cc:25-84`) | nodes, sessions | `ZrpcProvider::Run` | check-then-create across processes; restart before the old session is gone; sessions that expire unnoticed |
| RPC provider (`src/Zrpcprovider.cc:86-172`) | service map, four IO loops | `OnConnection`, `OnMessage`, `SendRpcResponse` | whatever has arrived is one request; requests that block an IO thread |
| Wire messages (`example/user.pb.*`, `src/Zrpcheader.pb.*`) | fields, unknown fields | parse, serialise, size, clear, merge; the tables of methods | what a message that is cut is read as |
| Cache service (`example/callee/CacheService.*`) | the table, four counters, the cleanup thread | `Get`, `Set`, `Delete`, `Exists`, `BatchGet`, `GetStats`, the destructor | lazy expiry under a shared lock; counters outside it |
| User service (`example/callee/UserService.*`) | one channel to the cache, shared by all IO threads | `Login`, `Register`, `SumtoN`, `GetUserProfile` | RPC from within RPC, to the same process; a shared channel |
| Load generator (`example/caller/Zclient.cc`) | counters; two channels per thread | three modes | calls that fail without saying so; the wrong controller |
| Integrated client (`example/caller/integrated_client.cc`) | two kept channels | cache-aside flows | the same, in sequence |
| Configuration, application singleton (`src/Zrpcconfig.cc`, `src/Zrpcapplication.cc`) | a map | `LoadConfigFile`, `Trim`, `Load`; `Init` | line buffers, line ends, two readers of one command line |
| Controller (`src/Zrpccontroller.cc`) | a flag and a text | setters and getters | kept beyond the call it belongs to, or missing |
| Connection pool, logger, server main | – | – | declarations only; output; calls of the above |

How they meet: `CallMethod` calls `ZkClient::Start` and `GetData`, then the
detector, then the network; the detector's worker thread shares `m_mutex` with
the callers; `Run` calls `ZkClient::Create`; the user service is a client and a
part of a provider at once.

What makes each correct, in a sentence:

* detector: whoever answers stays, whoever does not is gone after a bounded
  number of failed probes, and nobody changes the table under the iterator;
* lifecycle: after `Stop` there is no worker, after `Start` there is one that
  scans, and no order of calls terminates the process;
* gate: a call is not refused because of the gate's own delay, and a service
  known to be down is;
* channel: a call sends on its own connection, gets its own reply or fails
  visibly, closes what it opened and nothing else, and returns. A kept channel can
  break this, and the properties say exactly how;
* ZooKeeper client: no waiter is left asleep, every lookup returns;
* registry: who serves has published its address, who is gone cannot be found;
* provider and messages: a request is executed as it was sent or not at all,
  what arrives is answered, and a reply is read as it was written;
* cache: callers see a map with times to live, the memory of expired entries
  comes back, every lookup is counted once;
* user service: every caller gets the answer to its own request, whatever the
  loops do to each other's cache calls, and gets it some day;
* clients: what the counters say follows from what the calls did, and nothing is
  cached that no service said;
* configuration: a client connects to the address the provider's file names.

## 2. Modules

| Module | Models | Checked by | Proved in |
|---|---|---|---|
| `ZrpcHeartbeat` | the detector, with a clock | `heartbeat`, `gate` | `ZrpcHeartbeatProofs` |
| `HeartbeatGate` | a channel's gate composed with the detector (extends it) | `gate` | `ZrpcHeartbeatProofs` |
| `HeartbeatLifecycle` | `Start`/`Stop` against the worker thread | `lifecycle` | `ZrpcHeartbeatProofs` |
| `ZrpcChannel` | `CallMethod` by the threads of a process | `channel` | `ZrpcChannelProofs` |
| `ProtoMessages` | the messages as bytes (used by `RpcFraming`) | `framing` | `ProtoMessagesProofs` |
| `RpcFraming` | one call over byte streams, from `CallMethod` to `OnMessage` and back | `framing` | `RpcFramingProofs` |
| `ZkRegistry` | `Run` and `Create` against a ZooKeeper server | `registry`, `registry_restart` | `ZkRegistryProofs` |
| `ZkClientStart` | `Start`, `GetData`, the watcher callbacks | `client_start` | `ZkRegistryProofs` |
| `CacheService` | the cache, implementing `TtlMap` | `cache` | `CacheServiceProofs` |
| `TtlMap` | abstract: a map with times to live | as a property of `cache` | – |
| `UserService` | the provider's loops with both services in them | `user`, `nested_deadlock` | `UserServiceProofs` |
| `ClientPrograms` | the load generator and `IntegratedClient` | `clients` | `ClientProgramsProofs` |
| `ZrpcConfig` | command line, configuration file, node data, address | `clients` | – |

Each run's module (`MCHeartbeat`, `MCGate`, `MCLifecycle`, `MCChannel`,
`MCFraming`, `MCRegistry`, `MCClientStart`, `MCCache`, `MCUser`, `MCClients`)
gives the constants values for TLC. An operator with the comment "Mutant" is a
plausible slip of the definition that follows it; putting it in that definition's
place makes TLC report the property PROJECT.json pairs it with.

### Detector, gate, lifecycle

`ZrpcHeartbeat` keeps the names of the code. A key stands for its entry and its
node; `reachable` is the environment. The clock counts seconds and threads are
timely: time passes only in a probe (at most `ProbeTime`), in the worker's wait
(`Interval`, late by at most `Latency`) and while the mutex is taken, so that a
round's length is bounded as it is in the code. The worker's local `now` is a
variable, because that is what it writes into the entries it refreshes. `misses`
is a history variable: failed probes since the last answer.

`HeartbeatGate` adds one client thread with the two separate critical sections
of `CallMethod`; registrations by other threads go on meanwhile. Nobody calls
`UnregisterService` or `TriggerHeartbeat` in the repository, so the gate's
composition leaves them out (`ZrpcHeartbeat` has them).

`HeartbeatLifecycle` is the same class at the granularity of one atomic access
per step and without the table. `wait_for` is two steps, the test of the
predicate and the sleep, since `Stop` takes no mutex and may notify in between.

### Channel

Steps are system calls. A connection is named after the call that opened it, a
request and a reply after the call that sent the request, so that cross talk is
visible; what a descriptor number stands for is in `fdConn`, and `socket()`
returns the lowest free number. `m_clientfd` keeps its number after `close`, as
in the code. A thread keeps its channels (`ChannelsOf`) over all its calls, as
`Zclient.cc:18-60`, `integrated_client.cc:17-27` and `UserService.cc:20` do. A
call that finds a number in its channel is a kept call: it looks nothing up,
connects nothing and sets no names, but sends on, reads from and closes whatever
the number stands for by then. `met` is a history variable: some kept call has
sent on its old number, or closed it, while another call in progress had it.
`Unchecked` is the set of methods called with a null controller
(`Zclient.cc:60`): the error paths after the connect then end the process.
`Faulty` are the threads whose lookups, connects, requests and connections may
fail, and whose requests the provider may leave unanswered. Of the paths after
the connect two leave the socket open, and both are there: a request or header
that cannot be serialised (`SerializeFail`) and an error of `recv` (`RecvFail`);
`unserialized` and `recvErrors` remember whose they were. An end of file is an
empty message, which parses. `SIGPIPE` is taken to be ignored. `Probers` are the
other threads that take descriptors from the same table: the heartbeat's worker,
whose probes open, connect and close, and lookups with their ZooKeeper handle,
which look the same from here.

### Messages and framing

`ProtoMessages` is what `protoc` generated, once for all classes: a class is its
layout, the kinds of its fields by number, and parsing, serialising, sizes,
clearing and merging are operators on layouts and sequences of bytes, with
varints, tags, negative integers of ten bytes, unknown fields and groups as the
parser treats them. Serialising goes from a message to the list of the fields it
writes (`Written`) and from there to bytes; parsing takes one field at a time
(`FieldAt`, `ReadField`), as one round of `_InternalParse`'s loop does. A class
whose fields are no messages is read and written by the `Flat` operators, one
that has such messages in it by the others. No class of the repository nests
deeper, and so nothing here is recursive but functions of a position.
Of a double neither zero is written (`Unwritten`), so -0.0 comes back as 0.0; it is
no value that a program here sends, and `ReadsBack` is about those. `IsMessage` is
what a program can put in a message. The service descriptors are
tables from method names to layouts.

`RpcFraming` puts one call on two byte streams. `Encode` is the request as
`CallMethod` writes it (`args_str`, `Zrpcheader`, `header_str` are its locals),
`Decode` what `OnMessage` makes of a buffer. `Arrive`
delivers any non-empty piece; `OnMessage` empties the buffer whatever is in it
and drops what it cannot read; the client's single `recv` gets any prefix of at
most `RecvMax` bytes. The rest of a request that was cut is read as a request of
its own, on which nothing is promised: the properties speak of the first read,
and of replies to the call's own method. `ConstantsAssumption` says that calls
and replies are of the methods there are and of the types of their fields, that
each length fits the `uint32_t` and `int` it is kept in, that names are not empty
and that no two are the same.

### Registry and ZooKeeper client

`ZkRegistry` has the server's state (sessions, persistent service nodes, the
sessions that own the ephemeral method nodes) and the providers' progress
through their list of nodes. `Create` is two operations on the server. Both may
lose their answer (`Lossy`), sessions outlive their process until `Expire`, and
a process may be started again before that (`Impatient`). Nothing reacts to an
expired session, as in `global_watcher`. A node belongs to the session that
created it and has that provider's address. A provider that finds a node there
skips it (`skipped` remembers which, `zookeeperutil.cc:67`) and goes on to serve;
that its clients then go elsewhere, and that the node goes with the other's
session, is in `ServingIsPublished`.

`ZkClientStart` is the same file seen by client threads: per call a new handle,
one global flag, one condition variable, and `GetData` under a global mutex.

### Cache

Requests that write happen under the exclusive lock and are one step; requests
that read hold the lock in shared mode and go step by step, since the clock and
the counters move meanwhile. The cleanup visits entries one at a time. The
refinement maps the table to its entries that have not expired: `CacheService`
may keep the others as long as it likes, but never answers with them. Memory
accounting and the `catch` clauses (allocation failure) are left out.

### User service

`UserService` is the provider process. A request is handled in the loop of its
connection (muduo hands connections out round robin) and blocks it; the handlers
of `Login`, `Register`, `SumtoN` and `GetUserProfile` make up to two cache calls
through the one channel of the service, whose system calls are steps as in
`ZrpcChannel`. Such a call connects to the process's own address, so its other
end is accepted by one of the same loops. One table holds the descriptors of
both ends: when the channel's number has been closed and given to an accepted
connection, a later cache call writes into somebody else's connection
(`RecvSteals`), or closes it (`CloseClientfd`; `severed` remembers that). A
handler's answer goes to the number its connection had (`Answer`, as
`SendRpcResponse` does), which by then may be another caller's. A connection that
ends gives its reader an empty message, a reset one an error. When no descriptor is
left for the accepted end, the connect succeeds all the same and the acceptor
closes the connection (`ConnectUnaccepted`). `robbed` remembers the loops that
wait for a reply on a connection from which another loop has read since. Keys and values are what a request makes
of them; `SumtoN` wraps at `Width` bits. `Asks` says who may ask what: any
assignments of requests to some of the callers; `ThreadNum` how many loops
the provider runs for each.

### Clients and configuration

`ClientPrograms` has a thread per client thread, each with two kept channels and
a script of calls (`send_request`, `test_cache_service`,
`test_integrated_business`, or the main of `IntegratedClient`). A call may end in
every way `ZrpcChannel` allows, as its caller sees it: not found or no connection
(nobody is told), refused by the gate, answered, ended (an end of file taken for
a reply), lost, or on a descriptor that is closed by now. `seen` records which of
them a thread has met. Where a call would go out on a number that is another
socket's by now, the model gives the process up (`Borrow`), since from there on
it is the subject of `ZrpcChannel`'s `met`. After a reset the send fails as on a closed
descriptor; that a process which does not ignore `SIGPIPE` dies is left out. The cache and the user service are what they hold.
`Programs` says which thread may run what. At most one thread runs
`IntegratedClient`, whose `main` starts none (`ConstantsAssumption`); `After` is
the code that follows a call, by program, and `IntegratedClient` dispatches to
the functions that `main` calls.

`ZrpcConfig` is sequential text processing, as operators: `getopt` in `Init`,
`fgets` with its buffer, `Trim`, `insert`, `sprintf` of the node's data, the
buffer of `GetData`, the two `substr` and the `uint16_t` of `CallMethod`. Its
property is evaluated over small files in `MCClients`, beside the client
programs that start with what it says.

## 3. Runs

| Run | Shows | Instance and why it is enough |
|---|---|---|
| `heartbeat` | `TypeOK`, `IteratorValid`, `MissesBound`, `LastHeartbeatMonotone` | 2 services, one of them probed by hand too, interval 2, probe 1, timeout 6, clock to 11: several rounds within a timeout, an eviction and a registration after it. All four are proved for all values |
| `gate` | `EvictionNeedsMisses`, `DetectionBound`, `RefusalIsLate` | 2 services, no probes by hand, interval 1, probe 1, timeout 4, clock to 10: the oldest entry the bound forbids fits in (it is 9), a thread can be held up for a whole timeout. Proved for all values |
| `lifecycle` | `NoTerminate`, `MeansWhatItSays`, `StopReturns`, `KeepsScanning` | 4 threads, calls of `Stop` that overlap no other call; all states, no bound |
| `channel` | `NoCrossTalk`, `OwnConnection`, `KeptCallFails`, `LeakOnlyOnError`, `NoForeignClose`, `CallsReturn` | 2 callers and 1 prober on 2 descriptors; the first caller makes 2 calls, of 2 methods (one with a null controller), on the one channel it keeps, and everything about it may fail; the other makes one. Three want two numbers: numbers run out, are handed on, and the kept one comes back as the other caller's and as the probe's. 199,126 states; the first five and the types are proved for all values |
| `framing` | `FirstReadIsCallOrDefaults`, `WholeIsAnswered`, `ReplyIsCut`, `ReadsBack` | one call of each of the ten methods, two of them with other arguments (negative, empty); one-byte names; any split of the request into pieces, any prefix of the reply. `RecvMax = 12` is shorter than several replies, as 1024 is than a long batch. The three invariants are proved for all values |
| `registry` | `ServingIsPublished`, `ExitMeansRace`, `StaleNodeGoes` | 2 providers of the same 2 services, one restarted, all faults on: both race for each node, so that either skips one, the other or both, and the restarted one finds its own old nodes |
| `registry_restart` | refutes `ServingStaysDiscoverable` | 1 provider restarted while its old session lives; no other fault |
| `client_start` | `NoLostWakeup`, `LookupReturns` | 2 threads, 2 calls each, disconnections |
| `cache` | `ImplementsTtlMap`, `ReaderEntryStays`, `LookupsCounted`, `ExpiredIsPurged`, `DestructorReturns` | 2 threads, 2 keys, 3 requests, times to live -1, 0 and 1, clock to 2: a deadline before, at and after the clock, a batch across a deadline, an overwrite under a cleanup |
| `user` | `AnswerRight`, `NothingIsCached`, `CacheCallReturns`, `AnsweredUnlessBlocked` | 3 callers, 5 descriptors: three callers and the channel's two ends, so that a closed number comes back as another end. 3 loops, of which all are used for two callers that share a key: two of them can then wait on one connection to the third, which is what `robbed` takes (the code's fourth loop adds a waiter of the same kind); 2 for the others, so that a cache call's connection goes to the other loop or, when another caller came in between, back to the loop that makes it. Two callers make each of the four methods once, and three make a `Register` each, which is what an answer on the wrong connection takes; ints of 5 bits, `SumtoN` of the largest sum that fits. The two invariants are proved for all values |
| `nested_deadlock` | refutes `EveryCallEnds` | the same callers, 2 loops and 4 descriptors, without any fault |
| `clients` | `OutcomeFollows`, `SessionMeansLogin`, `ProfileIsOwnOrEmpty`, `EndIsExplained`, `StartsAsConfigured` | 2 threads of the mode that can end the process, one of each other program, 2 rounds (the second meets what the first left in the cache); files of up to 2 lines, lines of up to 11 characters and one that the buffer splits, command lines of up to 4 words; `DataMax = 8` holds the addresses in use. The first four are proved for all values |

`CHECK_DEADLOCK FALSE` stands where the program comes to rest: calls, starts and
requests are bounded by `MaxCalls`, `MaxRuns`, `MaxOps`, `Rounds` or the set of
callers, the cache is destroyed, and in `UserService` loops do block for ever.
Runs of the detector and of its lifecycle need it not.

Fairness, where a run checks liveness:

* `lifecycle`: weak fairness of a call in progress and of the worker. The
  operating system schedules threads, and `wait_for` times out by itself; no
  fairness on beginning a call.
* `channel`: weak fairness of a call's next system call and of the provider
  serving a request it has not dropped. Nothing forces a failure, a hang-up or a
  new call. `CallsReturn` therefore names the one exception, a connection that
  the provider keeps open and on which nothing is under way: `recv` has no timeout.
  The request was lost, or a call that met this one took the reply.
* `framing`: TCP delivers what was sent, the provider's loop empties a buffer
  that is not empty, `recv` returns when there is something or the connection
  has ended. A crash need not happen.
* `registry`: weak fairness of a running registration and of the server ending
  the sessions of dead processes; live sessions need not expire, nobody need
  restart.
* `client_start`: a mutex waited for is got in the end although others take it
  again and again (strong fairness), connections are established, a `zoo_get`
  ends at the latest when its connection is lost.
* `cache`: requests in progress go on, the cleanup wakes up and gets its lock
  (weak: in the model no reader comes in for ever, see `MaxOps`).
* `user`, `nested_deadlock`: each loop goes on as long as it can, callers read
  what they are sent. Nobody has to ask.

### Disagreements between code and documents

Two runs refute a sentence of the documentation; PROJECT.json quotes it under
"findings": a provider restarted within its old session's timeout ends up serving
and unregistered (`registry_restart`), and a handler's cache call can be given
to the loop that waits for it, after which neither call ever ends
(`nested_deadlock`).

More can be read off the models, by a small change of a cfg, and no run is spent
on them:

* a service known to be down is called all the same, since every call registers
  it first: add `DeadIsRefused` to the PROPERTYs of `gate.cfg`
  (心跳机制分析.md:119, :124; `Zrpcchannel.cc:51`). Likewise four services that are
  down make a round as long as the timeout, and then a fifth that answered every
  probe is erased (`EvictionNeedsMisses` gives the exact condition,
  `RoundTime >= Timeout`); 保活机制.md:460 promises no misjudgement;
* threads that keep their channels, as the load generator's do, can read each
  other's replies once a closed number has been given to another, send their
  request under another's method, and close another's connection or a probe's:
  take `met \/` out of `NoCrossTalk` or `OwnConnection`, or `met' \/` out of
  `NoForeignClose`, and `channel.cfg` shows it (压测设计与实现.md:77 has a connection
  per thread). And a kept channel fails from its second call on even when nobody
  takes its number: that is `KeptCallFails`;
* a provider's answer can reach the wrong caller: one cache call's `close` of the
  shared channel's old number (`Zrpcchannel.cc:112`, `:131`, `:138`) closes the
  connection of a request that another loop is handling; the next caller gets
  the number and then the answer, where `Zrpcprovider.cc:178` says that it goes
  to the caller of the RPC. Take `\/ severed` out of `AnswerRight` and `user.cfg`
  shows it in twenty steps, without any fault;
* a call that fails to connect, or is not found, leaves the controller unfailed,
  and `Zclient.cc:44` counts it as a success: add `SuccessMeansAnswered` to
  `channel.cfg` (`Zrpcchannel.cc:68`);
* a batch is not of one instant: add `BatchIsAtomic` to `cache.cfg` (保活机制.md:305,
  `CacheService.cc:188`); an expired key read by `Get` stays in the table although
  保活机制.md:261 says that reading deletes it; `GetStats` may report a hit rate
  above one;
* a request that is cut just before `args_size` is executed with default
  arguments (the exception in `FirstReadIsCallOrDefaults`), and two requests in
  one buffer are read as one, though `Zrpcprovider.cc:95` and the README's
  paragraph on sticky packets (README.md:99) have lengths to prevent it;
* what the load generator counts (`OutcomeFollows`): with a provider that answers
  everything, the integrated mode counts one success and two failures per
  function, with one that cannot be reached two and one; the user mode ends in a
  null controller with the first and counts two successes with the second.
  `Register` is called with `nullptr` and judged by `Login`'s controller. The
  second `LoginWithCache` of `integrated_client.cc:252` fails where :252 and :256
  expect a hit;
* no command line selects a mode (压测设计与实现.md:238-244): `getopt` in `Init`
  takes `--user` for a mistake and ends the process (`StartsAsConfigured`);
* the user service never stores anything in the cache (`NothingIsCached`), since
  its channel is used up by the first lookup; `Zserver.cc:30` announces automatic
  caching;
* `bin/test.conf` ends its lines with CR LF, and the CR stays in the value;
  缓存服务.md:239 and :243 spell keys (`rpcserver_ip`, `zookeeper_ip`) that the code
  does not read; `GetData` reads a buffer that nothing terminates, hence the
  proviso in `ConfiguredAddressIsReached`;
* a profile that was asked for in vain, without any failure, is cached as empty
  (`ProfileIsOwnOrEmpty`);
* overlapping calls of `Start` and `Stop` (`Overlap = TRUE`) can assign over a
  joinable thread, which terminates the process, and a second `Stop` can return
  before the worker is gone; no code of the repository does this;
* a second provider that finds the first one's nodes serves without ever
  publishing its own: `ServingIsPublished` without its second case fails at once; an
  expired session is never replaced; an error of `zoo_exists` counts as
  "exists", so registration may be skipped silently (variable `lost`);
* `ZkClient::Start` returns at once when any earlier handle was connected.

Latent, since no code of the repository gets there: `SetHeartbeatCallback` writes
what the worker reads without the mutex (`ZrpcHeartbeat.cc:98`; no callers).

## 4. Proofs

All proofs hold for every value of the constants that satisfies the modules'
`ASSUME`s; extra hypotheses are part of the theorems. The definitions of
`HeartbeatLifecycle` and `ZkClientStart` that every module has (`Init`, `Spec`,
`vars`, `pc`) are named apart there, since their proofs share a module with
another component's.

`ZrpcHeartbeatProofs`. `Inv` joins types, who holds the mutex (`Holder`), and
that recorded times lie in the past, in particular before the running round's
`now` (`Past`). It is inductive as it stands and gives `TypeCorrect`,
`IteratorAlwaysValid` and, for a step, `HeartbeatsAdvance`: without `Past` the
worker's write of an old `now` could take a newer registration back. The timing
theorems `EvictionIsJustified` and `DetectionIsBounded` need two more: `Paced`,
which bounds the clock by the number of services the round has passed, and
`Aged`, which bounds an entry's age by its failed probes. They assume that
nobody calls `TriggerHeartbeat` (`Triggered = {}`): a manual probe holds the
mutex as long as it likes, again and again, and no bound on a round remains.
`MissesAreBounded` needs no such hypothesis: rounds begin at least `Interval`
apart and judge entries by the time they began, so each failed probe finds its
entry an interval older than the one before did (`Spaced`).

Its fourth part is about the gate. `GateUsesDetector`: each step of the
composition is one of the detector or leaves it alone, so `GateSpec => Spec` and the timing theorems
carry over (`GateEvictionIsJustified`, `GateDetectionIsBounded`).
`OnlyLateCallsRefused` rests on `Asking`: while the thread is between its two
critical sections its key is in the table no older than `regTime`, or it was
erased and the timeout has passed since.

Its fifth part is about `HeartbeatLifecycle`: `LifecycleSafe` and
`LifecycleMeansWhatItSays` for any number of threads, if `Stop` overlaps no other
call (`~Overlap`). The invariant says that one thread at a time is in a body, since
`m_running.exchange` lets one through, and in which state the handle is handed
to it. It fails without the hypothesis, see above.

`ZrpcChannelProofs`. For any number of threads, probers, kept channels, calls and
descriptors, under every fault: `TypeCorrect`, `RepliesAreOwn`,
`ConnectionsAreOwn`, `KeptCallsFail`, `OnlyErrorsLeak`, `FirstForeignCloseMeets`.
The invariant has two layers, `Base /\ (met \/ Clean)`. `Base` holds whatever kept
calls do to others: types, what a thread's variables say of each other at each
point of its call (`Local`), that a connection has at most one number, the one its
call got from `socket()`, as long as the call goes on or for ever after one of the
two errors (`Table`), and that nothing travels on a connection before it is made
(`Unused`). It gives `OnlyErrorsLeak` without any proviso. `Clean` holds until a
kept call meets another: no two calls go by one number (`Separate`); the number of
a call stands for the connection it opened, or, of a kept call that got through,
for one that an unserialisable request had left open, and only this call's
messages travel there (`Held`); what a call has got is its own and a kept call has
failed (`Outcome`); what was left open by an unserialisable request is empty
(`Left`). A step from `Clean` either sets `met` or leads to `Clean` again: a kept
call that sends or closes finds its number free, or left open, or another's, and
the last is what `Meets` says. A kept call that only reads finds what its own
`send` has found. Without `met` neither `Held` nor `NoCrossTalk` holds.

`ZkRegistryProofs`. `ServingMeansPublished`: for any number of providers and any
paths, restarts, crashes, lost answers and expiries, a provider that serves and has
its session owns the nodes of all its methods but those it found taken, and these
are another session's. `ServingIsPublished` speaks of the end of a registration;
`Progress` says it of one under way: of the nodes passed so far (`Published`), and
of those to come that the provider neither owns nor has skipped them (`Ahead`).
Without `Ahead` a node could be skipped because it is one's own. `FailureMeansRace`: a provider
gives up only because of another one, of its session or of a lost answer. Its
invariant `Unhindered` says that between `zoo_exists` and `zoo_create` a node that
has appeared is not its own (`Clear`), and that the services it has passed are
there as long as its session (`Passed`); the order of `PathsOf` is an assumption.

The end of the module is about `ZkClientStart`: `NobodyIsLeftAsleep`, with `Waiting`: the mutex is held
from the predicate's test to the sleep, and who goes to sleep has found the flag
unset, so whoever sets it later has still to notify.

`CacheServiceProofs`. `EntryStays` from who holds the lock (`Locks`);
`EveryLookupCounted`, with the threads between a lookup and its counter as the
difference (`Counted`), for a finite set of them; and `ServiceImplementsMap`, the refinement: initial states
map to initial states, and each step of the cache to one of `TtlMap` or to a
stutter, the cleanup and the counters to stutters, the clock to the step that
drops what has expired.

`UserServiceProofs`. For any callers and requests, loops, descriptors and width
of an int. Two layers of the invariant hold in every state: `Types`, and
`Handled`, that a handler works on the request of the caller whose connection
its loop has and makes cache calls about its key only (`TypeCorrect`,
`HandledIsAsked`). The others depend on what has happened so far, since the
loops share the channel without a lock:

* while no call has failed to connect (`Quiet`): the channel connects once, and
  the names it carries from then on are those of a call that found it
  unconnected, which is a handler's first one and never a `Set`. So whatever the
  loops send each other, nothing is stored and no lookup hits (`CacheStaysEmpty`);
* while no two loops have been inside of `CallMethod` at once (`Alone`): a request
  carries the name of what it asks, its reply is read by the loop that sent it,
  and a `Set` that is served stores its key's own value. With `Quiet` this gives
  `CacheIsSound`, which no run checks;
* while one of the two is so (`Results`): what a handler is going to answer, and
  every reply on its way to a caller, is what a request that was asked is due;
  its own request's, while the channel has closed no accepted connection's number.
  That is `AnswersAreRight`.

When both have happened a `Get` can be sent under the name `Set` and stores
nothing as a value, which is why the properties except that. The right answer of
`SumtoN` needs arithmetic: `SumtoNFits` shows, by the least index that would be
wrong, that the additions that wrap give `n * (n + 1) / 2` if that fits.

The proof attempt corrected the property. `AnswerRight` used to say that the
answer is to the caller's own request, and held in an instance of two callers.
`Handled` is inductive, but the step from "the number of my caller's connection"
to "my caller's connection" is not: see the disagreement above. The property now
says what holds, and the instance has three callers, in which the old one fails.

`ClientProgramsProofs`. For any number of threads that run any mix of the
programs, any number of rounds, with or without faults, if `IntegratedClient` is
one thread and no thread has its user's name (`ConstantsAssumption`). `Types`
includes where in its function a thread can be. `Data` follows what a caller is
about to store to the reply that made it do so, which gives `SessionsAreLoggedIn`
and `ProfilesAreOwnOrEmpty`; `Ends` ties each of the three ends of a
process to what the channel of the call has gone through: an index in a channel
that never connected comes from a lookup after which the gate or the connect
failed (`Found`), and a used channel from a call that was on its connection
(`Spoken`). What a thread has seen is never forgotten, and so the explanation
stays (`EndsAreExplained`). `OutcomesFollow` speaks of a thread between two
functions, and says what its counters and results are then. Its invariants
`LiveInv` and `DeadInv` say for each step inside of a function what has been
counted by then, and which of the two channels is still new; `LiveInv` needs
besides that the thread's session is in nobody's cache as long as the user
service has stored nothing, and therefore that no two threads share a session
that either of them caches (`NameFact`).

`ProtoMessagesProofs`. For every class of at most 15 fields (a tag is one byte)
with one level of submessages (`IsClass`) and every message of it:

* `SentExact`: what is written is read back as it was (-0.0 excepted, which is not
  written and no message that is sent has);
* `SentSize`: `ByteSizeLong`, which is computed apart, is the length of what is
  written; the length prefixes of submessages depend on it;
* `CutRead`: of the first n bytes, for any n, the class reads nothing or a message
  that has lost its end (`CutOf`). A cut in the middle of a value or of a
  submessage is always noticed;
* `PiecesMerge`: if the first n bytes can be read so can the others, and the merge
  of the two is the message.

All four follow from one description of the bytes, a record that has for each
element that is written the place where it ends (`IsWire`; `DeepWire` shows that
every message has one). `FieldAt` of bytes that begin where an element begins is
that element, and of bytes that end inside of it is an error, since a varint, a
double and a length can each tell that they are cut (`Extent` of a prefix). So
after each round the reader stands at the end of an element and holds the
elements it has passed, or has failed (`Reached`). That is an induction on the
number of rounds, not on data, and `UpTo` does it: the least number at which it
would fail leads to a contradiction. A recursive function is a `CHOOSE` and says
nothing before a function with its equation is shown to exist (`RoundsExist`,
`FlattenExists`), again by `UpTo`; that numbers have a least one in every set
comes from `WellFoundedInduction`. What is proved of a flat class serves twice, for the message and for its submessages.

`RpcFramingProofs`. For any calls, replies and names, any cut of the request, any
prefix of the reply and any size of the receive buffer: `FirstReadIsRight`,
`ReplyLosesOnlyItsEnd` and `EveryMessageIsReadBack`. `FirstBytes` is what they
rest on at the provider: `Decode` of the first n bytes of a request goes through
the cases of where the cut can be. In the length of the header and in the header
nothing is found, but for the one cut between the method's name and
`args_size`: it leaves a header that parses, with 0 for the size, and so the
call with its arguments emptied (`Emptied`). In the arguments the size says that
bytes are missing. The other case is the whole request (`WholeRequestIsRead`). At
the caller it is `CutRead`. The invariant `Inv` adds what relates the two streams
to the two ends: until the provider looks, `buffer \o flight` is the request
(`Unread`); whatever was executed, also on the rest of a cut request, is a
method that exists with a reply of its type (`AllCalls`); until the caller looks,
`down` is the reply to the only call that was executed (`Unanswered`); and a caller
that got nothing holds the response it made (`NoReply`). Neither property is
inductive alone: without `Unread` a first read could find anything, without
`Unanswered` a reply could be another's. `Inv` holds in all states of `framing`. All classes of the repository satisfy `IsClass` (`Classes`).

Only model-checked:

* liveness and everything under fairness, `StopReturns`, `KeepsScanning` and the
  "returns" properties of every component: `ENABLED` and the induction over time
  they need are out of the prover's reach;
* `WholeIsAnswered`, for the same reason; its safety half is `WholeRequestIsRead`;
* `StartsAsConfigured`: what recursive operators over lines and characters compute
  (`ZrpcConfig`: `Getopt`, `Pieces`, `Decimal`). It is about constants and not about
  steps: TLC evaluates it for the files listed.

## 5. Not modelled

* The connection pool, `HandleHeartbeat`, `IsHeartbeatRequest` and
  `EnableHeartbeatResponse` are declared and have no bodies.
* `newConnect`, the connecting constructor of `ZrpcChannel` and
  `SetHeartbeatCallback` have no callers; the controller's `SetStartTime`,
  `IsTimeout`, `CheckTimeout`, `StartCancel` and `NotifyOnCancel` are never
  consulted.
* `GetInstance` and its mutex guard an object without state.
* Of the generated classes `CopyFrom`, `Swap`, arenas, reflection and the tables
  of descriptors they need: memory management that no property here is about.
* Logging, timing figures, memory accounting of the cache and failures of
  allocation.
* The ZooKeeper server, sockets, protobuf's runtime and muduo are modelled as the
  code uses them. How a `shared_mutex` chooses between readers and writers is the
  library's; the `cache` run bounds the readers.

## 6. Plan

What is left, in order of importance:

1. A provider with several requests on one connection, pipelined, against an
   abstract one that answers each once (the client never pipelines, another
   would).
2. `ZrpcConfig` with functions of a position instead of recursive operators, as
   `ProtoMessages` has them, and a theorem on the address that a client takes out
   of a node's data.
3. The controller's timeouts, should the code come to consult them.
