---------------------------- MODULE ZrpcChannel ----------------------------
(***************************************************************************)
(* ZrpcChannel::CallMethod, one system call per step, by the threads of    *)
(* one client process.  The process has one table of file descriptors: a   *)
(* descriptor that is closed is handed out again by the next socket().  A  *)
(* thread keeps its channels over all its calls, as every caller does, and *)
(* a channel keeps the number of the one connection it ever makes, also    *)
(* when it is closed.  A call that finds a number there is a kept call.    *)
(*                                                                         *)
(* A connection is named <<t, n>>, the call that opened it; a request and  *)
(* its reply are named by the call that sent the request.  The provider is *)
(* seen from the client: it answers, may lose a request, and may hang up.  *)
(* SIGPIPE is ignored, so that a send to a dead peer fails.  Probers are   *)
(* what else takes descriptors while calls go on: the heartbeat's probes,  *)
(* and the ZooKeeper handles of lookups, which are not told apart.         *)
(***************************************************************************)
EXTENDS Integers, Sequences

CONSTANTS
    Threads,         \* the threads of the process
    Probers,         \* those that call nothing: they open, connect and close
    Channels,        \* ZrpcChannel objects
    ChannelsOf,      \* ChannelsOf[t]: the channels thread t has made for itself
    Methods,         \* RPC methods
    MethodsOf,       \* MethodsOf[h]: those of the service that channel h's stub is for
    Fds,             \* the descriptors sockets can get, a set of naturals
    MaxCalls,        \* bound: MaxCalls[t], the calls (or probes) thread t makes
    NoConn,          \* not a connection
    Unchecked,       \* methods that are called with nullptr for the controller
    Faulty           \* threads whose lookups, calls and connections may fail

Conns == UNION {{t} \X (1 .. MaxCalls[t]) : t \in Threads}

ASSUME ConstantsAssumption ==
    /\ Probers \subseteq Threads
    /\ ChannelsOf \in [Threads -> SUBSET Channels]
    /\ MethodsOf \in [Channels -> SUBSET Methods]
    /\ \A t, u \in Threads : t # u => ChannelsOf[t] \cap ChannelsOf[u] = {}
    /\ Channels # {} /\ Methods # {}
    /\ Fds \subseteq Nat
    /\ MaxCalls \in [Threads -> Nat]
    /\ Unchecked \subseteq Methods
    /\ NoConn \notin Conns
    /\ Faulty \subseteq Threads

VARIABLES
    fdConn,       \* the process's descriptor table: fd -> connection or NoConn
    m_clientfd,   \* per channel; -1 initially
    method_name,  \* per channel: set only by a call that finds m_clientfd = -1
    found,        \* per channel: m_ip:m_port came from ZooKeeper, m_idx is set
    pc,           \* pc[t]: the next system call of t
    call,         \* call[t]: the arguments and locals of t's latest call
    requests,     \* per connection: on the way to the provider
    replies,      \* per connection: on the way back
    peer,         \* per connection: "none", "up", "closed" (FIN) or "reset"
    crashed,      \* a null pointer, or an exception: the process is gone
    recvErrors,   \* history: the calls that ended with an error of recv
    unserialized, \* history: the calls whose request could not be serialised
    met           \* history: a kept call has taken another call's descriptor for its own

channel == <<m_clientfd, method_name, found>>
net == <<requests, replies, peer>>
history == <<recvErrors, unserialized, met>>
vars == <<fdConn, channel, pc, call, net, crashed, history>>

\* n: which call; kept: it found m_clientfd set; sent: its send succeeded;
\* failed: controller.Failed(); fd: newConnect's local; conn: what a blocked
\* recv reads; got: the replies parsed into the response
NoCall == [n |-> 0, channel |-> CHOOSE h \in Channels : TRUE,
           method |-> CHOOSE m \in Methods : TRUE, kept |-> FALSE, sent |-> FALSE,
           failed |-> FALSE, fd |-> -1, conn |-> NoConn, got |-> <<>>]

Init ==
    /\ fdConn = [f \in Fds |-> NoConn]
    /\ m_clientfd = [h \in Channels |-> -1]
    /\ method_name = [h \in Channels |-> NoCall.method]
    /\ found = [h \in Channels |-> FALSE]
    /\ pc = [t \in Threads |-> "idle"]
    /\ call = [t \in Threads |-> NoCall]
    /\ requests = [c \in Conns |-> <<>>]
    /\ replies = [c \in Conns |-> <<>>]
    /\ peer = [c \in Conns |-> "none"]
    /\ crashed = FALSE
    /\ recvErrors = {}
    /\ unserialized = {}
    /\ met = FALSE

Me(t) == <<t, call[t].n>>
Null(t) == call[t].method \in Unchecked
Fd(t) == IF pc[t] = "connect" THEN call[t].fd ELSE m_clientfd[call[t].channel]

\* What a descriptor number stands for now: EBADF if nothing.
ConnOf(fd) == IF fd \in Fds THEN fdConn[fd] ELSE NoConn

\* How a system call on t's descriptor finds the socket: "bad" for EBADF,
\* "none" for a socket whose connect has not succeeded.
State(t) == IF ConnOf(Fd(t)) = NoConn THEN "bad" ELSE peer[ConnOf(Fd(t))]

Close(fd) == fdConn' = [f \in Fds |-> IF f = fd THEN NoConn ELSE fdConn[f]]
Goto(t, l) == pc' = [pc EXCEPT ![t] = l]
Return(t) == Goto(t, "done")

\* controller->SetFailed(errtxt); return;
ReturnFailed(t) ==
    /\ Return(t)
    /\ call' = [call EXCEPT ![t].failed = ~Null(t), ![t].conn = NoConn]
    /\ crashed' = Null(t)

\* A call in progress goes by the number Fd(t): it has opened it, or has sent on it.
Holds(t) ==
    /\ pc[t] \in {"connect", "send", "recv", "blocked", "close", "abandon"}
    /\ call[t].kept => call[t].sent

\* The old number of a kept call is by now that of another one.
Meets(t) ==
    /\ call[t].kept /\ ~call[t].sent
    /\ ConnOf(Fd(t)) # NoConn
    /\ \E u \in Threads \ {t} : Holds(u) /\ Fd(u) = Fd(t)

-----------------------------------------------------------------------------
(* Finding and connecting to the provider: only while m_clientfd is -1.    *)

Begin(t) ==
    /\ t \notin Probers
    /\ pc[t] \in {"idle", "done"} /\ call[t].n < MaxCalls[t]
    /\ \E h \in ChannelsOf[t] : \E m \in MethodsOf[h] :
          /\ call' = [call EXCEPT ![t] = [NoCall EXCEPT
                 !.n = call[t].n + 1, !.channel = h, !.method = m,
                 !.kept = m_clientfd[h] # -1]]
          /\ Goto(t, IF m_clientfd[h] = -1 THEN "resolve" ELSE "send")
    /\ UNCHANGED <<fdConn, channel, net, crashed, history>>

\* Mutant: the names are not set.
ResolveKeepsNames(t) ==
    /\ pc[t] = "resolve"
    /\ \E b \in {TRUE, t \notin Faulty} :
          /\ found' = [found EXCEPT ![call[t].channel] = @ \/ b]
          /\ crashed' = (~b /\ found[call[t].channel])
    /\ Goto(t, "gate")
    /\ UNCHANGED <<fdConn, m_clientfd, method_name, call, net, history>>

\* The names, then QueryServiceHost.  An address not found is a blank string,
\* which CallMethod cuts at m_idx and goes on with; if m_idx is left from an
\* earlier lookup, substr throws and nothing catches it.
Resolve(t) ==
    /\ pc[t] = "resolve"
    /\ method_name' = [method_name EXCEPT ![call[t].channel] = call[t].method]
    /\ \E b \in {TRUE, t \notin Faulty} :
          /\ found' = [found EXCEPT ![call[t].channel] = @ \/ b]
          /\ crashed' = (~b /\ found[call[t].channel])
    /\ Goto(t, "gate")
    /\ UNCHANGED <<fdConn, m_clientfd, call, net, history>>

\* The heartbeat gate (HeartbeatGate); a refusal tests the controller for null.
Gate(t) ==
    /\ pc[t] = "gate"
    /\ \/ Goto(t, "socket") /\ UNCHANGED call
       \/ /\ t \in Faulty
          /\ call' = [call EXCEPT ![t].failed = ~Null(t)]
          /\ Return(t)
    /\ UNCHANGED <<fdConn, channel, net, crashed, history>>

FreeFds == {f \in Fds : fdConn[f] = NoConn}

\* newConnectWithTimeout.  With every descriptor in use it fails; a failure of
\* any kind is logged and CallMethod returns without SetFailed.
Socket(t) ==
    /\ pc[t] = "socket"
    /\ \/ \E fd \in FreeFds :
             /\ \A f \in FreeFds : fd <= f
             /\ fdConn' = [fdConn EXCEPT ![fd] = Me(t)]
             /\ call' = [call EXCEPT ![t].fd = fd]
             /\ Goto(t, "connect")
       \/ /\ FreeFds = {}
          /\ Return(t)
          /\ UNCHANGED <<fdConn, call>>
    /\ UNCHANGED <<channel, net, crashed, history>>

\* The connection is established, or refused, or poll times out.  The number
\* may be closed and handed out again meanwhile: nothing is there (EBADF), or a
\* socket that is connected already.
ConnectOk(t) ==
    /\ pc[t] = "connect" /\ t \notin Probers /\ found[call[t].channel]
    /\ State(t) = "none"
    /\ peer' = [peer EXCEPT ![ConnOf(call[t].fd)] = "up"]
    /\ m_clientfd' = [m_clientfd EXCEPT ![call[t].channel] = call[t].fd]
    /\ Goto(t, "send")
    /\ UNCHANGED <<fdConn, method_name, found, call, requests, replies, crashed, history>>

ConnectFail(t) ==
    /\ pc[t] = "connect" /\ t \notin Probers
    /\ t \in Faulty \/ State(t) # "none"
    /\ Close(call[t].fd)
    /\ Return(t)
    /\ UNCHANGED <<channel, call, net, crashed, history>>

\* A probe: a socket that is connected, or not, and closed.
Probe(t) ==
    /\ t \in Probers
    /\ pc[t] \in {"idle", "done"} /\ call[t].n < MaxCalls[t]
    /\ call' = [call EXCEPT ![t] = [NoCall EXCEPT !.n = call[t].n + 1]]
    /\ Goto(t, "socket")
    /\ UNCHANGED <<fdConn, channel, net, crashed, history>>

ProbeConnect(t) ==
    /\ t \in Probers
    /\ pc[t] = "connect" /\ State(t) = "none"
    /\ peer' = [peer EXCEPT ![ConnOf(call[t].fd)] = "up"]
    /\ UNCHANGED <<fdConn, channel, pc, call, requests, replies, crashed, history>>

ProbeClose(t) ==
    /\ t \in Probers
    /\ pc[t] = "connect"
    /\ Close(call[t].fd)
    /\ Return(t)
    /\ UNCHANGED <<channel, call, net, crashed, history>>

-----------------------------------------------------------------------------
(* One request and one reply.  Every step reads m_clientfd again.          *)

\* The request, or its header, is beyond what protobuf writes: back to the
\* caller with the socket open.
SerializeFail(t) ==
    /\ pc[t] = "send" /\ t \in Faulty
    /\ unserialized' = unserialized \cup {Me(t)}
    /\ ReturnFailed(t)
    /\ UNCHANGED <<fdConn, channel, net, recvErrors, met>>

SendOk(t) ==
    /\ pc[t] = "send" /\ State(t) \in {"up", "closed"}
    /\ requests' = [requests EXCEPT ![ConnOf(Fd(t))] =
                       Append(@, [from |-> Me(t), method |-> method_name[call[t].channel]])]
    /\ call' = [call EXCEPT ![t].sent = TRUE]
    /\ met' = (met \/ Meets(t))
    /\ Goto(t, "recv")
    /\ UNCHANGED <<fdConn, channel, replies, peer, crashed, recvErrors, unserialized>>

SendFail(t) ==
    /\ pc[t] = "send" /\ State(t) # "up"
    /\ Goto(t, "abandon")
    /\ UNCHANGED <<fdConn, channel, call, net, crashed, history>>

\* recv has no timeout.  It goes on reading the connection it was called on
\* when another thread closes the descriptor.
Recv(t) ==
    /\ pc[t] = "recv" /\ State(t) \notin {"bad", "none"}
    /\ call' = [call EXCEPT ![t].conn = ConnOf(Fd(t))]
    /\ Goto(t, "blocked")
    /\ UNCHANGED <<fdConn, channel, net, crashed, history>>

\* The replies that have arrived, one or several, are parsed as one message;
\* end of file is parsed too, as a message with no fields.
Receive(t) ==
    /\ pc[t] = "blocked"
    /\ LET c == call[t].conn IN
          /\ replies[c] = <<>> => peer[c] = "closed"
          /\ \E i \in (IF replies[c] = <<>> THEN {0} ELSE 1 .. Len(replies[c])) :
                /\ call' = [call EXCEPT ![t].got = SubSeq(replies[c], 1, i),
                                        ![t].conn = NoConn]
                /\ replies' = [replies EXCEPT ![c] = SubSeq(@, i + 1, Len(@))]
    /\ Goto(t, "close")
    /\ UNCHANGED <<fdConn, channel, requests, peer, crashed, history>>

\* A reply of which only a part has arrived, or longer than recv_buf: its rest
\* stays unread.
Unparsable(t) ==
    /\ pc[t] = "blocked" /\ t \in Faulty
    /\ replies[call[t].conn] # <<>>
    /\ replies' \in {replies, [replies EXCEPT ![call[t].conn] = Tail(@)]}

\* Mutant: the socket is left open, as after an error of recv.
ParseFailKeepsOpen(t) ==
    /\ Unparsable(t)
    /\ ReturnFailed(t)
    /\ UNCHANGED <<fdConn, channel, requests, peer, history>>

ParseFail(t) ==
    /\ Unparsable(t)
    /\ Goto(t, "abandon")
    /\ UNCHANGED <<fdConn, channel, call, requests, peer, crashed, history>>

\* close(m_clientfd) after a failed send or parse: whatever the number is now.
Abandon(t) ==
    /\ pc[t] = "abandon"
    /\ met' = (met \/ Meets(t))
    /\ Close(Fd(t))
    /\ ReturnFailed(t)
    /\ UNCHANGED <<channel, net, recvErrors, unserialized>>

RecvError(t) ==
    \/ pc[t] = "recv" /\ State(t) \in {"bad", "none"}
    \/ pc[t] = "blocked" /\ peer[call[t].conn] = "reset"

\* Mutant: the error path closes the socket and falls through to the last close.
RecvFailTwice(t) ==
    /\ RecvError(t)
    /\ recvErrors' = recvErrors \cup {Me(t)}
    /\ Close(Fd(t))
    /\ Goto(t, "close")
    /\ call' = [call EXCEPT ![t].failed = ~Null(t), ![t].conn = NoConn]
    /\ UNCHANGED <<channel, net, crashed, unserialized, met>>

\* Mutant: any error of recv is retried, as if it were EINTR.
RecvFailRetry(t) ==
    /\ RecvError(t)
    /\ Goto(t, "recv")
    /\ UNCHANGED <<fdConn, channel, call, net, crashed, history>>

\* The socket is left open.
RecvFail(t) ==
    /\ RecvError(t)
    /\ recvErrors' = recvErrors \cup {Me(t)}
    /\ ReturnFailed(t)
    /\ UNCHANGED <<fdConn, channel, net, unserialized, met>>

\* Mutant: the last close is forgotten.
CloseFdForgotten(t) ==
    /\ pc[t] = "close"
    /\ Return(t)
    /\ UNCHANGED <<fdConn, channel, call, net, crashed, history>>

\* m_clientfd keeps the number.
CloseFd(t) ==
    /\ pc[t] = "close"
    /\ Close(Fd(t))
    /\ Return(t)
    /\ UNCHANGED <<channel, call, net, crashed, history>>

-----------------------------------------------------------------------------
(* The provider's side of a connection that somebody here still reads.     *)

Live(c) == (\E f \in Fds : fdConn[f] = c) \/ (\E t \in Threads : call[t].conn = c)

Serve(c) ==
    /\ peer[c] = "up" /\ Live(c) /\ requests[c] # <<>>
    /\ replies' = [replies EXCEPT ![c] = Append(@, Head(requests[c]))]
    /\ requests' = [requests EXCEPT ![c] = Tail(@)]
    /\ UNCHANGED <<fdConn, channel, pc, call, peer, crashed, history>>

Ignore(c) ==
    /\ c[1] \in Faulty
    /\ peer[c] = "up" /\ Live(c) /\ requests[c] # <<>>
    /\ requests' = [requests EXCEPT ![c] = Tail(@)]
    /\ UNCHANGED <<fdConn, channel, pc, call, replies, peer, crashed, history>>

HangUp(c) ==
    /\ c[1] \in Faulty
    /\ Live(c)
    /\ \/ peer[c] = "up" /\ peer' = [peer EXCEPT ![c] = "closed"]
       \/ peer[c] \in {"up", "closed"} /\ peer' = [peer EXCEPT ![c] = "reset"]
    /\ UNCHANGED <<fdConn, channel, pc, call, requests, replies, crashed, history>>

-----------------------------------------------------------------------------
Step(t) ==
    \/ Resolve(t) \/ Gate(t) \/ Socket(t) \/ ConnectOk(t) \/ ConnectFail(t)
    \/ ProbeConnect(t) \/ ProbeClose(t)
    \/ SerializeFail(t) \/ SendOk(t) \/ SendFail(t)
    \/ Recv(t) \/ Receive(t) \/ ParseFail(t) \/ RecvFail(t)
    \/ CloseFd(t) \/ Abandon(t)

Next ==
    /\ ~crashed
    /\ \/ \E t \in Threads : Begin(t) \/ Probe(t) \/ Step(t)
       \/ \E c \in Conns : Serve(c) \/ Ignore(c) \/ HangUp(c)

\* Threads are scheduled and the provider works; nobody has to begin a call.
Fairness ==
    /\ \A t \in Threads : WF_vars(~crashed /\ Step(t))
    /\ \A c \in Conns : WF_vars(~crashed /\ Serve(c))

Spec == Init /\ [][Next]_vars
FairSpec == Spec /\ Fairness

-----------------------------------------------------------------------------
(* Properties.                                                             *)

Requests == [from : Conns, method : Methods]

TypeOK ==
    /\ fdConn \in [Fds -> Conns \cup {NoConn}]
    /\ m_clientfd \in [Channels -> Fds \cup {-1}]
    /\ method_name \in [Channels -> Methods]
    /\ found \in [Channels -> BOOLEAN]
    /\ pc \in [Threads -> {"idle", "resolve", "gate", "socket", "connect", "send",
                           "recv", "blocked", "close", "abandon", "done"}]
    /\ call \in [Threads -> [n : Nat, channel : Channels, method : Methods,
                             kept : BOOLEAN, sent : BOOLEAN, failed : BOOLEAN,
                             fd : Fds \cup {-1}, conn : Conns \cup {NoConn},
                             got : Seq(Requests)]]
    /\ requests \in [Conns -> Seq(Requests)]
    /\ replies \in [Conns -> Seq(Requests)]
    /\ peer \in [Conns -> {"none", "up", "closed", "reset"}]
    /\ crashed \in BOOLEAN
    /\ recvErrors \in SUBSET Conns
    /\ unserialized \in SUBSET Conns
    /\ met \in BOOLEAN

\* A call only ever gets the reply to its own request, whatever descriptors the
\* other threads and the probes open and close meanwhile.  The one way out of
\* it is `met`: a kept call has sent on, or closed, its old number while that
\* was another call's or a probe's descriptor.
NoCrossTalk == met \/ \A t \in Threads :
    \A i \in 1 .. Len(call[t].got) : call[t].got[i].from = Me(t)

\* Until a kept call meets another one: from connect() to close() the number of
\* a call that has connected stands for the connection it opened, and what is
\* sent there asks for the method that was called; no two calls in progress,
\* kept ones that have sent included, go by the same number.
OwnConnection == met \/ \A t \in Threads :
    /\ Holds(t) /\ ~call[t].kept =>
          /\ ConnOf(Fd(t)) = Me(t)
          /\ pc[t] = "blocked" => call[t].conn = Me(t)
          /\ pc[t] = "send" => method_name[call[t].channel] = call[t].method
    /\ \A u \in Threads \ {t} : Holds(t) /\ Holds(u) => Fd(t) # Fd(u)

\* A channel is used up by the one call that connects it: until a kept call
\* meets another one, every call it makes later fails or takes the process down
\* with it.  Only a connection that an unserialisable request left open serves
\* a kept call (which asks for the method named when the channel connected).
KeptCallFails == met \/ \A t \in Threads : call[t].kept =>
    /\ Holds(t) => ConnOf(Fd(t)) \in unserialized
    /\ pc[t] = "done" => call[t].failed \/ crashed \/ unserialized # {}

\* A call closes no descriptor of another call in progress, nor a probe's; the
\* first time that one does, it is a kept call that takes the number for its own.
InProgress(c) == pc[c[1]] \notin {"idle", "done"} /\ c = Me(c[1])
NoForeignClose ==
    [][\A f \in Fds : fdConn[f] # NoConn /\ InProgress(fdConn[f]) /\ fdConn'[f] # fdConn[f]
           => met' \/ pc'[fdConn[f][1]] # pc[fdConn[f][1]]]_vars

\* Every descriptor in use belongs to a call that is going on, or was left
\* behind by one that ended with an error of recv or of serialising: no other
\* path leaks, also when calls close each other's descriptors.
LeakOnlyOnError == \A f \in Fds :
    fdConn[f] # NoConn => InProgress(fdConn[f]) \/ fdConn[f] \in recvErrors \cup unserialized

\* A call returns, or waits in recv, which has no timeout, on a connection that
\* the provider keeps open and on which nothing is under way: its request was
\* lost, or another call that met this connection took the reply.
Unanswered(t) ==
    /\ pc[t] = "blocked" /\ peer[call[t].conn] = "up"
    /\ requests[call[t].conn] = <<>> /\ replies[call[t].conn] = <<>>
CallsReturn == \A t \in Threads :
    pc[t] \notin {"idle", "done"} ~> pc[t] = "done" \/ crashed \/ Unanswered(t)

\* What callers assume of Failed(): a call that did not fail has its reply.
SuccessMeansAnswered == \A t \in Threads :
    pc[t] = "done" /\ ~call[t].failed => call[t].got # <<>>
=============================================================================
