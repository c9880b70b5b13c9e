----------------------------- MODULE UserService -----------------------------
(****************************************************************************)
(* The provider process with both services in it.  A request is handled in  *)
(* the IO loop of its connection, and the user service's handlers call the  *)
(* cache over TCP: through one ZrpcChannel that all loops share, to the     *)
(* address under which the process published itself.  So a handler's cache  *)
(* call is a connection back into its own process, served by one of the     *)
(* same loops, perhaps by the one that waits for it.                        *)
(*                                                                          *)
(* The channel is modelled system call by system call, as in ZrpcChannel,   *)
(* and so is the one table of descriptors that accepted connections and the *)
(* channel share: the channel keeps the number of a descriptor it closed.   *)
(* A connection is named by the client that opened it, or by the loop whose *)
(* cache call did (a channel connects once, so at most once per loop).  Its *)
(* ends are <<"out", c>> where it was opened and <<"in", c>> where it was   *)
(* accepted.  The provider's main loop accepts at once.                     *)
(*                                                                          *)
(* A free descriptor is any free one: those of the ZooKeeper handles that   *)
(* come and go inside of CallMethod are not modelled.  No entry of the      *)
(* cache expires (CacheService), and cache requests always serialise.       *)
(****************************************************************************)
EXTENDS Integers, Sequences

CONSTANTS
    Clients,    \* external callers, each of which makes one call
    Asks,       \* who may ask what: functions from callers to <<method, argument>>
    NumLoops,   \* BOUND: the most IO loops there are
    ThreadNum,  \* BOUND: how many of them, for each of Asks; setThreadNum(4) in the code
    Fds,        \* BOUND: descriptors for sockets
    Width,      \* bits of an int, 32 in the code
    Faulty      \* whether looking up or connecting to the cache may fail

Loops == 0 .. NumLoops - 1
Conns == Clients \cup Loops

ASSUME ConstantsAssumption ==
    /\ NumLoops \in Nat \ {0} /\ ThreadNum \in [Asks -> 1 .. NumLoops]
    /\ Clients \cap Loops = {}
    /\ \A a \in Asks : \A c \in DOMAIN a :
          c \in Clients /\ (a[c][1] = "SumtoN" => a[c][2] \in Int)
    /\ Fds \subseteq Nat
    /\ Width \in Nat \ {0} /\ 2 ^ Width \in Nat \ {0}
    /\ Faulty \in BOOLEAN

VARIABLES
    table,      \* the process's descriptors: an end of a connection or NoEnd
    up, down,   \* per connection: what is on its way to its in and out end
    inFd,       \* per connection: the number muduo knows its in end by
    loopOf,     \* per connection: its loop
    next,       \* the loop that gets the next connection
    m_clientfd, \* the shared channel: its descriptor, -1 before it connects
    method_name,\* the shared channel: the method it asks for
    pc,         \* per loop: the next system call; "dead" when the process is gone
    job,        \* per loop: the request it handles and what it will answer
    nested,     \* per loop: the cache call it makes
    on,         \* per loop: the connection a blocked recv reads
    cache,      \* key -> value, Absent or Empty
    client,     \* per client: "idle", "waiting", "done" or "failed"
    asked,      \* who asks, and what
    answer,     \* per client: the value it was answered with
    overlap,    \* history: two loops were inside of CallMethod at once
    unconnected,\* history: a call could not connect the channel
    severed,    \* history: the channel closed the number of an accepted connection
    robbed      \* history: the blocked loops whose connection another loop read from

chan == <<m_clientfd, method_name>>
net  == <<up, down, inFd, loopOf, next>>
outside == <<client, asked, answer>>
history == <<overlap, unconnected, severed, robbed>>
vars == <<table, net, chan, pc, job, nested, on, cache, outside, history>>

----------------------------------------------------------------------------
(* Keys, values and the handlers' local work.                               *)

NoEnd  == <<"closed">>
Absent == <<"absent">>     \* no such entry
Empty  == <<"empty">>      \* the empty string
Text   == <<"text">>       \* the message of a ResultCode
Zero   == <<"sum", 0>>     \* what atoi makes of any other string

\* MakeSessionKey, MakeProfileKey and the key of SumtoN.
Key(r) == CASE r[1] = "Login" -> <<"session", r[2]>>
            [] r[1] = "SumtoN" -> <<"sum_1_to", r[2]>>
            [] OTHER -> <<"profile", r[2]>>

\* Signed overflow wraps.
Wrap(i) == LET span == 2 ^ Width IN ((i + span \div 2) % span) - span \div 2

\* Mutant: the loop stops before n.
SumtoNExclusive(n) == IF n < 2 THEN 0 ELSE Wrap((n * (n - 1)) \div 2)

\* SumtoN adds up 1..n, in an int.
SumtoN(n) == LET sum[i \in 0 .. n] == IF i = 0 THEN 0 ELSE Wrap(sum[i - 1] + i)
             IN  IF n < 0 THEN 0 ELSE sum[n]

\* Login and CreateLoginSession, GetUserProfile, SumtoN without the cache.
Local(r) == CASE r[1] = "SumtoN" -> <<"sum", SumtoN(r[2])>>
              [] r[1] = "Login" -> <<"token", r[2]>>
              [] OTHER -> <<"profile of", r[2]>>

\* What a handler answers when the cache gave it this value.
FromCache(r, v) == CASE r[1] = "SumtoN" -> IF v[1] = "sum" THEN v ELSE Zero
                     [] r[1] = "Login" -> Local(r)
                     [] OTHER -> v

\* The cache call a handler starts with.
FirstCall(r) == CASE r[1] = "Login" -> "Exists"
                  [] r[1] = "Register" -> "Delete"
                  [] OTHER -> "Get"

----------------------------------------------------------------------------
(* Descriptors and connections.                                             *)

\* A socket gets a free number: any that the channel or a connection still
\* remembers, or the least of the others, between which nothing can tell.
FreeFds == LET free  == {f \in Fds : table[f] = NoEnd}
               known == {m_clientfd} \cup {inFd[c] : c \in Conns}
           IN  {f \in free : f \in known \/ \A g \in free \ known : f <= g}
EndOf(fd) == IF fd \in Fds THEN table[fd] ELSE NoEnd

\* Closing a number that is not open is EBADF and changes nothing.
Closed(fd) == [f \in Fds |-> IF f = fd THEN NoEnd ELSE table[f]]

\* close(m_clientfd), whoever has that number by now.
CloseClientfd == /\ table' = Closed(m_clientfd)
                 /\ severed' = (severed \/ EndOf(m_clientfd)[1] = "in")

InTable(end) == \E f \in Fds : table[f] = end

\* A recv in progress keeps its socket open when the descriptor is closed.
OutOpen(c) == IF c \in Clients THEN client[c] = "waiting"
              ELSE InTable(<<"out", c>>) \/ \E l \in Loops : pc[l] = "blocked" /\ on[l] = c
PeerOpen(end) == CASE end[1] = "in"  -> OutOpen(end[2])
                   [] end[1] = "out" -> InTable(<<"in", end[2]>>)
                   [] OTHER -> FALSE

\* The other end was closed before it had read everything.
Reset(end) == end[1] = "out" /\ ~PeerOpen(end) /\ up[end[2]] # <<>>

\* send on a descriptor: the bytes leave for the other end, whoever that is.
Put(fd, item) ==
    LET end == EndOf(fd)
    IN  /\ up'   = IF end[1] = "out" THEN [up EXCEPT ![end[2]] = Append(@, item)] ELSE up
        /\ down' = IF end[1] = "in" THEN [down EXCEPT ![end[2]] = Append(@, item)] ELSE down

\* A request that turns up among replies: no reply starts with these bytes.
Parses(items) == \A i \in DOMAIN items : items[i].type = "reply"

Accept(c, fd, opened) ==
    /\ table' = [opened EXCEPT ![fd] = <<"in", c>>]
    /\ inFd' = [inFd EXCEPT ![c] = fd]
    /\ loopOf' = [loopOf EXCEPT ![c] = next]
    /\ next' = (next + 1) % ThreadNum[asked]

----------------------------------------------------------------------------
NoJob  == [conn |-> 0, request |-> <<"none">>, result |-> Absent]
NoCall == [kind |-> "none", key |-> Absent, value |-> Absent]
Keys   == UNION {{Key(a[c]) : c \in DOMAIN a} : a \in Asks}

Init == /\ table = [f \in Fds |-> NoEnd]
        /\ up = [c \in Conns |-> <<>>] /\ down = [c \in Conns |-> <<>>]
        /\ inFd = [c \in Conns |-> -1]
        /\ loopOf = [c \in Conns |-> 0] /\ next = 0
        /\ m_clientfd = -1 /\ method_name = "none"
        /\ pc = [l \in Loops |-> "poll"]
        /\ job = [l \in Loops |-> NoJob] /\ nested = [l \in Loops |-> NoCall]
        /\ on = [l \in Loops |-> 0]
        /\ cache = [k \in Keys |-> Absent]
        /\ client = [c \in Clients |-> "idle"]
        /\ asked \in Asks
        /\ answer = [c \in Clients |-> Absent]
        /\ overlap = FALSE /\ unconnected = FALSE /\ severed = FALSE /\ robbed = {}

(* External callers. *)

\* A client connects on a channel of its own and sends its request.
Ask(c) ==
    /\ c \in DOMAIN asked /\ client[c] = "idle" /\ \A l \in Loops : pc[l] # "dead"
    /\ \E fd \in FreeFds : Accept(c, fd, table)
    /\ up' = [up EXCEPT ![c] = <<[type |-> "request", call |-> asked[c]]>>]
    /\ client' = [client EXCEPT ![c] = "waiting"]
    /\ UNCHANGED <<down, chan, pc, job, nested, on, cache, asked, answer, history>>

\* Its recv: some of what has arrived, or end of file, which parses too.
Receive(c) ==
    /\ client[c] = "waiting"
    /\ down[c] = <<>> => ~InTable(<<"in", c>>)
    /\ \E n \in (IF down[c] = <<>> THEN {0} ELSE 1 .. Len(down[c])) :
          LET got == SubSeq(down[c], 1, n)
          IN  /\ client' = [client EXCEPT ![c] = IF Parses(got) THEN "done" ELSE "failed"]
              /\ answer' = IF Parses(got) /\ n > 0
                           THEN [answer EXCEPT ![c] = got[n].value] ELSE answer
              /\ down' = [down EXCEPT ![c] = <<>>]
    /\ UNCHANGED <<table, up, inFd, loopOf, next, chan, pc, job, nested, on, cache, asked, history>>

----------------------------------------------------------------------------
(* The IO loops.                                                            *)

Goto(l, label) == pc' = [pc EXCEPT ![l] = label]

\* The connections a loop still watches: epoll forgets a socket that closes.
Watched(l) == {c \in Conns : /\ inFd[c] # -1 /\ loopOf[c] = l
                             /\ table[inFd[c]] = <<"in", c>>}

\* CacheService, asked for one method with the arguments of another perhaps:
\* a field that was not sent is empty.
Value(q) == IF q.kind = "Set" THEN q.value ELSE Empty

Execute(q) ==
    cache' = CASE q.name = "Set" -> [cache EXCEPT ![q.key] = Value(q)]
               [] q.name = "Delete" -> [cache EXCEPT ![q.key] = Absent]
               [] OTHER -> cache

\* Its reply, as any response class reads it: the second field, bytes in the
\* response of Get and in a ResultCode, and whether the key exists.
Reply(q) == [type   |-> "reply",
             name   |-> q.name,
             value  |-> CASE q.name = "Get" -> IF cache[q.key] = Absent THEN Empty
                                               ELSE cache[q.key]
                          [] q.name = "Exists" -> Empty
                          [] OTHER -> Text,
             exists |-> q.name \in {"Get", "Exists"} /\ cache[q.key] # Absent]

\* Mutant: a miss is not answered.
OnMessageSilentMiss(l, c) ==
    /\ pc[l] = "poll" /\ c \in Watched(l) /\ up[c] # <<>>
    /\ LET q == Head(up[c])
       IN  IF "call" \in DOMAIN q
           THEN /\ job' = [job EXCEPT ![l] = [conn |-> c, request |-> q.call, result |-> Absent]]
                /\ nested' = [nested EXCEPT ![l] = [kind |-> FirstCall(q.call),
                                                    key |-> Key(q.call), value |-> Empty]]
                /\ Goto(l, "call")
                /\ UNCHANGED <<down, cache>>
           ELSE /\ Execute(q)
                /\ down' = [down EXCEPT ![c] = IF Reply(q).exists THEN Append(@, Reply(q)) ELSE @]
                /\ UNCHANGED <<job, nested, pc>>
    /\ up' = [up EXCEPT ![c] = <<>>]
    /\ UNCHANGED <<table, inFd, loopOf, next, chan, on, outside, history>>

\* OnMessage: everything that has arrived is one request, the first one.  A
\* cache request is answered on the spot, a user request starts its handler.
OnMessage(l, c) ==
    /\ pc[l] = "poll" /\ c \in Watched(l) /\ up[c] # <<>>
    /\ LET q == Head(up[c])
       IN  IF "call" \in DOMAIN q
           THEN /\ job' = [job EXCEPT ![l] = [conn |-> c, request |-> q.call, result |-> Absent]]
                /\ nested' = [nested EXCEPT ![l] = [kind |-> FirstCall(q.call),
                                                    key |-> Key(q.call), value |-> Empty]]
                /\ Goto(l, "call")
                /\ UNCHANGED <<down, cache>>
           ELSE /\ Execute(q)
                /\ down' = [down EXCEPT ![c] = Append(@, Reply(q))]
                /\ UNCHANGED <<job, nested, pc>>
    /\ up' = [up EXCEPT ![c] = <<>>]
    /\ UNCHANGED <<table, inFd, loopOf, next, chan, on, outside, history>>

\* The peer has hung up: muduo closes its end.
HandleClose(l, c) ==
    /\ pc[l] = "poll" /\ c \in Watched(l) /\ up[c] = <<>> /\ ~OutOpen(c)
    /\ table' = Closed(inFd[c])
    /\ inFd' = [inFd EXCEPT ![c] = -1] /\ loopOf' = [loopOf EXCEPT ![c] = 0]
    /\ UNCHANGED <<up, down, next, chan, pc, job, nested, on, cache, outside, history>>

\* The rest of a handler after its cache call, up to its next system call:
\* got are the replies that were parsed into the response, none when the call
\* failed.  Only a hit is told from a miss, and GetUserProfile takes an empty
\* value for a miss.
Return(l, got) ==
    LET r      == job[l].request
        n      == nested[l]
        filled == {i \in DOMAIN got : got[i].value # Empty}
        value  == IF filled = {} THEN Empty
                  ELSE got[CHOOSE i \in filled : \A j \in filled : j <= i].value
        hit    == /\ \E i \in DOMAIN got : got[i].name = n.kind /\ got[i].exists
                  /\ r[1] = "GetUserProfile" => value # Empty
    IN  IF n.kind \in {"Exists", "Get"} /\ ~hit
        THEN /\ nested' = [nested EXCEPT ![l] = [kind |-> "Set", key |-> n.key, value |-> Local(r)]]
             /\ Goto(l, "call") /\ UNCHANGED job
        ELSE /\ job' = [job EXCEPT ![l].result = IF hit THEN FromCache(r, value) ELSE Local(r)]
             /\ Goto(l, "answer") /\ UNCHANGED nested

\* Mutant: Register returns without done->Run().
AnswerNotRegister(l) ==
    LET fd == inFd[job[l].conn]
    IN  /\ pc[l] = "answer"
        /\ IF PeerOpen(EndOf(fd)) /\ job[l].request[1] # "Register"
           THEN Put(fd, [type |-> "reply", name |-> "none", value |-> job[l].result, exists |-> FALSE])
           ELSE UNCHANGED <<up, down>>
        /\ Goto(l, "poll")
        /\ job' = [job EXCEPT ![l] = NoJob] /\ nested' = [nested EXCEPT ![l] = NoCall]
        /\ UNCHANGED <<table, inFd, loopOf, next, chan, on, cache, outside, history>>

\* done->Run(): the response goes to whatever the connection's number is now.
Answer(l) ==
    LET fd == inFd[job[l].conn]
    IN  /\ pc[l] = "answer"
        /\ IF PeerOpen(EndOf(fd))
           THEN Put(fd, [type |-> "reply", name |-> "none", value |-> job[l].result, exists |-> FALSE])
           ELSE UNCHANGED <<up, down>>
        /\ Goto(l, "poll")
        /\ job' = [job EXCEPT ![l] = NoJob] /\ nested' = [nested EXCEPT ![l] = NoCall]
        /\ UNCHANGED <<table, inFd, loopOf, next, chan, on, cache, outside, history>>

----------------------------------------------------------------------------
(* ZrpcChannel::CallMethod on the shared channel, in loop l.                *)

Inside == {l \in Loops : pc[l] \in {"names", "connect", "send", "recv", "blocked"}}

\* Mutant: a channel that was closed connects again.
EnterReconnects(l) ==
    /\ pc[l] = "call"
    /\ Goto(l, IF EndOf(m_clientfd) = NoEnd THEN "names" ELSE "send")
    /\ overlap' = (overlap \/ Inside # {})
    /\ UNCHANGED <<table, net, chan, job, nested, on, cache, outside, unconnected, severed, robbed>>

Enter(l) ==
    /\ pc[l] = "call"
    /\ Goto(l, IF m_clientfd = -1 THEN "names" ELSE "send")
    /\ overlap' = (overlap \/ Inside # {})
    /\ UNCHANGED <<table, net, chan, job, nested, on, cache, outside, unconnected, severed, robbed>>

SetNames(l) ==
    /\ pc[l] = "names"
    /\ method_name' = nested[l].kind
    /\ Goto(l, "connect")
    /\ UNCHANGED <<table, net, m_clientfd, job, nested, on, cache, outside, history>>

Connect(l) ==
    /\ pc[l] = "connect"
    /\ \E fd \in FreeFds : \E g \in Fds :
          /\ g # fd /\ table[g] = NoEnd
          /\ Accept(l, g, [table EXCEPT ![fd] = <<"out", l>>])
          /\ m_clientfd' = fd
    /\ Goto(l, "send")
    /\ UNCHANGED <<up, down, method_name, job, nested, on, cache, outside, history>>

\* The name is not found though m_idx is that of an earlier lookup, which led
\* to no connection or is another loop's: substr throws, and that is the end of
\* the process.
NotFound(l) ==
    /\ pc[l] = "connect" /\ Faulty
    /\ unconnected \/ m_clientfd # -1 \/ \E k \in Loops \ {l} : pc[k] = "connect"
    /\ pc' = [k \in Loops |-> "dead"]
    /\ table' = [f \in Fds |-> NoEnd]
    /\ UNCHANGED <<net, chan, job, nested, on, cache, outside, history>>

\* There is no descriptor left for the other end.  The kernel completes the
\* connection all the same; the acceptor closes it at once.
ConnectUnaccepted(l) ==
    /\ pc[l] = "connect"
    /\ \E fd \in Fds :
          /\ {f \in Fds : table[f] = NoEnd} = {fd}
          /\ table' = [table EXCEPT ![fd] = <<"out", l>>]
          /\ m_clientfd' = fd
    /\ Goto(l, "send")
    /\ UNCHANGED <<net, method_name, job, nested, on, cache, outside, history>>

\* No address, no connection or no descriptor: CallMethod returns, unfailed.
ConnectFail(l) ==
    /\ pc[l] = "connect" /\ (Faulty \/ \A f \in Fds : table[f] # NoEnd)
    /\ Return(l, <<>>)
    /\ unconnected' = TRUE
    /\ UNCHANGED <<table, net, chan, on, cache, outside, overlap, severed, robbed>>

Send(l) ==
    /\ pc[l] = "send" /\ EndOf(m_clientfd) # NoEnd /\ ~Reset(EndOf(m_clientfd))
    /\ Put(m_clientfd, [type |-> "request", name |-> method_name, kind |-> nested[l].kind,
                        key |-> nested[l].key, value |-> nested[l].value])
    /\ Goto(l, "recv")
    /\ UNCHANGED <<table, inFd, loopOf, next, chan, job, nested, on, cache, outside, history>>

\* EBADF, or the peer is gone.
SendFail(l) ==
    /\ pc[l] = "send"
    /\ ~PeerOpen(EndOf(m_clientfd))
    /\ CloseClientfd
    /\ Return(l, <<>>)
    /\ UNCHANGED <<net, chan, on, cache, outside, overlap, unconnected, robbed>>

RecvBlocks(l) ==
    /\ pc[l] = "recv" /\ EndOf(m_clientfd)[1] = "out"
    /\ on' = [on EXCEPT ![l] = EndOf(m_clientfd)[2]]
    /\ Goto(l, "blocked")
    /\ UNCHANGED <<table, net, chan, job, nested, cache, outside, history>>

\* The number is free by now, or that of an accepted connection with nothing
\* to read, which does not block: recv fails and nothing is closed.
RecvFail(l) ==
    LET end == EndOf(m_clientfd)
    IN  /\ pc[l] = "recv"
        /\ \/ end = NoEnd
           \/ end[1] = "in" /\ up[end[2]] = <<>> /\ OutOpen(end[2])
        /\ Return(l, <<>>)
        /\ UNCHANGED <<table, net, chan, on, cache, outside, history>>

\* It is an accepted connection with a request to read, which is taken from
\* its loop and is no reply, or at its end: the channel closes it.
RecvSteals(l) ==
    LET end == EndOf(m_clientfd)
    IN  /\ pc[l] = "recv" /\ end[1] = "in"
        /\ up[end[2]] # <<>> \/ ~OutOpen(end[2])
        /\ up' = [up EXCEPT ![end[2]] = <<>>]
        /\ CloseClientfd
        /\ Return(l, <<>>)
        /\ UNCHANGED <<down, inFd, loopOf, next, chan, on, cache, outside, overlap, unconnected, robbed>>

\* Replies arrive, or the connection ends; then close(m_clientfd).  When it was
\* reset recv fails, and nothing is closed.
RecvReturns(l) ==
    LET c == on[l]
    IN  /\ pc[l] = "blocked"
        /\ down[c] = <<>> => ~InTable(<<"in", c>>)
        /\ \/ /\ \E n \in (IF down[c] = <<>> THEN {0} ELSE 1 .. Len(down[c])) :
                    LET got == SubSeq(down[c], 1, n)
                    IN  /\ down' = [down EXCEPT ![c] = SubSeq(@, n + 1, Len(@))]
                        /\ Return(l, IF Parses(got) THEN got ELSE <<>>)
              /\ CloseClientfd
           \/ /\ down[c] = <<>> /\ Reset(<<"out", c>>)
              /\ Return(l, <<>>)
              /\ UNCHANGED <<down, table, severed>>
        /\ on' = [on EXCEPT ![l] = 0]
        /\ robbed' = (robbed \ {l}) \cup {k \in Loops \ {l} : pc[k] = "blocked" /\ on[k] = c}
        /\ UNCHANGED <<up, inFd, loopOf, next, chan, cache, outside, overlap, unconnected>>

CallMethod(l) == \/ Enter(l) \/ SetNames(l) \/ Connect(l) \/ ConnectUnaccepted(l) \/ ConnectFail(l) \/ NotFound(l)
                 \/ Send(l) \/ SendFail(l) \/ RecvBlocks(l) \/ RecvFail(l) \/ RecvSteals(l) \/ RecvReturns(l)

Loop(l) == \/ \E c \in Conns : OnMessage(l, c) \/ HandleClose(l, c)
           \/ CallMethod(l)
           \/ Answer(l)

Next == (\E c \in Clients : Ask(c) \/ Receive(c)) \/ (\E l \in Loops : Loop(l))

\* The loops run on and callers read what they get; nobody has to ask.
Fairness == /\ \A l \in Loops : WF_vars(Loop(l))
            /\ \A c \in Clients : WF_vars(Receive(c))

Spec == Init /\ [][Next]_vars /\ Fairness

----------------------------------------------------------------------------
(* Properties.                                                              *)

\* What a request should be answered with; a sum that does not fit is not
\* promised.
Fits(n) == n * (n + 1) < 2 ^ Width
Right(r, v) == CASE r[1] = "SumtoN" ->
                      (r[2] >= 0 /\ Fits(r[2])) => v = <<"sum", (r[2] * (r[2] + 1)) \div 2>>
                 [] OTHER -> v = Local(r)

\* Whatever the loops do to each other, a key holds its own value or nothing,
\* unless a failed connection let a Set open the channel and another loop was
\* in it for a Get: that Get is then served as a Set of nothing.
CacheSound == ~(overlap /\ unconnected) => \A k \in Keys :
                 cache[k] = Absent \/ \E c \in DOMAIN asked : Key(asked[c]) = k /\ cache[k] = Local(asked[c])

\* Whatever the loops do to each other, nobody is answered with the value of
\* another key or of another method: an answer is right, or it is the default
\* a caller reads from a connection that ended.  It is the answer to the
\* caller's own request, unless the channel closed the number of an accepted
\* connection: then it may be the right answer to somebody else's, written to
\* the connection that has the number by now.  Excepted as in CacheSound.
AnswerRight == ~(overlap /\ unconnected) => \A c \in Clients : answer[c] # Absent =>
                  \E d \in DOMAIN asked : (d = c \/ severed) /\ Right(asked[d], answer[c])

\* The channel serves one call in the life of the process.  That call is a
\* lookup or a deletion, so if it gets through, no handler ever stores
\* anything: the cache of the user service stays empty.
NothingIsCached == ~unconnected => \A k \in Keys : cache[k] = Absent

\* In the end every cache call has returned, unless the loop that is to serve it
\* is blocked for good itself, which may be the very loop that waits, or another
\* one that waits for it in turn; or unless another loop has read from the
\* connection while it waited: two requests that arrive together are answered
\* once.
CacheCallReturns == <>[](\A l \in Loops :
    pc[l] = "blocked" => l \in robbed \/ pc[loopOf[on[l]]] = "blocked")

\* In the end a caller has its answer or an error, unless the loop of its
\* connection is blocked for good.
AnsweredUnlessBlocked == <>[](\A c \in Clients :
    client[c] = "waiting" => pc[loopOf[c]] = "blocked")

\* What the test design promises its callers ("the timeout keeps a request from
\* waiting for ever"): every call ends.
EveryCallEnds == \A c \in Clients : client[c] = "waiting" ~> client[c] # "waiting"

=============================================================================
