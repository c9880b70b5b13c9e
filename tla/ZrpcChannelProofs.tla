------------------------- MODULE ZrpcChannelProofs -------------------------
(***************************************************************************)
(* What descriptor numbers stand for, for any number of threads, channels, *)
(* calls and descriptors, and whatever fails: descriptors are only left    *)
(* open by two kinds of error, and calls and probes do not meet on a       *)
(* descriptor until a kept call comes upon its old number in another       *)
(* one's hands.                                                            *)
(***************************************************************************)
EXTENDS ZrpcChannel, TLAPS

Calls == [n : Nat, channel : Channels, method : Methods, kept : BOOLEAN, sent : BOOLEAN,
          failed : BOOLEAN, fd : Fds \cup {-1}, conn : Conns \cup {NoConn},
          got : Seq(Requests)]

\* The part of the type invariant that the steps below rest on.
Types ==
    /\ fdConn \in [Fds -> Conns \cup {NoConn}]
    /\ m_clientfd \in [Channels -> Fds \cup {-1}]
    /\ method_name \in [Channels -> Methods]
    /\ pc \in [Threads -> {"idle", "resolve", "gate", "socket", "connect", "send",
                           "recv", "blocked", "close", "abandon", "done"}]
    /\ call \in [Threads -> Calls]
    /\ requests \in [Conns -> Seq(Requests)]
    /\ replies \in [Conns -> Seq(Requests)]
    /\ peer \in [Conns -> {"none", "up", "closed", "reset"}]
    /\ recvErrors \in SUBSET Conns
    /\ unserialized \in SUBSET Conns

\* A call in one of these states has passed socket().
Opened == {"connect", "send", "recv", "blocked", "close", "abandon"}

\* What a thread's own variables say of each other, at each point of its call.
Local(t) ==
    /\ pc[t] # "idle" => Me(t) \in Conns
    /\ pc[t] \in {"resolve", "gate", "socket", "connect"} => ~call[t].kept /\ ~call[t].sent
    /\ pc[t] = "send" => ~call[t].sent
    /\ pc[t] \in {"recv", "blocked", "close"} => call[t].sent
    /\ pc[t] = "blocked" => call[t].conn \in Conns
    /\ pc[t] \in Opened /\ ~call[t].kept => call[t].fd \in Fds /\ Fd(t) = call[t].fd
    /\ t \in Probers => pc[t] \in {"idle", "socket", "connect", "done"} /\ ~call[t].kept
    /\ t \notin Probers /\ pc[t] # "idle" => call[t].channel \in ChannelsOf[t]
    /\ t \notin Probers /\ ~call[t].kept /\ pc[t] \in {"gate", "socket", "connect", "send"} =>
          method_name[call[t].channel] = call[t].method

\* A connection has at most one descriptor: the one its call got from socket(),
\* as long as the call goes on, or else one that an error left open.
Table ==
    /\ \A f, g \in Fds : fdConn[f] = fdConn[g] /\ fdConn[f] # NoConn => f = g
    /\ \A f \in Fds : fdConn[f] # NoConn =>
          LET t == fdConn[f][1] IN
          \/ fdConn[f] = Me(t) /\ pc[t] \in Opened /\ ~call[t].kept /\ call[t].fd = f
          \/ fdConn[f] \in recvErrors \cup unserialized
    /\ \A c \in recvErrors \cup unserialized :
          c[2] <= call[c[1]].n /\ (c = Me(c[1]) => pc[c[1]] = "done")

\* Nothing travels on a connection before it is made.
Unused ==
    /\ \A c \in Conns :
          \/ c[2] > call[c[1]].n
          \/ c = Me(c[1]) /\ pc[c[1]] \in {"resolve", "gate", "socket"}
          => peer[c] = "none"
    /\ \A c \in Conns : peer[c] = "none" => requests[c] = <<>> /\ replies[c] = <<>>

Base == Types /\ (\A t \in Threads : Local(t)) /\ Table /\ Unused

OnlyOf(s, c) == \A i \in 1 .. Len(s) : s[i].from = c

\* No two calls in progress go by the same number.
Separate == \A t, u \in Threads : t # u /\ Holds(t) /\ Holds(u) => Fd(t) # Fd(u)

\* What the number stands for, and what travels there.
Held(t) == Holds(t) =>
    LET c == ConnOf(Fd(t)) IN
    /\ c # NoConn
    /\ IF call[t].kept THEN c \in unserialized ELSE c = Me(t)
    /\ pc[t] # "connect" => peer[c] # "none"
    /\ pc[t] = "blocked" => call[t].conn = c
    /\ OnlyOf(requests[c], Me(t)) /\ OnlyOf(replies[c], Me(t))
    /\ ~call[t].sent => requests[c] = <<>> /\ replies[c] = <<>>

\* A descriptor nobody goes by: its connection is dead, or was never used.
Left(f) ==
    /\ fdConn[f] # NoConn
    /\ \A t \in Threads : ~(Holds(t) /\ Fd(t) = f)
    => \/ peer[fdConn[f]] = "reset"
       \/ /\ fdConn[f] \in unserialized
          /\ peer[fdConn[f]] # "none"
          /\ requests[fdConn[f]] = <<>> /\ replies[fdConn[f]] = <<>>

Outcome(t) ==
    /\ OnlyOf(call[t].got, Me(t))
    /\ call[t].kept /\ pc[t] = "done" => call[t].failed \/ crashed \/ unserialized # {}

Clean ==
    /\ Separate
    /\ \A t \in Threads : Held(t) /\ Outcome(t)
    /\ \A f \in Fds : Left(f)

-----------------------------------------------------------------------------
(* Facts about the data.                                                   *)

LEMMA ConnsFact ==
    /\ \A c \in Conns : c \in Threads \X Nat /\ c = <<c[1], c[2]>> /\ c # NoConn
    /\ \A c \in Conns : c[1] \in Threads /\ c[2] \in 1 .. MaxCalls[c[1]]
    /\ \A t \in Threads : \A n \in 1 .. MaxCalls[t] : <<t, n>> \in Conns
BY ConstantsAssumption DEF Conns

LEMMA NoCallFact == NoCall \in Calls /\ NoCall.got = <<>> /\ ~NoCall.kept /\ ~NoCall.sent /\ NoCall.n = 0
BY ConstantsAssumption DEF NoCall, Calls

NewCall(n, h, m, b) == [NoCall EXCEPT !.n = n, !.channel = h, !.method = m, !.kept = b]

IsNew(s, n, h, b) ==
    /\ s \in Calls /\ s.n = n /\ s.channel = h /\ s.kept = b
    /\ s.sent = FALSE /\ s.got = <<>>

LEMMA NewCallFact ==
    ASSUME NEW n \in Nat, NEW h \in Channels, NEW m \in Methods, NEW b \in BOOLEAN
    PROVE  IsNew(NewCall(n, h, m, b), n, h, b)
<1> DEFINE s == NewCall(n, h, m, b)
<1>1. s \in Calls /\ s.n = n /\ s.channel = h /\ s.sent = FALSE /\ s.got = <<>>
  BY NoCallFact DEF Calls, NewCall
<1>2. s.kept = b
  BY NoCallFact DEF Calls, NewCall
<1> QED
  BY <1>1, <1>2, Zenon DEF IsNew

LEMMA NewProbe ==
    ASSUME NEW n \in Nat
    PROVE  LET s == [NoCall EXCEPT !.n = n] IN
           s \in Calls /\ s.n = n /\ s.kept = FALSE /\ s.sent = FALSE /\ s.got = <<>>
BY NoCallFact DEF Calls

\* A step of t leaves the other threads alone, their calls, numbers and names.
Frame(t) ==
    /\ call' \in [Threads -> Calls]
    /\ \A u \in Threads : u # t =>
          /\ pc'[u] = pc[u] /\ call'[u] = call[u]
          /\ u \notin Probers /\ pc[u] # "idle" =>
                /\ m_clientfd'[call[u].channel] = m_clientfd[call[u].channel]
                /\ method_name'[call[u].channel] = method_name[call[u].channel]

\* ... and it goes on with the call t is in.
Same(t) ==
    /\ call'[t].n = call[t].n /\ call'[t].channel = call[t].channel
    /\ call'[t].method = call[t].method /\ call'[t].kept = call[t].kept

Advances(t) ==
    /\ call' \in [Threads -> Calls]
    /\ \A u \in Threads : u # t => call'[u] = call[u]
    /\ Same(t)

LEMMA AdvanceNone ==
    ASSUME Types, NEW t \in Threads, UNCHANGED call
    PROVE  Advances(t) /\ call'[t] = call[t]
BY DEF Types, Advances, Same

LEMMA AdvanceTo ==
    ASSUME Types, NEW t \in Threads, NEW s \in Calls, s.n = call[t].n, s.channel = call[t].channel,
           s.method = call[t].method, s.kept = call[t].kept, call' = [call EXCEPT ![t] = s]
    PROVE  Advances(t) /\ call'[t] = s
BY DEF Types, Advances, Same

LEMMA AdvanceFailed ==
    ASSUME Types, NEW t \in Threads, call' = [call EXCEPT ![t].failed = ~Null(t)]
    PROVE  /\ Advances(t) /\ call'[t].got = call[t].got /\ call'[t].sent = call[t].sent
           /\ call'[t].fd = call[t].fd
<1>1. ASSUME NEW r \in Calls, NEW m PROVE
         LET s == [r EXCEPT !.failed = ~(m \in Unchecked)] IN
         /\ s \in Calls /\ s.n = r.n /\ s.channel = r.channel /\ s.method = r.method
         /\ s.kept = r.kept /\ s.sent = r.sent /\ s.fd = r.fd /\ s.got = r.got
  BY DEF Calls
<1> QED
  BY <1>1 DEF Types, Advances, Same, Null

LEMMA AdvanceReturnFailed ==
    ASSUME Types, NEW t \in Threads, ReturnFailed(t)
    PROVE  /\ Advances(t) /\ call'[t].got = call[t].got /\ call'[t].sent = call[t].sent
           /\ call'[t].fd = call[t].fd
<1>1. ASSUME NEW r \in Calls, NEW m PROVE
         LET s == [r EXCEPT !.failed = ~(m \in Unchecked), !.conn = NoConn] IN
         /\ s \in Calls /\ s.n = r.n /\ s.channel = r.channel /\ s.method = r.method
         /\ s.kept = r.kept /\ s.sent = r.sent /\ s.fd = r.fd /\ s.got = r.got
  BY DEF Calls
<1> DEFINE s == [call[t] EXCEPT !.failed = ~(call[t].method \in Unchecked), !.conn = NoConn]
<1>2. call' = [call EXCEPT ![t] = s]
  BY DEF Types, ReturnFailed, Null
<1>3. call[t] \in Calls
  BY DEF Types
<1>4. /\ s \in Calls /\ s.n = call[t].n /\ s.channel = call[t].channel
      /\ s.method = call[t].method /\ s.kept = call[t].kept /\ s.sent = call[t].sent
      /\ s.fd = call[t].fd /\ s.got = call[t].got
  BY <1>1, <1>3
<1> HIDE DEF s
<1>5. Advances(t) /\ call'[t] = s
  BY <1>2, <1>4, AdvanceTo
<1> QED
  BY <1>4, <1>5

LEMMA AdvanceFd ==
    ASSUME Types, NEW t \in Threads, NEW v \in Fds, call' = [call EXCEPT ![t].fd = v]
    PROVE  /\ Advances(t) /\ call'[t].got = call[t].got /\ call'[t].sent = call[t].sent
           /\ call'[t].fd = v
<1>1. ASSUME NEW r \in Calls PROVE
         LET s == [r EXCEPT !.fd = v] IN
         /\ s \in Calls /\ s.n = r.n /\ s.channel = r.channel /\ s.method = r.method
         /\ s.kept = r.kept /\ s.sent = r.sent /\ s.fd = v /\ s.got = r.got
  BY DEF Calls
<1> QED
  BY <1>1 DEF Types, Advances, Same

LEMMA AdvanceSent ==
    ASSUME Types, NEW t \in Threads, call' = [call EXCEPT ![t].sent = TRUE]
    PROVE  /\ Advances(t) /\ call'[t].got = call[t].got /\ call'[t].sent = TRUE
           /\ call'[t].fd = call[t].fd
<1>1. ASSUME NEW r \in Calls PROVE
         LET s == [r EXCEPT !.sent = TRUE] IN
         /\ s \in Calls /\ s.n = r.n /\ s.channel = r.channel /\ s.method = r.method
         /\ s.kept = r.kept /\ s.sent = TRUE /\ s.fd = r.fd /\ s.got = r.got
  BY DEF Calls
<1> QED
  BY <1>1 DEF Types, Advances, Same

LEMMA AdvanceConn ==
    ASSUME Types, NEW t \in Threads, NEW c \in Conns, call' = [call EXCEPT ![t].conn = c]
    PROVE  /\ Advances(t) /\ call'[t].got = call[t].got /\ call'[t].sent = call[t].sent
           /\ call'[t].fd = call[t].fd /\ call'[t].conn = c
<1>1. ASSUME NEW r \in Calls PROVE
         LET s == [r EXCEPT !.conn = c] IN
         /\ s \in Calls /\ s.n = r.n /\ s.channel = r.channel /\ s.method = r.method
         /\ s.kept = r.kept /\ s.sent = r.sent /\ s.fd = r.fd /\ s.got = r.got /\ s.conn = c
  BY DEF Calls
<1> QED
  BY <1>1 DEF Types, Advances, Same

LEMMA AdvanceGot ==
    ASSUME Types, NEW t \in Threads, NEW g \in Seq(Requests),
           call' = [call EXCEPT ![t].got = g, ![t].conn = NoConn]
    PROVE  /\ Advances(t) /\ call'[t].got = g /\ call'[t].sent = call[t].sent
           /\ call'[t].fd = call[t].fd
<1>1. ASSUME NEW r \in Calls PROVE
         LET s == [r EXCEPT !.got = g, !.conn = NoConn] IN
         /\ s \in Calls /\ s.n = r.n /\ s.channel = r.channel /\ s.method = r.method
         /\ s.kept = r.kept /\ s.sent = r.sent /\ s.fd = r.fd /\ s.got = g
  BY DEF Calls
<1>2. call' = [call EXCEPT ![t] = [call[t] EXCEPT !.got = g, !.conn = NoConn]]
  BY DEF Types
<1>3. call[t] \in Calls
  BY DEF Types
<1> DEFINE s == [call[t] EXCEPT !.got = g, !.conn = NoConn]
<1>4. /\ s \in Calls /\ s.n = call[t].n /\ s.channel = call[t].channel
      /\ s.method = call[t].method /\ s.kept = call[t].kept /\ s.sent = call[t].sent
      /\ s.fd = call[t].fd /\ s.got = g
  BY <1>1, <1>3
<1>5. call' = [call EXCEPT ![t] = s]
  BY <1>2
<1> HIDE DEF s
<1>6. Advances(t) /\ call'[t] = s
  BY <1>4, <1>5, AdvanceTo
<1> QED
  BY <1>4, <1>6

-----------------------------------------------------------------------------
(* What a step of t leaves as it is.                                       *)

LEMMA OthersStay ==
    ASSUME Types, NEW t \in Threads, Frame(t), NEW u \in Threads, u # t, Local(u)
    PROVE  /\ Local(u)' /\ Me(u)' = Me(u) /\ (Holds(u)' <=> Holds(u))
           /\ Holds(u) => Fd(u)' = Fd(u)
<1>1. pc'[u] = pc[u] /\ call'[u] = call[u] /\ Me(u)' = Me(u)
  BY DEF Frame, Me
<1>2. pc[u] \in Opened => Fd(u)' = Fd(u)
  BY <1>1 DEF Frame, Local, Fd, Opened
<1>3. Local(u)'
  BY <1>1, <1>2 DEF Frame, Local, Opened
<1>4. Holds(u)' <=> Holds(u)
  BY <1>1 DEF Holds
<1>5. Holds(u) => pc[u] \in Opened
  BY DEF Holds, Opened
<1> QED
  BY <1>1, <1>2, <1>3, <1>4, <1>5

\* A step that opens nothing and goes on with its call.
LEMMA TableStays ==
    ASSUME Types, Table, NEW t \in Threads, Frame(t), Same(t), call'[t].fd = call[t].fd,
           \A f \in Fds : fdConn'[f] \in {fdConn[f], NoConn},
           recvErrors \cup unserialized \subseteq recvErrors' \cup unserialized',
           recvErrors' \cup unserialized' \subseteq recvErrors \cup unserialized \cup {Me(t)},
           pc[t] \notin {"idle", "done"},
           pc'[t] # "done" => recvErrors' \cup unserialized' = recvErrors \cup unserialized,
           pc'[t] \notin Opened => pc[t] \notin Opened \/ Me(t) \in recvErrors' \cup unserialized'
                                   \/ call[t].kept \/ \A f \in Fds : f = call[t].fd => fdConn'[f] = NoConn
    PROVE  Table'
<1> DEFINE gone == recvErrors \cup unserialized
<1>1. \A u \in Threads : call'[u].n = call[u].n /\ Me(u)' = Me(u) /\ call'[u].fd = call[u].fd
                         /\ call'[u].kept = call[u].kept
  BY DEF Frame, Same, Me
<1>2. \A f, g \in Fds : fdConn'[f] = fdConn'[g] /\ fdConn'[f] # NoConn => f = g
  BY DEF Table
<1>3. ASSUME NEW f \in Fds, fdConn'[f] # NoConn, fdConn'[f] \notin gone'
      PROVE  /\ fdConn'[f] = <<fdConn'[f][1], call'[fdConn'[f][1]].n>>
             /\ pc'[fdConn'[f][1]] \in Opened
             /\ ~call'[fdConn'[f][1]].kept /\ call'[fdConn'[f][1]].fd = f
  <2> DEFINE u == fdConn[f][1]
  <2>1. fdConn'[f] = fdConn[f] /\ fdConn[f] \notin gone /\ u \in Threads
    BY <1>3, ConnsFact DEF Types
  <2>2. fdConn[f] = Me(u) /\ pc[u] \in Opened /\ ~call[u].kept /\ call[u].fd = f
    BY <1>3, <2>1 DEF Table
  <2>3. pc'[u] \in Opened
    <3>1. CASE u # t
      BY <2>1, <2>2, <3>1 DEF Frame
    <3>2. CASE u = t
      BY <1>3, <2>1, <2>2, <3>2
    <3> QED
      BY <3>1, <3>2
  <2>4. fdConn[f] = <<u, call'[u].n>> /\ ~call'[u].kept /\ call'[u].fd = f
    BY <1>1, <2>1, <2>2 DEF Me
  <2>5. fdConn'[f][1] = u
    BY <2>1
  <2> HIDE DEF u
  <2> QED
    BY <2>1, <2>3, <2>4, <2>5
<1>4. ASSUME NEW c \in gone'
      PROVE  c[2] <= call'[c[1]].n /\ (c = <<c[1], call'[c[1]].n>> => pc'[c[1]] = "done")
  <2>1. CASE c \in gone
    <3>1. c \in Conns /\ c[1] \in Threads
      BY <2>1, ConnsFact DEF Types
    <3>2. c[2] <= call[c[1]].n /\ (c = Me(c[1]) => pc[c[1]] = "done")
      BY <2>1 DEF Table
    <3>3. c = Me(c[1]) => c[1] # t
      BY <3>2
    <3> QED
      BY <1>1, <3>1, <3>2, <3>3 DEF Frame, Me
  <2>2. CASE c \notin gone
    <3>1. c = Me(t) /\ pc'[t] = "done"
      BY <1>4, <2>2
    <3>2. c[1] = t /\ c[2] = call[t].n /\ call[t].n \in Nat
      BY <3>1 DEF Me, Types, Calls
    <3> QED
      BY <1>1, <3>1, <3>2
  <2> QED
    BY <2>1, <2>2
<1> QED
  BY <1>2, <1>3, <1>4 DEF Table, Me

\* A step after which no connection is new again, and nothing is put on one.
LEMMA UnusedStays ==
    ASSUME Types, Unused, NEW t \in Threads, Frame(t), Same(t), UNCHANGED <<requests, replies, peer>>,
           pc'[t] \in {"resolve", "gate", "socket"} => pc[t] \in {"resolve", "gate", "socket"}
    PROVE  Unused'
<1>1. \A u \in Threads : call'[u].n = call[u].n /\ Me(u)' = Me(u)
  BY DEF Frame, Same, Me
<1>2. \A u \in Threads : pc'[u] \in {"resolve", "gate", "socket"} => pc[u] \in {"resolve", "gate", "socket"}
  BY DEF Frame
<1>3. \A c \in Conns : c[1] \in Threads
  BY ConnsFact
<1> QED
  BY <1>1, <1>2, <1>3 DEF Unused

\* Together: a step of t's call that opens nothing and says nothing.
LEMMA BaseStays ==
    ASSUME Base, NEW t \in Threads, Frame(t), Same(t), call'[t].fd = call[t].fd, Types', Local(t)',
           \A f \in Fds : fdConn'[f] \in {fdConn[f], NoConn},
           recvErrors \cup unserialized \subseteq recvErrors' \cup unserialized',
           recvErrors' \cup unserialized' \subseteq recvErrors \cup unserialized \cup {Me(t)},
           pc[t] \notin {"idle", "done"},
           pc'[t] # "done" => recvErrors' \cup unserialized' = recvErrors \cup unserialized,
           pc'[t] \notin Opened => pc[t] \notin Opened \/ Me(t) \in recvErrors' \cup unserialized'
                                   \/ call[t].kept \/ \A f \in Fds : f = call[t].fd => fdConn'[f] = NoConn,
           UNCHANGED <<requests, replies, peer>>,
           pc'[t] \in {"resolve", "gate", "socket"} => pc[t] \in {"resolve", "gate", "socket"}
    PROVE  Base'
<1>1. \A u \in Threads : Local(u)'
  BY OthersStay DEF Base
<1>2. Table'
  BY TableStays DEF Base
<1>3. Unused'
  BY UnusedStays DEF Base
<1> QED
  BY <1>1, <1>2, <1>3 DEF Base

-----------------------------------------------------------------------------
(* One lemma per action: a step keeps Base.                                *)

LEMMA InitBase == Init => Base
<1> SUFFICES ASSUME Init PROVE Base
  OBVIOUS
<1>1. Types
  <2>1. method_name \in [Channels -> Methods]
    BY ConstantsAssumption DEF Init, NoCall
  <2>2. call \in [Threads -> Calls]
    BY NoCallFact DEF Init
  <2> QED
    BY <2>1, <2>2 DEF Init, Types
<1>2. \A t \in Threads : Local(t)
  <2>1. \A t \in Threads : pc[t] = "idle" /\ ~call[t].kept
    BY NoCallFact DEF Init
  <2> QED
    BY <2>1 DEF Local, Opened
<1>3. Table
  BY DEF Init, Table
<1>4. Unused
  BY DEF Init, Unused
<1> QED
  BY <1>1, <1>2, <1>3, <1>4 DEF Base

\* What Begin and Probe have in common.
LEMMA NewCallBase ==
    ASSUME Base, NEW t \in Threads, pc[t] \in {"idle", "done"}, call[t].n < MaxCalls[t],
           call' \in [Threads -> Calls], \A u \in Threads : u # t => call'[u] = call[u],
           call'[t].n = call[t].n + 1,
           NEW l \in {"resolve", "send", "socket"}, pc' = [pc EXCEPT ![t] = l],
           Local(t)',
           UNCHANGED <<fdConn, m_clientfd, method_name, requests, replies, peer,
                       recvErrors, unserialized>>
    PROVE  Base' /\ Frame(t)
<1>1. Types'
  BY DEF Base, Types
<1>2. Frame(t)
  BY DEF Base, Types, Frame
<1>3. \A u \in Threads : Local(u)'
  BY <1>2, OthersStay DEF Base
<1>4. call[t].n \in Nat /\ call'[t].n \in Nat
  BY <1>1 DEF Base, Types, Calls
<1>5. Table'
  <2>1. ASSUME NEW f \in Fds, fdConn[f] # NoConn, fdConn[f] \notin recvErrors \cup unserialized
        PROVE  /\ fdConn[f] = <<fdConn[f][1], call'[fdConn[f][1]].n>>
               /\ pc'[fdConn[f][1]] \in Opened
               /\ ~call'[fdConn[f][1]].kept /\ call'[fdConn[f][1]].fd = f
    <3> DEFINE u == fdConn[f][1]
    <3>1. u \in Threads
      BY <2>1, ConnsFact DEF Base, Types
    <3>2. fdConn[f] = Me(u) /\ pc[u] \in Opened /\ ~call[u].kept /\ call[u].fd = f
      BY <2>1 DEF Base, Table
    <3>3. u # t
      BY <3>2 DEF Opened
    <3> QED
      BY <1>2, <3>1, <3>2, <3>3 DEF Frame, Me
  <2>2. ASSUME NEW c \in recvErrors \cup unserialized
        PROVE  c[2] <= call'[c[1]].n /\ (c = <<c[1], call'[c[1]].n>> => pc'[c[1]] = "done")
    <3>1. c \in Conns /\ c[1] \in Threads /\ c[2] \in Nat
      BY <2>2, ConnsFact DEF Base, Types
    <3>2. c[2] <= call[c[1]].n /\ (c = Me(c[1]) => pc[c[1]] = "done")
      BY <2>2 DEF Base, Table
    <3>3. CASE c[1] = t
      BY <1>4, <3>1, <3>2, <3>3
    <3>4. CASE c[1] # t
      BY <1>2, <3>1, <3>2, <3>4 DEF Frame, Me
    <3> QED
      BY <3>3, <3>4
  <2> QED
    BY <2>1, <2>2 DEF Base, Table, Me
<1>6. Unused'
  <2>1. ASSUME NEW c \in Conns,
               \/ c[2] > call'[c[1]].n
               \/ c = <<c[1], call'[c[1]].n>> /\ pc'[c[1]] \in {"resolve", "gate", "socket"}
        PROVE  peer[c] = "none"
    <3>1. c[1] \in Threads /\ c[2] \in Nat /\ c = <<c[1], c[2]>>
      BY ConnsFact
    <3>2. CASE c[1] = t
      <4>1. c[2] > call[t].n
        BY <1>4, <2>1, <3>1, <3>2
      <4> QED
        BY <3>2, <4>1 DEF Base, Unused
    <3>3. CASE c[1] # t
      BY <1>2, <2>1, <3>1, <3>3 DEF Base, Unused, Frame, Me
    <3> QED
      BY <3>2, <3>3
  <2> QED
    BY <2>1 DEF Base, Unused, Me
<1> QED
  BY <1>1, <1>2, <1>3, <1>5, <1>6 DEF Base

LEMMA BeginStep ==
    ASSUME Base, NEW t \in Threads, Begin(t)
    PROVE  \E h \in ChannelsOf[t] :
              /\ call' \in [Threads -> Calls]
              /\ \A u \in Threads : u # t => call'[u] = call[u]
              /\ call'[t].n = call[t].n + 1 /\ call'[t].channel = h
              /\ call'[t].kept <=> m_clientfd[h] # -1
              /\ call'[t].sent = FALSE /\ call'[t].got = <<>>
              /\ pc' = [pc EXCEPT ![t] = IF m_clientfd[h] = -1 THEN "resolve" ELSE "send"]
<1>0. PICK h \in ChannelsOf[t] : \E m \in MethodsOf[h] :
         /\ call' = [call EXCEPT ![t] = [NoCall EXCEPT
                 !.n = call[t].n + 1, !.channel = h, !.method = m,
                 !.kept = m_clientfd[h] # -1]]
         /\ pc' = [pc EXCEPT ![t] = IF m_clientfd[h] = -1 THEN "resolve" ELSE "send"]
  BY Zenon DEF Begin, Goto
<1>1. PICK m \in MethodsOf[h] :
         /\ call' = [call EXCEPT ![t] = [NoCall EXCEPT
                 !.n = call[t].n + 1, !.channel = h, !.method = m,
                 !.kept = m_clientfd[h] # -1]]
         /\ pc' = [pc EXCEPT ![t] = IF m_clientfd[h] = -1 THEN "resolve" ELSE "send"]
  BY <1>0
<1>2. h \in Channels /\ m \in Methods /\ call[t].n + 1 \in Nat /\ (m_clientfd[h] # -1) \in BOOLEAN
  BY ConstantsAssumption DEF Base, Types, Calls
<1> DEFINE n == call[t].n + 1
           b == m_clientfd[h] # -1
           s == NewCall(n, h, m, b)
<1>3. IsNew(s, n, h, b)
  <2>1. n \in Nat /\ b \in BOOLEAN
    BY <1>2
  <2>2. h \in Channels /\ m \in Methods
    BY <1>2
  <2> HIDE DEF n, b
  <2> QED
    BY <2>1, <2>2, NewCallFact, Zenon
<1>4. call' = [call EXCEPT ![t] = s]
  BY <1>1, Zenon DEF NewCall
<1> HIDE DEF s
<1>5. call' \in [Threads -> Calls] /\ call'[t] = s /\ \A u \in Threads : u # t => call'[u] = call[u]
  BY <1>3, <1>4 DEF Base, Types, IsNew
<1>6. call'[t].kept <=> m_clientfd[h] # -1
  BY <1>3, <1>5 DEF IsNew
<1> QED
  BY <1>1, <1>3, <1>5, <1>6 DEF IsNew

LEMMA BeginBase ==
    ASSUME Base, NEW t \in Threads, Begin(t)
    PROVE  Base' /\ Frame(t)
<1>1. PICK h \in ChannelsOf[t] :
         /\ call' \in [Threads -> Calls]
         /\ \A u \in Threads : u # t => call'[u] = call[u]
         /\ call'[t].n = call[t].n + 1 /\ call'[t].channel = h
         /\ call'[t].kept <=> m_clientfd[h] # -1
         /\ call'[t].sent = FALSE /\ call'[t].got = <<>>
         /\ pc' = [pc EXCEPT ![t] = IF m_clientfd[h] = -1 THEN "resolve" ELSE "send"]
  BY BeginStep
<1>2. /\ t \notin Probers /\ pc[t] \in {"idle", "done"} /\ call[t].n < MaxCalls[t]
      /\ UNCHANGED <<fdConn, m_clientfd, method_name, requests, replies, peer,
                     recvErrors, unserialized>>
  BY DEF Begin, channel, net, history
<1>3. PICK l \in {"resolve", "send"} :
         pc' = [pc EXCEPT ![t] = l] /\ (l = "resolve" <=> m_clientfd[h] = -1)
  BY <1>1
<1>4. pc'[t] = l /\ call[t].n \in Nat
  BY <1>3 DEF Base, Types, Calls
<1>5 Me(t)' \in Conns
  <2>1. call'[t].n \in 1 .. MaxCalls[t]
    BY <1>1, <1>2, <1>4, ConstantsAssumption
  <2> QED
    BY <2>1, ConnsFact DEF Me
<1>6. Local(t)'
  BY <1>1, <1>2, <1>3, <1>4, <1>5 DEF Local, Opened
<1> QED
  BY <1>1, <1>2, <1>3, <1>6, NewCallBase

LEMMA ProbeBase ==
    ASSUME Base, NEW t \in Threads, Probe(t)
    PROVE  Base' /\ Frame(t)
<1>1. /\ t \in Probers /\ pc[t] \in {"idle", "done"} /\ call[t].n < MaxCalls[t]
      /\ call' = [call EXCEPT ![t] = [NoCall EXCEPT !.n = call[t].n + 1]]
      /\ pc' = [pc EXCEPT ![t] = "socket"]
      /\ UNCHANGED <<fdConn, m_clientfd, method_name, requests, replies, peer,
                     recvErrors, unserialized>>
  BY DEF Probe, Goto, channel, net, history
<1> DEFINE s == [NoCall EXCEPT !.n = call[t].n + 1]
<1>2. s \in Calls /\ s.n = call[t].n + 1 /\ s.kept = FALSE /\ s.sent = FALSE
  <2>1. call[t].n + 1 \in Nat
    BY DEF Base, Types, Calls
  <2> QED
    BY <2>1, NewProbe
<1>3. call' = [call EXCEPT ![t] = s]
  BY <1>1
<1> HIDE DEF s
<1>4. call' \in [Threads -> Calls] /\ call'[t] = s /\ \A u \in Threads : u # t => call'[u] = call[u]
  BY <1>2, <1>3 DEF Base, Types
<1>5. pc'[t] = "socket" /\ call[t].n \in Nat
  BY <1>1 DEF Base, Types, Calls
<1>6 Me(t)' \in Conns
  <2>1. call'[t].n \in 1 .. MaxCalls[t]
    BY <1>1, <1>2, <1>4, <1>5, ConstantsAssumption
  <2> QED
    BY <2>1, ConnsFact DEF Me
<1>7. Local(t)'
  BY <1>1, <1>2, <1>4, <1>5, <1>6 DEF Local, Opened
<1> QED
  BY <1>1, <1>2, <1>4, <1>7, NewCallBase

LEMMA ResolveBase ==
    ASSUME Base, NEW t \in Threads, Resolve(t)
    PROVE  Base' /\ Frame(t) /\ Advances(t)
<1>1. /\ pc[t] = "resolve" /\ pc' = [pc EXCEPT ![t] = "gate"]
      /\ method_name' = [method_name EXCEPT ![call[t].channel] = call[t].method]
      /\ UNCHANGED <<fdConn, m_clientfd, call, requests, replies, peer, recvErrors, unserialized>>
  BY DEF Resolve, Goto, net, history
<1>2. Local(t) /\ t \notin Probers /\ call[t].channel \in ChannelsOf[t] /\ call[t].channel \in Channels
  BY <1>1, ConstantsAssumption DEF Base, Local
<1>3. Advances(t) /\ call'[t] = call[t]
  BY <1>1, AdvanceNone DEF Base
<1>4. Types'
  BY <1>1, <1>2 DEF Base, Types, Calls
<1>5. Frame(t)
  <2>1. ASSUME NEW u \in Threads, u # t, u \notin Probers, pc[u] # "idle"
        PROVE  call[u].channel # call[t].channel
    <3>1. call[u].channel \in ChannelsOf[u]
      BY <2>1 DEF Base, Local
    <3> QED
      BY <1>2, <2>1, <3>1, ConstantsAssumption
  <2> QED
    BY <1>1, <1>3, <2>1 DEF Base, Types, Frame, Advances
<1>6. Local(t)'
  BY <1>1, <1>2 DEF Base, Types, Local, Opened, Me
<1> QED
  BY <1>1, <1>3, <1>4, <1>5, <1>6, BaseStays DEF Base, Types, Advances, Opened

LEMMA GateBase ==
    ASSUME Base, NEW t \in Threads, Gate(t)
    PROVE  Base' /\ Frame(t) /\ Advances(t) /\ call'[t].got = call[t].got
<1>1. /\ pc[t] = "gate"
      /\ \/ pc' = [pc EXCEPT ![t] = "socket"] /\ UNCHANGED call
         \/ pc' = [pc EXCEPT ![t] = "done"] /\ call' = [call EXCEPT ![t].failed = ~Null(t)]
      /\ UNCHANGED <<fdConn, m_clientfd, method_name, requests, replies, peer,
                     recvErrors, unserialized>>
  BY DEF Gate, Goto, Return, net, channel, history
<1>2. Advances(t) /\ call'[t].got = call[t].got /\ call'[t].sent = call[t].sent /\ call'[t].fd = call[t].fd
  BY <1>1, AdvanceNone, AdvanceFailed DEF Base
<1>3. Types'
  BY <1>1, <1>2 DEF Base, Types, Advances
<1>4. Frame(t)
  BY <1>1, <1>2 DEF Base, Types, Frame, Advances
<1>5. pc'[t] \in {"socket", "done"}
  BY <1>1 DEF Base, Types
<1>6. Local(t)'
  BY <1>1, <1>2, <1>5 DEF Base, Types, Local, Opened, Me, Advances, Same
<1> QED
  BY <1>1, <1>2, <1>3, <1>4, <1>5, <1>6, BaseStays DEF Base, Types, Advances, Opened

\* A connection that has a descriptor is not a new one.
LEMMA OpenIsUsed ==
    ASSUME Base, NEW f \in Fds, NEW c, fdConn[f] = c, c # NoConn
    PROVE  /\ c \in Conns /\ c[1] \in Threads
           /\ ~(c[2] > call[c[1]].n)
           /\ ~(c = Me(c[1]) /\ pc[c[1]] \in {"resolve", "gate", "socket"})
<1>1. c \in Conns /\ c[1] \in Threads /\ c[2] \in Nat
  BY ConnsFact DEF Base, Types
<1>2. call[c[1]].n \in Nat
  BY <1>1 DEF Base, Types, Calls
<1>3. CASE c = Me(c[1]) /\ pc[c[1]] \in Opened
  <2>1. c[2] = call[c[1]].n
    <3>1. \A u, n : c = <<u, n>> => c[2] = n
      OBVIOUS
    <3> QED
      BY <1>3, <3>1, Zenon DEF Me
  <2> QED
    BY <1>1, <1>2, <1>3, <2>1 DEF Opened
<1>4. CASE c \in recvErrors \cup unserialized
  <2>1. c[2] <= call[c[1]].n /\ (c = Me(c[1]) => pc[c[1]] = "done")
    BY <1>4 DEF Base, Table
  <2> QED
    BY <1>1, <1>2, <2>1
<1> QED
  BY <1>3, <1>4 DEF Base, Table

LEMMA SocketBase ==
    ASSUME Base, NEW t \in Threads, Socket(t)
    PROVE  Base' /\ Frame(t) /\ Advances(t) /\ call'[t].got = call[t].got
<1>1. pc[t] = "socket" /\ UNCHANGED <<m_clientfd, method_name, requests, replies, peer,
                                      recvErrors, unserialized>>
  BY DEF Socket, net, channel, history
<1>2. Me(t) \in Conns /\ Me(t) # NoConn /\ ~call[t].kept /\ ~call[t].sent
  BY <1>1, ConnsFact DEF Base, Local
<1>3. CASE pc' = [pc EXCEPT ![t] = "done"] /\ UNCHANGED <<fdConn, call>>
  <2>1. Advances(t) /\ call'[t] = call[t]
    BY <1>3, AdvanceNone DEF Base
  <2>2. Types'
    BY <1>1, <1>3 DEF Base, Types
  <2>3. Frame(t)
    BY <1>1, <1>3 DEF Base, Types, Frame
  <2>4. Local(t)'
    BY <1>1, <1>3 DEF Base, Types, Local, Me, Opened
  <2> QED
    BY <1>1, <1>2, <1>3, <2>1, <2>2, <2>3, <2>4, BaseStays DEF Base, Types, Opened, Advances
<1>4. ASSUME NEW fd \in FreeFds, fdConn' = [fdConn EXCEPT ![fd] = Me(t)],
             call' = [call EXCEPT ![t].fd = fd], pc' = [pc EXCEPT ![t] = "connect"]
      PROVE  Base' /\ Frame(t) /\ Advances(t) /\ call'[t].got = call[t].got
  <2>1. fd \in Fds /\ fdConn[fd] = NoConn
    BY DEF FreeFds
  <2>2. Advances(t) /\ call'[t].got = call[t].got /\ call'[t].sent = call[t].sent /\ call'[t].fd = fd
    BY <1>4, <2>1, AdvanceFd DEF Base
  <2>3. Types'
    BY <1>1, <1>2, <1>4, <2>1, <2>2 DEF Base, Types, Advances
  <2>4. Frame(t)
    BY <1>1, <1>4, <2>1, <2>2 DEF Base, Types, Frame, Advances
  <2>5. \A u \in Threads : call'[u].n = call[u].n /\ Me(u)' = Me(u)
    BY <2>2, <2>4 DEF Frame, Me, Advances, Same
  <2>6. /\ fdConn'[fd] = Me(t) /\ \A f \in Fds : f # fd => fdConn'[f] = fdConn[f]
        /\ pc'[t] = "connect" /\ \A u \in Threads : u # t => pc'[u] = pc[u]
    BY <1>4, <2>1 DEF Base, Types
  <2>7. Fd(t)' = fd
    BY <2>2, <2>6 DEF Fd
  <2>8. Local(t)'
    BY <1>1, <1>2, <2>1, <2>2, <2>5, <2>6, <2>7 DEF Base, Local, Opened, Advances, Same
  <2>9. \A u \in Threads : Local(u)'
    BY <2>4, <2>8, OthersStay DEF Base
  <2>10. \A f \in Fds : fdConn[f] # Me(t)
    BY <1>1, <1>2, OpenIsUsed DEF Me
  <2>11. Table'
    <3>1. \A f, g \in Fds : fdConn'[f] = fdConn'[g] /\ fdConn'[f] # NoConn => f = g
      BY <2>6, <2>10 DEF Base, Table
    <3>2. ASSUME NEW f \in Fds, fdConn'[f] # NoConn, fdConn'[f] \notin recvErrors \cup unserialized
          PROVE  /\ fdConn'[f] = <<fdConn'[f][1], call'[fdConn'[f][1]].n>>
                 /\ pc'[fdConn'[f][1]] \in Opened
                 /\ ~call'[fdConn'[f][1]].kept /\ call'[fdConn'[f][1]].fd = f
      <4>1. CASE f = fd
        <5>1. fdConn'[f] = Me(t) /\ fdConn'[f][1] = t /\ Me(t) = <<t, call'[t].n>>
          BY <2>5, <2>6, <4>1 DEF Me
        <5> QED
          BY <1>2, <2>2, <2>6, <4>1, <5>1 DEF Opened, Advances, Same
      <4>2. CASE f # fd
        <5> DEFINE u == fdConn[f][1]
        <5>1. fdConn'[f] = fdConn[f] /\ u \in Threads
          BY <2>6, <3>2, <4>2, ConnsFact DEF Base, Types
        <5>2. fdConn[f] = Me(u) /\ pc[u] \in Opened /\ ~call[u].kept /\ call[u].fd = f
          BY <3>2, <5>1 DEF Base, Table
        <5>3. u # t
          BY <1>1, <5>2 DEF Opened
        <5>4. call'[u] = call[u] /\ pc'[u] = pc[u]
          BY <2>4, <5>1, <5>3 DEF Frame
        <5> QED
          BY <5>1, <5>2, <5>4 DEF Me
      <4> QED
        BY <4>1, <4>2
    <3>3. ASSUME NEW c \in recvErrors \cup unserialized
          PROVE  c[2] <= call'[c[1]].n /\ (c = <<c[1], call'[c[1]].n>> => pc'[c[1]] = "done")
      <4>1. c \in Conns /\ c[1] \in Threads
        BY <3>3, ConnsFact DEF Base, Types
      <4>2. c[2] <= call[c[1]].n /\ (c = Me(c[1]) => pc[c[1]] = "done")
        BY <3>3 DEF Base, Table
      <4> QED
        BY <1>1, <2>5, <2>6, <4>1, <4>2 DEF Me
    <3> QED
      BY <1>1, <3>1, <3>2, <3>3 DEF Table, Me
  <2>12. Unused'
    BY <1>1, <2>2, <2>4, <2>6, UnusedStays DEF Base, Advances
  <2> QED
    BY <2>2, <2>3, <2>4, <2>9, <2>11, <2>12 DEF Base
<1> QED
  BY <1>1, <1>3, <1>4 DEF Socket, Goto, Return

\* BaseStays for a step that uses the network.
LEMMA BaseStaysNet ==
    ASSUME Base, NEW t \in Threads, Frame(t), Same(t), call'[t].fd = call[t].fd, Types', Local(t)',
           UNCHANGED <<fdConn, recvErrors, unserialized>>,
           pc[t] \in Opened, pc'[t] \in Opened,
           \A c \in Conns : peer'[c] # peer[c] => \E f \in Fds : fdConn[f] = c,
           \A c \in Conns : peer'[c] = "none" =>
              peer[c] = "none" /\ requests'[c] = requests[c] /\ replies'[c] = replies[c]
    PROVE  Base'
<1>1. \A u \in Threads : Local(u)'
  BY OthersStay DEF Base
<1>2. Table'
  BY TableStays DEF Base, Types, Opened
<1>3. Unused'
  <2>1. \A u \in Threads : call'[u].n = call[u].n /\ Me(u)' = Me(u)
    BY DEF Frame, Same, Me
  <2>2. \A u \in Threads : pc'[u] \in {"resolve", "gate", "socket"} => pc[u] \in {"resolve", "gate", "socket"}
    BY DEF Frame, Opened
  <2>3. ASSUME NEW c \in Conns,
               \/ c[2] > call[c[1]].n
               \/ c = Me(c[1]) /\ pc[c[1]] \in {"resolve", "gate", "socket"}
        PROVE  peer'[c] = "none"
    <3>1. peer[c] = "none"
      BY <2>3 DEF Base, Unused
    <3>2. ~ \E f \in Fds : fdConn[f] = c
      BY <2>3, OpenIsUsed, ConnsFact
    <3> QED
      BY <3>1, <3>2
  <2>4. \A c \in Conns : c[1] \in Threads
    BY ConnsFact
  <2>5. \A c \in Conns : peer'[c] = "none" => requests'[c] = <<>> /\ replies'[c] = <<>>
    BY DEF Base, Unused
  <2> QED
    BY <2>1, <2>2, <2>3, <2>4, <2>5 DEF Unused
<1> QED
  BY <1>1, <1>2, <1>3 DEF Base

\* What State says of the descriptor table.
LEMMA StateFact ==
    ASSUME Types, NEW t \in Threads, State(t) # "bad"
    PROVE  /\ Fd(t) \in Fds /\ ConnOf(Fd(t)) = fdConn[Fd(t)]
           /\ fdConn[Fd(t)] \in Conns /\ fdConn[Fd(t)] # NoConn
           /\ State(t) = peer[fdConn[Fd(t)]]
BY DEF Types, State, ConnOf

LEMMA ConnectOkBase ==
    ASSUME Base, NEW t \in Threads, ConnectOk(t)
    PROVE  Base' /\ Frame(t) /\ Advances(t) /\ call'[t] = call[t]
<1>1. /\ pc[t] = "connect" /\ pc' = [pc EXCEPT ![t] = "send"] /\ t \notin Probers /\ State(t) = "none"
      /\ m_clientfd' = [m_clientfd EXCEPT ![call[t].channel] = call[t].fd]
      /\ peer' = [peer EXCEPT ![ConnOf(call[t].fd)] = "up"]
      /\ UNCHANGED <<fdConn, method_name, call, requests, replies, recvErrors, unserialized>>
  BY DEF ConnectOk, Goto, history
<1>2. Advances(t) /\ call'[t] = call[t]
  BY <1>1, AdvanceNone DEF Base
<1>3. /\ Local(t) /\ call[t].channel \in ChannelsOf[t] /\ call[t].channel \in Channels
      /\ ~call[t].kept /\ call[t].fd \in Fds /\ Fd(t) = call[t].fd
  BY <1>1, ConstantsAssumption DEF Base, Local, Opened
<1>4. ConnOf(call[t].fd) = fdConn[call[t].fd] /\ fdConn[call[t].fd] \in Conns
  BY <1>1, <1>3, StateFact DEF Base
<1>5. Types'
  BY <1>1, <1>3, <1>4 DEF Base, Types
<1>6. Frame(t)
  <2>1. ASSUME NEW u \in Threads, u # t, u \notin Probers, pc[u] # "idle"
        PROVE  call[u].channel # call[t].channel
    <3>1. call[u].channel \in ChannelsOf[u]
      BY <2>1 DEF Base, Local
    <3> QED
      BY <1>3, <2>1, <3>1, ConstantsAssumption
  <2> QED
    BY <1>1, <1>2, <2>1 DEF Base, Types, Frame, Advances
<1>7. pc'[t] = "send" /\ Fd(t)' = call[t].fd
  BY <1>1, <1>3 DEF Base, Types, Fd
<1>8. Local(t)'
  BY <1>1, <1>2, <1>3, <1>7 DEF Local, Opened, Me
<1>9. \A c \in Conns : peer'[c] # peer[c] => c = fdConn[call[t].fd]
  BY <1>1, <1>4 DEF Base, Types
<1>10. peer'[fdConn[call[t].fd]] = "up"
  BY <1>1, <1>4 DEF Base, Types
<1>11. \A c \in Conns : peer'[c] # peer[c] => \E f \in Fds : fdConn[f] = c
  BY <1>3, <1>9
<1>12. \A c \in Conns : peer'[c] = "none" => peer[c] = "none"
  BY <1>9, <1>10
<1> QED
  BY <1>1, <1>2, <1>5, <1>6, <1>7, <1>8, <1>11, <1>12, BaseStaysNet DEF Advances, Opened

LEMMA ProbeConnectBase ==
    ASSUME Base, NEW t \in Threads, ProbeConnect(t)
    PROVE  Base' /\ Frame(t) /\ Advances(t) /\ call'[t] = call[t]
<1>1. /\ pc[t] = "connect" /\ t \in Probers /\ State(t) = "none"
      /\ peer' = [peer EXCEPT ![ConnOf(call[t].fd)] = "up"]
      /\ UNCHANGED <<fdConn, m_clientfd, method_name, pc, call, requests, replies,
                     recvErrors, unserialized>>
  BY DEF ProbeConnect, channel, history
<1>2. Advances(t) /\ call'[t] = call[t]
  BY <1>1, AdvanceNone DEF Base
<1>3. Local(t) /\ ~call[t].kept /\ call[t].fd \in Fds /\ Fd(t) = call[t].fd
  BY <1>1 DEF Base, Local, Opened
<1>4. ConnOf(call[t].fd) = fdConn[call[t].fd] /\ fdConn[call[t].fd] \in Conns
  BY <1>1, <1>3, StateFact DEF Base
<1>5. Types'
  BY <1>1, <1>3, <1>4 DEF Base, Types
<1>6. Frame(t)
  BY <1>1, <1>2 DEF Base, Types, Frame, Advances
<1>7. Local(t)'
  BY <1>1, <1>3 DEF Local, Opened, Me, Fd
<1>8. \A c \in Conns : peer'[c] # peer[c] => c = fdConn[call[t].fd]
  BY <1>1, <1>4 DEF Base, Types
<1>9. peer'[fdConn[call[t].fd]] = "up"
  BY <1>1, <1>4 DEF Base, Types
<1>10. \A c \in Conns : peer'[c] # peer[c] => \E f \in Fds : fdConn[f] = c
  BY <1>3, <1>8
<1>11. \A c \in Conns : peer'[c] = "none" => peer[c] = "none"
  BY <1>8, <1>9
<1> QED
  BY <1>1, <1>2, <1>5, <1>6, <1>7, <1>10, <1>11, BaseStaysNet DEF Advances, Opened


LEMMA CloseFact ==
    ASSUME Types, NEW fd, Close(fd)
    PROVE  /\ fdConn' \in [Fds -> Conns \cup {NoConn}]
           /\ \A f \in Fds : fdConn'[f] \in {fdConn[f], NoConn}
           /\ \A f \in Fds : f = fd => fdConn'[f] = NoConn
           /\ \A f \in Fds : f # fd => fdConn'[f] = fdConn[f]
BY DEF Types, Close

\* A call returns after closing its number.
LEMMA CloseBase ==
    ASSUME Base, NEW t \in Threads, pc[t] \in Opened, Close(Fd(t)), pc' = [pc EXCEPT ![t] = "done"],
           Advances(t), call'[t].fd = call[t].fd,
           UNCHANGED <<m_clientfd, method_name, requests, replies, peer, recvErrors, unserialized>>
    PROVE  Base' /\ Frame(t)
<1>1. pc'[t] = "done"
  BY DEF Base, Types
<1>2. Types'
  BY CloseFact DEF Base, Types, Advances
<1>3. Frame(t)
  BY DEF Base, Types, Frame, Advances
<1>4. Local(t) /\ (~call[t].kept => Fd(t) = call[t].fd)
  BY DEF Base, Local
<1>5. Local(t)'
  BY <1>1, <1>4 DEF Local, Opened, Me, Advances, Same
<1>6. call[t].kept \/ \A f \in Fds : f = call[t].fd => fdConn'[f] = NoConn
  BY <1>4, CloseFact DEF Base
<1> QED
  BY <1>1, <1>2, <1>3, <1>5, <1>6, CloseFact, BaseStays DEF Base, Types, Opened, Advances

\* A call returns with the socket open.
LEMMA ErrorBase ==
    ASSUME Base, NEW t \in Threads, pc[t] \in {"send", "recv", "blocked"}, ReturnFailed(t),
           \/ recvErrors' = recvErrors \cup {Me(t)} /\ UNCHANGED unserialized
           \/ unserialized' = unserialized \cup {Me(t)} /\ UNCHANGED recvErrors,
           UNCHANGED <<fdConn, m_clientfd, method_name, requests, replies, peer>>
    PROVE  Base' /\ Frame(t)
<1>1. pc' = [pc EXCEPT ![t] = "done"]
  BY DEF ReturnFailed, Return, Goto
<1>2. pc'[t] = "done"
  BY <1>1 DEF Base, Types
<1>3. Advances(t) /\ call'[t].fd = call[t].fd
  BY AdvanceReturnFailed DEF Base
<1>4. Local(t) /\ Me(t) \in Conns
  BY DEF Base, Local
<1>5. Types'
  BY <1>1, <1>3, <1>4 DEF Base, Types, Advances
<1>6. Frame(t)
  BY <1>1, <1>3 DEF Base, Types, Frame, Advances
<1>7. Local(t)'
  BY <1>2, <1>3, <1>4 DEF Local, Opened, Me, Advances, Same
<1>8. recvErrors' \cup unserialized' = recvErrors \cup unserialized \cup {Me(t)}
  OBVIOUS
<1> QED
  BY <1>2, <1>3, <1>5, <1>6, <1>7, <1>8, BaseStays DEF Base, Types, Opened, Advances

LEMMA ConnectFailBase ==
    ASSUME Base, NEW t \in Threads, ConnectFail(t) \/ ProbeClose(t)
    PROVE  /\ Base' /\ Frame(t) /\ Advances(t) /\ call'[t] = call[t]
           /\ pc[t] = "connect" /\ pc' = [pc EXCEPT ![t] = "done"] /\ Close(Fd(t))
           /\ UNCHANGED <<m_clientfd, method_name, requests, replies, peer, recvErrors, unserialized>>
<1>1. /\ pc[t] = "connect" /\ pc' = [pc EXCEPT ![t] = "done"] /\ Close(call[t].fd) /\ UNCHANGED call
      /\ UNCHANGED <<m_clientfd, method_name, requests, replies, peer, recvErrors, unserialized>>
  BY DEF ConnectFail, ProbeClose, Return, Goto, channel, net, history
<1>2. Fd(t) = call[t].fd
  BY <1>1 DEF Fd
<1>3. Advances(t) /\ call'[t] = call[t]
  BY <1>1, AdvanceNone DEF Base
<1> QED
  BY <1>1, <1>2, <1>3, CloseBase DEF Opened

LEMMA CloseFdBase ==
    ASSUME Base, NEW t \in Threads, CloseFd(t)
    PROVE  /\ Base' /\ Frame(t) /\ Advances(t) /\ call'[t] = call[t]
           /\ pc[t] = "close" /\ pc' = [pc EXCEPT ![t] = "done"] /\ Close(Fd(t))
           /\ UNCHANGED <<m_clientfd, method_name, requests, replies, peer, recvErrors, unserialized>>
<1>1. /\ pc[t] = "close" /\ pc' = [pc EXCEPT ![t] = "done"] /\ Close(Fd(t)) /\ UNCHANGED call
      /\ UNCHANGED <<m_clientfd, method_name, requests, replies, peer, recvErrors, unserialized>>
  BY DEF CloseFd, Return, Goto, channel, net, history
<1>2. Advances(t) /\ call'[t] = call[t]
  BY <1>1, AdvanceNone DEF Base
<1> QED
  BY <1>1, <1>2, CloseBase DEF Opened

LEMMA AbandonBase ==
    ASSUME Base, NEW t \in Threads, Abandon(t)
    PROVE  /\ Base' /\ Frame(t) /\ Advances(t)
           /\ call'[t].got = call[t].got /\ call'[t].sent = call[t].sent
           /\ pc[t] = "abandon" /\ pc' = [pc EXCEPT ![t] = "done"] /\ Close(Fd(t))
           /\ UNCHANGED <<m_clientfd, method_name, requests, replies, peer, recvErrors, unserialized>>
<1>1. /\ pc[t] = "abandon" /\ pc' = [pc EXCEPT ![t] = "done"] /\ Close(Fd(t)) /\ ReturnFailed(t)
      /\ UNCHANGED <<m_clientfd, method_name, requests, replies, peer, recvErrors, unserialized>>
  BY DEF Abandon, ReturnFailed, Return, Goto, channel, net
<1>2. /\ Advances(t) /\ call'[t].got = call[t].got /\ call'[t].sent = call[t].sent
      /\ call'[t].fd = call[t].fd
  BY <1>1, AdvanceReturnFailed DEF Base
<1> QED
  BY <1>1, <1>2, CloseBase DEF Opened

LEMMA SerializeFailBase ==
    ASSUME Base, NEW t \in Threads, SerializeFail(t)
    PROVE  /\ Base' /\ Frame(t) /\ Advances(t)
           /\ call'[t].got = call[t].got /\ call'[t].sent = call[t].sent
           /\ pc[t] = "send" /\ pc' = [pc EXCEPT ![t] = "done"]
           /\ unserialized' = unserialized \cup {Me(t)}
           /\ UNCHANGED <<fdConn, m_clientfd, method_name, requests, replies, peer, recvErrors>>
<1>1. /\ pc[t] = "send" /\ pc' = [pc EXCEPT ![t] = "done"] /\ ReturnFailed(t)
      /\ unserialized' = unserialized \cup {Me(t)}
      /\ UNCHANGED <<fdConn, m_clientfd, method_name, requests, replies, peer, recvErrors>>
  BY DEF SerializeFail, ReturnFailed, Return, Goto, channel, net
<1> QED
  BY <1>1, AdvanceReturnFailed, ErrorBase DEF Base

LEMMA RecvFailBase ==
    ASSUME Base, NEW t \in Threads, RecvFail(t)
    PROVE  /\ Base' /\ Frame(t) /\ Advances(t)
           /\ call'[t].got = call[t].got /\ call'[t].sent = call[t].sent
           /\ RecvError(t) /\ pc' = [pc EXCEPT ![t] = "done"]
           /\ recvErrors' = recvErrors \cup {Me(t)}
           /\ UNCHANGED <<fdConn, m_clientfd, method_name, requests, replies, peer, unserialized>>
<1>1. /\ pc[t] \in {"recv", "blocked"} /\ pc' = [pc EXCEPT ![t] = "done"] /\ ReturnFailed(t)
      /\ RecvError(t) /\ recvErrors' = recvErrors \cup {Me(t)}
      /\ UNCHANGED <<fdConn, m_clientfd, method_name, requests, replies, peer, unserialized>>
  BY DEF RecvFail, RecvError, ReturnFailed, Return, Goto, channel, net
<1> QED
  BY <1>1, AdvanceReturnFailed, ErrorBase DEF Base

LEMMA SendOkBase ==
    ASSUME Base, NEW t \in Threads, SendOk(t)
    PROVE  /\ Base' /\ Frame(t) /\ Advances(t)
           /\ call'[t].got = call[t].got /\ call'[t].sent = TRUE
<1>1. /\ pc[t] = "send" /\ pc' = [pc EXCEPT ![t] = "recv"] /\ State(t) \in {"up", "closed"}
      /\ requests' = [requests EXCEPT ![ConnOf(Fd(t))] =
                       Append(@, [from |-> Me(t), method |-> method_name[call[t].channel]])]
      /\ call' = [call EXCEPT ![t].sent = TRUE]
      /\ UNCHANGED <<fdConn, m_clientfd, method_name, replies, peer, recvErrors, unserialized>>
  BY DEF SendOk, Goto, channel
<1>2. /\ Advances(t) /\ call'[t].got = call[t].got /\ call'[t].sent = TRUE
      /\ call'[t].fd = call[t].fd
  BY <1>1, AdvanceSent DEF Base
<1>3. /\ Fd(t) \in Fds /\ ConnOf(Fd(t)) = fdConn[Fd(t)] /\ fdConn[Fd(t)] \in Conns
      /\ peer[fdConn[Fd(t)]] # "none"
  BY <1>1, StateFact DEF Base
<1>4. Local(t) /\ Me(t) \in Conns
  BY <1>1 DEF Base, Local
<1>5. [from |-> Me(t), method |-> method_name[call[t].channel]] \in Requests
  BY <1>4 DEF Base, Types, Calls, Requests
<1>6. requests' \in [Conns -> Seq(Requests)]
  BY <1>1, <1>3, <1>5 DEF Base, Types
<1>7. Types'
  BY <1>1, <1>2, <1>6 DEF Base, Types, Advances
<1>8. Frame(t)
  BY <1>1, <1>2 DEF Base, Types, Frame, Advances
<1>9. pc'[t] = "recv" /\ Fd(t)' = Fd(t)
  BY <1>1, <1>2 DEF Base, Types, Fd, Advances, Same
<1>10. Local(t)'
  BY <1>1, <1>2, <1>4, <1>9 DEF Local, Opened, Me, Advances, Same
<1>11. \A c \in Conns : peer[c] = "none" => requests'[c] = requests[c]
  BY <1>1, <1>3 DEF Base, Types
<1> QED
  BY <1>1, <1>2, <1>7, <1>8, <1>9, <1>10, <1>11, BaseStaysNet DEF Advances, Opened

LEMMA SendFailBase ==
    ASSUME Base, NEW t \in Threads, SendFail(t)
    PROVE  Base' /\ Frame(t) /\ Advances(t) /\ call'[t] = call[t]
<1>1. /\ pc[t] = "send" /\ pc' = [pc EXCEPT ![t] = "abandon"]
      /\ UNCHANGED <<fdConn, m_clientfd, method_name, call, requests, replies, peer,
                     recvErrors, unserialized>>
  BY DEF SendFail, Goto, channel, net, history
<1>2. Advances(t) /\ call'[t] = call[t]
  BY <1>1, AdvanceNone DEF Base
<1>3. Types'
  BY <1>1 DEF Base, Types
<1>4. Frame(t)
  BY <1>1, <1>2 DEF Base, Types, Frame, Advances
<1>5. pc'[t] = "abandon" /\ Fd(t)' = Fd(t)
  BY <1>1 DEF Base, Types, Fd
<1>6. Local(t)'
  BY <1>1, <1>2, <1>5 DEF Base, Local, Opened, Me
<1> QED
  BY <1>1, <1>2, <1>3, <1>4, <1>5, <1>6, BaseStays DEF Base, Types, Advances, Opened

LEMMA RecvBase ==
    ASSUME Base, NEW t \in Threads, Recv(t)
    PROVE  /\ Base' /\ Frame(t) /\ Advances(t)
           /\ call'[t].got = call[t].got /\ call'[t].sent = call[t].sent
           /\ call'[t].conn = ConnOf(Fd(t))
<1>1. /\ pc[t] = "recv" /\ pc' = [pc EXCEPT ![t] = "blocked"] /\ State(t) # "bad"
      /\ call' = [call EXCEPT ![t].conn = ConnOf(Fd(t))]
      /\ UNCHANGED <<fdConn, m_clientfd, method_name, requests, replies, peer,
                     recvErrors, unserialized>>
  BY DEF Recv, Goto, channel, net, history
<1>2. ConnOf(Fd(t)) \in Conns
  BY <1>1, StateFact DEF Base
<1>3. /\ Advances(t) /\ call'[t].got = call[t].got /\ call'[t].sent = call[t].sent
      /\ call'[t].fd = call[t].fd /\ call'[t].conn = ConnOf(Fd(t))
  BY <1>1, <1>2, AdvanceConn DEF Base
<1>4. Types'
  BY <1>1, <1>3 DEF Base, Types, Advances
<1>5. Frame(t)
  BY <1>1, <1>3 DEF Base, Types, Frame, Advances
<1>6. pc'[t] = "blocked" /\ Fd(t)' = Fd(t)
  BY <1>1, <1>3 DEF Base, Types, Fd, Advances, Same
<1>7. Local(t)'
  BY <1>1, <1>2, <1>3, <1>6 DEF Base, Local, Opened, Me, Advances, Same
<1> QED
  BY <1>1, <1>3, <1>4, <1>5, <1>6, <1>7, BaseStays DEF Base, Types, Advances, Opened

LEMMA SubSeqFact ==
    ASSUME NEW s \in Seq(Requests), NEW i \in 0 .. Len(s)
    PROVE  /\ SubSeq(s, 1, i) \in Seq(Requests) /\ SubSeq(s, i + 1, Len(s)) \in Seq(Requests)
           /\ Len(SubSeq(s, 1, i)) = i /\ Len(SubSeq(s, i + 1, Len(s))) = Len(s) - i
           /\ \A j \in 1 .. i : SubSeq(s, 1, i)[j] = s[j]
           /\ \A j \in 1 .. (Len(s) - i) : SubSeq(s, i + 1, Len(s))[j] = s[j + i]
OBVIOUS

LEMMA PartsFact ==
    ASSUME NEW s \in Seq(Requests), NEW i \in 0 .. Len(s), NEW c, OnlyOf(s, c)
    PROVE  OnlyOf(SubSeq(s, 1, i), c) /\ OnlyOf(SubSeq(s, i + 1, Len(s)), c)
<1>1. ASSUME NEW j \in 1 .. i PROVE SubSeq(s, 1, i)[j].from = c
  BY SubSeqFact DEF OnlyOf
<1>2. ASSUME NEW j \in 1 .. (Len(s) - i) PROVE SubSeq(s, i + 1, Len(s))[j].from = c
  <2>1. j + i \in 1 .. Len(s)
    OBVIOUS
  <2> QED
    BY <2>1, SubSeqFact DEF OnlyOf
<1> QED
  BY <1>1, <1>2, SubSeqFact DEF OnlyOf

\* What is parsed, and what is left, are parts of the replies.
LEMMA ReceiveStep ==
    ASSUME Base, NEW t \in Threads, Receive(t)
    PROVE  LET c == call[t].conn IN
           /\ Advances(t) /\ call'[t].sent = call[t].sent /\ call'[t].fd = call[t].fd
           /\ replies' = [replies EXCEPT ![c] = replies'[c]]
           /\ replies'[c] \in Seq(Requests)
           /\ OnlyOf(replies[c], Me(t)) => OnlyOf(replies'[c], Me(t)) /\ OnlyOf(call'[t].got, Me(t))
<1> DEFINE c == call[t].conn
<1>1. c \in Conns /\ replies[c] \in Seq(Requests)
  BY DEF Receive, Base, Types, Local
<1>2. PICK i \in (IF replies[c] = <<>> THEN {0} ELSE 1 .. Len(replies[c])) :
         /\ call' = [call EXCEPT ![t].got = SubSeq(replies[c], 1, i), ![t].conn = NoConn]
         /\ replies' = [replies EXCEPT ![c] = SubSeq(@, i + 1, Len(@))]
  BY DEF Receive
<1> DEFINE g == SubSeq(replies[c], 1, i)
           r == SubSeq(replies[c], i + 1, Len(replies[c]))
<1>3. i \in 0 .. Len(replies[c])
  BY <1>1, <1>2
<1>4. /\ g \in Seq(Requests) /\ r \in Seq(Requests)
      /\ OnlyOf(replies[c], Me(t)) => OnlyOf(r, Me(t)) /\ OnlyOf(g, Me(t))
  BY <1>1, <1>3, SubSeqFact, PartsFact
<1>5. replies' = [replies EXCEPT ![c] = r] /\ replies'[c] = r
  BY <1>1, <1>2 DEF Base, Types
<1>6. call' = [call EXCEPT ![t].got = g, ![t].conn = NoConn]
  BY <1>2
<1> HIDE DEF g, r
<1>7. Advances(t) /\ call'[t].sent = call[t].sent /\ call'[t].fd = call[t].fd /\ call'[t].got = g
  BY <1>4, <1>6, AdvanceGot DEF Base
<1> QED
  BY <1>4, <1>5, <1>7

LEMMA ReceiveBase ==
    ASSUME Base, NEW t \in Threads, Receive(t)
    PROVE  Base' /\ Frame(t)
<1> DEFINE c == call[t].conn
<1>1. /\ pc[t] = "blocked" /\ pc' = [pc EXCEPT ![t] = "close"]
      /\ UNCHANGED <<fdConn, m_clientfd, method_name, requests, peer, recvErrors, unserialized>>
      /\ replies[c] = <<>> => peer[c] = "closed"
  BY DEF Receive, Goto, channel, history
<1>2. /\ Advances(t) /\ call'[t].sent = call[t].sent /\ call'[t].fd = call[t].fd
      /\ replies' = [replies EXCEPT ![c] = replies'[c]] /\ replies'[c] \in Seq(Requests)
  BY ReceiveStep
<1>3. Local(t) /\ c \in Conns
  BY <1>1 DEF Base, Local
<1>4. Types'
  BY <1>1, <1>2, <1>3 DEF Base, Types, Advances
<1>5. Frame(t)
  BY <1>1, <1>2 DEF Base, Types, Frame, Advances
<1>6. pc'[t] = "close" /\ Fd(t)' = Fd(t)
  BY <1>1, <1>2 DEF Base, Types, Fd, Advances, Same
<1>7. Local(t)'
  BY <1>1, <1>2, <1>3, <1>6 DEF Local, Opened, Me, Advances, Same
<1>8. peer[c] # "none"
  BY <1>1, <1>3 DEF Base, Unused
<1>9. \A d \in Conns : peer'[d] = "none" => peer[d] = "none" /\ replies'[d] = replies[d]
  BY <1>1, <1>2, <1>8 DEF Base, Types
<1> QED
  BY <1>1, <1>2, <1>4, <1>5, <1>6, <1>7, <1>9, BaseStaysNet DEF Advances, Opened

LEMMA ParseFailBase ==
    ASSUME Base, NEW t \in Threads, ParseFail(t)
    PROVE  LET c == call[t].conn IN
           /\ Base' /\ Frame(t) /\ Advances(t) /\ call'[t] = call[t]
           /\ replies' = [replies EXCEPT ![c] = replies'[c]]
           /\ OnlyOf(replies[c], Me(t)) => OnlyOf(replies'[c], Me(t))
<1> DEFINE c == call[t].conn
<1>1. /\ pc[t] = "blocked" /\ pc' = [pc EXCEPT ![t] = "abandon"] /\ replies[c] # <<>>
      /\ replies' \in {replies, [replies EXCEPT ![c] = Tail(@)]}
      /\ UNCHANGED <<fdConn, m_clientfd, method_name, call, requests, peer, recvErrors, unserialized>>
  BY DEF ParseFail, Unparsable, Goto, channel, history
<1>2. Advances(t) /\ call'[t] = call[t]
  BY <1>1, AdvanceNone DEF Base
<1>3. Local(t) /\ c \in Conns
  BY <1>1 DEF Base, Local
<1>4. replies[c] \in Seq(Requests) /\ Tail(replies[c]) \in Seq(Requests)
  BY <1>1, <1>3 DEF Base, Types
<1>5. replies' \in [Conns -> Seq(Requests)] /\ replies' = [replies EXCEPT ![c] = replies'[c]]
      /\ replies'[c] \in {replies[c], Tail(replies[c])}
  BY <1>1, <1>3, <1>4 DEF Base, Types
<1>6. OnlyOf(replies[c], Me(t)) => OnlyOf(replies'[c], Me(t))
  <2>1. ASSUME NEW s \in Seq(Requests), s # <<>>, NEW m, OnlyOf(s, m) PROVE OnlyOf(Tail(s), m)
    BY <2>1 DEF OnlyOf
  <2> QED
    BY <1>1, <1>4, <1>5, <2>1
<1>7. Types'
  BY <1>1, <1>5 DEF Base, Types
<1>8. Frame(t)
  BY <1>1, <1>2 DEF Base, Types, Frame, Advances
<1>9. pc'[t] = "abandon" /\ Fd(t)' = Fd(t)
  BY <1>1 DEF Base, Types, Fd
<1>10. Local(t)'
  BY <1>1, <1>2, <1>3, <1>9 DEF Local, Opened, Me
<1>11. peer[c] # "none"
  BY <1>1, <1>3 DEF Base, Unused
<1>12. \A d \in Conns : peer'[d] = "none" => peer[d] = "none" /\ replies'[d] = replies[d]
  BY <1>1, <1>5, <1>11 DEF Base, Types
<1> QED
  BY <1>1, <1>2, <1>5, <1>6, <1>7, <1>8, <1>9, <1>10, <1>12, BaseStaysNet DEF Advances, Opened

\* The provider's steps touch nothing but what travels, and the peer's state.
LEMMA ProviderBase ==
    ASSUME Base, NEW c \in Conns, Serve(c) \/ Ignore(c) \/ HangUp(c)
    PROVE  Base'
<1>1. UNCHANGED <<fdConn, m_clientfd, method_name, pc, call, recvErrors, unserialized>>
  BY DEF Serve, Ignore, HangUp, channel, history
<1>2. requests[c] \in Seq(Requests) /\ replies[c] \in Seq(Requests)
  BY DEF Base, Types
<1>3. /\ requests' \in [Conns -> Seq(Requests)] /\ replies' \in [Conns -> Seq(Requests)]
      /\ peer' \in [Conns -> {"none", "up", "closed", "reset"}]
      /\ \A d \in Conns : requests'[d] # requests[d] \/ replies'[d] # replies[d] \/ peer'[d] # peer[d]
                          => d = c /\ peer[d] # "none" /\ peer'[d] # "none"
  <2>1. CASE Serve(c) \/ Ignore(c)
    <3>1. requests[c] # <<>> /\ Head(requests[c]) \in Requests /\ Tail(requests[c]) \in Seq(Requests)
          /\ Append(replies[c], Head(requests[c])) \in Seq(Requests)
      BY <1>2, <2>1 DEF Serve, Ignore
    <3> QED
      BY <2>1, <3>1 DEF Serve, Ignore, Base, Types
  <2>2. CASE HangUp(c)
    BY <2>2 DEF HangUp, Base, Types
  <2> QED
    BY <2>1, <2>2
<1>4. Types'
  BY <1>1, <1>3 DEF Base, Types
<1>5. \A t \in Threads : Local(t)'
  BY <1>1 DEF Base, Local, Opened, Me, Fd
<1>6. Table'
  BY <1>1 DEF Base, Table, Opened, Me
<1>7. Unused'
  BY <1>1, <1>3 DEF Base, Unused, Me
<1> QED
  BY <1>4, <1>5, <1>6, <1>7 DEF Base

LEMMA NextBase == Base /\ [Next]_vars => Base'
<1> SUFFICES ASSUME Base, [Next]_vars PROVE Base'
  OBVIOUS
<1>1. ASSUME NEW t \in Threads, Begin(t) \/ Probe(t) \/ Step(t) PROVE Base'
  BY <1>1, BeginBase, ProbeBase, ResolveBase, GateBase, SocketBase, ConnectOkBase,
     ConnectFailBase, ProbeConnectBase, SerializeFailBase, SendOkBase, SendFailBase,
     RecvBase, ReceiveBase, ParseFailBase, RecvFailBase, CloseFdBase, AbandonBase, Zenon DEF Step
<1>2. ASSUME NEW c \in Conns, Serve(c) \/ Ignore(c) \/ HangUp(c) PROVE Base'
  BY <1>2, ProviderBase
<1>3. CASE UNCHANGED vars
  <2>1. UNCHANGED <<fdConn, m_clientfd, method_name, pc, call, requests, replies, peer,
                    recvErrors, unserialized>>
    BY <1>3 DEF vars, channel, net, history
  <2>2. Types'
    BY <2>1 DEF Base, Types
  <2>3. \A t \in Threads : Local(t)'
    BY <2>1 DEF Base, Local, Opened, Me, Fd
  <2>4. Table' /\ Unused'
    BY <2>1 DEF Base, Table, Unused, Opened, Me
  <2> QED
    BY <2>2, <2>3, <2>4 DEF Base
<1> QED
  BY <1>1, <1>2, <1>3 DEF Next

-----------------------------------------------------------------------------
(* Clean, one lemma per kind of step.                                      *)

NetSame(c) == requests'[c] = requests[c] /\ replies'[c] = replies[c] /\ peer'[c] = peer[c]

LEMMA HeldFact ==
    ASSUME Base, Clean, NEW t \in Threads, Holds(t)
    PROVE  /\ Fd(t) \in Fds /\ ConnOf(Fd(t)) = fdConn[Fd(t)]
           /\ fdConn[Fd(t)] \in Conns /\ fdConn[Fd(t)] # NoConn
BY DEF Base, Types, Clean, Held, ConnOf

\* What a step of t must show.
LEMMA CleanStays ==
    ASSUME Base, Clean, ~crashed, NEW t \in Threads, Frame(t),
           unserialized \subseteq unserialized',
           \A u \in Threads \ {t} : Holds(u) =>
              fdConn'[Fd(u)] = fdConn[Fd(u)] /\ NetSame(fdConn[Fd(u)]),
           \A u \in Threads \ {t} : Holds(u) /\ Holds(t)' => Fd(u) # Fd(t)',
           Held(t)', Outcome(t)', \A f \in Fds : Left(f)'
    PROVE  Clean'
<1>1. ASSUME NEW u \in Threads, u # t
      PROVE  /\ pc'[u] = pc[u] /\ call'[u] = call[u] /\ Me(u)' = Me(u)
             /\ Holds(u)' <=> Holds(u)
             /\ Holds(u) => Fd(u)' = Fd(u)
  BY <1>1, OthersStay DEF Base, Frame
<1>2. Separate'
  <2>1. ASSUME NEW u \in Threads, NEW v \in Threads, u # v, Holds(u)', Holds(v)'
        PROVE  Fd(u)' # Fd(v)'
    <3>1. CASE u # t /\ v # t
      BY <1>1, <2>1, <3>1 DEF Clean, Separate
    <3>2. CASE u = t
      BY <1>1, <2>1, <3>2
    <3>3. CASE v = t
      BY <1>1, <2>1, <3>3
    <3> QED
      BY <3>1, <3>2, <3>3
  <2> QED
    BY <2>1 DEF Separate
<1>3. ASSUME NEW u \in Threads, u # t
      PROVE  Held(u)' /\ Outcome(u)'
  <2>1. Held(u)'
    <3>1. SUFFICES ASSUME Holds(u)' PROVE Held(u)'
      BY DEF Held
    <3>2. Holds(u)
      BY <1>1, <1>3, <3>1
    <3>3. /\ Fd(u) \in Fds /\ ConnOf(Fd(u)) = fdConn[Fd(u)]
          /\ fdConn[Fd(u)] \in Conns /\ fdConn[Fd(u)] # NoConn
      BY <3>2, HeldFact
    <3>4. ConnOf(Fd(u))' = fdConn[Fd(u)] /\ NetSame(fdConn[Fd(u)])
      BY <1>1, <1>3, <3>2, <3>3 DEF ConnOf
    <3> DEFINE c == fdConn[Fd(u)]
    <3>5. /\ c # NoConn
          /\ IF call[u].kept THEN c \in unserialized ELSE c = Me(u)
          /\ pc[u] # "connect" => peer[c] # "none"
          /\ pc[u] = "blocked" => call[u].conn = c
          /\ OnlyOf(requests[c], Me(u)) /\ OnlyOf(replies[c], Me(u))
          /\ ~call[u].sent => requests[c] = <<>> /\ replies[c] = <<>>
      BY <3>2, <3>3 DEF Clean, Held
    <3>6. /\ c # NoConn
          /\ IF call'[u].kept THEN c \in unserialized' ELSE c = Me(u)'
          /\ pc'[u] # "connect" => peer'[c] # "none"
          /\ pc'[u] = "blocked" => call'[u].conn = c
          /\ OnlyOf(requests'[c], Me(u)') /\ OnlyOf(replies'[c], Me(u)')
          /\ ~call'[u].sent => requests'[c] = <<>> /\ replies'[c] = <<>>
      BY <1>1, <1>3, <3>4, <3>5 DEF NetSame
    <3>7. ConnOf(Fd(u))' = c
      BY <3>4
    <3> HIDE DEF c
    <3> QED
      BY <3>6, <3>7 DEF Held, OnlyOf
  <2>2. Outcome(u)'
    BY <1>1, <1>3 DEF Clean, Outcome, OnlyOf
  <2> QED
    BY <2>1, <2>2
<1> QED
  BY <1>2, <1>3 DEF Clean

LEMMA LeftStays ==
    ASSUME Base, NEW t \in Threads, Frame(t), NEW f \in Fds, Left(f),
           unserialized \subseteq unserialized',
           fdConn'[f] \in {fdConn[f], NoConn},
           fdConn[f] # NoConn => NetSame(fdConn[f]),
           fdConn'[f] = NoConn \/ ~(Holds(t) /\ Fd(t) = f) \/ (Holds(t)' /\ Fd(t)' = f)
    PROVE  Left(f)'
<1>1. \A u \in Threads : u # t => (Holds(u)' <=> Holds(u)) /\ (Holds(u) => Fd(u)' = Fd(u))
  BY OthersStay DEF Base
<1> SUFFICES ASSUME fdConn'[f] # NoConn, \A u \in Threads : ~(Holds(u)' /\ Fd(u)' = f)
             PROVE  \/ peer'[fdConn'[f]] = "reset"
                    \/ /\ fdConn'[f] \in unserialized'
                       /\ peer'[fdConn'[f]] # "none"
                       /\ requests'[fdConn'[f]] = <<>> /\ replies'[fdConn'[f]] = <<>>
  BY DEF Left
<1>2. fdConn'[f] = fdConn[f] /\ fdConn[f] # NoConn /\ NetSame(fdConn[f])
  OBVIOUS
<1>3. \A u \in Threads : ~(Holds(u) /\ Fd(u) = f)
  BY <1>1, <1>2
<1> QED
  BY <1>2, <1>3 DEF Left, NetSame

\* A step after which t goes by the number it went by before, or by none.
LEMMA CleanGoesOn ==
    ASSUME Base, Clean, ~crashed, NEW t \in Threads, Frame(t),
           UNCHANGED <<fdConn, requests, replies, peer, unserialized>>,
           Holds(t)' => Holds(t) /\ Fd(t)' = Fd(t), Holds(t) => Holds(t)',
           Held(t)', Outcome(t)'
    PROVE  Clean'
<1>1. \A u \in Threads \ {t} : Holds(u) => NetSame(fdConn[Fd(u)])
  BY DEF NetSame
<1>2. \A u \in Threads \ {t} : Holds(u) /\ Holds(t)' => Fd(u) # Fd(t)'
  BY DEF Clean, Separate
<1>3. \A f \in Fds : Left(f)'
  BY LeftStays DEF Clean, NetSame
<1> QED
  BY <1>1, <1>2, <1>3, CleanStays

\* A step of a call that closes its number.
LEMMA CleanCloses ==
    ASSUME Base, Clean, ~crashed, NEW t \in Threads, Frame(t), Close(Fd(t)),
           \A u \in Threads \ {t} : Holds(u) => Fd(u) # Fd(t),
           UNCHANGED <<requests, replies, peer, unserialized>>,
           pc' = [pc EXCEPT ![t] = "done"], Outcome(t)'
    PROVE  Clean'
<1>1. pc'[t] = "done"
  BY DEF Base, Types
<1>2. ~Holds(t)'
  BY <1>1 DEF Holds
<1>3. Held(t)'
  BY <1>2 DEF Held
<1>4. /\ \A f \in Fds : fdConn'[f] \in {fdConn[f], NoConn}
      /\ \A f \in Fds : f = Fd(t) => fdConn'[f] = NoConn
      /\ \A f \in Fds : f # Fd(t) => fdConn'[f] = fdConn[f]
  BY CloseFact DEF Base
<1>5. \A u \in Threads \ {t} : Holds(u) =>
         fdConn'[Fd(u)] = fdConn[Fd(u)] /\ NetSame(fdConn[Fd(u)])
  BY <1>4, HeldFact DEF NetSame
<1>6. ASSUME NEW f \in Fds PROVE Left(f)'
  <2>1. fdConn'[f] = NoConn \/ ~(Holds(t) /\ Fd(t) = f)
    BY <1>4
  <2> QED
    BY <1>4, <2>1, LeftStays DEF Clean, NetSame
<1> QED
  BY <1>2, <1>3, <1>5, <1>6, CleanStays

\* A step on the network by a call that goes by its number afterwards.
LEMMA CleanUses ==
    ASSUME Base, Clean, ~crashed, NEW t \in Threads, Frame(t), UNCHANGED <<fdConn, unserialized>>,
           Fd(t) \in Fds, fdConn[Fd(t)] # NoConn,
           \A u \in Threads \ {t} : Holds(u) => Fd(u) # Fd(t),
           \A c \in Conns : c # fdConn[Fd(t)] => NetSame(c),
           Holds(t)', Fd(t)' = Fd(t), Held(t)', Outcome(t)'
    PROVE  Clean'
<1>1. \A f \in Fds : f # Fd(t) /\ fdConn[f] # NoConn => NetSame(fdConn[f])
  BY DEF Base, Types, Table
<1>2. \A u \in Threads \ {t} : Holds(u) =>
         fdConn'[Fd(u)] = fdConn[Fd(u)] /\ NetSame(fdConn[Fd(u)])
  BY <1>1, HeldFact
<1>3. ASSUME NEW f \in Fds PROVE Left(f)'
  <2>1. CASE f = Fd(t)
    BY <2>1 DEF Left
  <2>2. CASE f # Fd(t)
    BY <1>1, <2>2, LeftStays DEF Clean
  <2> QED
    BY <2>1, <2>2
<1> QED
  BY <1>2, <1>3, CleanStays

\* A step of t that keeps its call, its replies and its return value.
LEMMA OutcomeStays ==
    ASSUME Clean, NEW t \in Threads, Same(t), call'[t].got = call[t].got, call[t].kept => pc'[t] # "done"
    PROVE  Outcome(t)'
BY DEF Clean, Outcome, OnlyOf, Me, Same

LEMMA BeginClean ==
    ASSUME Base, Clean, ~crashed, NEW t \in Threads, Begin(t)
    PROVE  Clean'
<1>1. PICK h \in ChannelsOf[t] :
         /\ call'[t].kept <=> m_clientfd[h] # -1
         /\ call'[t].sent = FALSE /\ call'[t].got = <<>>
         /\ pc' = [pc EXCEPT ![t] = IF m_clientfd[h] = -1 THEN "resolve" ELSE "send"]
  BY BeginStep
<1>2. pc[t] \in {"idle", "done"} /\ UNCHANGED <<fdConn, requests, replies, peer, unserialized>>
  BY DEF Begin, net, history
<1>3. Frame(t)
  BY BeginBase
<1>4. pc'[t] \in {"resolve", "send"} /\ (pc'[t] = "send" => call'[t].kept)
  BY <1>1 DEF Base, Types
<1>5. ~Holds(t) /\ ~Holds(t)'
  BY <1>1, <1>2, <1>4 DEF Holds
<1>6. Held(t)'
  BY <1>5 DEF Held
<1>7. Outcome(t)'
  BY <1>1, <1>4 DEF Outcome, OnlyOf
<1> QED
  BY <1>2, <1>3, <1>5, <1>6, <1>7, CleanGoesOn

LEMMA ProbeClean ==
    ASSUME Base, Clean, ~crashed, NEW t \in Threads, Probe(t)
    PROVE  Clean'
<1>1. /\ pc[t] \in {"idle", "done"} /\ pc' = [pc EXCEPT ![t] = "socket"]
      /\ call' = [call EXCEPT ![t] = [NoCall EXCEPT !.n = call[t].n + 1]]
      /\ UNCHANGED <<fdConn, requests, replies, peer, unserialized>>
  BY DEF Probe, Goto, net, history
<1>2. Frame(t)
  BY ProbeBase
<1>3. pc'[t] = "socket"
  BY <1>1 DEF Base, Types
<1>4. call'[t].got = <<>>
  <2> DEFINE s == [NoCall EXCEPT !.n = call[t].n + 1]
  <2>1. s.got = <<>>
    BY NewProbe DEF Base, Types, Calls
  <2>2. call' = [call EXCEPT ![t] = s]
    BY <1>1
  <2> HIDE DEF s
  <2> QED
    BY <2>1, <2>2 DEF Base, Types
<1>5. ~Holds(t) /\ ~Holds(t)'
  BY <1>1, <1>3 DEF Holds
<1>6. Held(t)'
  BY <1>5 DEF Held
<1>7. Outcome(t)'
  BY <1>3, <1>4 DEF Outcome, OnlyOf
<1> QED
  BY <1>1, <1>2, <1>5, <1>6, <1>7, CleanGoesOn

LEMMA ResolveClean ==
    ASSUME Base, Clean, ~crashed, NEW t \in Threads, Resolve(t)
    PROVE  Clean'
<1>1. /\ pc[t] = "resolve" /\ pc' = [pc EXCEPT ![t] = "gate"]
      /\ UNCHANGED <<fdConn, call, requests, replies, peer, unserialized>>
  BY DEF Resolve, Goto, net, history
<1>2. Frame(t) /\ Same(t)
  BY ResolveBase DEF Advances
<1>3. pc'[t] = "gate"
  BY <1>1 DEF Base, Types
<1>4. ~Holds(t) /\ ~Holds(t)'
  BY <1>1, <1>3 DEF Holds
<1>5. Held(t)' /\ Outcome(t)'
  BY <1>1, <1>2, <1>3, <1>4, OutcomeStays DEF Held
<1> QED
  BY <1>1, <1>2, <1>4, <1>5, CleanGoesOn

LEMMA GateClean ==
    ASSUME Base, Clean, ~crashed, NEW t \in Threads, Gate(t)
    PROVE  Clean'
<1>1. /\ pc[t] = "gate"
      /\ pc' = [pc EXCEPT ![t] = "socket"] \/ pc' = [pc EXCEPT ![t] = "done"]
      /\ UNCHANGED <<fdConn, requests, replies, peer, unserialized>>
  BY DEF Gate, Goto, Return, net, history
<1>2. Frame(t) /\ Same(t) /\ call'[t].got = call[t].got
  BY GateBase DEF Advances
<1>3. pc'[t] \in {"socket", "done"}
  BY <1>1 DEF Base, Types
<1>4. ~Holds(t) /\ ~Holds(t)' /\ ~call[t].kept
  BY <1>1, <1>3 DEF Holds, Base, Local
<1>5. Held(t)' /\ Outcome(t)'
  BY <1>2, <1>4, OutcomeStays DEF Held
<1> QED
  BY <1>1, <1>2, <1>4, <1>5, CleanGoesOn

LEMMA SocketClean ==
    ASSUME Base, Clean, ~crashed, NEW t \in Threads, Socket(t)
    PROVE  Clean'
<1>1. pc[t] = "socket" /\ UNCHANGED <<requests, replies, peer, unserialized>>
  BY DEF Socket, net, history
<1>2. Frame(t) /\ Same(t) /\ call'[t].got = call[t].got
  BY SocketBase DEF Advances
<1>3. ~Holds(t) /\ ~call[t].kept /\ Me(t) \in Conns
  BY <1>1 DEF Holds, Base, Local
<1>4. CASE pc' = [pc EXCEPT ![t] = "done"] /\ UNCHANGED <<fdConn, call>>
  <2>1. pc'[t] = "done"
    BY <1>4 DEF Base, Types
  <2>2. ~Holds(t)'
    BY <2>1 DEF Holds
  <2>3. Held(t)' /\ Outcome(t)'
    BY <1>2, <1>3, <2>2, OutcomeStays DEF Held
  <2> QED
    BY <1>1, <1>2, <1>3, <1>4, <2>2, <2>3, CleanGoesOn
<1>5. ASSUME NEW fd \in FreeFds, fdConn' = [fdConn EXCEPT ![fd] = Me(t)],
             call' = [call EXCEPT ![t].fd = fd], pc' = [pc EXCEPT ![t] = "connect"]
      PROVE  Clean'
  <2>1. fd \in Fds /\ fdConn[fd] = NoConn
    BY DEF FreeFds
  <2>2. /\ fdConn'[fd] = Me(t) /\ \A f \in Fds : f # fd => fdConn'[f] = fdConn[f]
        /\ pc'[t] = "connect" /\ call'[t].fd = fd
    BY <1>5, <2>1, AdvanceFd DEF Base, Types
  <2>3. Fd(t)' = fd /\ ConnOf(Fd(t))' = Me(t) /\ Me(t)' = Me(t)
    BY <1>2, <2>1, <2>2 DEF Fd, ConnOf, Me, Same
  <2>5. requests[Me(t)] = <<>> /\ replies[Me(t)] = <<>>
    <3>1. Me(t) = Me(Me(t)[1]) /\ pc[Me(t)[1]] = "socket"
      BY <1>1 DEF Me
    <3> QED
      BY <1>3, <3>1 DEF Base, Unused
  <2>6. Held(t)'
    <3>1. Me(t) # NoConn
      BY <1>3, ConnsFact
    <3> QED
      BY <1>1, <1>2, <1>3, <2>2, <2>3, <2>5, <3>1 DEF Held, OnlyOf, Same
  <2>7. Outcome(t)'
    BY <1>2, <1>3, OutcomeStays
  <2>8. \A u \in Threads \ {t} : Holds(u) => Fd(u) # fd
    BY <2>1, HeldFact
  <2>9. \A u \in Threads \ {t} : Holds(u) =>
           fdConn'[Fd(u)] = fdConn[Fd(u)] /\ NetSame(fdConn[Fd(u)])
    BY <1>1, <2>2, <2>8, HeldFact DEF NetSame
  <2>10. ASSUME NEW f \in Fds PROVE Left(f)'
    <3>1. CASE f = fd
      <4>1. Holds(t)'
        BY <1>2, <1>3, <2>2 DEF Holds, Same
      <4> QED
        BY <2>3, <3>1, <4>1 DEF Left
    <3>2. CASE f # fd
      BY <1>1, <1>2, <1>3, <2>2, <3>2, LeftStays DEF Clean, NetSame
    <3> QED
      BY <3>1, <3>2
  <2> QED
    BY <1>1, <1>2, <2>3, <2>6, <2>7, <2>8, <2>9, <2>10, CleanStays
<1> QED
  BY <1>1, <1>4, <1>5 DEF Socket, Goto, Return

LEMMA ConnectOkClean ==
    ASSUME Base, Clean, ~crashed, NEW t \in Threads, ConnectOk(t) \/ ProbeConnect(t)
    PROVE  Clean'
<1>1. /\ pc[t] = "connect" /\ State(t) = "none"
      /\ pc' = [pc EXCEPT ![t] = "send"] \/ UNCHANGED pc
      /\ peer' = [peer EXCEPT ![ConnOf(call[t].fd)] = "up"]
      /\ UNCHANGED <<fdConn, requests, replies, unserialized>>
  BY DEF ConnectOk, ProbeConnect, Goto, history
<1>2. Frame(t) /\ Same(t) /\ call'[t] = call[t]
  BY ConnectOkBase, ProbeConnectBase DEF Advances
<1>3. /\ ~call[t].kept /\ ~call[t].sent /\ Fd(t) = call[t].fd /\ pc'[t] \in {"connect", "send"}
  BY <1>1 DEF Base, Types, Local, Opened
<1>4. Fd(t)' = Fd(t)
  <2>1. CASE ConnectOk(t)
    <3>1. /\ pc' = [pc EXCEPT ![t] = "send"]
          /\ m_clientfd' = [m_clientfd EXCEPT ![call[t].channel] = call[t].fd]
      BY <2>1 DEF ConnectOk, Goto
    <3>2. pc'[t] = "send" /\ call[t].channel \in Channels
      BY <3>1 DEF Base, Types, Calls
    <3> QED
      BY <1>2, <1>3, <3>1, <3>2 DEF Base, Types, Fd
  <2>2. CASE ProbeConnect(t)
    BY <1>1, <1>2, <1>3, <2>2 DEF ProbeConnect, Fd
  <2> QED
    BY <2>1, <2>2
<1>5. Holds(t) /\ Holds(t)'
  BY <1>1, <1>2, <1>3 DEF Holds
<1>6. /\ Fd(t) \in Fds /\ ConnOf(Fd(t)) = fdConn[Fd(t)]
      /\ fdConn[Fd(t)] \in Conns /\ fdConn[Fd(t)] # NoConn
  BY <1>5, HeldFact
<1>7. /\ \A c \in Conns : c # fdConn[Fd(t)] => NetSame(c)
      /\ peer'[fdConn[Fd(t)]] = "up"
  BY <1>1, <1>3, <1>6 DEF NetSame, Base, Types
<1>8. \A u \in Threads \ {t} : Holds(u) => Fd(u) # Fd(t)
  BY <1>5 DEF Clean, Separate
<1>9. Held(t)'
  <2>1. ConnOf(Fd(t))' = fdConn[Fd(t)] /\ Me(t)' = Me(t)
    BY <1>1, <1>2, <1>4, <1>6 DEF ConnOf, Me
  <2>2. /\ fdConn[Fd(t)] = Me(t)
        /\ OnlyOf(requests[fdConn[Fd(t)]], Me(t)) /\ OnlyOf(replies[fdConn[Fd(t)]], Me(t))
        /\ requests[fdConn[Fd(t)]] = <<>> /\ replies[fdConn[Fd(t)]] = <<>>
    BY <1>3, <1>5, <1>6 DEF Clean, Held
  <2> QED
    BY <1>1, <1>2, <1>3, <1>6, <1>7, <2>1, <2>2 DEF Held, OnlyOf
<1>10. Outcome(t)'
  BY <1>2, <1>3, OutcomeStays
<1> QED
  BY <1>1, <1>2, <1>4, <1>5, <1>6, <1>7, <1>8, <1>9, <1>10, CleanUses

LEMMA ConnectFailClean ==
    ASSUME Base, Clean, ~crashed, NEW t \in Threads, ConnectFail(t) \/ ProbeClose(t) \/ CloseFd(t)
    PROVE  Clean'
<1>1. /\ Frame(t) /\ Same(t) /\ call'[t] = call[t]
      /\ pc[t] \in {"connect", "close"} /\ pc' = [pc EXCEPT ![t] = "done"] /\ Close(Fd(t))
      /\ UNCHANGED <<requests, replies, peer, unserialized>>
  BY ConnectFailBase, CloseFdBase DEF Advances
<1>2. Holds(t) /\ (pc[t] = "connect" => ~call[t].kept)
  BY <1>1 DEF Base, Local, Holds
<1>3. \A u \in Threads \ {t} : Holds(u) => Fd(u) # Fd(t)
  BY <1>2 DEF Clean, Separate
<1>4. call[t].kept => unserialized # {}
  BY <1>2 DEF Clean, Held
<1>5. Outcome(t)'
  BY <1>1, <1>4 DEF Clean, Outcome, OnlyOf, Me
<1> QED
  BY <1>1, <1>3, <1>5, CleanCloses

\* Unless t meets another call, it can take its number for its own.
LEMMA NotMet ==
    ASSUME Base, Clean, NEW t \in Threads, pc[t] \in {"send", "abandon"}, ~Meets(t)
    PROVE  \A u \in Threads \ {t} : Holds(u) => Fd(u) # Fd(t)
<1>1. CASE Holds(t)
  BY <1>1 DEF Clean, Separate
<1>2. CASE ~Holds(t)
  <2>1. call[t].kept /\ ~call[t].sent
    BY <1>2 DEF Holds
  <2>2. CASE ConnOf(Fd(t)) = NoConn
    BY <2>2, HeldFact
  <2>3. CASE ConnOf(Fd(t)) # NoConn
    BY <2>1, <2>3 DEF Meets
  <2> QED
    BY <2>2, <2>3
<1> QED
  BY <1>1, <1>2

LEMMA FailedFact ==
    ASSUME Base, NEW t \in Threads, ReturnFailed(t)
    PROVE  call'[t].failed \/ crashed'
<1>1. ASSUME NEW r \in Calls, NEW m PROVE
         LET s == [r EXCEPT !.failed = ~(m \in Unchecked), !.conn = NoConn] IN
         s.failed <=> ~(m \in Unchecked)
  BY DEF Calls
<1> DEFINE s == [call[t] EXCEPT !.failed = ~(call[t].method \in Unchecked), !.conn = NoConn]
<1>2. call' = [call EXCEPT ![t] = s] /\ (crashed' <=> call[t].method \in Unchecked)
  BY DEF Base, Types, ReturnFailed, Null
<1>3. s.failed <=> ~(call[t].method \in Unchecked)
  BY <1>1 DEF Base, Types
<1> HIDE DEF s
<1>4. call'[t] = s
  BY <1>2 DEF Base, Types
<1> QED
  BY <1>2, <1>3, <1>4

LEMMA AbandonClean ==
    ASSUME Base, Clean, ~crashed, NEW t \in Threads, Abandon(t), ~met'
    PROVE  Clean'
<1>1. /\ Frame(t) /\ Same(t) /\ call'[t].got = call[t].got
      /\ pc[t] = "abandon" /\ pc' = [pc EXCEPT ![t] = "done"] /\ Close(Fd(t))
      /\ UNCHANGED <<requests, replies, peer, unserialized>>
  BY AbandonBase DEF Advances
<1>2. ~Meets(t) /\ (call'[t].failed \/ crashed')
  BY FailedFact DEF Abandon
<1>3. \A u \in Threads \ {t} : Holds(u) => Fd(u) # Fd(t)
  BY <1>1, <1>2, NotMet
<1>4. Outcome(t)'
  BY <1>1, <1>2 DEF Clean, Outcome, OnlyOf, Me, Same
<1> QED
  BY <1>1, <1>3, <1>4, CleanCloses

LEMMA SendOkClean ==
    ASSUME Base, Clean, ~crashed, NEW t \in Threads, SendOk(t), ~met'
    PROVE  Clean'
<1>1. /\ pc[t] = "send" /\ pc' = [pc EXCEPT ![t] = "recv"] /\ State(t) \in {"up", "closed"}
      /\ requests' = [requests EXCEPT ![ConnOf(Fd(t))] =
                       Append(@, [from |-> Me(t), method |-> method_name[call[t].channel]])]
      /\ ~Meets(t)
      /\ UNCHANGED <<fdConn, m_clientfd, replies, peer, unserialized>>
  BY DEF SendOk, Goto, channel
<1>2. Frame(t) /\ Same(t) /\ call'[t].got = call[t].got /\ call'[t].sent = TRUE
  BY SendOkBase DEF Advances
<1>3. /\ Fd(t) \in Fds /\ ConnOf(Fd(t)) = fdConn[Fd(t)] /\ fdConn[Fd(t)] \in Conns
      /\ fdConn[Fd(t)] # NoConn /\ peer[fdConn[Fd(t)]] \in {"up", "closed"}
  BY <1>1, StateFact DEF Base
<1>4. pc'[t] = "recv" /\ Fd(t)' = Fd(t) /\ Me(t)' = Me(t)
  BY <1>1, <1>2 DEF Base, Types, Fd, Same, Me
<1>5. Holds(t)'
  BY <1>2, <1>4 DEF Holds
<1>6. \A u \in Threads \ {t} : Holds(u) => Fd(u) # Fd(t)
  BY <1>1, NotMet
<1>7. \A c \in Conns : c # fdConn[Fd(t)] => NetSame(c)
  BY <1>1, <1>3 DEF Base, Types, NetSame
<1> DEFINE c == fdConn[Fd(t)]
           m == [from |-> Me(t), method |-> method_name[call[t].channel]]
<1>8. /\ IF call[t].kept THEN c \in unserialized ELSE c = Me(t)
      /\ requests[c] = <<>> /\ replies[c] = <<>>
  <2>1. ~call[t].sent
    BY <1>1 DEF Base, Local
  <2>2. CASE Holds(t)
    <3>1. ~call[t].kept
      BY <2>1, <2>2 DEF Holds
    <3> QED
      BY <1>3, <2>1, <2>2, <3>1 DEF Clean, Held
  <2>3. CASE ~Holds(t)
    <3>1. call[t].kept
      BY <1>1, <2>3 DEF Holds
    <3>2. \A u \in Threads : ~(Holds(u) /\ Fd(u) = Fd(t))
      BY <1>6, <2>3
    <3>3. Left(Fd(t))
      BY <1>3 DEF Clean
    <3> QED
      BY <1>3, <3>1, <3>2, <3>3 DEF Left
  <2> QED
    BY <2>2, <2>3
<1>9. requests'[c] = Append(<<>>, m)
  BY <1>1, <1>3, <1>8 DEF Base, Types
<1>10. OnlyOf(requests'[c], Me(t)) /\ OnlyOf(replies'[c], Me(t))
  <2>1. OnlyOf(Append(<<>>, m), Me(t))
    BY DEF OnlyOf
  <2>2. OnlyOf(<<>>, Me(t))
    BY DEF OnlyOf
  <2> HIDE DEF m, c
  <2> QED
    BY <1>1, <1>8, <1>9, <2>1, <2>2
<1>11. ConnOf(Fd(t))' = c
  BY <1>1, <1>3, <1>4 DEF ConnOf
<1>12. Held(t)'
  <2>1. c # NoConn /\ peer'[c] # "none"
    BY <1>1, <1>3
  <2> HIDE DEF c
  <2> QED
    BY <1>1, <1>2, <1>4, <1>8, <1>10, <1>11, <2>1 DEF Held, Same, OnlyOf
<1>13. Outcome(t)'
  BY <1>2, <1>4, OutcomeStays
<1> QED
  BY <1>1, <1>2, <1>3, <1>4, <1>5, <1>6, <1>7, <1>12, <1>13, CleanUses

LEMMA SendFailClean ==
    ASSUME Base, Clean, ~crashed, NEW t \in Threads, SendFail(t)
    PROVE  Clean'
<1>1. /\ pc[t] = "send" /\ pc' = [pc EXCEPT ![t] = "abandon"]
      /\ UNCHANGED <<fdConn, m_clientfd, call, requests, replies, peer, unserialized>>
  BY DEF SendFail, Goto, channel, net, history
<1>2. Frame(t) /\ Same(t) /\ call'[t] = call[t]
  BY SendFailBase DEF Advances
<1>3. pc'[t] = "abandon" /\ Fd(t)' = Fd(t) /\ Me(t)' = Me(t)
  BY <1>1 DEF Base, Types, Fd, Me
<1>4. Holds(t)' <=> Holds(t)
  BY <1>1, <1>2, <1>3 DEF Holds
<1>5. Held(t)'
  <2>1. ConnOf(Fd(t))' = ConnOf(Fd(t))
    BY <1>1, <1>3 DEF ConnOf
  <2> QED
    BY <1>1, <1>2, <1>3, <1>4, <2>1 DEF Clean, Held, OnlyOf
<1>6. Outcome(t)'
  BY <1>2, <1>3, OutcomeStays
<1> QED
  BY <1>1, <1>2, <1>3, <1>4, <1>5, <1>6, CleanGoesOn

LEMMA RecvClean ==
    ASSUME Base, Clean, ~crashed, NEW t \in Threads, Recv(t)
    PROVE  Clean'
<1>1. /\ pc[t] = "recv" /\ pc' = [pc EXCEPT ![t] = "blocked"]
      /\ UNCHANGED <<fdConn, m_clientfd, requests, replies, peer, unserialized>>
  BY DEF Recv, Goto, channel, net, history
<1>2. /\ Frame(t) /\ Same(t) /\ call'[t].got = call[t].got /\ call'[t].sent = call[t].sent
      /\ call'[t].conn = ConnOf(Fd(t))
  BY RecvBase DEF Advances
<1>3. pc'[t] = "blocked" /\ Fd(t)' = Fd(t) /\ Me(t)' = Me(t)
  BY <1>1, <1>2 DEF Base, Types, Fd, Me, Same
<1>4. Holds(t)' /\ Holds(t)
  BY <1>1, <1>2, <1>3 DEF Holds, Base, Local, Same
<1>5. Held(t)'
  <2>1. ConnOf(Fd(t))' = ConnOf(Fd(t))
    BY <1>1, <1>3 DEF ConnOf
  <2> QED
    BY <1>1, <1>2, <1>3, <1>4, <2>1 DEF Clean, Held, OnlyOf, Same
<1>6. Outcome(t)'
  BY <1>2, <1>3, OutcomeStays
<1> QED
  BY <1>1, <1>2, <1>3, <1>4, <1>5, <1>6, CleanGoesOn

\* A blocked call reads the connection its number stands for.
LEMMA BlockedFact ==
    ASSUME Base, Clean, NEW t \in Threads, pc[t] = "blocked"
    PROVE  /\ Holds(t) /\ call[t].conn = fdConn[Fd(t)] /\ call[t].sent
           /\ Fd(t) \in Fds /\ fdConn[Fd(t)] \in Conns /\ fdConn[Fd(t)] # NoConn
           /\ IF call[t].kept THEN call[t].conn \in unserialized ELSE call[t].conn = Me(t)
           /\ peer[call[t].conn] # "none"
           /\ OnlyOf(requests[call[t].conn], Me(t)) /\ OnlyOf(replies[call[t].conn], Me(t))
<1>1. Holds(t) /\ call[t].sent
  BY DEF Holds, Base, Local
<1> QED
  BY <1>1, HeldFact DEF Clean, Held

LEMMA ReceiveClean ==
    ASSUME Base, Clean, ~crashed, NEW t \in Threads, Receive(t) \/ ParseFail(t)
    PROVE  Clean'
<1> DEFINE c == call[t].conn
<1>1. /\ pc[t] = "blocked"
      /\ pc' = [pc EXCEPT ![t] = "close"] \/ pc' = [pc EXCEPT ![t] = "abandon"]
      /\ UNCHANGED <<fdConn, m_clientfd, requests, peer, unserialized>>
  BY DEF Receive, ParseFail, Unparsable, Goto, channel, history
<1>2. /\ Holds(t) /\ c = fdConn[Fd(t)] /\ call[t].sent
      /\ Fd(t) \in Fds /\ c \in Conns /\ c # NoConn
      /\ IF call[t].kept THEN c \in unserialized ELSE c = Me(t)
      /\ peer[c] # "none"
      /\ OnlyOf(requests[c], Me(t)) /\ OnlyOf(replies[c], Me(t))
  BY <1>1, BlockedFact
<1>3. /\ Frame(t) /\ Same(t) /\ call'[t].sent = call[t].sent
      /\ replies' = [replies EXCEPT ![c] = replies'[c]]
      /\ OnlyOf(replies'[c], Me(t)) /\ OnlyOf(call'[t].got, Me(t))
  <2>1. CASE Receive(t)
    BY <1>2, <2>1, ReceiveStep, ReceiveBase DEF Advances
  <2>2. CASE ParseFail(t)
    <3>1. OnlyOf(call[t].got, Me(t))
      BY DEF Clean, Outcome
    <3> QED
      BY <1>2, <2>2, <3>1, ParseFailBase DEF Advances
  <2> QED
    BY <2>1, <2>2
<1>4. pc'[t] \in {"close", "abandon"} /\ Fd(t)' = Fd(t) /\ Me(t)' = Me(t)
  BY <1>1, <1>3 DEF Base, Types, Fd, Me, Same
<1>5. Holds(t)'
  BY <1>2, <1>3, <1>4 DEF Holds
<1>6. \A d \in Conns : d # fdConn[Fd(t)] => NetSame(d)
  BY <1>1, <1>2, <1>3 DEF NetSame, Base, Types
<1>7. \A u \in Threads \ {t} : Holds(u) => Fd(u) # Fd(t)
  BY <1>2 DEF Clean, Separate
<1>8. Held(t)'
  <2>1. ConnOf(Fd(t))' = c
    BY <1>1, <1>2, <1>4 DEF ConnOf
  <2> HIDE DEF c
  <2> QED
    BY <1>1, <1>2, <1>3, <1>4, <2>1 DEF Held, OnlyOf, Same
<1>9. Outcome(t)'
  BY <1>3, <1>4 DEF Outcome, OnlyOf
<1> QED
  BY <1>1, <1>2, <1>3, <1>4, <1>5, <1>6, <1>7, <1>8, <1>9, CleanUses

\* A call that returns with its socket open, which is dead or was not used.
LEMMA CleanLeaves ==
    ASSUME Base, Clean, ~crashed, NEW t \in Threads, Frame(t),
           UNCHANGED <<fdConn, requests, replies, peer>>, unserialized \subseteq unserialized',
           pc' = [pc EXCEPT ![t] = "done"], Outcome(t)',
           Holds(t) => LET c == fdConn[Fd(t)] IN
              \/ peer[c] = "reset"
              \/ c \in unserialized' /\ peer[c] # "none" /\ requests[c] = <<>> /\ replies[c] = <<>>
    PROVE  Clean'
<1>1. pc'[t] = "done"
  BY DEF Base, Types
<1>2. ~Holds(t)'
  BY <1>1 DEF Holds
<1>3. Held(t)'
  BY <1>2 DEF Held
<1>4. ASSUME NEW f \in Fds PROVE Left(f)'
  <2>1. CASE Holds(t) /\ Fd(t) = f
    BY <2>1 DEF Left
  <2>2. CASE ~(Holds(t) /\ Fd(t) = f)
    BY <2>2, LeftStays DEF Clean, NetSame
  <2> QED
    BY <2>1, <2>2
<1>5. \A u \in Threads \ {t} : Holds(u) =>
         fdConn'[Fd(u)] = fdConn[Fd(u)] /\ NetSame(fdConn[Fd(u)])
  BY DEF NetSame
<1> QED
  BY <1>2, <1>3, <1>4, <1>5, CleanStays

LEMMA SerializeFailClean ==
    ASSUME Base, Clean, ~crashed, NEW t \in Threads, SerializeFail(t)
    PROVE  Clean'
<1>1. /\ Frame(t) /\ Same(t) /\ call'[t].got = call[t].got
      /\ pc[t] = "send" /\ pc' = [pc EXCEPT ![t] = "done"]
      /\ unserialized' = unserialized \cup {Me(t)}
      /\ UNCHANGED <<fdConn, requests, replies, peer>>
  BY SerializeFailBase DEF Advances
<1>2. Outcome(t)'
  BY <1>1 DEF Clean, Outcome, OnlyOf, Me, Same
<1>3. ASSUME Holds(t)
      PROVE  LET c == fdConn[Fd(t)] IN
             c \in unserialized' /\ peer[c] # "none" /\ requests[c] = <<>> /\ replies[c] = <<>>
  <2>1. ~call[t].sent /\ ~call[t].kept
    BY <1>1, <1>3 DEF Holds, Base, Local
  <2> QED
    BY <1>1, <1>3, <2>1, HeldFact DEF Clean, Held
<1>4. unserialized \subseteq unserialized'
  BY <1>1
<1> QED
  BY <1>1, <1>2, <1>3, <1>4, CleanLeaves

LEMMA RecvFailClean ==
    ASSUME Base, Clean, ~crashed, NEW t \in Threads, RecvFail(t)
    PROVE  Clean'
<1>1. /\ Frame(t) /\ Same(t) /\ call'[t].got = call[t].got
      /\ RecvError(t) /\ pc' = [pc EXCEPT ![t] = "done"]
      /\ UNCHANGED <<fdConn, requests, replies, peer, unserialized>>
  BY RecvFailBase DEF Advances
<1>2. pc[t] \in {"recv", "blocked"}
  BY <1>1 DEF RecvError
<1>3. Holds(t)
  BY <1>2 DEF Holds, Base, Local
<1>4. peer[fdConn[Fd(t)]] = "reset"
  <2>1. CASE pc[t] = "recv"
    <3>1. State(t) \in {"bad", "none"}
      BY <1>1, <2>1 DEF RecvError
    <3>2. State(t) = peer[fdConn[Fd(t)]] /\ peer[fdConn[Fd(t)]] \in {"none", "up", "closed", "reset"}
      BY <1>3, HeldFact DEF State, Base, Types
    <3>3. peer[fdConn[Fd(t)]] # "none"
      BY <1>3, <2>1, HeldFact DEF Clean, Held
    <3> QED
      BY <3>1, <3>2, <3>3
  <2>2. CASE pc[t] = "blocked"
    BY <1>1, <2>2, BlockedFact DEF RecvError
  <2> QED
    BY <1>2, <2>1, <2>2
<1>5. call[t].kept => unserialized # {}
  BY <1>3 DEF Clean, Held
<1>6. Outcome(t)'
  BY <1>1, <1>5 DEF Clean, Outcome, OnlyOf, Me, Same
<1>7. unserialized \subseteq unserialized'
  BY <1>1
<1> QED
  BY <1>1, <1>4, <1>6, <1>7, CleanLeaves

LEMMA ProviderClean ==
    ASSUME Base, Clean, NEW c \in Conns, Serve(c) \/ Ignore(c) \/ HangUp(c)
    PROVE  Clean'
<1>1. UNCHANGED <<fdConn, m_clientfd, pc, call, crashed, unserialized>>
  BY DEF Serve, Ignore, HangUp, channel, history
<1>2. requests[c] \in Seq(Requests) /\ replies[c] \in Seq(Requests)
  BY DEF Base, Types
<1>3. \A d \in Conns : d # c => NetSame(d)
  BY DEF Serve, Ignore, HangUp, NetSame, Base, Types
<1>4. /\ peer[c] # "none" /\ peer'[c] # "none"
      /\ peer[c] # "reset" \/ peer'[c] = "reset"
      /\ requests[c] = <<>> /\ replies[c] = <<>> => requests'[c] = <<>> /\ replies'[c] = <<>>
      /\ requests[c] # <<>> \/ UNCHANGED <<requests, replies>>
      /\ peer'[c] = "up" \/ UNCHANGED <<requests, replies>>
  BY DEF Serve, Ignore, HangUp, Base, Types
<1>5. ASSUME NEW m, OnlyOf(requests[c], m), OnlyOf(replies[c], m)
      PROVE  OnlyOf(requests'[c], m) /\ OnlyOf(replies'[c], m)
  <2>1. ASSUME NEW s \in Seq(Requests), s # <<>>, OnlyOf(s, m), NEW r \in Seq(Requests), OnlyOf(r, m)
        PROVE  OnlyOf(Tail(s), m) /\ OnlyOf(Append(r, Head(s)), m)
    <3>1. OnlyOf(Tail(s), m)
      BY <2>1 DEF OnlyOf
    <3>2. Head(s) = s[1] /\ Head(s).from = m
      BY <2>1 DEF OnlyOf
    <3>3. OnlyOf(Append(r, Head(s)), m)
      <4>1. /\ Len(Append(r, Head(s))) = Len(r) + 1
            /\ \A i \in 1 .. Len(r) : Append(r, Head(s))[i] = r[i]
            /\ Append(r, Head(s))[Len(r) + 1] = Head(s)
        OBVIOUS
      <4>2. ASSUME NEW i \in 1 .. (Len(r) + 1) PROVE Append(r, Head(s))[i].from = m
        <5>1. i \in 1 .. Len(r) \/ i = Len(r) + 1
          OBVIOUS
        <5> QED
          BY <2>1, <3>2, <4>1, <5>1 DEF OnlyOf
      <4> QED
        BY <4>1, <4>2 DEF OnlyOf
    <3> QED
      BY <3>1, <3>3
  <2>2. CASE Serve(c)
    <3>1. requests[c] # <<>> /\ requests'[c] = Tail(requests[c])
          /\ replies'[c] = Append(replies[c], Head(requests[c]))
      BY <2>2 DEF Serve, Base, Types
    <3> QED
      BY <1>2, <1>5, <2>1, <3>1
  <2>3. CASE Ignore(c)
    <3>1. requests[c] # <<>> /\ requests'[c] = Tail(requests[c]) /\ replies'[c] = replies[c]
      BY <2>3 DEF Ignore, Base, Types
    <3> QED
      BY <1>2, <1>5, <2>1, <3>1
  <2>4. CASE HangUp(c)
    BY <1>5, <2>4 DEF HangUp
  <2> QED
    BY <2>2, <2>3, <2>4
<1>6. \A t \in Threads : (Holds(t)' <=> Holds(t)) /\ Fd(t)' = Fd(t) /\ Me(t)' = Me(t)
                         /\ ConnOf(Fd(t))' = ConnOf(Fd(t))
  BY <1>1 DEF Holds, Fd, Me, ConnOf
<1>7. Separate'
  BY <1>6 DEF Clean, Separate
<1>8. ASSUME NEW t \in Threads PROVE Held(t)' /\ Outcome(t)'
  <2>1. Outcome(t)'
    BY <1>1, <1>6 DEF Clean, Outcome, OnlyOf
  <2>2. SUFFICES ASSUME Holds(t) PROVE Held(t)'
    BY <1>6, <2>1 DEF Held
  <2> DEFINE d == ConnOf(Fd(t))
  <2>3. /\ d \in Conns /\ d # NoConn
        /\ IF call[t].kept THEN d \in unserialized ELSE d = Me(t)
        /\ pc[t] # "connect" => peer[d] # "none"
        /\ pc[t] = "blocked" => call[t].conn = d
        /\ OnlyOf(requests[d], Me(t)) /\ OnlyOf(replies[d], Me(t))
        /\ ~call[t].sent => requests[d] = <<>> /\ replies[d] = <<>>
    BY <2>2, HeldFact DEF Clean, Held
  <2>4. ConnOf(Fd(t))' = d
    BY <1>6
  <2> HIDE DEF d
  <2>5. /\ pc[t] # "connect" => peer'[d] # "none"
        /\ OnlyOf(requests'[d], Me(t)) /\ OnlyOf(replies'[d], Me(t))
        /\ ~call[t].sent => requests'[d] = <<>> /\ replies'[d] = <<>>
    BY <1>3, <1>4, <1>5, <2>3 DEF NetSame
  <2> QED
    BY <1>1, <1>6, <2>3, <2>4, <2>5 DEF Held, OnlyOf
<1>9. ASSUME NEW f \in Fds PROVE Left(f)'
  <2> SUFFICES ASSUME fdConn[f] # NoConn, \A t \in Threads : ~(Holds(t) /\ Fd(t) = f)
               PROVE  \/ peer'[fdConn[f]] = "reset"
                      \/ /\ fdConn[f] \in unserialized
                         /\ peer'[fdConn[f]] # "none"
                         /\ requests'[fdConn[f]] = <<>> /\ replies'[fdConn[f]] = <<>>
    BY <1>1, <1>6 DEF Left
  <2>1. \/ peer[fdConn[f]] = "reset"
        \/ /\ fdConn[f] \in unserialized
           /\ peer[fdConn[f]] # "none"
           /\ requests[fdConn[f]] = <<>> /\ replies[fdConn[f]] = <<>>
    BY DEF Clean, Left
  <2>2. CASE fdConn[f] = c
    BY <1>4, <2>1, <2>2
  <2>3. CASE fdConn[f] # c
    <3>1. NetSame(fdConn[f])
      BY <1>3, <2>3 DEF Base, Types
    <3> QED
      BY <2>1, <3>1 DEF NetSame
  <2> QED
    BY <2>2, <2>3
<1> QED
  BY <1>7, <1>8, <1>9 DEF Clean

LEMMA InitClean == Init => Clean
<1> SUFFICES ASSUME Init PROVE Clean
  OBVIOUS
<1>1. \A t \in Threads : ~Holds(t) /\ call[t].got = <<>> /\ ~call[t].kept
  BY NoCallFact DEF Init, Holds
<1>2. \A f \in Fds : fdConn[f] = NoConn
  BY DEF Init
<1> QED
  BY <1>1, <1>2 DEF Clean, Separate, Held, Outcome, OnlyOf, Left

\* Clean goes on until a kept call has met another one.
Inv == Base /\ (met \/ Clean)

LEMMA StepClean ==
    ASSUME Base, Clean, ~crashed, NEW t \in Threads, Begin(t) \/ Probe(t) \/ Step(t), ~met'
    PROVE  Clean'
BY BeginClean, ProbeClean, ResolveClean, GateClean, SocketClean, ConnectOkClean,
   ConnectFailClean, SerializeFailClean, SendOkClean, SendFailClean,
   RecvClean, ReceiveClean, RecvFailClean, AbandonClean, Zenon DEF Step

LEMMA MetStays == [Next]_vars /\ met => met'
BY DEF Next, vars, history, Step, Begin, Probe, Resolve, Gate, Socket, ConnectOk, ConnectFail,
   ProbeConnect, ProbeClose, SerializeFail, SendOk, SendFail, Recv, Receive, ParseFail,
   RecvFail, CloseFd, Abandon, Serve, Ignore, HangUp

LEMMA NextInv == Inv /\ [Next]_vars => Inv'
<1> SUFFICES ASSUME Inv, [Next]_vars PROVE Inv'
  OBVIOUS
<1>1. Base'
  BY NextBase DEF Inv
<1> SUFFICES ASSUME ~met' PROVE Clean'
  BY <1>1 DEF Inv
<1>2. Base /\ Clean
  BY MetStays DEF Inv
<1>3. CASE Next
  <2>1. ~crashed
    BY <1>3 DEF Next
  <2>2. ASSUME NEW t \in Threads, Begin(t) \/ Probe(t) \/ Step(t) PROVE Clean'
    BY <1>2, <2>1, <2>2, StepClean
  <2>3. ASSUME NEW c \in Conns, Serve(c) \/ Ignore(c) \/ HangUp(c) PROVE Clean'
    BY <1>2, <2>3, ProviderClean
  <2> QED
    BY <1>3, <2>2, <2>3 DEF Next
<1>4. CASE UNCHANGED vars
  <2>1. UNCHANGED <<fdConn, m_clientfd, method_name, pc, call, requests, replies, peer,
                    crashed, unserialized>>
    BY <1>4 DEF vars, channel, net, history
  <2>2. \A t \in Threads : (Holds(t)' <=> Holds(t)) /\ Fd(t)' = Fd(t) /\ Me(t)' = Me(t)
                           /\ ConnOf(Fd(t))' = ConnOf(Fd(t))
    BY <2>1 DEF Holds, Fd, Me, ConnOf
  <2> QED
    BY <1>2, <2>1, <2>2 DEF Clean, Separate, Held, Outcome, Left, OnlyOf
<1> QED
  BY <1>3, <1>4

LEMMA Invariant == Spec => []Inv
<1>1. Init => Inv
  BY InitBase, InitClean DEF Inv
<1> QED
  BY <1>1, NextInv, PTL DEF Spec

-----------------------------------------------------------------------------
(* Theorems.                                                               *)

\* What the rest of the type invariant adds.
Flags ==
    /\ found \in [Channels -> BOOLEAN]
    /\ crashed \in BOOLEAN
    /\ met \in BOOLEAN

LEMMA NextFlags ==
    ASSUME Flags, [Next]_vars
    PROVE  Flags'
<1>1. found' \in [Channels -> BOOLEAN]
  <2>1. ASSUME NEW t \in Threads, Resolve(t) PROVE found' \in [Channels -> BOOLEAN]
    <3>1. PICK b \in {TRUE, t \notin Faulty} : found' = [found EXCEPT ![call[t].channel] = @ \/ b]
      BY <2>1, Zenon DEF Resolve
    <3>2. found \in [Channels -> BOOLEAN] /\ (found[call[t].channel] \/ b) \in BOOLEAN
      BY Zenon DEF Flags
    <3> HIDE DEF Flags
    <3> QED
      BY <3>1, <3>2, Zenon
  <2>2. ASSUME NEW t \in Threads, Begin(t) \/ Probe(t) \/ Step(t), ~Resolve(t) PROVE found' = found
    BY <2>2 DEF Step, Begin, Probe, Gate, Socket, ConnectOk, ConnectFail, ProbeConnect, ProbeClose,
       SerializeFail, SendOk, SendFail, Recv, Receive, ParseFail, RecvFail, CloseFd, Abandon, channel
  <2>3. ASSUME NEW c \in Conns, Serve(c) \/ Ignore(c) \/ HangUp(c) PROVE found' = found
    BY <2>3 DEF Serve, Ignore, HangUp, channel
  <2>4. UNCHANGED vars => found' = found
    BY DEF vars, channel
  <2> QED
    BY <2>1, <2>2, <2>3, <2>4 DEF Next, Flags
<1>2. crashed' \in BOOLEAN
  <2>1. ASSUME NEW t \in Threads, Resolve(t) PROVE crashed' \in BOOLEAN
    BY <2>1, Zenon DEF Resolve
  <2>2. ASSUME NEW t \in Threads, ReturnFailed(t) PROVE crashed' \in BOOLEAN
    <3>1. Null(t) \in BOOLEAN
      BY DEF Null
    <3> QED
      BY <2>2, <3>1 DEF ReturnFailed
  <2>3. ASSUME NEW t \in Threads, SerializeFail(t) \/ RecvFail(t) \/ Abandon(t) PROVE crashed' \in BOOLEAN
    BY <2>2, <2>3 DEF SerializeFail, RecvFail, Abandon
  <2>4. ASSUME NEW t \in Threads, Begin(t) \/ Probe(t) \/ Step(t),
               ~(Resolve(t) \/ SerializeFail(t) \/ RecvFail(t) \/ Abandon(t))
        PROVE  crashed' = crashed
    BY <2>4 DEF Step, Begin, Probe, Gate, Socket, ConnectOk, ConnectFail, ProbeConnect, ProbeClose,
       SendOk, SendFail, Recv, Receive, ParseFail, CloseFd
  <2>5. ASSUME NEW c \in Conns, Serve(c) \/ Ignore(c) \/ HangUp(c) PROVE crashed' = crashed
    BY <2>5 DEF Serve, Ignore, HangUp
  <2>6. UNCHANGED vars => crashed' = crashed
    BY DEF vars
  <2> QED
    BY <2>1, <2>3, <2>4, <2>5, <2>6 DEF Next, Flags
<1>3. met' \in BOOLEAN
  <2>1. ASSUME NEW t \in Threads, SendOk(t) \/ Abandon(t) PROVE met' \in BOOLEAN
    BY <2>1, Zenon DEF SendOk, Abandon
  <2>2. ASSUME NEW t \in Threads, Begin(t) \/ Probe(t) \/ Step(t), ~(SendOk(t) \/ Abandon(t))
        PROVE  met' = met
    BY <2>2 DEF Step, Begin, Probe, Resolve, Gate, Socket, ConnectOk, ConnectFail, ProbeConnect,
       ProbeClose, SerializeFail, SendFail, Recv, Receive, ParseFail, RecvFail, CloseFd, history
  <2>3. ASSUME NEW c \in Conns, Serve(c) \/ Ignore(c) \/ HangUp(c) PROVE met' = met
    BY <2>3 DEF Serve, Ignore, HangUp, history
  <2>4. UNCHANGED vars => met' = met
    BY DEF vars, history
  <2> QED
    BY <2>1, <2>2, <2>3, <2>4 DEF Next, Flags
<1> QED
  BY <1>1, <1>2, <1>3 DEF Flags

\* Types are kept; in particular a channel's number is -1 or one that socket()
\* has returned, and every connection is named by a call that was begun.
THEOREM TypeCorrect == Spec => []TypeOK
<1>1. Init => Flags
  <2>1. Init => found = [h \in Channels |-> FALSE] /\ crashed = FALSE /\ met = FALSE
    BY DEF Init
  <2> QED
    BY <2>1, Zenon DEF Flags
<1>2. Flags /\ [Next]_vars => Flags'
  BY NextFlags
<1>3. Inv /\ Flags => TypeOK
  BY DEF Inv, Base, Types, Flags, Calls, TypeOK
<1> QED
  BY <1>1, <1>2, <1>3, Invariant, PTL DEF Spec

\* Until a kept call meets another one's descriptor, no call is given the reply
\* to another one, although descriptors are handed out again while other threads
\* are in the middle of their calls and probes.
THEOREM RepliesAreOwn == Spec => []NoCrossTalk
<1>1. Inv => NoCrossTalk
  BY DEF Inv, Clean, Outcome, OnlyOf, NoCrossTalk
<1> QED
  BY <1>1, Invariant, PTL

\* ... from socket() to close() the number stands for the connection that this
\* call opened, and no two calls in progress go by the same number.
THEOREM ConnectionsAreOwn == Spec => []OwnConnection
<1>1. ASSUME Base, Clean, NEW t \in Threads, Holds(t), ~call[t].kept
      PROVE  /\ ConnOf(Fd(t)) = Me(t)
             /\ pc[t] = "blocked" => call[t].conn = Me(t)
             /\ pc[t] = "send" => method_name[call[t].channel] = call[t].method
  BY <1>1 DEF Base, Local, Clean, Held
<1>2. Inv => OwnConnection
  BY <1>1 DEF Inv, Clean, Separate, OwnConnection
<1> QED
  BY <1>2, Invariant, PTL

\* ... and a channel that has connected once never serves a call again, unless
\* a request that could not be serialised has left its connection open.
THEOREM KeptCallsFail == Spec => []KeptCallFails
<1>1. Inv => KeptCallFails
  BY DEF Inv, Clean, Held, Outcome, KeptCallFails
<1> QED
  BY <1>1, Invariant, PTL

\* A descriptor that outlives its call was left by an error of recv or of
\* serialising: this holds whoever meets whom.
THEOREM OnlyErrorsLeak == Spec => []LeakOnlyOnError
<1>1. Inv => LeakOnlyOnError
  BY DEF Inv, Base, Table, LeakOnlyOnError, InProgress, Opened
<1> QED
  BY <1>1, Invariant, PTL

\* A call in progress goes by the number of the connection it has opened.
LEMMA ProgressFact ==
    ASSUME Base, NEW f \in Fds, NEW c, fdConn[f] = c, c # NoConn, InProgress(c)
    PROVE  c[1] \in Threads /\ Holds(c[1]) /\ Fd(c[1]) = f
<1>1. c \in Conns /\ c[1] \in Threads /\ c = Me(c[1]) /\ pc[c[1]] # "done"
  BY ConnsFact DEF Base, Types, InProgress
<1>2. pc[c[1]] \in Opened /\ ~call[c[1]].kept /\ call[c[1]].fd = f
  BY <1>1 DEF Base, Table
<1>3. Fd(c[1]) = f
  BY <1>1, <1>2 DEF Base, Local
<1> QED
  BY <1>1, <1>2, <1>3 DEF Holds, Opened

LEMMA NextNoForeignClose ==
    ASSUME Inv, [Next]_vars, NEW f \in Fds, NEW c, fdConn[f] = c, c # NoConn, InProgress(c),
           fdConn'[f] # fdConn[f]
    PROVE  met' \/ pc'[c[1]] # pc[c[1]]
<1> SUFFICES ASSUME ~met' PROVE pc'[c[1]] # pc[c[1]]
  OBVIOUS
<1>1. Base /\ Clean
  BY MetStays DEF Inv
<1>2. c[1] \in Threads /\ Holds(c[1]) /\ Fd(c[1]) = f
  BY <1>1, ProgressFact
<1>3. ASSUME NEW t \in Threads, Close(Fd(t)), pc[t] # "done", pc' = [pc EXCEPT ![t] = "done"],
             \A u \in Threads \ {t} : Holds(u) => Fd(u) # Fd(t)
      PROVE  pc'[c[1]] # pc[c[1]]
  <2>1. f = Fd(t)
    BY <1>3 DEF Close
  <2>2. c[1] = t
    BY <1>2, <1>3, <2>1
  <2> QED
    BY <1>1, <1>3, <2>2 DEF Base, Types
<1>4. ASSUME NEW t \in Threads, ConnectFail(t) \/ ProbeClose(t) \/ CloseFd(t)
      PROVE  pc'[c[1]] # pc[c[1]]
  <2>1. pc[t] \in {"connect", "close"} /\ pc' = [pc EXCEPT ![t] = "done"] /\ Close(Fd(t))
    BY <1>1, <1>4, ConnectFailBase, CloseFdBase
  <2>2. Holds(t)
    BY <1>1, <2>1 DEF Base, Local, Holds
  <2>3. \A u \in Threads \ {t} : Holds(u) => Fd(u) # Fd(t)
    BY <1>1, <2>2 DEF Clean, Separate
  <2> QED
    BY <1>3, <2>1, <2>3
<1>5. ASSUME NEW t \in Threads, Abandon(t) PROVE pc'[c[1]] # pc[c[1]]
  <2>1. pc[t] = "abandon" /\ pc' = [pc EXCEPT ![t] = "done"] /\ Close(Fd(t))
    BY <1>1, <1>5, AbandonBase
  <2>2. \A u \in Threads \ {t} : Holds(u) => Fd(u) # Fd(t)
    BY <1>1, <1>5, <2>1, NotMet DEF Abandon
  <2> QED
    BY <1>3, <2>1, <2>2
<1>6. ASSUME NEW t \in Threads, Socket(t) PROVE FALSE
  BY <1>6 DEF Socket, FreeFds, Inv, Base, Types
<1>7. ASSUME NEW t \in Threads, Begin(t) \/ Probe(t) \/ Resolve(t) \/ Gate(t) \/ ConnectOk(t)
             \/ ProbeConnect(t) \/ SerializeFail(t) \/ SendOk(t) \/ SendFail(t) \/ Recv(t)
             \/ Receive(t) \/ ParseFail(t) \/ RecvFail(t)
      PROVE  FALSE
  BY <1>7 DEF Begin, Probe, Resolve, Gate, ConnectOk, ProbeConnect, SerializeFail, SendOk,
     SendFail, Recv, Receive, ParseFail, RecvFail
<1>8. ASSUME NEW d \in Conns, Serve(d) \/ Ignore(d) \/ HangUp(d) PROVE FALSE
  BY <1>8 DEF Serve, Ignore, HangUp
<1>9. ~ UNCHANGED vars
  BY DEF vars
<1> QED
  BY <1>4, <1>5, <1>6, <1>7, <1>8, <1>9 DEF Next, Step

\* The first descriptor that a call closes for another one in progress, it takes
\* for the old number of its own channel.
THEOREM FirstForeignCloseMeets == Spec => NoForeignClose
<1>1. Inv /\ [Next]_vars =>
         [\A f \in Fds : fdConn[f] # NoConn /\ InProgress(fdConn[f]) /\ fdConn'[f] # fdConn[f]
             => met' \/ pc'[fdConn[f][1]] # pc[fdConn[f][1]]]_vars
  BY NextNoForeignClose
<1> QED
  BY <1>1, Invariant, PTL DEF Spec, NoForeignClose
=============================================================================
