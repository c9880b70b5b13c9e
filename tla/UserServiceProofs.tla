------------------------- MODULE UserServiceProofs -------------------------
(***************************************************************************)
(* Safety of the user service and of the cache behind it, for any callers, *)
(* requests, loops, descriptors and width of an int.                       *)
(*                                                                         *)
(* The inductive invariant has five layers.  Types and Handled hold in     *)
(* every state: what is where, and that a handler works on the request of  *)
(* the caller whose connection its loop has.  Then it is a matter of what  *)
(* has happened so far:                                                    *)
(*                                                                         *)
(*   - while no call has failed to connect (Quiet), the names the one      *)
(*     connection carries are those of a handler's first cache call, never *)
(*     a Set, so nothing is stored and no lookup hits;                     *)
(*   - while no two loops have been inside of CallMethod at once (Alone),  *)
(*     a request is named for what it asks and its reply is read by who    *)
(*     sent it, so a Set may be served, but only with its key's own value  *)
(*     (the channel may keep a connection that was reset, which nobody     *)
(*     sends on or waits on again);                                        *)
(*   - while one of the two is so (Results), what a handler answers is     *)
(*     what its request is due.                                            *)
(*                                                                         *)
(* When both have happened nothing is left to keep: a Get may be sent      *)
(* under the name Set (UserService, CacheSound).                           *)
(***************************************************************************)
EXTENDS UserService, WellFoundedInduction, SequenceTheorems, TLAPS

Kinds == {"Exists", "Delete", "Get", "Set"}
Names == Kinds \cup {"none"}
Reqs == UNION {{a[c] : c \in DOMAIN a} : a \in Asks}
Vals == {Absent, Empty, Text, Zero} \cup {Local(r) : r \in Reqs}
Ends == {NoEnd} \cup ({"in"} \X Conns) \cup ({"out"} \X Loops)

UserRequests == [type : {"request"}, call : Reqs]
CacheRequests == [type : {"request"}, name : Names, kind : Kinds, key : Keys, value : Vals]
Answers == [type : {"reply"}, name : {"none"}, value : Vals, exists : {FALSE}]
Replies == {p \in [type : {"reply"}, name : Names, value : Vals, exists : BOOLEAN] :
                p.exists => p.name \in {"Get", "Exists"}}
Ups == UserRequests \cup CacheRequests \cup Answers
Downs == CacheRequests \cup Replies

NetTypes ==
    /\ table \in [Fds -> Ends]
    /\ up \in [Conns -> Seq(Ups)]
    /\ down \in [Conns -> Seq(Downs)]
    /\ inFd \in [Conns -> Fds \cup {-1}]
    /\ loopOf \in [Conns -> Loops]
    /\ next \in Loops

LoopTypes ==
    /\ pc \in [Loops -> {"poll", "call", "names", "connect", "send", "recv", "blocked", "answer", "dead"}]
    /\ job \in [Loops -> [conn : Conns, request : Reqs \cup {<<"none">>}, result : Vals]]
    /\ nested \in [Loops -> [kind : Kinds \cup {"none"}, key : Keys \cup {Absent}, value : Vals]]
    /\ on \in [Loops -> Conns]

OtherTypes ==
    /\ m_clientfd \in Fds \cup {-1}
    /\ method_name \in Names
    /\ cache \in [Keys -> Vals]
    /\ client \in [Clients -> {"idle", "waiting", "done", "failed"}]
    /\ asked \in Asks
    /\ answer \in [Clients -> Vals]

\* A loop that handles a request knows it and has a cache call to make.
Busy == \A l \in Loops :
    pc[l] \notin {"poll", "dead"} =>
        job[l].request \in Reqs /\ nested[l].kind \in Kinds /\ nested[l].key \in Keys

Types == NetTypes /\ LoopTypes /\ OtherTypes /\ Busy

-----------------------------------------------------------------------------
(* What is handled is what was asked.                                      *)

\* A handler has the request of a caller and makes that request's calls; the
\* caller's connection is the loop's, and open while the channel keeps off it.
Handling(l) ==
    LET r == job[l].request
        c == job[l].conn
    IN  /\ c \in DOMAIN asked /\ client[c] # "idle" /\ r = asked[c]
        /\ nested[l].key = Key(r) /\ nested[l].kind \in {FirstCall(r), "Set"}
        /\ nested[l].kind = "Set" => nested[l].value = Local(r)
        /\ loopOf[c] = l
        /\ ~severed => inFd[c] \in Fds /\ table[inFd[c]] = <<"in", c>>

\* Callers send their own request, the loops cache requests and answers only.
Sent == /\ \A c \in Clients : up[c] # <<>> =>
              /\ up[c] = <<[type |-> "request", call |-> asked[c]]>>
              /\ c \in DOMAIN asked /\ client[c] # "idle"
        /\ \A o \in Loops : up[o] \in Seq(CacheRequests \cup Answers)

Handled == Sent /\ \A l \in Loops : pc[l] \notin {"poll", "dead"} => Handling(l)

-----------------------------------------------------------------------------
(* While the channel has connected.                                        *)

\* A loop is past the connect only on a channel that has connected, and asks
\* for a Set only then: the names are not set again.
Once == \A l \in Loops :
    /\ pc[l] \in {"send", "recv", "blocked"} => m_clientfd # -1
    /\ nested[l].kind = "Set" => m_clientfd # -1 /\ pc[l] # "names"

QuietUps == UserRequests \cup {q \in CacheRequests : q.name # "Set"} \cup Answers
QuietDowns == CacheRequests \cup {p \in Replies : ~p.exists}

Quiet ==
    /\ Once
    /\ method_name # "Set"
    /\ up \in [Conns -> Seq(QuietUps)]
    /\ down \in [Conns -> Seq(QuietDowns)]
    /\ cache = [k \in Keys |-> Absent]

-----------------------------------------------------------------------------
(* While one loop at a time is inside of CallMethod.                       *)

Own(k) == {Local(asked[c]) : c \in {d \in DOMAIN asked : Key(asked[d]) = k}}

SoundRequests == {q \in CacheRequests : q.name = q.kind /\ (q.kind = "Set" => q.value \in Own(q.key))}

\* What the replies to a call tell about its key.
SoundReplies(kind, key) ==
    {p \in Replies : /\ p.name = kind
                     /\ kind = "Get" => p.value \in Own(key) \/ (p.value = Empty /\ ~p.exists)}

OneCaller ==
    /\ \A k, l \in Inside : k = l
    /\ \A l \in Loops : pc[l] \in {"names", "connect"} => m_clientfd = -1
    /\ \A l \in Loops : pc[l] = "connect" => method_name = nested[l].kind
    /\ \A l \in Loops : pc[l] = "blocked" =>
          on[l] = l /\ m_clientfd \in Fds /\ table[m_clientfd] = <<"out", l>>

\* Before it connects nothing has been sent to the cache.
Fresh == m_clientfd = -1 => /\ ~severed
                            /\ \A o \in Loops : up[o] = <<>> /\ down[o] = <<>>
                            /\ \A f \in Fds : \A o \in Loops : table[f] # <<"out", o>>

\* The call that made the connection is under way: it has set the names for
\* itself, and is told about its own key.
Live(o) ==
    /\ pc[o] \in {"send", "recv", "blocked"}
    /\ method_name = nested[o].kind
    /\ \A i \in DOMAIN up[o] : up[o][i].name = nested[o].kind /\ up[o][i].key = nested[o].key
    /\ down[o] \in Seq(SoundReplies(nested[o].kind, nested[o].key))

\* Its connection was reset, and nobody waits for a reply on it any more.
Broken(o) ==
    /\ up[o] # <<>> /\ \A f \in Fds : table[f] # <<"in", o>>
    /\ \A l \in Loops : pc[l] \notin {"recv", "blocked"}

\* The channel's one connection is open in the call that made it, or good for
\* nothing any more.
OneConnection == \A f \in Fds : \A o \in Loops : table[f] = <<"out", o>> =>
    f = m_clientfd /\ ~severed /\ (Live(o) \/ Broken(o))

SoundStore == /\ \A o \in Loops : up[o] \in Seq(SoundRequests)
              /\ \A k \in Keys : cache[k] \in {Absent} \cup Own(k)

Alone == OneCaller /\ Fresh /\ OneConnection /\ SoundStore

-----------------------------------------------------------------------------
(* What the callers are answered.                                          *)

Due(c) == {Local(asked[d]) : d \in {e \in DOMAIN asked : e = c \/ severed}}

Results ==
    /\ \A l \in Loops : pc[l] = "answer" => job[l].result = Local(job[l].request)
    /\ \A c \in Clients : /\ \A i \in DOMAIN down[c] :
                                down[c][i].type = "reply" => down[c][i].value \in Due(c)
                          /\ answer[c] \in {Absent} \cup Due(c)


-----------------------------------------------------------------------------
(* Requests, values and ends of connections.                               *)

LEMMA LeastNat ==
    ASSUME NEW S, S \subseteq Nat, S # {}
    PROVE  \E x \in S : \A y \in S : x <= y
<1>1. PICK x \in S : \A y \in S : ~(<<y, x>> \in OpToRel(<, Nat))
  BY WFMin, NatLessThanWellFounded
<1>2. \A y \in S : ~(y < x)
  BY <1>1 DEF OpToRel
<1> QED
  BY <1>2

LEMMA MaxExists ==
    ASSUME NEW n \in Nat, NEW S, S \subseteq 1 .. n, S # {}
    PROVE  \E i \in S : \A j \in S : j <= i
<1> DEFINE T == {n - i : i \in S}
<1>1. T \subseteq Nat
  OBVIOUS
<1>2. T # {}
  <2>1. PICK i \in S : TRUE
    OBVIOUS
  <2>2. n - i \in T
    BY <2>1
  <2> QED
    BY <2>2
<1>3. PICK x \in T : \A y \in T : x <= y
  <2> HIDE DEF T
  <2> QED
    BY <1>1, <1>2, LeastNat
<1>4. PICK i \in S : x = n - i
  OBVIOUS
<1>5. ASSUME NEW j \in S PROVE j <= i
  BY <1>3, <1>4
<1> QED
  BY <1>5

LEMMA LoopZero == 0 \in Loops /\ 0 \in Conns
BY ConstantsAssumption DEF Loops, Conns

LEMMA ValFact == {Absent, Empty, Text, Zero} \subseteq Vals
BY DEF Vals

LEMMA RequestFact ==
    ASSUME NEW r \in Reqs
    PROVE  /\ Key(r) \in Keys /\ Local(r) \in Vals
           /\ FirstCall(r) \in Kinds \ {"Set"}
           /\ \A v \in Vals : FromCache(r, v) \in Vals
<1>1. Key(r) \in Keys
  BY DEF Reqs, Keys
<1>2. Local(r) \in Vals
  BY DEF Vals
<1>3. FirstCall(r) \in Kinds \ {"Set"}
  BY DEF FirstCall, Kinds
<1>4. Zero \in Vals
  BY DEF Vals
<1>5. \A v \in Vals : FromCache(r, v) \in Vals
  <2> HIDE DEF Vals
  <2> QED
    BY <1>2, <1>4 DEF FromCache
<1> QED
  BY <1>1, <1>2, <1>3, <1>5

\* Requests with the same key have the same answer, and it is not empty.
LEMMA KeyDecides ==
    ASSUME NEW r, NEW s, Key(r) = Key(s)
    PROVE  Local(r) = Local(s)
<1>1. /\ r[1] = "Login" => s[1] = "Login" /\ r[2] = s[2]
      /\ r[1] = "SumtoN" => s[1] = "SumtoN" /\ r[2] = s[2]
      /\ r[1] \notin {"Login", "SumtoN"} => s[1] \notin {"Login", "SumtoN"} /\ r[2] = s[2]
  BY DEF Key
<1> QED
  BY <1>1 DEF Local

LEMMA LocalFact ==
    ASSUME NEW r
    PROVE  /\ Local(r) # Absent /\ Local(r) # Empty
           /\ FromCache(r, Local(r)) = Local(r)
<1>1. /\ r[1] = "SumtoN" => Local(r)[1] = "sum"
      /\ Local(r)[1] \in {"sum", "token", "profile of"}
  BY DEF Local
<1>2. Absent[1] = "absent" /\ Empty[1] = "empty"
  BY DEF Absent, Empty
<1>3. FromCache(r, Local(r)) = Local(r)
  BY <1>1 DEF FromCache
<1> QED
  BY <1>1, <1>2, <1>3

LEMMA AskedFact ==
    ASSUME OtherTypes, NEW c \in DOMAIN asked
    PROVE  c \in Clients /\ c \notin Loops /\ asked[c] \in Reqs
BY ConstantsAssumption DEF OtherTypes, Reqs

LEMMA EndFact ==
    ASSUME NetTypes, NEW fd
    PROVE  \/ EndOf(fd) = NoEnd /\ EndOf(fd)[1] = "closed"
           \/ fd \in Fds /\ EndOf(fd) = table[fd] /\ \E c \in Conns : EndOf(fd) = <<"in", c>>
           \/ fd \in Fds /\ EndOf(fd) = table[fd] /\ \E o \in Loops : EndOf(fd) = <<"out", o>>
<1>1. EndOf(fd) = NoEnd \/ (fd \in Fds /\ EndOf(fd) = table[fd] /\ table[fd] \in Ends)
  BY DEF EndOf, NetTypes
<1>2. NoEnd[1] = "closed"
  BY DEF NoEnd
<1> QED
  BY <1>1, <1>2 DEF Ends

LEMMA PutFact ==
    ASSUME NetTypes, NEW fd, NEW item, Put(fd, item)
    PROVE  \/ up' = up /\ down' = down
           \/ \E c \in Conns : /\ fd \in Fds /\ table[fd] = <<"in", c>> /\ up' = up
                               /\ down' = [down EXCEPT ![c] = Append(down[c], item)]
           \/ \E o \in Loops : /\ fd \in Fds /\ table[fd] = <<"out", o>> /\ down' = down
                               /\ up' = [up EXCEPT ![o] = Append(up[o], item)]
<1>1. CASE EndOf(fd)[1] = "closed"
  BY <1>1 DEF Put
<1>2. ASSUME fd \in Fds, EndOf(fd) = table[fd], NEW c \in Conns, EndOf(fd) = <<"in", c>>
      PROVE  /\ table[fd] = <<"in", c>> /\ up' = up
             /\ down' = [down EXCEPT ![c] = Append(down[c], item)]
  BY <1>2 DEF Put
<1>3. ASSUME fd \in Fds, EndOf(fd) = table[fd], NEW o \in Loops, EndOf(fd) = <<"out", o>>
      PROVE  /\ table[fd] = <<"out", o>> /\ down' = down
             /\ up' = [up EXCEPT ![o] = Append(up[o], item)]
  BY <1>3 DEF Put
<1> QED
  BY <1>1, <1>2, <1>3, EndFact

LEMMA PutTypes ==
    ASSUME NetTypes, NEW fd, NEW item, Put(fd, item), NEW S, NEW T, item \in S, item \in T,
           up \in [Conns -> Seq(S)], down \in [Conns -> Seq(T)]
    PROVE  up' \in [Conns -> Seq(S)] /\ down' \in [Conns -> Seq(T)]
<1>1. \A c \in Conns : Append(up[c], item) \in Seq(S) /\ Append(down[c], item) \in Seq(T)
  OBVIOUS
<1>2. Loops \subseteq Conns
  BY DEF Conns
<1>3. \A c \in Conns : /\ [up EXCEPT ![c] = Append(up[c], item)] \in [Conns -> Seq(S)]
                      /\ [down EXCEPT ![c] = Append(down[c], item)] \in [Conns -> Seq(T)]
  BY <1>1
<1>4. PICK c \in Conns : /\ up' = up \/ up' = [up EXCEPT ![c] = Append(up[c], item)]
                         /\ down' = down \/ down' = [down EXCEPT ![c] = Append(down[c], item)]
  BY <1>2, PutFact, LoopZero
<1> QED
  BY <1>3, <1>4

LEMMA ClosedTypes ==
    ASSUME NetTypes, NEW fd
    PROVE  Closed(fd) \in [Fds -> Ends]
BY DEF NetTypes, Closed, Ends

-----------------------------------------------------------------------------
(* Types.                                                                  *)

LEMMA NothingTypes ==
    /\ NoCall \in [kind : Kinds \cup {"none"}, key : Keys \cup {Absent}, value : Vals]
    /\ NoJob \in [conn : Conns, request : Reqs \cup {<<"none">>}, result : Vals]
    /\ NoCall.kind = "none"
BY ValFact, LoopZero DEF NoCall, NoJob

\* What a handler goes on with when its cache call returns.
LEMMA ReturnFact ==
    ASSUME Types, NEW l \in Loops, pc[l] \in {"connect", "send", "recv", "blocked"},
           NEW n \in Nat, NEW got, DOMAIN got = 1 .. n, \A i \in 1 .. n : got[i].value \in Vals,
           Return(l, got)
    PROVE  \/ /\ nested' = [nested EXCEPT ![l] =
                        [kind |-> "Set", key |-> nested[l].key, value |-> Local(job[l].request)]]
              /\ job' = job /\ pc' = [pc EXCEPT ![l] = "call"]
           \/ /\ nested' = nested /\ pc' = [pc EXCEPT ![l] = "answer"]
              /\ \E v \in Vals : job' = [job EXCEPT ![l].result = v]
<1> DEFINE filled == {i \in DOMAIN got : got[i].value # Empty}
           value == IF filled = {} THEN Empty
                    ELSE got[CHOOSE i \in filled : \A j \in filled : j <= i].value
           hit == /\ \E i \in DOMAIN got : got[i].name = nested[l].kind /\ got[i].exists
                  /\ job[l].request[1] = "GetUserProfile" => value # Empty
<1>1. value \in Vals
  <2>1. CASE filled = {}
    BY <2>1, ValFact
  <2>2. CASE filled # {}
    <3>1. \E i \in filled : \A j \in filled : j <= i
      BY <2>2, MaxExists
    <3>2. PICK m \in filled : m = CHOOSE i \in filled : \A j \in filled : j <= i
      BY <3>1
    <3> QED
      BY <2>2, <3>2
  <2> QED
    BY <2>1, <2>2
<1>2. job[l].request \in Reqs
  BY DEF Types, Busy
<1>3. FromCache(job[l].request, value) \in Vals /\ Local(job[l].request) \in Vals
  BY <1>1, <1>2, RequestFact
<1>4. \/ /\ nested' = [nested EXCEPT ![l] =
                        [kind |-> "Set", key |-> nested[l].key, value |-> Local(job[l].request)]]
         /\ job' = job /\ pc' = [pc EXCEPT ![l] = "call"]
      \/ /\ nested' = nested /\ pc' = [pc EXCEPT ![l] = "answer"]
         /\ job' = [job EXCEPT ![l].result = IF hit THEN FromCache(job[l].request, value)
                                            ELSE Local(job[l].request)]
  BY DEF Return, Goto
<1> HIDE DEF value, hit
<1> QED
  BY <1>3, <1>4

LEMMA ReturnKeepsTypes ==
    ASSUME Types, NEW l \in Loops, pc[l] \in {"connect", "send", "recv", "blocked"},
           NEW n \in Nat, NEW got, DOMAIN got = 1 .. n, \A i \in 1 .. n : got[i].value \in Vals,
           Return(l, got), on' \in [Loops -> Conns]
    PROVE  LoopTypes' /\ Busy'
<1> USE DEF Types
<1>1. job[l].request \in Reqs /\ nested[l].key \in Keys /\ Local(job[l].request) \in Vals
  BY RequestFact DEF Busy
<1>2. CASE /\ nested' = [nested EXCEPT ![l] =
                        [kind |-> "Set", key |-> nested[l].key, value |-> Local(job[l].request)]]
           /\ job' = job /\ pc' = [pc EXCEPT ![l] = "call"]
  BY <1>1, <1>2 DEF LoopTypes, Busy, Kinds
<1>3. ASSUME NEW v \in Vals, nested' = nested, pc' = [pc EXCEPT ![l] = "answer"],
             job' = [job EXCEPT ![l].result = v]
      PROVE  LoopTypes' /\ Busy'
  BY <1>1, <1>3 DEF LoopTypes, Busy
<1> QED
  BY <1>2, <1>3, ReturnFact

LEMMA NoReply == DOMAIN <<>> = 1 .. 0 /\ \A i \in 1 .. 0 : <<>>[i].value \in Vals
OBVIOUS

LEMMA InitTypes == Init => Types
<1> SUFFICES ASSUME Init PROVE Types
  OBVIOUS
<1>1. <<>> \in Seq(Ups) /\ <<>> \in Seq(Downs)
  OBVIOUS
<1>2. NetTypes
  BY <1>1, LoopZero DEF Init, NetTypes, Ends
<1>3. LoopTypes
  BY NothingTypes, LoopZero DEF Init, LoopTypes
<1>4. OtherTypes
  BY ValFact DEF Init, OtherTypes, Names
<1> QED
  BY <1>2, <1>3, <1>4 DEF Init, Types, Busy

LEMMA ExecuteTypes ==
    ASSUME OtherTypes, NEW q \in CacheRequests \cup Answers, Execute(q)
    PROVE  cache' \in [Keys -> Vals]
<1>1. Value(q) \in Vals \/ q \in Answers
  BY ValFact DEF Value, CacheRequests
<1>2. q \in Answers => cache' = cache
  BY DEF Execute, Answers
<1>3. cache' = [cache EXCEPT ![q.key] = Value(q)] \/ cache' = [cache EXCEPT ![q.key] = Absent]
      \/ cache' = cache
  BY DEF Execute
<1> QED
  BY <1>1, <1>2, <1>3, ValFact DEF OtherTypes

LEMMA ReplyTypes ==
    ASSUME OtherTypes, NEW q \in CacheRequests \cup Answers
    PROVE  Reply(q) \in Replies
<1>1. q.name \in Names
  BY DEF CacheRequests, Answers, Names
<1>2. q.name = "Get" => q.key \in Keys
  BY DEF CacheRequests, Answers
<1>3. ASSUME NEW v \in Vals, NEW b \in BOOLEAN, b => q.name \in {"Get", "Exists"}
      PROVE  [type |-> "reply", name |-> q.name, value |-> v, exists |-> b] \in Replies
  BY <1>1, <1>3 DEF Replies
<1>4. (CASE q.name = "Get" -> IF cache[q.key] = Absent THEN Empty ELSE cache[q.key]
         [] q.name = "Exists" -> Empty
         [] OTHER -> Text) \in Vals
  BY <1>2, ValFact DEF OtherTypes
<1> QED
  BY <1>3, <1>4 DEF Reply

\* A request is told from the rest by its field.
LEMMA NoCallField ==
    ASSUME NEW q \in CacheRequests \cup Answers
    PROVE  "call" \notin DOMAIN q
<1>1. CASE q \in CacheRequests
  <2>1. DOMAIN q = {"type", "name", "kind", "key", "value"}
    BY <1>1 DEF CacheRequests
  <2> QED
    BY <2>1
<1>2. CASE q \in Answers
  <2>1. DOMAIN q = {"type", "name", "value", "exists"}
    BY <1>2 DEF Answers
  <2> QED
    BY <2>1
<1> QED
  BY <1>1, <1>2

\* The two halves of OnMessage.
LEMMA OnMessageFact ==
    ASSUME NetTypes, NEW l \in Loops, NEW c \in Conns, OnMessage(l, c)
    PROVE  /\ pc[l] = "poll" /\ up[c] # <<>> /\ up' = [up EXCEPT ![c] = <<>>]
           /\ loopOf[c] = l /\ inFd[c] # -1
           /\ UNCHANGED <<table, inFd, loopOf, next, chan, on, outside, history>>
           /\ \/ /\ Head(up[c]) \in UserRequests
                 /\ job' = [job EXCEPT ![l] =
                              [conn |-> c, request |-> Head(up[c]).call, result |-> Absent]]
                 /\ nested' = [nested EXCEPT ![l] = [kind |-> FirstCall(Head(up[c]).call),
                                                     key |-> Key(Head(up[c]).call), value |-> Empty]]
                 /\ pc' = [pc EXCEPT ![l] = "call"] /\ UNCHANGED <<down, cache>>
              \/ /\ Head(up[c]) \in CacheRequests \cup Answers
                 /\ Execute(Head(up[c])) /\ UNCHANGED <<job, nested, pc>>
                 /\ down' = [down EXCEPT ![c] = Append(down[c], Reply(Head(up[c])))]
<1>1. up[c] # <<>> /\ up[c] \in Seq(Ups)
  BY DEF OnMessage, NetTypes
<1>2. Head(up[c]) \in UserRequests \cup CacheRequests \cup Answers
  BY <1>1 DEF Ups
<1>3. Head(up[c]) \in UserRequests => "call" \in DOMAIN Head(up[c])
  BY DEF UserRequests
<1> QED
  BY <1>2, <1>3, NoCallField, Zenon DEF OnMessage, Watched, Goto

LEMMA OnMessageKeepsTypes ==
    ASSUME Types, NEW l \in Loops, NEW c \in Conns, OnMessage(l, c)
    PROVE  Types'
<1>0. /\ up' = [up EXCEPT ![c] = <<>>] /\ pc[l] = "poll"
      /\ UNCHANGED <<table, inFd, loopOf, next, chan, on, outside>>
  BY OnMessageFact DEF Types
<1> USE DEF Types, NetTypes, LoopTypes, OtherTypes, outside, chan
<1>1. up' \in [Conns -> Seq(Ups)]
  BY <1>0
<1>2. CASE /\ Head(up[c]) \in UserRequests
           /\ job' = [job EXCEPT ![l] = [conn |-> c, request |-> Head(up[c]).call, result |-> Absent]]
           /\ nested' = [nested EXCEPT ![l] = [kind |-> FirstCall(Head(up[c]).call),
                                               key |-> Key(Head(up[c]).call), value |-> Empty]]
           /\ pc' = [pc EXCEPT ![l] = "call"] /\ UNCHANGED <<down, cache>>
  <2> DEFINE r == Head(up[c]).call
  <2>1. r \in Reqs
    BY <1>2 DEF UserRequests
  <2>2. Key(r) \in Keys /\ FirstCall(r) \in Kinds /\ Absent \in Vals /\ Empty \in Vals
    BY <2>1, RequestFact, ValFact
  <2> HIDE DEF r
  <2>3. /\ [kind |-> FirstCall(r), key |-> Key(r), value |-> Empty] \in
              [kind : Kinds \cup {"none"}, key : Keys \cup {Absent}, value : Vals]
        /\ [conn |-> c, request |-> r, result |-> Absent] \in
              [conn : Conns, request : Reqs \cup {<<"none">>}, result : Vals]
    BY <2>1, <2>2
  <2>4. /\ job' = [job EXCEPT ![l] = [conn |-> c, request |-> r, result |-> Absent]]
        /\ nested' = [nested EXCEPT ![l] = [kind |-> FirstCall(r), key |-> Key(r), value |-> Empty]]
    BY <1>2 DEF r
  <2>5. LoopTypes' /\ Busy'
    <3>1. pc' = [pc EXCEPT ![l] = "call"] /\ on' = on
      BY <1>0, <1>2
    <3>2. LoopTypes'
      BY <2>3, <2>4, <3>1
    <3>3. /\ job'[l].request = r /\ nested'[l].kind = FirstCall(r) /\ nested'[l].key = Key(r)
          /\ \A k \in Loops \ {l} : job'[k] = job[k] /\ nested'[k] = nested[k] /\ pc'[k] = pc[k]
      BY <2>4, <3>1
    <3>4. Busy'
      BY <2>1, <2>2, <3>3 DEF Busy
    <3> QED
      BY <3>2, <3>4
  <2> QED
    BY <1>0, <1>1, <1>2, <2>5
<1>3. CASE /\ Head(up[c]) \in CacheRequests \cup Answers
           /\ Execute(Head(up[c])) /\ UNCHANGED <<job, nested, pc>>
           /\ down' = [down EXCEPT ![c] = Append(down[c], Reply(Head(up[c])))]
  <2> DEFINE q == Head(up[c])
  <2>1. Reply(q) \in Downs /\ cache' \in [Keys -> Vals]
    BY <1>3, ReplyTypes, ExecuteTypes DEF Downs
  <2> HIDE DEF q
  <2>2. Append(down[c], Reply(q)) \in Seq(Downs)
    BY <2>1
  <2>3. down' \in [Conns -> Seq(Downs)]
    BY <1>3, <2>2 DEF q
  <2> QED
    BY <1>0, <1>1, <1>3, <2>1, <2>3 DEF Busy
<1>4. NetTypes
  OBVIOUS
<1> QED
  <2> HIDE DEF Types, NetTypes, LoopTypes, OtherTypes, outside, chan
  <2> QED
    BY <1>2, <1>3, <1>4, OnMessageFact

LEMMA AcceptTypes ==
    ASSUME Types, NEW c \in Conns, NEW fd \in Fds, NEW opened \in [Fds -> Ends], Accept(c, fd, opened)
    PROVE  /\ table' \in [Fds -> Ends] /\ inFd' \in [Conns -> Fds \cup {-1}]
           /\ loopOf' \in [Conns -> Loops] /\ next' \in Loops
<1>1. <<"in", c>> \in Ends
  BY DEF Ends
<1>2. next' \in Loops
  <2>1. PICK n \in 1 .. NumLoops : next' = (next + 1) % n
    BY ConstantsAssumption DEF Types, OtherTypes, Accept
  <2>2. next \in Nat /\ NumLoops \in Nat \ {0}
    BY ConstantsAssumption DEF Types, NetTypes, Loops
  <2> QED
    BY <2>1, <2>2 DEF Loops
<1> QED
  BY <1>1, <1>2 DEF Types, NetTypes, Accept

LEMMA ConnectFact ==
    ASSUME Types, NEW l \in Loops, Connect(l)
    PROVE  /\ pc[l] = "connect" /\ pc' = [pc EXCEPT ![l] = "send"]
           /\ UNCHANGED <<up, down, method_name, job, nested, on, cache, outside, history>>
           /\ m_clientfd' \in Fds
           /\ \E g \in Fds : /\ g # m_clientfd' /\ table[g] = NoEnd /\ table[m_clientfd'] = NoEnd
                             /\ table' = [[table EXCEPT ![m_clientfd'] = <<"out", l>>] EXCEPT ![g] = <<"in", l>>]
                             /\ Accept(l, g, [table EXCEPT ![m_clientfd'] = <<"out", l>>])
BY DEF Connect, Goto, FreeFds, Accept

LEMMA ConnectKeepsTypes ==
    ASSUME Types, NEW l \in Loops, Connect(l)
    PROVE  Types'
<1> USE DEF Types
<1>1. PICK g \in Fds : Accept(l, g, [table EXCEPT ![m_clientfd'] = <<"out", l>>])
  BY ConnectFact
<1>2. [table EXCEPT ![m_clientfd'] = <<"out", l>>] \in [Fds -> Ends]
  BY DEF NetTypes, Ends
<1>3. l \in Conns
  BY DEF Conns
<1>4. NetTypes'
  BY <1>1, <1>2, <1>3, ConnectFact, AcceptTypes DEF NetTypes
<1> QED
  BY <1>4, ConnectFact DEF LoopTypes, OtherTypes, Busy, outside

LEMMA UnacceptedFact ==
    ASSUME Types, NEW l \in Loops, ConnectUnaccepted(l)
    PROVE  /\ pc[l] = "connect" /\ pc' = [pc EXCEPT ![l] = "send"]
           /\ UNCHANGED <<net, method_name, job, nested, on, cache, outside, history>>
           /\ m_clientfd' \in Fds /\ table[m_clientfd'] = NoEnd
           /\ table' = [table EXCEPT ![m_clientfd'] = <<"out", l>>]
BY DEF ConnectUnaccepted, Goto

LEMMA UnacceptedKeepsTypes ==
    ASSUME Types, NEW l \in Loops, ConnectUnaccepted(l)
    PROVE  Types'
<1> USE DEF Types
<1>1. table' \in [Fds -> Ends]
  <2>1. <<"out", l>> \in Ends /\ table \in [Fds -> Ends]
    BY DEF NetTypes, Ends
  <2>2. table' = [table EXCEPT ![m_clientfd'] = <<"out", l>>]
    BY UnacceptedFact
  <2> HIDE DEF Types
  <2> QED
    BY <2>1, <2>2
<1>2. NetTypes'
  BY <1>1, UnacceptedFact DEF NetTypes, net
<1> QED
  BY <1>2, UnacceptedFact DEF LoopTypes, OtherTypes, Busy, outside

LEMMA AnswerFact ==
    ASSUME Types, NEW l \in Loops, Answer(l)
    PROVE  /\ pc[l] = "answer" /\ pc' = [pc EXCEPT ![l] = "poll"]
           /\ job' = [job EXCEPT ![l] = NoJob] /\ nested' = [nested EXCEPT ![l] = NoCall]
           /\ UNCHANGED <<table, inFd, loopOf, next, chan, on, cache, outside, history>>
           /\ \/ UNCHANGED <<up, down>>
              \/ \E item \in Answers : /\ item.value = job[l].result /\ item.type = "reply"
                                       /\ Put(inFd[job[l].conn], item)
<1> DEFINE item == [type |-> "reply", name |-> "none", value |-> job[l].result, exists |-> FALSE]
<1>1. item \in Answers /\ item.value = job[l].result /\ item.type = "reply"
  BY DEF Answers, Types, LoopTypes
<1>2. UNCHANGED <<up, down>> \/ Put(inFd[job[l].conn], item)
  BY DEF Answer
<1> HIDE DEF item
<1> QED
  BY <1>1, <1>2 DEF Answer, Goto

LEMMA AnswerKeepsTypes ==
    ASSUME Types, NEW l \in Loops, Answer(l)
    PROVE  Types'
<1>1. /\ pc' = [pc EXCEPT ![l] = "poll"]
      /\ job' = [job EXCEPT ![l] = NoJob] /\ nested' = [nested EXCEPT ![l] = NoCall]
      /\ UNCHANGED <<table, inFd, loopOf, next, chan, on, cache, outside>>
  BY AnswerFact
<1>2. up' \in [Conns -> Seq(Ups)] /\ down' \in [Conns -> Seq(Downs)]
  <2>1. up \in [Conns -> Seq(Ups)] /\ down \in [Conns -> Seq(Downs)] /\ NetTypes
    BY DEF Types, NetTypes
  <2>2. CASE UNCHANGED <<up, down>>
    BY <2>1, <2>2
  <2>3. ASSUME NEW item \in Answers, Put(inFd[job[l].conn], item)
        PROVE  up' \in [Conns -> Seq(Ups)] /\ down' \in [Conns -> Seq(Downs)]
    <3>1. item \in Ups /\ item \in Downs
      BY DEF Ups, Downs, Answers, Replies, Names
    <3> QED
      BY <2>1, <2>3, <3>1, PutTypes
  <2> QED
    BY <2>2, <2>3, AnswerFact
<1> USE DEF Types, LoopTypes, OtherTypes, outside, chan
<1>3. LoopTypes' /\ Busy'
  BY <1>1, NothingTypes DEF Busy
<1> QED
  BY <1>1, <1>2, <1>3 DEF NetTypes

LEMMA SendFact ==
    ASSUME Types, NEW l \in Loops, Send(l)
    PROVE  /\ pc[l] = "send" /\ pc' = [pc EXCEPT ![l] = "recv"] /\ ~Reset(EndOf(m_clientfd))
           /\ UNCHANGED <<table, inFd, loopOf, next, chan, job, nested, on, cache, outside, history>>
           /\ \E item \in CacheRequests : /\ Put(m_clientfd, item)
                 /\ item.name = method_name /\ item.kind = nested[l].kind
                 /\ item.key = nested[l].key /\ item.value = nested[l].value
<1> DEFINE item == [type |-> "request", name |-> method_name, kind |-> nested[l].kind,
                    key |-> nested[l].key, value |-> nested[l].value]
<1>1. pc[l] = "send" /\ Put(m_clientfd, item) /\ pc' = [pc EXCEPT ![l] = "recv"]
      /\ ~Reset(EndOf(m_clientfd))
      /\ UNCHANGED <<table, inFd, loopOf, next, chan, job, nested, on, cache, outside, history>>
  BY DEF Send, Goto
<1>2. item \in CacheRequests
  BY <1>1 DEF CacheRequests, Types, Busy, LoopTypes, OtherTypes
<1>3. item.name = method_name /\ item.kind = nested[l].kind
      /\ item.key = nested[l].key /\ item.value = nested[l].value
  OBVIOUS
<1> HIDE DEF item
<1> QED
  BY <1>1, <1>2, <1>3

LEMMA SendKeepsTypes ==
    ASSUME Types, NEW l \in Loops, Send(l)
    PROVE  Types'
<1> USE DEF Types, LoopTypes, OtherTypes, outside, chan
<1>1. PICK item \in CacheRequests : Put(m_clientfd, item)
  BY SendFact
<1>2. item \in Ups /\ item \in Downs
  BY DEF Ups, Downs
<1>3. up' \in [Conns -> Seq(Ups)] /\ down' \in [Conns -> Seq(Downs)]
  BY <1>1, <1>2, PutTypes DEF NetTypes
<1>4. NetTypes' /\ OtherTypes'
  BY <1>3, SendFact DEF NetTypes
<1>5. LoopTypes' /\ Busy'
  BY SendFact DEF Busy
<1> QED
  BY <1>4, <1>5

\* The calls that return without a reply.
Returned(l) == SendFail(l) \/ RecvFail(l) \/ RecvSteals(l) \/ ConnectFail(l)

LEMMA ReturnedFact ==
    ASSUME NEW l \in Loops, Returned(l)
    PROVE  /\ pc[l] \in {"connect", "send", "recv", "blocked"} /\ Return(l, <<>>)
           /\ pc[l] = "connect" => unconnected'
           /\ UNCHANGED <<down, inFd, loopOf, next, chan, on, cache, outside, overlap>>
           /\ unconnected => unconnected'
           /\ \/ /\ table' = table /\ severed' = severed
                 /\ pc[l] = "connect" \/ EndOf(m_clientfd)[1] # "out"
              \/ CloseClientfd
           /\ up' = up \/ (EndOf(m_clientfd)[1] = "in" /\ up' = [up EXCEPT ![EndOf(m_clientfd)[2]] = <<>>])
<1>1. NoEnd[1] # "out"
  BY DEF NoEnd
<1> QED
  BY <1>1 DEF Returned, SendFail, RecvFail, RecvSteals, ConnectFail, net, history

LEMMA ReturnedKeepsTypes ==
    ASSUME Types, NEW l \in Loops, Returned(l)
    PROVE  Types'
<1> USE DEF Types, OtherTypes, outside, chan
<1>1. on' \in [Loops -> Conns]
  BY ReturnedFact DEF LoopTypes
<1>2. LoopTypes' /\ Busy'
  BY <1>1, ReturnedFact, NoReply, ReturnKeepsTypes
<1>3. table' \in [Fds -> Ends]
  <2>1. table' = table \/ table' = Closed(m_clientfd)
    BY ReturnedFact DEF CloseClientfd
  <2> QED
    BY <2>1, ClosedTypes DEF NetTypes
<1>4. up' \in [Conns -> Seq(Ups)]
  <2>1. <<>> \in Seq(Ups)
    OBVIOUS
  <2> QED
    BY <2>1, ReturnedFact DEF NetTypes
<1> QED
  BY <1>2, <1>3, <1>4, ReturnedFact DEF NetTypes

LEMMA RecvReturnsCloses ==
    ASSUME NEW l \in Loops, RecvReturns(l)
    PROVE  CloseClientfd \/ (UNCHANGED <<table, severed>> /\ Reset(<<"out", on[l]>>))
BY DEF RecvReturns

LEMMA RecvReturnsFact ==
    ASSUME Types, NEW l \in Loops, RecvReturns(l)
    PROVE  /\ pc[l] = "blocked" /\ on' = [on EXCEPT ![l] = 0]
           /\ UNCHANGED <<up, inFd, loopOf, next, chan, cache, outside, overlap, unconnected>>
           /\ \E left \in Seq(Downs) : down' = [down EXCEPT ![on[l]] = left]
                 /\ \A i \in DOMAIN left : \E j \in DOMAIN down[on[l]] : left[i] = down[on[l]][j]
           /\ \E n \in Nat : \E got : /\ DOMAIN got = 1 .. n /\ Return(l, got)
                 /\ \A i \in 1 .. n : /\ got[i] \in Replies /\ got[i].value \in Vals
                                      /\ \E j \in DOMAIN down[on[l]] : got[i] = down[on[l]][j]
<1> DEFINE c == on[l]
<1>2. /\ c \in Conns /\ down[c] \in Seq(Downs) /\ pc[l] = "blocked"
      /\ on' = [on EXCEPT ![l] = 0]
      /\ UNCHANGED <<up, inFd, loopOf, next, chan, cache, outside, overlap, unconnected>>
  BY DEF RecvReturns, Types, LoopTypes, NetTypes
<1>1. PICK n \in 0 .. Len(down[c]) :
          /\ down' = [down EXCEPT ![c] = SubSeq(down[c], n + 1, Len(down[c]))]
          /\ Return(l, IF Parses(SubSeq(down[c], 1, n)) THEN SubSeq(down[c], 1, n) ELSE <<>>)
  <2>1. CASE /\ down[c] = <<>> /\ Return(l, <<>>) /\ down' = down
    <3>1. SubSeq(down[c], 1, 0) = <<>> /\ SubSeq(down[c], 0 + 1, Len(down[c])) = <<>>
      BY <2>1
    <3>2. down' = [down EXCEPT ![c] = SubSeq(down[c], 0 + 1, Len(down[c]))]
      BY <2>1, <3>1 DEF Types, NetTypes
    <3>3. 0 \in 0 .. Len(down[c])
      BY <1>2
    <3>4. Return(l, IF Parses(SubSeq(down[c], 1, 0)) THEN SubSeq(down[c], 1, 0) ELSE <<>>)
      BY <2>1, <3>1
    <3> QED
      BY <3>2, <3>3, <3>4
  <2>2. CASE \E n \in (IF down[c] = <<>> THEN {0} ELSE 1 .. Len(down[c])) :
                /\ down' = [down EXCEPT ![c] = SubSeq(down[c], n + 1, Len(down[c]))]
                /\ Return(l, IF Parses(SubSeq(down[c], 1, n)) THEN SubSeq(down[c], 1, n) ELSE <<>>)
    <3>1. (IF down[c] = <<>> THEN {0} ELSE 1 .. Len(down[c])) \subseteq 0 .. Len(down[c])
      BY <1>2
    <3> QED
      BY <2>2, <3>1
  <2> QED
    BY <2>1, <2>2 DEF RecvReturns
<1>3. n \in 0 .. Len(down[c])
  BY <1>1, <1>2
<1> DEFINE left == SubSeq(down[c], n + 1, Len(down[c]))
           got == SubSeq(down[c], 1, n)
<1>4. left \in Seq(Downs) /\ \A i \in DOMAIN left : \E j \in DOMAIN down[c] : left[i] = down[c][j]
  BY <1>2, <1>3
<1>5. DOMAIN got = 1 .. n /\ \A i \in 1 .. n : got[i] \in Downs /\ i \in DOMAIN down[c] /\ got[i] = down[c][i]
  BY <1>2, <1>3
<1>6. \E k \in Nat : \E g : /\ DOMAIN g = 1 .. k /\ Return(l, g)
         /\ \A i \in 1 .. k : /\ g[i] \in Replies /\ g[i].value \in Vals
                              /\ \E j \in DOMAIN down[c] : g[i] = down[c][j]
  <2>1. CASE Parses(got)
    <3>1. ASSUME NEW i \in 1 .. n PROVE got[i] \in Replies /\ got[i].value \in Vals
      <4>1. got[i] \in Downs /\ got[i].type = "reply"
        BY <1>5, <2>1 DEF Parses
      <4> HIDE DEF got
      <4> QED
        BY <4>1 DEF Downs, CacheRequests, Replies
    <3>2. Return(l, got) /\ n \in Nat
      BY <1>1, <1>3, <2>1
    <3> HIDE DEF got, c
    <3> QED
      BY <1>5, <3>1, <3>2
  <2>2. CASE ~Parses(got)
    <3>1. Return(l, <<>>)
      BY <1>1, <2>2
    <3>2. DOMAIN <<>> = 1 .. 0 /\ 0 \in Nat
      OBVIOUS
    <3>3. \A i \in 1 .. 0 : FALSE
      OBVIOUS
    <3> QED
      BY <3>1, <3>2, <3>3
  <2> QED
    BY <2>1, <2>2
<1> QED
  BY <1>1, <1>2, <1>4, <1>6

LEMMA RecvReturnsKeepsTypes ==
    ASSUME Types, NEW l \in Loops, RecvReturns(l)
    PROVE  Types'
<1> USE DEF Types, OtherTypes, outside, chan
<1>1. on' \in [Loops -> Conns]
  BY RecvReturnsFact, LoopZero DEF LoopTypes
<1>2. LoopTypes' /\ Busy'
  <2>1a. PICK n \in Nat : \E got : /\ DOMAIN got = 1 .. n /\ Return(l, got)
                                   /\ \A i \in 1 .. n : got[i].value \in Vals
    BY RecvReturnsFact
  <2>1. PICK got : /\ DOMAIN got = 1 .. n /\ Return(l, got)
                   /\ \A i \in 1 .. n : got[i].value \in Vals
    BY <2>1a
  <2>2. pc[l] \in {"connect", "send", "recv", "blocked"}
    BY RecvReturnsFact
  <2> QED
    BY <1>1, <2>1, <2>2, ReturnKeepsTypes
<1>3. table' \in [Fds -> Ends]
  <2>1. table' = table \/ table' = Closed(m_clientfd)
    BY RecvReturnsCloses DEF CloseClientfd
  <2> QED
    BY <2>1, ClosedTypes DEF NetTypes
<1>4. down' \in [Conns -> Seq(Downs)]
  BY RecvReturnsFact DEF NetTypes
<1> QED
  BY <1>2, <1>3, <1>4, RecvReturnsFact DEF NetTypes

LEMMA AskFact ==
    ASSUME Types, NEW c \in Clients, Ask(c)
    PROVE  /\ c \in DOMAIN asked /\ c \in Conns /\ client[c] = "idle" /\ asked[c] \in Reqs
           /\ up' = [up EXCEPT ![c] = <<[type |-> "request", call |-> asked[c]]>>]
           /\ client' = [client EXCEPT ![c] = "waiting"]
           /\ UNCHANGED <<down, chan, pc, job, nested, on, cache, asked, answer, history>>
           /\ \E fd \in Fds : /\ table[fd] = NoEnd /\ Accept(c, fd, table)
                              /\ table' = [table EXCEPT ![fd] = <<"in", c>>]
BY AskedFact DEF Ask, FreeFds, Accept, Conns, Types

LEMMA AskKeepsTypes ==
    ASSUME Types, NEW c \in Clients, Ask(c)
    PROVE  Types'
<1> USE DEF Types, OtherTypes, chan
<1>1. [type |-> "request", call |-> asked[c]] \in Ups
  BY AskFact DEF Ups, UserRequests
<1>2. <<[type |-> "request", call |-> asked[c]]>> \in Seq(Ups)
  BY <1>1
<1>3. up' \in [Conns -> Seq(Ups)]
  <2>1. up \in [Conns -> Seq(Ups)]
    BY DEF NetTypes
  <2>2. up' = [up EXCEPT ![c] = <<[type |-> "request", call |-> asked[c]]>>]
    BY AskFact
  <2> QED
    BY <1>2, <2>1, <2>2
<1>4. NetTypes'
  <2>1. PICK fd \in Fds : Accept(c, fd, table)
    BY AskFact
  <2>2. c \in Conns /\ table \in [Fds -> Ends] /\ down' = down
    BY AskFact DEF NetTypes
  <2> QED
    BY <1>3, <2>1, <2>2, AcceptTypes DEF NetTypes
<1>5. LoopTypes' /\ Busy'
  BY AskFact DEF LoopTypes, Busy
<1>6. OtherTypes'
  <2>1. client' \in [Clients -> {"idle", "waiting", "done", "failed"}]
    BY AskFact
  <2> QED
    BY <2>1, AskFact
<1> QED
  BY <1>4, <1>5, <1>6

LEMMA ReceiveFact ==
    ASSUME Types, NEW c \in Clients, Receive(c)
    PROVE  /\ c \in Conns /\ client[c] = "waiting" /\ down' = [down EXCEPT ![c] = <<>>]
           /\ \E w \in {"done", "failed"} : client' = [client EXCEPT ![c] = w]
           /\ UNCHANGED <<table, up, inFd, loopOf, next, chan, pc, job, nested, on, cache, asked, history>>
           /\ \/ answer' = answer
              \/ \E i \in DOMAIN down[c] : /\ down[c][i].type = "reply" /\ down[c][i] \in Replies
                                           /\ down[c][i].value \in Vals
                                           /\ answer' = [answer EXCEPT ![c] = down[c][i].value]
<1>1. c \in Conns /\ down[c] \in Seq(Downs)
  BY DEF Conns, Types, NetTypes
<1>2. PICK n \in (IF down[c] = <<>> THEN {0} ELSE 1 .. Len(down[c])) :
          LET got == SubSeq(down[c], 1, n)
          IN  /\ client' = [client EXCEPT ![c] = IF Parses(got) THEN "done" ELSE "failed"]
              /\ answer' = IF Parses(got) /\ n > 0
                           THEN [answer EXCEPT ![c] = got[n].value] ELSE answer
              /\ down' = [down EXCEPT ![c] = <<>>]
  BY DEF Receive
<1>3. n \in 0 .. Len(down[c])
  BY <1>1, <1>2
<1> DEFINE got == SubSeq(down[c], 1, n)
<1>4. CASE Parses(got) /\ n > 0
  <2>1. n \in DOMAIN down[c] /\ n \in DOMAIN got /\ got[n] = down[c][n] /\ down[c][n] \in Downs
    BY <1>1, <1>3, <1>4
  <2>2. down[c][n].type = "reply"
    BY <1>4, <2>1 DEF Parses
  <2>3. down[c][n] \in Replies /\ down[c][n].value \in Vals
    BY <2>1, <2>2 DEF Downs, CacheRequests, Replies
  <2>4. answer' = [answer EXCEPT ![c] = down[c][n].value]
    BY <1>2, <1>4, <2>1
  <2>5. \E w \in {"done", "failed"} : client' = [client EXCEPT ![c] = w]
    BY <1>2
  <2> QED
    BY <1>1, <1>2, <2>1, <2>2, <2>3, <2>4, <2>5 DEF Receive
<1>5. CASE ~(Parses(got) /\ n > 0)
  <2>1. answer' = answer
    BY <1>2, <1>5
  <2>2. \E w \in {"done", "failed"} : client' = [client EXCEPT ![c] = w]
    BY <1>2
  <2> QED
    BY <1>1, <1>2, <2>1, <2>2 DEF Receive
<1> QED
  BY <1>4, <1>5

LEMMA ReceiveKeepsTypes ==
    ASSUME Types, NEW c \in Clients, Receive(c)
    PROVE  Types'
<1>1. down' \in [Conns -> Seq(Downs)]
  <2>1. <<>> \in Seq(Downs)
    OBVIOUS
  <2> QED
    BY <2>1, ReceiveFact DEF Types, NetTypes
<1>2. client' \in [Clients -> {"idle", "waiting", "done", "failed"}] /\ answer' \in [Clients -> Vals]
  BY ReceiveFact DEF Types, OtherTypes
<1>3. LoopTypes' /\ Busy'
  BY ReceiveFact DEF Types, LoopTypes, Busy
<1> QED
  BY <1>1, <1>2, <1>3, ReceiveFact DEF Types, NetTypes, OtherTypes, chan

LEMMA NextTypes ==
    ASSUME Types, [Next]_vars
    PROVE  Types'
<1> USE DEF Types, net, chan, outside, history
<1>1. CASE UNCHANGED vars
  BY <1>1 DEF vars, NetTypes, LoopTypes, OtherTypes, Busy
<1>2. ASSUME NEW l \in Loops, NEW c \in Conns, HandleClose(l, c) PROVE Types'
  <2>1. table' \in [Fds -> Ends]
    BY <1>2, ClosedTypes DEF HandleClose
  <2> QED
    BY <1>2, <2>1, LoopZero DEF HandleClose, NetTypes, LoopTypes, OtherTypes, Busy
<1>3. ASSUME NEW l \in Loops, Enter(l) PROVE Types'
  <2>1. pc[l] = "call" /\ pc' = [pc EXCEPT ![l] = IF m_clientfd = -1 THEN "names" ELSE "send"]
        /\ UNCHANGED <<table, net, chan, job, nested, on, cache, outside>>
    BY <1>3 DEF Enter, Goto
  <2> QED
    BY <2>1 DEF NetTypes, LoopTypes, OtherTypes, Busy
<1>4. ASSUME NEW l \in Loops, SetNames(l) PROVE Types'
  <2>1. /\ pc[l] = "names" /\ pc' = [pc EXCEPT ![l] = "connect"] /\ method_name' = nested[l].kind
        /\ UNCHANGED <<table, net, m_clientfd, job, nested, on, cache, outside>>
    BY <1>4 DEF SetNames, Goto
  <2> QED
    BY <2>1 DEF NetTypes, LoopTypes, OtherTypes, Busy, Names
<1>5. ASSUME NEW l \in Loops, NotFound(l) PROVE Types'
  <2>1. /\ pc' = [k \in Loops |-> "dead"] /\ table' = [f \in Fds |-> NoEnd]
        /\ UNCHANGED <<net, chan, job, nested, on, cache, outside>>
    BY <1>5 DEF NotFound
  <2> QED
    BY <2>1 DEF NetTypes, LoopTypes, OtherTypes, Busy, Ends
<1>6. ASSUME NEW l \in Loops, RecvBlocks(l) PROVE Types'
  <2>1. /\ pc[l] = "recv" /\ pc' = [pc EXCEPT ![l] = "blocked"] /\ EndOf(m_clientfd)[1] = "out"
        /\ on' = [on EXCEPT ![l] = EndOf(m_clientfd)[2]]
        /\ UNCHANGED <<table, net, chan, job, nested, cache, outside>>
    BY <1>6 DEF RecvBlocks, Goto
  <2>2. EndOf(m_clientfd)[2] \in Conns
    BY <2>1, EndFact DEF Conns
  <2> QED
    BY <2>1, <2>2 DEF NetTypes, LoopTypes, OtherTypes, Busy
<1> QED
  BY <1>1, <1>2, <1>3, <1>4, <1>5, <1>6, AskKeepsTypes, ReceiveKeepsTypes, OnMessageKeepsTypes,
     AnswerKeepsTypes, ConnectKeepsTypes, UnacceptedKeepsTypes, SendKeepsTypes, ReturnedKeepsTypes,
     RecvReturnsKeepsTypes
     DEF Next, Loop, CallMethod, Returned

-----------------------------------------------------------------------------
(* What is handled is what was asked.                                      *)

\* What a handler keeps to, as long as its connection is not touched.
LEMMA HandlingStays ==
    ASSUME Types, NEW l \in Loops, Handling(l), NEW c, c = job[l].conn, asked' = asked,
           job'[l].conn = c, job'[l].request = job[l].request,
           \/ nested'[l] = nested[l]
           \/ nested'[l] = [kind |-> "Set", key |-> nested[l].key, value |-> Local(job[l].request)],
           client'[c] # "idle", loopOf'[c] = loopOf[c], severed => severed',
           ~severed' => inFd'[c] = inFd[c] /\ (inFd[c] \in Fds /\ table[inFd[c]] = <<"in", c>> =>
                                                  table'[inFd[c]] = <<"in", c>>)
    PROVE  Handling(l)'
BY DEF Handling

\* The channel closes no accepted connection unless that is remembered.
LEMMA CloseFact ==
    ASSUME Types, CloseClientfd
    PROVE  /\ severed => severed'
           /\ ~severed' => \A f \in Fds : \A c \in Conns :
                              table[f] = <<"in", c>> => table'[f] = <<"in", c>>
<1>1. severed' = (severed \/ EndOf(m_clientfd)[1] = "in") /\ table' = Closed(m_clientfd)
  BY DEF CloseClientfd
<1>2. ASSUME ~severed', NEW f \in Fds, NEW c \in Conns, table[f] = <<"in", c>>
      PROVE  table'[f] = <<"in", c>>
  <2>1. f # m_clientfd
    <3>1. SUFFICES ASSUME f = m_clientfd PROVE FALSE
      OBVIOUS
    <3>2. EndOf(m_clientfd) = <<"in", c>>
      BY <1>2, <3>1 DEF EndOf
    <3>3. EndOf(m_clientfd)[1] = "in"
      BY <3>2
    <3> QED
      BY <1>1, <1>2, <3>3
  <2> QED
    BY <1>1, <1>2, <2>1 DEF Closed
<1> QED
  BY <1>1, <1>2

LEMMA ReturnHandled ==
    ASSUME Types, Handled, NEW l \in Loops, pc[l] \in {"connect", "send", "recv", "blocked"},
           NEW n \in Nat, NEW got, DOMAIN got = 1 .. n, \A i \in 1 .. n : got[i].value \in Vals,
           Return(l, got), UNCHANGED <<asked, client, loopOf, inFd>>,
           (table' = table /\ severed' = severed) \/ CloseClientfd
    PROVE  \A k \in Loops : pc'[k] \notin {"poll", "dead"} => Handling(k)'
<1> SUFFICES ASSUME NEW k \in Loops, pc'[k] \notin {"poll", "dead"} PROVE Handling(k)'
  OBVIOUS
<1>1. /\ job'[k].conn = job[k].conn /\ job'[k].request = job[k].request
      /\ \/ nested'[k] = nested[k]
         \/ nested'[k] = [kind |-> "Set", key |-> nested[k].key, value |-> Local(job[k].request)]
      /\ pc[k] \notin {"poll", "dead"}
  <2>1. CASE /\ nested' = [nested EXCEPT ![l] =
                        [kind |-> "Set", key |-> nested[l].key, value |-> Local(job[l].request)]]
             /\ job' = job /\ pc' = [pc EXCEPT ![l] = "call"]
    BY <2>1 DEF Types, LoopTypes
  <2>2. ASSUME nested' = nested, pc' = [pc EXCEPT ![l] = "answer"],
               NEW v \in Vals, job' = [job EXCEPT ![l].result = v]
        PROVE  job'[k].conn = job[k].conn /\ job'[k].request = job[k].request /\ nested'[k] = nested[k]
               /\ pc[k] \notin {"poll", "dead"}
    BY <2>2 DEF Types, LoopTypes
  <2> QED
    BY <2>1, <2>2, ReturnFact
<1>2. Handling(k)
  BY <1>1 DEF Handled
<1> DEFINE c == job[k].conn
<1>3. client[c] # "idle" /\ c \in Conns
  BY <1>2, AskedFact DEF Handling, Types, Conns
<1>4. /\ severed => severed'
      /\ ~severed' => (inFd[c] \in Fds /\ table[inFd[c]] = <<"in", c>> => table'[inFd[c]] = <<"in", c>>)
  BY <1>3, CloseFact
<1> QED
  BY <1>1, <1>2, <1>3, <1>4, HandlingStays

\* Callers send user requests, and nobody else does.
LEMMA WhoSends ==
    ASSUME Types, Handled, NEW c \in Conns, up[c] # <<>>
    PROVE  /\ Head(up[c]) \in UserRequests => c \in Clients /\ c \notin Loops
           /\ Head(up[c]) \in CacheRequests \cup Answers => c \in Loops /\ c \notin Clients
<1>1. c \in Clients => "call" \in DOMAIN Head(up[c])
  <2> SUFFICES ASSUME c \in Clients PROVE "call" \in DOMAIN Head(up[c])
    OBVIOUS
  <2>1. up[c] = <<[type |-> "request", call |-> asked[c]]>>
    BY DEF Handled, Sent
  <2>2. Head(up[c]) = [type |-> "request", call |-> asked[c]]
    BY <2>1
  <2> QED
    BY <2>2
<1>2. c \in Loops => Head(up[c]) \in CacheRequests \cup Answers
  <2> SUFFICES ASSUME c \in Loops PROVE Head(up[c]) \in CacheRequests \cup Answers
    OBVIOUS
  <2>1. up[c] \in Seq(CacheRequests \cup Answers)
    BY DEF Handled, Sent
  <2> QED
    BY <2>1
<1>3. Head(up[c]) \in UserRequests => "call" \in DOMAIN Head(up[c])
  BY DEF UserRequests
<1>4. c \in Clients \/ c \in Loops
  BY DEF Conns
<1> QED
  BY <1>1, <1>2, <1>3, <1>4, NoCallField, ConstantsAssumption

LEMMA InitHandled == Init => Handled
<1>1. <<>> \in Seq(CacheRequests \cup Answers)
  OBVIOUS
<1> QED
  BY <1>1 DEF Init, Handled, Sent, Conns

LEMMA NextHandled ==
    ASSUME Types, Handled, [Next]_vars
    PROVE  Handled'
<1> DEFINE Hands == \A l \in Loops : pc[l] \notin {"poll", "dead"} => Handling(l)
<1>1. CASE UNCHANGED vars
  <2>1. UNCHANGED <<up, client, asked, pc, job, nested, loopOf, severed, inFd, table>>
    BY <1>1 DEF vars, net, outside, history
  <2> QED
    BY <2>1 DEF Handled, Sent, Handling
<1>2. ASSUME NEW c \in Clients, Ask(c) PROVE Handled'
  <2> USE AskFact, <1>2
  <2>1. Sent'
    <3>1. ASSUME NEW d \in Clients, up'[d] # <<>>
          PROVE  /\ up'[d] = <<[type |-> "request", call |-> asked[d]]>>
                 /\ d \in DOMAIN asked /\ client'[d] # "idle"
      <4>1. CASE d = c
        BY <4>1 DEF Types, NetTypes, OtherTypes
      <4>2. CASE d # c
        <5>1. up'[d] = up[d] /\ client'[d] = client[d]
          BY <4>2 DEF Types, NetTypes, OtherTypes, Conns
        <5> QED
          BY <3>1, <5>1 DEF Handled, Sent
      <4> QED
        BY <4>1, <4>2
    <3>2. ASSUME NEW o \in Loops PROVE up'[o] = up[o]
      <4>1. o # c /\ o \in Conns /\ c \in Conns
        BY ConstantsAssumption DEF Conns
      <4>2. up' = [up EXCEPT ![c] = <<[type |-> "request", call |-> asked[c]]>>] /\ up \in [Conns -> Seq(Ups)]
        BY DEF Types, NetTypes
      <4> HIDE AskFact, <1>2
      <4> QED
        BY <4>1, <4>2
    <3> QED
      BY <3>1, <3>2 DEF Handled, Sent
  <2>2. ASSUME NEW l \in Loops, pc'[l] \notin {"poll", "dead"} PROVE Handling(l)'
    <3>1. Handling(l) /\ UNCHANGED <<pc, job, nested, asked, severed>>
      BY <2>2 DEF Handled, history
    <3> DEFINE d == job[l].conn
    <3>2. client[d] # "idle" /\ d \in Clients /\ d \in Conns /\ d # c
      BY <3>1, AskedFact DEF Handling, Types, Conns
    <3>3. client'[d] = client[d]
      BY <3>2 DEF Types, OtherTypes
    <3>4. PICK fd \in Fds : table[fd] = NoEnd /\ Accept(c, fd, table) /\ table' = [table EXCEPT ![fd] = <<"in", c>>]
      OBVIOUS
    <3>5. inFd'[d] = inFd[d] /\ loopOf'[d] = loopOf[d]
      BY <3>2, <3>4 DEF Accept, Types, NetTypes
    <3>6. inFd[d] \in Fds /\ table[inFd[d]] = <<"in", d>> => table'[inFd[d]] = <<"in", d>>
      BY <3>4 DEF NoEnd, Types, NetTypes
    <3> QED
      BY <3>1, <3>2, <3>3, <3>5, <3>6, HandlingStays
  <2> QED
    BY <2>1, <2>2 DEF Handled
<1>3. ASSUME NEW c \in Clients, Receive(c) PROVE Handled'
  <2>1. UNCHANGED <<table, up, inFd, loopOf, pc, job, nested, asked, severed>>
        /\ \A d \in Clients : client[d] # "idle" => client'[d] # "idle"
    BY <1>3, ReceiveFact DEF history, Types, OtherTypes
  <2>2. Sent'
    BY <2>1 DEF Handled, Sent
  <2>3. ASSUME NEW l \in Loops, pc'[l] \notin {"poll", "dead"} PROVE Handling(l)'
    <3>1. Handling(l)
      BY <2>1, <2>3 DEF Handled
    <3>2. job[l].conn \in Clients
      BY <3>1, AskedFact DEF Handling, Types
    <3> QED
      BY <2>1, <3>1, <3>2 DEF Handling
  <2> QED
    BY <2>2, <2>3 DEF Handled
<1>4. ASSUME NEW l \in Loops, NEW c \in Conns, OnMessage(l, c) PROVE Handled'
  <2>1. /\ pc[l] = "poll" /\ up[c] # <<>> /\ up' = [up EXCEPT ![c] = <<>>]
        /\ UNCHANGED <<table, inFd, loopOf, client, asked, severed>>
        /\ loopOf[c] = l /\ inFd[c] # -1
    BY <1>4, OnMessageFact DEF Types, outside, history
  <2>2. Sent'
    <3>1. <<>> \in Seq(CacheRequests \cup Answers)
      OBVIOUS
    <3> QED
      BY <2>1, <3>1 DEF Handled, Sent, Types, NetTypes
  <2>3. CASE UNCHANGED <<job, nested, pc>>
    BY <2>1, <2>2, <2>3 DEF Handled, Handling
  <2>4. CASE /\ Head(up[c]) \in UserRequests
             /\ job' = [job EXCEPT ![l] =
                          [conn |-> c, request |-> Head(up[c]).call, result |-> Absent]]
             /\ nested' = [nested EXCEPT ![l] = [kind |-> FirstCall(Head(up[c]).call),
                                                 key |-> Key(Head(up[c]).call), value |-> Empty]]
             /\ pc' = [pc EXCEPT ![l] = "call"]
    <3>1. c \in Clients
      BY <2>1, <2>4, WhoSends
    <3>2. Head(up[c]).call = asked[c] /\ c \in DOMAIN asked /\ client[c] # "idle"
      <4>1. up[c] = <<[type |-> "request", call |-> asked[c]]>> /\ c \in DOMAIN asked /\ client[c] # "idle"
        BY <2>1, <3>1 DEF Handled, Sent
      <4>2. Head(up[c]) = [type |-> "request", call |-> asked[c]]
        BY <4>1
      <4> QED
        BY <4>1, <4>2
    <3>3. inFd[c] \in Fds /\ table[inFd[c]] = <<"in", c>>
      BY <1>4, <2>1 DEF OnMessage, Watched, Types, NetTypes
    <3>4. /\ job'[l].conn = c /\ job'[l].request = asked[c]
          /\ nested'[l].kind = FirstCall(asked[c]) /\ nested'[l].key = Key(asked[c])
          /\ \A k \in Loops \ {l} : job'[k] = job[k] /\ nested'[k] = nested[k] /\ pc'[k] = pc[k]
      BY <2>4, <3>2 DEF Types, LoopTypes
    <3>5. FirstCall(asked[c]) # "Set"
      BY DEF FirstCall
    <3>6. Handling(l)'
      BY <2>1, <3>2, <3>3, <3>4, <3>5 DEF Handling
    <3>7. ASSUME NEW k \in Loops \ {l}, pc'[k] \notin {"poll", "dead"} PROVE Handling(k)'
      <4>1. Handling(k) /\ job'[k] = job[k] /\ nested'[k] = nested[k]
        BY <3>4, <3>7 DEF Handled
      <4> QED
        BY <2>1, <4>1 DEF Handling
    <3> QED
      BY <2>2, <3>6, <3>7 DEF Handled
  <2> QED
    BY <1>4, <2>3, <2>4, OnMessageFact DEF Types
<1>5. ASSUME NEW l \in Loops, NEW c \in Conns, HandleClose(l, c) PROVE Handled'
  <2>1. /\ pc[l] = "poll" /\ table' = Closed(inFd[c]) /\ inFd' = [inFd EXCEPT ![c] = -1]
        /\ loopOf' = [loopOf EXCEPT ![c] = 0] /\ UNCHANGED <<up, pc, job, nested, client, asked, severed>>
        /\ loopOf[c] = l /\ table[inFd[c]] = <<"in", c>>
    BY <1>5 DEF HandleClose, Watched, outside, history
  <2>2. Sent'
    BY <2>1 DEF Handled, Sent
  <2>3. ASSUME NEW k \in Loops, pc'[k] \notin {"poll", "dead"} PROVE Handling(k)'
    <3>1. Handling(k) /\ k # l
      BY <2>1, <2>3 DEF Handled
    <3> DEFINE d == job[k].conn
    <3>2. d \in Conns /\ d # c /\ client'[d] # "idle"
      BY <2>1, <3>1, AskedFact DEF Handling, Types, Conns
    <3>3. inFd'[d] = inFd[d] /\ loopOf'[d] = loopOf[d]
      BY <2>1, <3>2 DEF Types, NetTypes
    <3>4. inFd[d] \in Fds /\ table[inFd[d]] = <<"in", d>> => table'[inFd[d]] = <<"in", d>>
      BY <2>1, <3>2 DEF Closed
    <3> QED
      BY <2>1, <3>1, <3>2, <3>3, <3>4, HandlingStays
  <2> QED
    BY <2>2, <2>3 DEF Handled
<1>6. ASSUME NEW l \in Loops, Answer(l) PROVE Handled'
  <2>1. /\ pc' = [pc EXCEPT ![l] = "poll"]
        /\ job' = [job EXCEPT ![l] = NoJob] /\ nested' = [nested EXCEPT ![l] = NoCall]
        /\ UNCHANGED <<table, inFd, loopOf, client, asked, severed>>
    BY <1>6, AnswerFact DEF outside, history
  <2>2. Sent'
    <3>1. CASE up' = up
      BY <2>1, <3>1 DEF Handled, Sent
    <3>2. ASSUME NEW item \in Answers, NEW o \in Loops, up' = [up EXCEPT ![o] = Append(up[o], item)]
          PROVE  Sent'
      <4>1. Append(up[o], item) \in Seq(CacheRequests \cup Answers)
        BY DEF Handled, Sent
      <4>2. \A c \in Clients : c # o
        BY ConstantsAssumption
      <4> QED
        BY <2>1, <3>2, <4>1, <4>2 DEF Handled, Sent, Types, NetTypes, Conns
    <3>3. ASSUME NEW item \in Answers, Put(inFd[job[l].conn], item) PROVE Sent'
      BY <3>1, <3>2, <3>3, PutFact DEF Types
    <3> QED
      BY <1>6, <3>1, <3>3, AnswerFact
  <2>3. ASSUME NEW k \in Loops, pc'[k] \notin {"poll", "dead"} PROVE Handling(k)'
    <3>1. k # l /\ Handling(k) /\ job'[k] = job[k] /\ nested'[k] = nested[k]
      BY <2>1, <2>3 DEF Handled, Types, LoopTypes
    <3> QED
      BY <2>1, <3>1 DEF Handling
  <2> QED
    BY <2>2, <2>3 DEF Handled
<1>7. ASSUME NEW l \in Loops, Connect(l) PROVE Handled'
  <2>1. PICK g \in Fds : /\ table[g] = NoEnd /\ table[m_clientfd'] = NoEnd /\ m_clientfd' \in Fds
                         /\ table' = [[table EXCEPT ![m_clientfd'] = <<"out", l>>] EXCEPT ![g] = <<"in", l>>]
                         /\ Accept(l, g, [table EXCEPT ![m_clientfd'] = <<"out", l>>])
    BY <1>7, ConnectFact
  <2>2. /\ pc[l] = "connect" /\ pc' = [pc EXCEPT ![l] = "send"]
        /\ UNCHANGED <<up, job, nested, client, asked, severed>>
    BY <1>7, ConnectFact DEF outside, history
  <2>3. Sent'
    BY <2>2 DEF Handled, Sent
  <2>4. ASSUME NEW k \in Loops, pc'[k] \notin {"poll", "dead"} PROVE Handling(k)'
    <3>1. Handling(k)
      BY <2>2, <2>4 DEF Handled, Types, LoopTypes
    <3> DEFINE d == job[k].conn
    <3>2. d \in Conns /\ d # l /\ client'[d] # "idle"
      BY <2>2, <3>1, AskedFact DEF Handling, Types, Conns
    <3>3. inFd'[d] = inFd[d] /\ loopOf'[d] = loopOf[d]
      BY <2>1, <3>2 DEF Types, NetTypes, Accept
    <3>4. inFd[d] \in Fds /\ table[inFd[d]] = <<"in", d>> => table'[inFd[d]] = <<"in", d>>
      <4>1. ASSUME NEW f \in Fds, table[f] = <<"in", d>> PROVE table'[f] = table[f]
        <5>1. f # g /\ f # m_clientfd'
          BY <2>1, <4>1 DEF NoEnd
        <5> QED
          BY <2>1, <5>1 DEF Types, NetTypes
      <4> QED
        BY <4>1
    <3> QED
      BY <2>2, <3>1, <3>2, <3>3, <3>4, HandlingStays
  <2> QED
    BY <2>3, <2>4 DEF Handled
<1>7a. ASSUME NEW l \in Loops, ConnectUnaccepted(l) PROVE Handled'
  <2>1. /\ m_clientfd' \in Fds /\ table[m_clientfd'] = NoEnd
        /\ table' = [table EXCEPT ![m_clientfd'] = <<"out", l>>]
        /\ pc[l] = "connect" /\ pc' = [pc EXCEPT ![l] = "send"]
        /\ UNCHANGED <<up, inFd, loopOf, job, nested, client, asked, severed>>
    BY <1>7a, UnacceptedFact DEF net, outside, history
  <2>2. Sent'
    BY <2>1 DEF Handled, Sent
  <2>3. ASSUME NEW k \in Loops, pc'[k] \notin {"poll", "dead"} PROVE Handling(k)'
    <3>1. Handling(k)
      BY <2>1, <2>3 DEF Handled, Types, LoopTypes
    <3> DEFINE d == job[k].conn
    <3>2. client'[d] # "idle"
      BY <2>1, <3>1 DEF Handling
    <3>3. inFd[d] \in Fds /\ table[inFd[d]] = <<"in", d>> => table'[inFd[d]] = <<"in", d>>
      BY <2>1 DEF NoEnd, Types, NetTypes
    <3> QED
      BY <2>1, <3>1, <3>2, <3>3, HandlingStays
  <2> QED
    BY <2>2, <2>3 DEF Handled
<1>8. ASSUME NEW l \in Loops, Send(l) PROVE Handled'
  <2>1. PICK item \in CacheRequests : Put(m_clientfd, item)
    BY <1>8, SendFact
  <2>2. /\ pc[l] = "send" /\ pc' = [pc EXCEPT ![l] = "recv"]
        /\ UNCHANGED <<table, inFd, loopOf, job, nested, client, asked, severed>>
    BY <1>8, SendFact DEF outside, history
  <2>3. Sent'
    <3>1. CASE up' = up
      BY <2>2, <3>1 DEF Handled, Sent
    <3>2. ASSUME NEW o \in Loops, up' = [up EXCEPT ![o] = Append(up[o], item)]
          PROVE  Sent'
      <4>1. Append(up[o], item) \in Seq(CacheRequests \cup Answers)
        BY DEF Handled, Sent
      <4>2. \A c \in Clients : c # o
        BY ConstantsAssumption
      <4> QED
        BY <2>2, <3>2, <4>1, <4>2 DEF Handled, Sent, Types, NetTypes, Conns
    <3> QED
      BY <2>1, <3>1, <3>2, PutFact DEF Types
  <2>4. ASSUME NEW k \in Loops, pc'[k] \notin {"poll", "dead"} PROVE Handling(k)'
    BY <2>2, <2>4 DEF Handled, Handling, Types, LoopTypes
  <2> QED
    BY <2>3, <2>4 DEF Handled
<1>9. ASSUME NEW l \in Loops, Returned(l) PROVE Handled'
  <2>1. /\ pc[l] \in {"connect", "send", "recv", "blocked"} /\ Return(l, <<>>)
        /\ UNCHANGED <<inFd, loopOf, client, asked>> /\ ((table' = table /\ severed' = severed) \/ CloseClientfd)
        /\ up' = up \/ \E x : up' = [up EXCEPT ![x] = <<>>]
    BY <1>9, ReturnedFact DEF outside
  <2>2. Hands'
    BY <2>1, NoReply, ReturnHandled
  <2>3. Sent'
    <3>1. <<>> \in Seq(CacheRequests \cup Answers)
      OBVIOUS
    <3>2. \A c \in Conns : up'[c] = up[c] \/ up'[c] = <<>>
      BY <2>1 DEF Types, NetTypes
    <3> QED
      BY <2>1, <3>1, <3>2 DEF Handled, Sent, Conns
  <2> QED
    BY <2>2, <2>3 DEF Handled
<1>10. ASSUME NEW l \in Loops, RecvReturns(l) PROVE Handled'
  <2>1. /\ pc[l] = "blocked" /\ UNCHANGED <<up, inFd, loopOf, client, asked>>
        /\ (table' = table /\ severed' = severed) \/ CloseClientfd
    BY <1>10, RecvReturnsFact, RecvReturnsCloses DEF outside
  <2>2a. PICK n \in Nat : \E got : DOMAIN got = 1 .. n /\ Return(l, got) /\ \A i \in 1 .. n : got[i].value \in Vals
    BY <1>10, RecvReturnsFact
  <2>2. PICK got : DOMAIN got = 1 .. n /\ Return(l, got) /\ \A i \in 1 .. n : got[i].value \in Vals
    BY <2>2a
  <2>3. Hands'
    BY <2>1, <2>2, ReturnHandled
  <2>4. Sent'
    BY <2>1 DEF Handled, Sent
  <2> QED
    BY <2>3, <2>4 DEF Handled
\* The steps that touch neither connections nor jobs.
<1>11. ASSUME NEW l \in Loops, Enter(l) \/ SetNames(l) \/ RecvBlocks(l) PROVE Handled'
  <2>1. /\ pc[l] \in {"call", "names", "recv"} /\ \E p : pc' = [pc EXCEPT ![l] = p]
        /\ UNCHANGED <<table, up, inFd, loopOf, job, nested, client, asked, severed>>
    BY <1>11 DEF Enter, SetNames, RecvBlocks, Goto, net, outside, history
  <2>2. Sent'
    BY <2>1 DEF Handled, Sent
  <2>3. ASSUME NEW k \in Loops, pc'[k] \notin {"poll", "dead"} PROVE Handling(k)'
    BY <2>1, <2>3 DEF Handled, Handling, Types, LoopTypes
  <2> QED
    BY <2>2, <2>3 DEF Handled
<1>12. ASSUME NEW l \in Loops, NotFound(l) PROVE Handled'
  <2>1. pc' = [k \in Loops |-> "dead"] /\ UNCHANGED <<up, client, asked>>
    BY <1>12 DEF NotFound, net, outside
  <2> QED
    BY <2>1 DEF Handled, Sent
<1> QED
  BY <1>1, <1>2, <1>3, <1>4, <1>5, <1>6, <1>7, <1>7a, <1>8, <1>9, <1>10, <1>11, <1>12
     DEF Next, Loop, CallMethod, Returned

-----------------------------------------------------------------------------
(* While no call has failed to connect.                                    *)

QuietInv == ~unconnected => Quiet

LEMMA InitQuiet == Init => QuietInv
<1>1. <<>> \in Seq(QuietUps) /\ <<>> \in Seq(QuietDowns)
  OBVIOUS
<1> QED
  BY <1>1, NothingTypes DEF Init, QuietInv, Quiet, Once

\* Once a call could not connect, or two were inside at once, that is remembered.
LEMMA Remembered ==
    ASSUME [Next]_vars
    PROVE  (unconnected => unconnected') /\ (overlap => overlap')
<1>1. ASSUME NEW l \in Loops, Enter(l) \/ SetNames(l) \/ Connect(l) \/ ConnectUnaccepted(l) \/ NotFound(l) \/ Send(l)
      PROVE  (unconnected => unconnected') /\ (overlap => overlap')
  <2>1. Enter(l) => overlap' = (overlap \/ Inside # {}) /\ unconnected' = unconnected
    BY Zenon DEF Enter
  <2>2. SetNames(l) \/ Connect(l) \/ ConnectUnaccepted(l) \/ NotFound(l) \/ Send(l) =>
           UNCHANGED <<overlap, unconnected>>
    BY DEF SetNames, Connect, ConnectUnaccepted, NotFound, Send, history
  <2>3. Enter(l) => (unconnected => unconnected') /\ (overlap => overlap')
    BY <2>1, Zenon
  <2> QED
    BY <1>1, <2>2, <2>3
<1>2. ASSUME NEW l \in Loops, ConnectFail(l) \/ SendFail(l)
      PROVE  (unconnected => unconnected') /\ (overlap => overlap')
  BY <1>2 DEF ConnectFail, SendFail, history
<1>3. ASSUME NEW l \in Loops, RecvBlocks(l) \/ RecvFail(l) \/ RecvSteals(l) \/ RecvReturns(l)
      PROVE  UNCHANGED <<overlap, unconnected>>
  <2>1. RecvBlocks(l) \/ RecvFail(l) => UNCHANGED <<overlap, unconnected>>
    BY DEF RecvBlocks, RecvFail, history
  <2>2. RecvSteals(l) => UNCHANGED <<overlap, unconnected>>
    BY DEF RecvSteals
  <2>3. RecvReturns(l) => UNCHANGED <<overlap, unconnected>>
    BY Zenon DEF RecvReturns
  <2> QED
    BY <1>3, <2>1, <2>2, <2>3
<1>4. ASSUME NEW l \in Loops, NEW c \in Conns, OnMessage(l, c) \/ HandleClose(l, c)
      PROVE  UNCHANGED history
  BY <1>4 DEF OnMessage, HandleClose
<1>5. ASSUME NEW l \in Loops, Answer(l) PROVE UNCHANGED history
  BY <1>5 DEF Answer
<1>6. ASSUME NEW c \in Clients, Ask(c) \/ Receive(c) PROVE UNCHANGED history
  BY <1>6 DEF Ask, Receive
<1>7. UNCHANGED vars => UNCHANGED history
  BY DEF vars
<1>8. UNCHANGED history => (unconnected => unconnected') /\ (overlap => overlap')
  BY DEF history
<1> QED
  BY <1>1, <1>2, <1>3, <1>4, <1>5, <1>6, <1>7, <1>8 DEF Next, Loop, CallMethod

\* A cache request that is not named Set leaves an empty cache empty, and finds
\* nothing in it.
LEMMA QuietRequest ==
    ASSUME OtherTypes, cache = [k \in Keys |-> Absent],
           NEW q \in CacheRequests \cup Answers, q.name # "Set", Execute(q)
    PROVE  cache' = cache /\ Reply(q) \in QuietDowns
<1>1. cache' = [cache EXCEPT ![q.key] = Absent] \/ cache' = cache
  BY DEF Execute
<1>2. q.name \in {"Get", "Exists"} => q.key \in Keys /\ cache[q.key] = Absent
  BY DEF CacheRequests, Answers
<1>3. Reply(q) \in Replies /\ Reply(q).exists = (q.name \in {"Get", "Exists"} /\ cache[q.key] # Absent)
  BY ReplyTypes DEF Reply
<1>4. ~Reply(q).exists
  BY <1>2, <1>3
<1> QED
  BY <1>1, <1>3, <1>4 DEF QuietDowns

LEMMA ReturnQuiet ==
    ASSUME Types, Quiet, NEW l \in Loops, pc[l] \in {"send", "recv", "blocked"},
           NEW n \in Nat, NEW got, DOMAIN got = 1 .. n, \A i \in 1 .. n : got[i].value \in Vals,
           Return(l, got), m_clientfd' = m_clientfd
    PROVE  Once'
<1>1. m_clientfd # -1
  BY DEF Quiet, Once
<1>2. CASE /\ nested' = [nested EXCEPT ![l] =
                        [kind |-> "Set", key |-> nested[l].key, value |-> Local(job[l].request)]]
           /\ pc' = [pc EXCEPT ![l] = "call"]
  BY <1>1, <1>2 DEF Quiet, Once, Types, LoopTypes
<1>3. CASE nested' = nested /\ pc' = [pc EXCEPT ![l] = "answer"]
  BY <1>1, <1>3 DEF Quiet, Once, Types, LoopTypes
<1> QED
  BY <1>2, <1>3, ReturnFact

LEMMA NextQuiet ==
    ASSUME Types, Handled, QuietInv, [Next]_vars
    PROVE  QuietInv'
<1>0. SUFFICES ASSUME Quiet, ~unconnected' PROVE Quiet'
  BY Remembered DEF QuietInv
<1> DEFINE Nets == up \in [Conns -> Seq(QuietUps)] /\ down \in [Conns -> Seq(QuietDowns)]
<1>e. <<>> \in Seq(QuietUps) /\ <<>> \in Seq(QuietDowns)
  OBVIOUS
<1>1. CASE UNCHANGED vars
  <2>1. UNCHANGED <<up, down, pc, nested, m_clientfd, method_name, cache>>
    BY <1>1 DEF vars, net, chan
  <2> QED
    BY <1>0, <2>1 DEF Quiet, Once
<1>2. ASSUME NEW c \in Clients, Ask(c) PROVE Quiet'
  <2>1. [type |-> "request", call |-> asked[c]] \in QuietUps
    BY <1>2, AskFact DEF QuietUps, UserRequests
  <2>2. <<[type |-> "request", call |-> asked[c]]>> \in Seq(QuietUps)
    BY <2>1
  <2>3. Nets'
    BY <1>0, <1>2, <2>2, AskFact DEF Quiet
  <2> QED
    BY <1>0, <1>2, <2>3, AskFact DEF Quiet, Once, chan
<1>3. ASSUME NEW c \in Clients, Receive(c) PROVE Quiet'
  <2>1. Nets'
    BY <1>0, <1>3, <1>e, ReceiveFact DEF Quiet
  <2> QED
    BY <1>0, <1>3, <2>1, ReceiveFact DEF Quiet, Once, chan
<1>4. ASSUME NEW l \in Loops, NEW c \in Conns, OnMessage(l, c) PROVE Quiet'
  <2>1. /\ pc[l] = "poll" /\ up[c] # <<>> /\ up' = [up EXCEPT ![c] = <<>>]
        /\ UNCHANGED <<m_clientfd, method_name>>
    BY <1>4, OnMessageFact DEF Types, chan
  <2>2. up' \in [Conns -> Seq(QuietUps)]
    BY <1>0, <1>e, <2>1 DEF Quiet
  <2>3. CASE /\ Head(up[c]) \in UserRequests
             /\ nested' = [nested EXCEPT ![l] = [kind |-> FirstCall(Head(up[c]).call),
                                                 key |-> Key(Head(up[c]).call), value |-> Empty]]
             /\ pc' = [pc EXCEPT ![l] = "call"] /\ UNCHANGED <<down, cache>>
    <3>1. nested'[l].kind # "Set" /\ \A k \in Loops \ {l} : nested'[k] = nested[k] /\ pc'[k] = pc[k]
      <4>1. nested'[l].kind = FirstCall(Head(up[c]).call)
        BY <2>3 DEF Types, LoopTypes
      <4> QED
        BY <2>3, <4>1 DEF FirstCall, Types, LoopTypes
    <3>2. Once'
      BY <1>0, <2>1, <2>3, <3>1 DEF Quiet, Once, Types, LoopTypes
    <3> QED
      BY <1>0, <2>1, <2>2, <2>3, <3>2 DEF Quiet
  <2>4. CASE /\ Head(up[c]) \in CacheRequests \cup Answers
             /\ Execute(Head(up[c])) /\ UNCHANGED <<nested, pc>>
             /\ down' = [down EXCEPT ![c] = Append(down[c], Reply(Head(up[c])))]
    <3> DEFINE q == Head(up[c])
    <3>1. q \in QuietUps
      BY <1>0, <2>1 DEF Quiet
    <3>2. q.name # "Set"
      <4>1. q \notin UserRequests
        BY <2>4, NoCallField DEF UserRequests
      <4>2. \A a \in Answers : a.name # "Set"
        BY DEF Answers
      <4> QED
        BY <3>1, <4>1, <4>2 DEF QuietUps
    <3>3. cache' = cache /\ Reply(q) \in QuietDowns
      BY <1>0, <2>4, <3>2, QuietRequest DEF Quiet, Types
    <3> HIDE DEF q
    <3>4. Append(down[c], Reply(q)) \in Seq(QuietDowns)
      BY <1>0, <3>3 DEF Quiet
    <3>5. down' \in [Conns -> Seq(QuietDowns)]
      BY <1>0, <2>4, <3>4 DEF q, Quiet
    <3> QED
      BY <1>0, <2>1, <2>2, <2>4, <3>3, <3>5 DEF Quiet, Once
  <2> QED
    BY <1>4, <2>3, <2>4, OnMessageFact DEF Types
<1>5. ASSUME NEW item, NEW fd, Put(fd, item), item \in QuietUps, item \in QuietDowns
      PROVE  Nets'
  BY <1>0, <1>5, PutTypes DEF Types, Quiet
<1>6. ASSUME NEW l \in Loops, Answer(l) PROVE Quiet'
  <2>1. Nets'
    <3>1. CASE UNCHANGED <<up, down>>
      BY <1>0, <3>1 DEF Quiet
    <3>2. ASSUME NEW item \in Answers, Put(inFd[job[l].conn], item) PROVE Nets'
      <4>1. item \in QuietUps /\ item \in QuietDowns
        BY DEF QuietUps, QuietDowns, Answers, Replies, Names
      <4> QED
        BY <1>5, <3>2, <4>1
    <3> QED
      BY <1>6, <3>1, <3>2, AnswerFact
  <2>2. /\ pc' = [pc EXCEPT ![l] = "poll"] /\ nested' = [nested EXCEPT ![l] = NoCall]
        /\ UNCHANGED <<m_clientfd, method_name, cache>>
    BY <1>6, AnswerFact DEF chan
  <2>3. Once'
    BY <1>0, <2>2, NothingTypes DEF Quiet, Once, Types, LoopTypes
  <2> QED
    BY <1>0, <2>1, <2>2, <2>3 DEF Quiet
<1>7. ASSUME NEW l \in Loops, Send(l) PROVE Quiet'
  <2>1. Nets'
    <3>1. PICK item \in CacheRequests : Put(m_clientfd, item) /\ item.name = method_name
      BY <1>7, SendFact
    <3>2. item \in QuietUps /\ item \in QuietDowns
      BY <1>0, <3>1 DEF Quiet, QuietUps, QuietDowns
    <3> QED
      BY <1>5, <3>1, <3>2
  <2>2. /\ pc[l] = "send" /\ pc' = [pc EXCEPT ![l] = "recv"]
        /\ UNCHANGED <<m_clientfd, method_name, nested, cache>>
    BY <1>7, SendFact DEF chan
  <2> QED
    BY <1>0, <2>1, <2>2 DEF Quiet, Once, Types, LoopTypes
<1>8. ASSUME NEW l \in Loops, Connect(l) \/ ConnectUnaccepted(l) PROVE Quiet'
  <2>1. m_clientfd' # -1
    <3>1. m_clientfd' \in Fds
      BY <1>8, ConnectFact, UnacceptedFact
    <3> QED
      BY <3>1, ConstantsAssumption
  <2>2. /\ pc[l] = "connect" /\ pc' = [pc EXCEPT ![l] = "send"]
        /\ UNCHANGED <<up, down, method_name, nested, cache>>
    BY <1>8, ConnectFact, UnacceptedFact DEF net
  <2> QED
    BY <1>0, <2>1, <2>2 DEF Quiet, Once, Types, LoopTypes
<1>9. ASSUME NEW l \in Loops, Returned(l) PROVE Quiet'
  <2>1. /\ pc[l] \in {"send", "recv", "blocked"} /\ Return(l, <<>>)
        /\ UNCHANGED <<down, m_clientfd, method_name, cache>>
        /\ up' = up \/ \E x : up' = [up EXCEPT ![x] = <<>>]
    BY <1>0, <1>9, ReturnedFact DEF chan
  <2>2. Once'
    BY <1>0, <2>1, NoReply, ReturnQuiet
  <2>3. Nets'
    BY <1>0, <1>e, <2>1 DEF Quiet
  <2> QED
    BY <1>0, <2>1, <2>2, <2>3 DEF Quiet
<1>10. ASSUME NEW l \in Loops, RecvReturns(l) PROVE Quiet'
  <2>1. pc[l] \in {"send", "recv", "blocked"} /\ UNCHANGED <<up, m_clientfd, method_name, cache>>
    BY <1>10, RecvReturnsFact DEF chan
  <2>2a. PICK n \in Nat : \E got : DOMAIN got = 1 .. n /\ Return(l, got) /\ \A i \in 1 .. n : got[i].value \in Vals
    BY <1>10, RecvReturnsFact
  <2>2. PICK got : DOMAIN got = 1 .. n /\ Return(l, got) /\ \A i \in 1 .. n : got[i].value \in Vals
    BY <2>2a
  <2>3. Once'
    BY <1>0, <2>1, <2>2, ReturnQuiet
  <2>4. PICK left \in Seq(Downs) : /\ down' = [down EXCEPT ![on[l]] = left]
           /\ \A i \in DOMAIN left : \E j \in DOMAIN down[on[l]] : left[i] = down[on[l]][j]
    BY <1>10, RecvReturnsFact
  <2>5. on[l] \in Conns /\ down[on[l]] \in Seq(QuietDowns)
    BY <1>0 DEF Quiet, Types, LoopTypes
  <2>6. \A i \in DOMAIN left : left[i] \in QuietDowns
    BY <2>4, <2>5
  <2>7. left \in Seq(QuietDowns)
    BY <2>6
  <2>8. Nets'
    BY <1>0, <2>1, <2>4, <2>7 DEF Quiet
  <2> QED
    BY <1>0, <2>1, <2>3, <2>8 DEF Quiet
<1>11. ASSUME NEW l \in Loops, Enter(l) PROVE Quiet'
  <2>1. pc[l] = "call" /\ pc' = [pc EXCEPT ![l] = IF m_clientfd = -1 THEN "names" ELSE "send"]
        /\ UNCHANGED <<up, down, m_clientfd, method_name, nested, cache>>
    BY <1>11 DEF Enter, Goto, net, chan
  <2> QED
    BY <1>0, <2>1 DEF Quiet, Once, Types, LoopTypes
<1>12. ASSUME NEW l \in Loops, SetNames(l) PROVE Quiet'
  <2>1. /\ pc[l] = "names" /\ pc' = [pc EXCEPT ![l] = "connect"] /\ method_name' = nested[l].kind
        /\ UNCHANGED <<up, down, m_clientfd, nested, cache>>
    BY <1>12 DEF SetNames, Goto, net
  <2> QED
    BY <1>0, <2>1 DEF Quiet, Once, Types, LoopTypes
<1>13. ASSUME NEW l \in Loops, RecvBlocks(l) PROVE Quiet'
  <2>1. /\ pc[l] = "recv" /\ pc' = [pc EXCEPT ![l] = "blocked"]
        /\ UNCHANGED <<up, down, m_clientfd, method_name, nested, cache>>
    BY <1>13 DEF RecvBlocks, Goto, net, chan
  <2> QED
    BY <1>0, <2>1 DEF Quiet, Once, Types, LoopTypes
<1>14. ASSUME NEW l \in Loops, NotFound(l) PROVE Quiet'
  <2>1. /\ pc' = [k \in Loops |-> "dead"] /\ UNCHANGED <<up, down, m_clientfd, method_name, nested, cache>>
    BY <1>14 DEF NotFound, net, chan
  <2> QED
    BY <1>0, <2>1 DEF Quiet, Once
<1>15. ASSUME NEW l \in Loops, NEW c \in Conns, HandleClose(l, c) PROVE Quiet'
  <2>1. UNCHANGED <<up, down, pc, m_clientfd, method_name, nested, cache>>
    BY <1>15 DEF HandleClose, chan
  <2> QED
    BY <1>0, <2>1 DEF Quiet, Once
<1> QED
  BY <1>1, <1>2, <1>3, <1>4, <1>6, <1>7, <1>8, <1>9, <1>10, <1>11, <1>12, <1>13, <1>14, <1>15
     DEF Next, Loop, CallMethod, Returned

-----------------------------------------------------------------------------
(* While one loop at a time is inside of CallMethod.                       *)

AloneInv == ~overlap => Alone

CallLabels == {"names", "connect", "send", "recv", "blocked"}

LEMMA InitAlone == Init => AloneInv
<1> SUFFICES ASSUME Init PROVE Alone
  BY DEF AloneInv
<1>1. Inside = {} /\ \A l \in Loops : pc[l] = "poll"
  BY DEF Init, Inside
<1>2. \A f \in Fds : \A o \in Loops : table[f] # <<"out", o>>
  <2>1. \A o \in Loops : NoEnd # <<"out", o>>
    BY DEF NoEnd
  <2> QED
    BY <2>1 DEF Init
<1>3. OneCaller
  BY <1>1 DEF OneCaller
<1>4. \A o \in Loops : up[o] = <<>> /\ down[o] = <<>>
  BY DEF Init, Conns
<1>5. <<>> \in Seq(SoundRequests)
  OBVIOUS
<1>6. SoundStore
  BY <1>4, <1>5 DEF Init, SoundStore
<1> QED
  BY <1>2, <1>3, <1>4, <1>6 DEF Init, Alone, Fresh, OneConnection

LEMMA SoundStays ==
    ASSUME asked' = asked
    PROVE  /\ \A k : Own(k)' = Own(k)
           /\ SoundRequests' = SoundRequests
           /\ \A kind, key : SoundReplies(kind, key)' = SoundReplies(kind, key)
BY DEF Own, SoundRequests, SoundReplies

\* A loop that is inside is the one that made the open connection, unless that
\* is broken.
LEMMA OneOut ==
    ASSUME Alone, NEW l \in Loops, pc[l] \in CallLabels,
           NEW f \in Fds, NEW o \in Loops, table[f] = <<"out", o>>
    PROVE  /\ f = m_clientfd /\ ~severed
           /\ \/ o = l /\ pc[l] \in {"send", "recv", "blocked"} /\ Live(l)
              \/ Broken(o) /\ pc[l] \notin {"recv", "blocked"}
<1>1. f = m_clientfd /\ ~severed /\ (Live(o) \/ Broken(o))
  BY DEF Alone, OneConnection
<1>2. CASE Live(o)
  <2>1. pc[o] \in {"send", "recv", "blocked"}
    BY <1>2 DEF Live
  <2>2. o \in Inside /\ l \in Inside
    BY <2>1 DEF Inside, CallLabels
  <2>3. o = l
    BY <2>2 DEF Alone, OneCaller
  <2> QED
    BY <1>1, <1>2, <2>1, <2>3
<1>3. CASE Broken(o)
  BY <1>1, <1>3 DEF Broken
<1> QED
  BY <1>1, <1>2, <1>3

LEMMA ResetFact ==
    ASSUME NEW o \in Loops
    PROVE  Reset(<<"out", o>>) <=> up[o] # <<>> /\ \A f \in Fds : table[f] # <<"in", o>>
BY DEF Reset, PeerOpen, InTable

\* Steps outside of CallMethod that touch no queue of a loop's connection.
LEMMA AloneStays ==
    ASSUME Alone, UNCHANGED <<m_clientfd, method_name, cache, asked, severed>>,
           \A o \in Loops : up'[o] = up[o] /\ (~severed => down'[o] = down[o]),
           \A f \in Fds : \A o \in Loops : /\ table'[f] = <<"out", o>> <=> table[f] = <<"out", o>>
                                           /\ table'[f] = <<"in", o>> => table[f] = <<"in", o>>,
           \A l \in Loops : pc[l] \in CallLabels \/ pc'[l] \in CallLabels =>
                               pc'[l] = pc[l] /\ nested'[l] = nested[l] /\ on'[l] = on[l]
    PROVE  Alone'
<1>1. OneCaller'
  <2>1. \A l \in Loops : pc'[l] \in CallLabels => /\ pc'[l] = pc[l] /\ on'[l] = on[l]
                                                  /\ nested'[l] = nested[l]
    OBVIOUS
  <2>2. Inside' \subseteq Inside
    BY <2>1 DEF Inside, CallLabels
  <2> QED
    BY <2>1, <2>2 DEF Alone, OneCaller, CallLabels
<1>2. Fresh'
  BY DEF Alone, Fresh
<1>3. OneConnection'
  <2> SUFFICES ASSUME NEW f \in Fds, NEW o \in Loops, table[f] = <<"out", o>>
               PROVE  f = m_clientfd /\ ~severed /\ (Live(o)' \/ Broken(o)')
    BY DEF OneConnection
  <2>1. f = m_clientfd /\ ~severed /\ (Live(o) \/ Broken(o))
    BY DEF Alone, OneConnection
  <2>2. CASE Live(o)
    <3>1. pc'[o] = pc[o] /\ nested'[o] = nested[o] /\ up'[o] = up[o] /\ down'[o] = down[o]
      BY <2>1, <2>2 DEF Live, CallLabels
    <3> QED
      BY <2>1, <2>2, <3>1, SoundStays DEF Live
  <2>3. CASE Broken(o)
    <3>1. \A k \in Loops : pc'[k] \notin {"recv", "blocked"}
      BY <2>3 DEF Broken, CallLabels
    <3> QED
      BY <2>1, <2>3, <3>1 DEF Broken
  <2> QED
    BY <2>1, <2>2, <2>3
<1>4. SoundStore'
  BY SoundStays DEF Alone, SoundStore
<1> QED
  BY <1>1, <1>2, <1>3, <1>4 DEF Alone

\* A loop comes out of CallMethod and leaves no connection open, or a broken one.
LEMMA AloneLeft ==
    ASSUME Alone, NEW l \in Loops, pc[l] \in CallLabels, UNCHANGED <<m_clientfd, cache, asked>>,
           \A k \in Loops : pc'[k] \notin CallLabels,
           \A f \in Fds : \A o \in Loops : table'[f] = <<"out", o>> =>
                                             f = m_clientfd /\ ~severed' /\ Broken(o)',
           m_clientfd = -1 => (severed' => severed) /\ \A o \in Loops : down'[o] = down[o],
           \A o \in Loops : up'[o] = up[o] \/ up'[o] = <<>>
    PROVE  Alone'
<1>1. OneCaller'
  <2>1. Inside' = {}
    BY DEF Inside, CallLabels
  <2> QED
    BY <2>1 DEF OneCaller, CallLabels
<1>2. Fresh'
  <2> SUFFICES ASSUME m_clientfd = -1 PROVE Fresh'
    BY DEF Fresh
  <2>1. ASSUME NEW f \in Fds, NEW o \in Loops, table'[f] = <<"out", o>> PROVE FALSE
    <3>1. f = -1
      BY <2>1
    <3> QED
      BY <3>1, ConstantsAssumption
  <2>2. ~severed /\ \A o \in Loops : up[o] = <<>> /\ down[o] = <<>>
    <3>1. Fresh /\ m_clientfd = -1
      BY DEF Alone
    <3> QED
      BY <3>1, Zenon DEF Fresh
  <2>3. \A o \in Loops : up'[o] = <<>> /\ down'[o] = <<>>
    BY <2>2
  <2>4. ~severed'
    BY <2>2
  <2> QED
    BY <2>1, <2>3, <2>4 DEF Fresh
<1>3. OneConnection'
  BY DEF OneConnection
<1>4. SoundStore'
  <2>1. <<>> \in Seq(SoundRequests)
    OBVIOUS
  <2>2. \A o \in Loops : up'[o] \in Seq(SoundRequests)
    BY <2>1 DEF Alone, SoundStore
  <2> QED
    BY <2>2, SoundStays DEF Alone, SoundStore
<1> QED
  BY <1>1, <1>2, <1>3, <1>4 DEF Alone

LEMMA ReturnLabels ==
    ASSUME NEW l \in Loops, NEW got, Return(l, got)
    PROVE  \E p \in {"call", "answer"} : pc' = [pc EXCEPT ![l] = p]
BY DEF Return, Goto

LEMMA ClosedOut ==
    ASSUME Types, Alone, NEW l \in Loops, pc[l] \in CallLabels, CloseClientfd
    PROVE  /\ \A f \in Fds : \A o \in Loops : table'[f] # <<"out", o>>
           /\ m_clientfd = -1 => (severed' => severed)
<1>1. table' = Closed(m_clientfd) /\ severed' = (severed \/ EndOf(m_clientfd)[1] = "in")
  BY DEF CloseClientfd
<1>2. m_clientfd = -1 => EndOf(m_clientfd)[1] # "in"
  BY ConstantsAssumption DEF EndOf, NoEnd
<1>3. ASSUME NEW f \in Fds, NEW o \in Loops, table'[f] = <<"out", o>> PROVE FALSE
  <2>1. f # m_clientfd /\ table[f] = <<"out", o>>
    BY <1>1, <1>3 DEF Closed, NoEnd
  <2>2. f = m_clientfd
    BY <2>1, OneOut
  <2> QED
    BY <2>1, <2>2
<1> QED
  BY <1>1, <1>2, <1>3

\* A sound request leaves the cache sound, and tells the truth about it.
LEMMA SoundRequest ==
    ASSUME OtherTypes, SoundStore, NEW q \in SoundRequests, Execute(q)
    PROVE  /\ \A k \in Keys : cache'[k] \in {Absent} \cup Own(k)
           /\ Reply(q) \in SoundReplies(q.name, q.key)
<1>1. /\ q \in CacheRequests /\ q.key \in Keys /\ q.name = q.kind
      /\ q.kind = "Set" => q.value \in Own(q.key)
  BY DEF SoundRequests, CacheRequests
<1>2. \A k \in Keys : cache[k] \in {Absent} \cup Own(k)
  BY DEF SoundStore
<1>3. /\ q.name = "Set" => cache' = [cache EXCEPT ![q.key] = q.value]
      /\ q.name = "Delete" => cache' = [cache EXCEPT ![q.key] = Absent]
      /\ q.name \notin {"Set", "Delete"} => cache' = cache
  BY <1>1 DEF Execute, Value
<1>4. \A k \in Keys : cache'[k] \in {Absent} \cup Own(k)
  BY <1>1, <1>2, <1>3 DEF OtherTypes
<1>5. /\ Reply(q) \in Replies /\ Reply(q).name = q.name
      /\ Reply(q).exists = (q.name \in {"Get", "Exists"} /\ cache[q.key] # Absent)
      /\ q.name = "Get" => Reply(q).value = IF cache[q.key] = Absent THEN Empty ELSE cache[q.key]
  BY <1>1, ReplyTypes DEF Reply
<1>6. cache[q.key] = Absent \/ cache[q.key] \in Own(q.key)
  BY <1>1, <1>2
<1>7. q.name = "Get" => Reply(q).value \in Own(q.key) \/ (Reply(q).value = Empty /\ ~Reply(q).exists)
  BY <1>5, <1>6
<1> QED
  BY <1>4, <1>5, <1>7 DEF SoundReplies

LEMMA NextAlone ==
    ASSUME Types, Handled, AloneInv, [Next]_vars
    PROVE  AloneInv'
<1>0. SUFFICES ASSUME Alone, ~overlap' PROVE Alone'
  <2>1. overlap => overlap'
    BY Remembered
  <2> QED
    BY <2>1 DEF AloneInv
<1>a. \A l \in Loops : pc[l] \in CallLabels => l \in Inside /\ \A k \in Loops : pc[k] \in CallLabels => k = l
  <2>1. \A l \in Loops : pc[l] \in CallLabels => l \in Inside
    BY DEF Inside, CallLabels
  <2> QED
    BY <1>0, <2>1 DEF Alone, OneCaller
<1>1. CASE UNCHANGED vars
  <2>1. UNCHANGED <<m_clientfd, method_name, cache, asked, severed, up, down, table, pc, nested, on>>
    BY <1>1 DEF vars, net, chan, outside, history
  <2> QED
    BY <1>0, <2>1, AloneStays
<1>2. ASSUME NEW c \in Clients, Ask(c) PROVE Alone'
  <2>1. PICK fd \in Fds : table[fd] = NoEnd /\ table' = [table EXCEPT ![fd] = <<"in", c>>]
    BY <1>2, AskFact
  <2>2. /\ up' = [up EXCEPT ![c] = <<[type |-> "request", call |-> asked[c]]>>]
        /\ UNCHANGED <<m_clientfd, method_name, cache, asked, severed, down, pc, nested, on>>
    BY <1>2, AskFact DEF chan, history
  <2>4. \A o \in Loops : o # c /\ o \in Conns
    BY ConstantsAssumption DEF Conns
  <2>3. \A f \in Fds : \A o \in Loops : /\ table'[f] = <<"out", o>> <=> table[f] = <<"out", o>>
                                        /\ table'[f] = <<"in", o>> => table[f] = <<"in", o>>
    BY <2>1, <2>4 DEF NoEnd, Types, NetTypes
  <2>5. \A o \in Loops : up'[o] = up[o]
    BY <2>2, <2>4 DEF Types, NetTypes
  <2> QED
    BY <1>0, <2>2, <2>3, <2>5, AloneStays
<1>3. ASSUME NEW c \in Clients, Receive(c) PROVE Alone'
  <2>1. /\ down' = [down EXCEPT ![c] = <<>>]
        /\ UNCHANGED <<m_clientfd, method_name, cache, asked, severed, up, table, pc, nested, on>>
    BY <1>3, ReceiveFact DEF chan, history
  <2>2. \A o \in Loops : o # c /\ o \in Conns
    BY ConstantsAssumption DEF Conns
  <2>3. \A o \in Loops : down'[o] = down[o]
    BY <2>1, <2>2 DEF Types, NetTypes
  <2> QED
    BY <1>0, <2>1, <2>3, AloneStays
<1>4. ASSUME NEW l \in Loops, NEW c \in Conns, HandleClose(l, c) PROVE Alone'
  <2>1. /\ table' = Closed(inFd[c]) /\ table[inFd[c]] = <<"in", c>>
        /\ UNCHANGED <<m_clientfd, method_name, cache, asked, severed, up, down, pc, nested, on>>
    BY <1>4 DEF HandleClose, Watched, chan, outside, history
  <2>2. \A f \in Fds : \A o \in Loops : /\ table'[f] = <<"out", o>> <=> table[f] = <<"out", o>>
                                        /\ table'[f] = <<"in", o>> => table[f] = <<"in", o>>
    BY <2>1 DEF Closed, NoEnd
  <2> QED
    BY <1>0, <2>1, <2>2, AloneStays
<1>5. ASSUME NEW l \in Loops, NEW c \in Conns, OnMessage(l, c) PROVE Alone'
  <2>1. /\ pc[l] = "poll" /\ up[c] # <<>> /\ up' = [up EXCEPT ![c] = <<>>]
        /\ UNCHANGED <<m_clientfd, method_name, asked, severed, table, on>>
    BY <1>5, OnMessageFact DEF Types, chan, outside, history
  <2>2. CASE /\ Head(up[c]) \in UserRequests
             /\ nested' = [nested EXCEPT ![l] = [kind |-> FirstCall(Head(up[c]).call),
                                                 key |-> Key(Head(up[c]).call), value |-> Empty]]
             /\ pc' = [pc EXCEPT ![l] = "call"] /\ UNCHANGED <<down, cache>>
    <3>1. c \notin Loops
      BY <2>1, <2>2, WhoSends
    <3>2. \A o \in Loops : up'[o] = up[o] /\ down'[o] = down[o]
      BY <2>1, <2>2, <3>1 DEF Types, NetTypes, Conns
    <3>3. \A k \in Loops : pc[k] \in CallLabels \/ pc'[k] \in CallLabels =>
                              pc'[k] = pc[k] /\ nested'[k] = nested[k] /\ on'[k] = on[k]
      BY <2>1, <2>2 DEF CallLabels, Types, LoopTypes
    <3>4. UNCHANGED <<m_clientfd, method_name, cache, asked, severed, table>>
      BY <2>1, <2>2
    <3> HIDE <2>2
    <3> QED
      BY <1>0, <3>2, <3>3, <3>4, AloneStays
  <2>3. CASE /\ Head(up[c]) \in CacheRequests \cup Answers
             /\ Execute(Head(up[c])) /\ UNCHANGED <<nested, pc>>
             /\ down' = [down EXCEPT ![c] = Append(down[c], Reply(Head(up[c])))]
    <3> DEFINE q == Head(up[c])
    <3>1. c \in Loops
      BY <2>1, <2>3, WhoSends
    <3>2. q \in SoundRequests /\ 1 \in DOMAIN up[c] /\ q = up[c][1]
      <4>1. up[c] \in Seq(SoundRequests) /\ up[c] # <<>>
        BY <1>0, <2>1, <3>1 DEF Alone, SoundStore
      <4> QED
        BY <4>1
    <3>3. /\ \A k \in Keys : cache'[k] \in {Absent} \cup Own(k)
          /\ Reply(q) \in SoundReplies(q.name, q.key)
      BY <1>0, <2>3, <3>2, SoundRequest DEF Types, Alone
    <3>4. /\ \A o \in Loops \ {c} : up'[o] = up[o] /\ down'[o] = down[o]
          /\ up'[c] = <<>> /\ down'[c] = Append(down[c], Reply(q))
      BY <2>1, <2>3, <3>1 DEF Types, NetTypes, Conns
    <3> HIDE DEF q
    <3>5. OneCaller'
      BY <1>0, <2>1, <2>3 DEF Alone, OneCaller, Inside
    <3>6. Fresh'
      BY <1>0, <2>1, <3>1 DEF Alone, Fresh
    <3>7. OneConnection'
      <4> SUFFICES ASSUME NEW f \in Fds, NEW o \in Loops, table[f] = <<"out", o>>
                   PROVE  f = m_clientfd /\ ~severed /\ (Live(o)' \/ Broken(o)')
        BY <2>1 DEF OneConnection
      <4>1. f = m_clientfd /\ ~severed /\ (Live(o) \/ Broken(o))
        BY <1>0 DEF Alone, OneConnection
      <4>2. UNCHANGED <<pc, nested, method_name, table, asked>>
        BY <2>1, <2>3
      <4> HIDE <2>3
      <4>3. CASE Broken(o)
        <5>1. inFd[c] \in Fds /\ table[inFd[c]] = <<"in", c>>
          BY <1>5, <2>1 DEF OnMessage, Watched, Types, NetTypes
        <5>2. o # c
          BY <4>3, <5>1 DEF Broken
        <5>3. up'[o] = up[o]
          BY <3>4, <5>2
        <5> HIDE <2>1, <3>4
        <5> QED
          BY <4>1, <4>2, <4>3, <5>3 DEF Broken
      <4>4. CASE Live(o)
        <5>1. CASE o # c
          <6>1. up'[o] = up[o] /\ down'[o] = down[o]
            BY <3>4, <5>1
          <6> HIDE <2>1, <3>4
          <6> QED
            BY <4>1, <4>2, <4>4, <6>1, SoundStays DEF Live
        <5>2. CASE o = c
          <6>1. q.name = nested[o].kind /\ q.key = nested[o].key
            BY <3>2, <4>4, <5>2 DEF Live
          <6>2. Reply(q) \in SoundReplies(nested[o].kind, nested[o].key)
            BY <3>3, <6>1
          <6>3. Append(down[o], Reply(q)) \in Seq(SoundReplies(nested[o].kind, nested[o].key))
            BY <4>4, <6>2 DEF Live
          <6>4. DOMAIN up'[o] = {} /\ down'[o] = Append(down[o], Reply(q))
            BY <3>4, <5>2
          <6> HIDE <2>1, <3>4
          <6> QED
            BY <4>1, <4>2, <4>4, <6>3, <6>4, SoundStays DEF Live
        <5> QED
          BY <5>1, <5>2
      <4> QED
        BY <4>1, <4>3, <4>4
    <3>8. SoundStore'
      <4>1. <<>> \in Seq(SoundRequests)
        OBVIOUS
      <4>2. \A o \in Loops : up'[o] \in Seq(SoundRequests)
        BY <1>0, <3>4, <4>1 DEF Alone, SoundStore
      <4> QED
        BY <2>1, <3>3, <4>2, SoundStays DEF SoundStore
    <3> QED
      BY <3>5, <3>6, <3>7, <3>8 DEF Alone
  <2> QED
    BY <1>5, <2>2, <2>3, OnMessageFact DEF Types
<1>6. ASSUME NEW l \in Loops, Answer(l) PROVE Alone'
  <2>1. /\ pc[l] = "answer" /\ pc' = [pc EXCEPT ![l] = "poll"] /\ nested' = [nested EXCEPT ![l] = NoCall]
        /\ UNCHANGED <<m_clientfd, method_name, cache, asked, severed, table, on>>
    BY <1>6, AnswerFact DEF chan, outside, history
  <2>2. \A o \in Loops : up'[o] = up[o] /\ (~severed => down'[o] = down[o])
    <3>1. ASSUME NEW item, Put(inFd[job[l].conn], item)
          PROVE  \A o \in Loops : up'[o] = up[o] /\ (~severed => down'[o] = down[o])
      <4>1. ~severed => /\ inFd[job[l].conn] \in Fds /\ table[inFd[job[l].conn]] = <<"in", job[l].conn>>
                        /\ job[l].conn \notin Loops
        BY <2>1, AskedFact DEF Handled, Handling, Types
      <4>2. CASE up' = up /\ down' = down
        BY <4>2
      <4>3. ASSUME NEW c \in Conns, table[inFd[job[l].conn]] = <<"in", c>>, up' = up,
                   down' = [down EXCEPT ![c] = Append(down[c], item)]
            PROVE  \A o \in Loops : up'[o] = up[o] /\ (~severed => down'[o] = down[o])
        <5>1. ~severed => c \notin Loops
          BY <4>1, <4>3
        <5> QED
          BY <4>3, <5>1 DEF Types, NetTypes, Conns
      <4>4. ASSUME NEW o \in Loops, inFd[job[l].conn] \in Fds, table[inFd[job[l].conn]] = <<"out", o>>
            PROVE  FALSE
        <5>1. ~severed
          BY <1>0, <4>4 DEF Alone, OneConnection
        <5> QED
          BY <4>1, <4>4, <5>1
      <4> QED
        BY <3>1, <4>2, <4>3, <4>4, PutFact DEF Types
    <3> QED
      BY <1>6, <3>1, AnswerFact
  <2>3. \A k \in Loops : pc[k] \in CallLabels \/ pc'[k] \in CallLabels =>
                            pc'[k] = pc[k] /\ nested'[k] = nested[k] /\ on'[k] = on[k]
    BY <2>1 DEF CallLabels, Types, LoopTypes
  <2> QED
    BY <1>0, <2>1, <2>2, <2>3, AloneStays
<1>7. ASSUME NEW l \in Loops, Enter(l) PROVE Alone'
  <2>1. /\ pc[l] = "call" /\ pc' = [pc EXCEPT ![l] = IF m_clientfd = -1 THEN "names" ELSE "send"]
        /\ Inside = {}
        /\ UNCHANGED <<table, up, down, m_clientfd, method_name, nested, on, cache, asked, severed>>
    BY <1>0, <1>7 DEF Enter, Goto, net, chan, outside
  <2>2. \A k \in Loops : pc[k] \notin CallLabels
    BY <2>1 DEF Inside, CallLabels
  <2>3. ASSUME NEW f \in Fds, NEW o \in Loops, table[f] = <<"out", o>>
        PROVE  f = m_clientfd /\ ~severed /\ Broken(o)'
    <3>1. f = m_clientfd /\ ~severed /\ Broken(o)
      BY <1>0, <2>2, <2>3 DEF Alone, OneConnection, Live, CallLabels
    <3>2. \A k \in Loops : pc'[k] \notin {"recv", "blocked"}
      BY <2>1, <2>2 DEF CallLabels, Types, LoopTypes
    <3> QED
      BY <2>1, <3>1, <3>2 DEF Broken
  <2>4. OneCaller'
    <3>1. \A k \in Loops : pc'[k] \in CallLabels => k = l
      BY <2>1, <2>2 DEF Types, LoopTypes
    <3>2. pc'[l] = IF m_clientfd = -1 THEN "names" ELSE "send"
      BY <2>1 DEF Types, LoopTypes
    <3>3. Inside' \subseteq {l}
      BY <3>1 DEF Inside, CallLabels
    <3> QED
      BY <2>1, <3>1, <3>2, <3>3 DEF OneCaller, CallLabels
  <2>5. Fresh' /\ OneConnection'
    BY <1>0, <2>1, <2>3 DEF Alone, Fresh, OneConnection
  <2>6. SoundStore'
    BY <1>0, <2>1, SoundStays DEF Alone, SoundStore
  <2> QED
    BY <2>4, <2>5, <2>6 DEF Alone
<1>8. ASSUME NEW l \in Loops, SetNames(l) PROVE Alone'
  <2>1. /\ pc[l] = "names" /\ pc' = [pc EXCEPT ![l] = "connect"] /\ method_name' = nested[l].kind
        /\ UNCHANGED <<table, up, down, m_clientfd, nested, on, cache, asked, severed>>
    BY <1>8 DEF SetNames, Goto, net, outside, history
  <2>2. m_clientfd = -1
    BY <1>0, <2>1 DEF Alone, OneCaller
  <2>3. OneCaller'
    <3>1. \A k \in Loops : pc'[k] \in CallLabels => k = l
      BY <1>a, <2>1 DEF CallLabels, Types, LoopTypes
    <3>2. pc'[l] = "connect"
      BY <2>1 DEF Types, LoopTypes
    <3>3. Inside' \subseteq {l}
      BY <3>1 DEF Inside, CallLabels
    <3> QED
      BY <2>1, <2>2, <3>1, <3>2, <3>3 DEF OneCaller, CallLabels
  <2>4. Fresh' /\ OneConnection'
    BY <1>0, <2>1, <2>2 DEF Alone, Fresh, OneConnection
  <2>5. SoundStore'
    BY <1>0, <2>1, SoundStays DEF Alone, SoundStore
  <2> QED
    BY <2>3, <2>4, <2>5 DEF Alone
<1>9. ASSUME NEW l \in Loops, Connect(l) PROVE Alone'
  <2>1. PICK g \in Fds : table' = [[table EXCEPT ![m_clientfd'] = <<"out", l>>] EXCEPT ![g] = <<"in", l>>]
    BY <1>9, ConnectFact
  <2>2. /\ pc[l] = "connect" /\ pc' = [pc EXCEPT ![l] = "send"] /\ m_clientfd' \in Fds
        /\ UNCHANGED <<up, down, method_name, nested, on, cache, asked, severed>>
    BY <1>9, ConnectFact DEF outside, history
  <2>3. m_clientfd = -1 /\ method_name = nested[l].kind
    BY <1>0, <2>2 DEF Alone, OneCaller
  <2>4. /\ ~severed /\ up[l] = <<>> /\ down[l] = <<>>
        /\ \A f \in Fds : \A o \in Loops : table[f] # <<"out", o>>
    BY <1>0, <2>3 DEF Alone, Fresh
  <2>5. pc'[l] = "send" /\ \A k \in Loops : pc'[k] \in CallLabels => k = l
    BY <1>a, <2>2 DEF CallLabels, Types, LoopTypes
  <2>6. OneCaller'
    <3>1. Inside' \subseteq {l}
      BY <2>5 DEF Inside, CallLabels
    <3> QED
      BY <2>5, <3>1 DEF OneCaller, CallLabels
  <2>7. Fresh'
    <3>1. m_clientfd' # -1
      BY <2>2, ConstantsAssumption
    <3> QED
      BY <3>1 DEF Fresh
  <2>8. OneConnection'
    <3>1. ASSUME NEW f \in Fds, NEW o \in Loops, table'[f] = <<"out", o>> PROVE f = m_clientfd' /\ o = l
      BY <2>1, <2>4, <3>1 DEF Types, NetTypes
    <3>2. down'[l] \in Seq(SoundReplies(nested[l].kind, nested[l].key)) /\ DOMAIN up'[l] = {}
      BY <2>2, <2>4
    <3>3. Live(l)'
      BY <2>2, <2>3, <2>5, <3>2, SoundStays DEF Live
    <3>4. ~severed'
      BY <2>2, <2>4
    <3> QED
      BY <3>1, <3>3, <3>4, Zenon DEF OneConnection
  <2>9. SoundStore'
    BY <1>0, <2>2, SoundStays DEF Alone, SoundStore
  <2> QED
    BY <2>6, <2>7, <2>8, <2>9 DEF Alone
<1>9a. ASSUME NEW l \in Loops, ConnectUnaccepted(l) PROVE Alone'
  <2>1. table' = [table EXCEPT ![m_clientfd'] = <<"out", l>>]
    BY <1>9a, UnacceptedFact
  <2>2. /\ pc[l] = "connect" /\ pc' = [pc EXCEPT ![l] = "send"] /\ m_clientfd' \in Fds
        /\ UNCHANGED <<up, down, method_name, nested, on, cache, asked, severed>>
    BY <1>9a, UnacceptedFact DEF net, outside, history
  <2>3. m_clientfd = -1 /\ method_name = nested[l].kind
    BY <1>0, <2>2 DEF Alone, OneCaller
  <2>4. /\ ~severed /\ up[l] = <<>> /\ down[l] = <<>>
        /\ \A f \in Fds : \A o \in Loops : table[f] # <<"out", o>>
    BY <1>0, <2>3 DEF Alone, Fresh
  <2>5. pc'[l] = "send" /\ \A k \in Loops : pc'[k] \in CallLabels => k = l
    BY <1>a, <2>2 DEF CallLabels, Types, LoopTypes
  <2>6. OneCaller'
    <3>1. Inside' \subseteq {l}
      BY <2>5 DEF Inside, CallLabels
    <3> QED
      BY <2>5, <3>1 DEF OneCaller, CallLabels
  <2>7. Fresh'
    <3>1. m_clientfd' # -1
      BY <2>2, ConstantsAssumption
    <3> QED
      BY <3>1 DEF Fresh
  <2>8. OneConnection'
    <3>1. ASSUME NEW f \in Fds, NEW o \in Loops, table'[f] = <<"out", o>> PROVE f = m_clientfd' /\ o = l
      BY <2>1, <2>4, <3>1 DEF Types, NetTypes
    <3>2. down'[l] \in Seq(SoundReplies(nested[l].kind, nested[l].key)) /\ DOMAIN up'[l] = {}
      BY <2>2, <2>4
    <3>3. Live(l)'
      BY <2>2, <2>3, <2>5, <3>2, SoundStays DEF Live
    <3>4. ~severed'
      BY <2>2, <2>4
    <3> QED
      BY <3>1, <3>3, <3>4, Zenon DEF OneConnection
  <2>9. SoundStore'
    BY <1>0, <2>2, SoundStays DEF Alone, SoundStore
  <2> QED
    BY <2>6, <2>7, <2>8, <2>9 DEF Alone
<1>10. ASSUME NEW l \in Loops, Send(l) PROVE Alone'
  <2>1. PICK item \in CacheRequests : /\ Put(m_clientfd, item)
                 /\ item.name = method_name /\ item.kind = nested[l].kind
                 /\ item.key = nested[l].key /\ item.value = nested[l].value
    BY <1>10, SendFact
  <2>2. /\ pc[l] = "send" /\ pc' = [pc EXCEPT ![l] = "recv"]
        /\ ~Reset(EndOf(m_clientfd))
        /\ UNCHANGED <<table, m_clientfd, method_name, nested, on, cache, asked, severed>>
    BY <1>10, SendFact DEF chan, outside, history
  <2>3. pc'[l] = "recv" /\ \A k \in Loops : pc'[k] \in CallLabels => k = l
    BY <1>a, <2>2 DEF CallLabels, Types, LoopTypes
  <2>4. OneCaller'
    <3>1. Inside' \subseteq {l}
      BY <2>3 DEF Inside, CallLabels
    <3> QED
      BY <2>3, <3>1 DEF OneCaller, CallLabels
  <2>5. ASSUME NEW f \in Fds, NEW o \in Loops, table[f] = <<"out", o>>
        PROVE  o = l /\ f = m_clientfd /\ ~severed /\ Live(l)
    <3>1. /\ f = m_clientfd /\ ~severed
          /\ (o = l /\ Live(l)) \/ Broken(o)
      BY <1>0, <2>2, <2>5, OneOut DEF CallLabels
    <3>2. EndOf(m_clientfd) = <<"out", o>>
      BY <2>5, <3>1 DEF EndOf
    <3>3. ~Reset(<<"out", o>>)
      BY <2>2, <3>2
    <3> QED
      BY <3>1, <3>3, ResetFact DEF Broken
  <2>6. CASE up' = up /\ down' = down
    <3>1. Fresh'
      BY <1>0, <2>2, <2>6 DEF Alone, Fresh
    <3>2. OneConnection'
      <4>1. Live(l) => Live(l)'
        BY <2>2, <2>3, <2>6, SoundStays DEF Live
      <4> QED
        BY <2>2, <2>5, <4>1 DEF OneConnection
    <3>3. SoundStore'
      BY <1>0, <2>2, <2>6, SoundStays DEF Alone, SoundStore
    <3> QED
      BY <2>4, <3>1, <3>2, <3>3 DEF Alone
  <2>7. ASSUME NEW c \in Conns, m_clientfd \in Fds, table[m_clientfd] = <<"in", c>>, up' = up
        PROVE  Alone'
    <3>1. \A f \in Fds : \A o \in Loops : table[f] # <<"out", o>>
      BY <2>5, <2>7
    <3>2. Fresh'
      BY <2>2, <2>7, ConstantsAssumption DEF Fresh
    <3>3. OneConnection'
      BY <2>2, <3>1 DEF OneConnection
    <3>4. SoundStore'
      BY <1>0, <2>2, <2>7, SoundStays DEF Alone, SoundStore
    <3> QED
      BY <2>4, <3>2, <3>3, <3>4 DEF Alone
  <2>8. ASSUME NEW o \in Loops, m_clientfd \in Fds, table[m_clientfd] = <<"out", o>>, down' = down,
               up' = [up EXCEPT ![o] = Append(up[o], item)]
        PROVE  Alone'
    <3>1. o = l /\ ~severed /\ Live(l)
      BY <2>5, <2>8
    <3>2. /\ ~severed /\ method_name = nested[l].kind
          /\ \A i \in DOMAIN up[l] : up[l][i].name = nested[l].kind /\ up[l][i].key = nested[l].key
          /\ down[l] \in Seq(SoundReplies(nested[l].kind, nested[l].key))
      BY <3>1 DEF Live
    <3>3. item \in SoundRequests
      <4>1. Handling(l)
        BY <2>2 DEF Handled
      <4>2. nested[l].kind = "Set" => nested[l].value \in Own(nested[l].key)
        BY <4>1 DEF Handling, Own
      <4> QED
        BY <2>1, <3>2, <4>2 DEF SoundRequests
    <3>4. /\ up'[l] = Append(up[l], item) /\ \A k \in Loops \ {l} : up'[k] = up[k]
          /\ up[l] \in Seq(SoundRequests)
      BY <1>0, <2>8, <3>1 DEF Alone, SoundStore, Types, NetTypes, Conns
    <3>5. Fresh'
      BY <2>2, <2>8, ConstantsAssumption DEF Fresh
    <3>6. OneConnection'
      <4>1. \A i \in DOMAIN up'[l] : up'[l][i].name = nested[l].kind /\ up'[l][i].key = nested[l].key
        <5> SUFFICES ASSUME NEW i \in DOMAIN up'[l]
                     PROVE  up'[l][i].name = nested[l].kind /\ up'[l][i].key = nested[l].key
          OBVIOUS
        <5>1. up'[l][i] = item \/ (i \in DOMAIN up[l] /\ up'[l][i] = up[l][i])
          BY <3>4
        <5> QED
          BY <2>1, <3>2, <5>1
      <4> QED
        <5>1. Live(l)'
          BY <2>2, <2>3, <2>8, <3>2, <4>1, SoundStays DEF Live
        <5> QED
          BY <2>2, <2>5, <5>1 DEF OneConnection
    <3>7. SoundStore'
      <4>1. up'[l] \in Seq(SoundRequests)
        BY <3>3, <3>4
      <4>2. \A k \in Loops : up'[k] \in Seq(SoundRequests)
        BY <1>0, <3>4, <4>1 DEF Alone, SoundStore
      <4> QED
        BY <1>0, <2>2, <4>2, SoundStays DEF Alone, SoundStore
    <3> QED
      BY <2>4, <3>5, <3>6, <3>7 DEF Alone
  <2> QED
    BY <2>1, <2>6, <2>7, <2>8, PutFact DEF Types
<1>11. ASSUME NEW l \in Loops, RecvBlocks(l) PROVE Alone'
  <2>1. /\ pc[l] = "recv" /\ pc' = [pc EXCEPT ![l] = "blocked"] /\ EndOf(m_clientfd)[1] = "out"
        /\ on' = [on EXCEPT ![l] = EndOf(m_clientfd)[2]]
        /\ UNCHANGED <<table, up, down, m_clientfd, method_name, nested, cache, asked, severed>>
    BY <1>11 DEF RecvBlocks, Goto, net, chan, outside, history
  <2>2. m_clientfd \in Fds /\ table[m_clientfd] = <<"out", l>> /\ EndOf(m_clientfd)[2] = l
    <3>1. PICK o \in Loops : m_clientfd \in Fds /\ table[m_clientfd] = <<"out", o>> /\ EndOf(m_clientfd)[2] = o
      BY <2>1, EndFact DEF Types
    <3>2. o = l
      BY <1>0, <2>1, <3>1, OneOut DEF CallLabels
    <3> QED
      BY <3>1, <3>2
  <2>3. /\ pc'[l] = "blocked" /\ on'[l] = l /\ \A k \in Loops : pc'[k] \in CallLabels => k = l
        /\ \A k \in Loops : pc[k] \in {"send", "recv", "blocked"} => pc'[k] \in {"send", "recv", "blocked"}
    BY <1>a, <2>1, <2>2 DEF CallLabels, Types, LoopTypes
  <2>4. OneCaller'
    <3>1. Inside' \subseteq {l}
      BY <2>3 DEF Inside, CallLabels
    <3> QED
      BY <2>1, <2>2, <2>3, <3>1 DEF OneCaller, CallLabels
  <2>5. Fresh'
    BY <1>0, <2>1 DEF Alone, Fresh
  <2>6. OneConnection'
    <3>1. UNCHANGED <<table, up, down, m_clientfd, method_name, nested, asked, severed>>
      BY <2>1
    <3>2. Live(l) => Live(l)'
      BY <2>3, <3>1, SoundStays DEF Live
    <3>3. \A f \in Fds : \A o \in Loops : table[f] = <<"out", o>> =>
                                          o = l /\ f = m_clientfd /\ ~severed /\ Live(l)
      BY <1>0, <2>1, OneOut DEF CallLabels
    <3> QED
      BY <3>1, <3>2, <3>3 DEF OneConnection
  <2>7. SoundStore'
    BY <1>0, <2>1, SoundStays DEF Alone, SoundStore
  <2> QED
    BY <2>4, <2>5, <2>6, <2>7 DEF Alone
<1>12. ASSUME NEW l \in Loops, pc[l] \in CallLabels, NEW got, Return(l, got)
       PROVE  \A k \in Loops : pc'[k] \notin CallLabels
  <2>1. PICK p \in {"call", "answer"} : pc' = [pc EXCEPT ![l] = p]
    BY <1>12, ReturnLabels
  <2> QED
    BY <1>a, <1>12, <2>1 DEF CallLabels, Types, LoopTypes
<1>13. ASSUME NEW l \in Loops, Returned(l) PROVE Alone'
  <2>1. /\ pc[l] \in CallLabels /\ Return(l, <<>>)
        /\ UNCHANGED <<down, m_clientfd, cache, asked>>
    BY <1>13, ReturnedFact DEF CallLabels, chan, outside
  <2>2. \A o \in Loops : up'[o] = up[o] \/ up'[o] = <<>>
    <3>1. up' = up \/ \E x : up' = [up EXCEPT ![x] = <<>>]
      BY <1>13, ReturnedFact
    <3> QED
      BY <3>1 DEF Types, NetTypes, Conns
  <2>3. /\ \A f \in Fds : \A o \in Loops : table'[f] # <<"out", o>>
        /\ m_clientfd = -1 => (severed' => severed)
    <3>1. CASE CloseClientfd
      BY <1>0, <2>1, <3>1, ClosedOut
    <3>2. CASE /\ table' = table /\ severed' = severed
               /\ pc[l] = "connect" \/ EndOf(m_clientfd)[1] # "out"
      <4>1. ASSUME NEW f \in Fds, NEW o \in Loops, table[f] = <<"out", o>> PROVE FALSE
        <5>1. f = m_clientfd /\ pc[l] # "connect"
          <6>1. f = m_clientfd
            BY <1>0, <2>1, <4>1, OneOut
          <6>2. pc[l] = "connect" => m_clientfd = -1
            BY <1>0 DEF Alone, OneCaller
          <6> QED
            BY <6>1, <6>2, ConstantsAssumption
        <5>2. EndOf(m_clientfd) = <<"out", o>>
          BY <4>1, <5>1 DEF EndOf
        <5>3. EndOf(m_clientfd)[1] = "out"
          BY <5>2
        <5> QED
          BY <3>2, <5>1, <5>3
      <4> QED
        BY <3>2, <4>1
    <3> QED
      BY <1>13, <3>1, <3>2, ReturnedFact
  <2>4. \A k \in Loops : pc'[k] \notin CallLabels
    BY <1>12, <2>1
  <2> QED
    BY <1>0, <2>1, <2>2, <2>3, <2>4, AloneLeft
<1>14. ASSUME NEW l \in Loops, RecvReturns(l) PROVE Alone'
  <2>1. pc[l] \in CallLabels /\ pc[l] = "blocked" /\ UNCHANGED <<up, m_clientfd, cache, asked>>
    BY <1>14, RecvReturnsFact DEF CallLabels, chan, outside
  <2>2. on[l] = l /\ m_clientfd # -1
    <3>1. on[l] = l /\ m_clientfd \in Fds
      BY <1>0, <2>1 DEF Alone, OneCaller
    <3> QED
      BY <3>1, ConstantsAssumption
  <2>4. \A k \in Loops : pc'[k] \notin CallLabels
    <3>1a. PICK n \in Nat : \E got : Return(l, got)
      BY <1>14, RecvReturnsFact
    <3>1. PICK got : Return(l, got)
      BY <3>1a
    <3> QED
      BY <1>12, <2>1, <3>1
  <2>3. \A f \in Fds : \A o \in Loops : table'[f] = <<"out", o>> =>
                                        f = m_clientfd /\ ~severed' /\ Broken(o)'
    <3>1. CASE CloseClientfd
      BY <1>0, <2>1, <3>1, ClosedOut
    <3>2. CASE UNCHANGED <<table, severed>> /\ Reset(<<"out", on[l]>>)
      <4>1. up[l] # <<>> /\ \A f \in Fds : table[f] # <<"in", l>>
        BY <2>2, <3>2, ResetFact
      <4>2. Broken(l)'
        BY <2>1, <2>4, <3>2, <4>1 DEF Broken, CallLabels
      <4>3. \A f \in Fds : \A o \in Loops : table[f] = <<"out", o>> => o = l /\ f = m_clientfd /\ ~severed
        BY <1>0, <2>1, OneOut
      <4> QED
        BY <3>2, <4>2, <4>3
    <3> QED
      BY <1>14, <3>1, <3>2, RecvReturnsCloses
  <2> QED
    BY <1>0, <2>1, <2>2, <2>3, <2>4, AloneLeft
<1>15. ASSUME NEW l \in Loops, NotFound(l) PROVE Alone'
  <2>1. /\ pc[l] \in CallLabels /\ pc' = [k \in Loops |-> "dead"] /\ table' = [f \in Fds |-> NoEnd]
        /\ UNCHANGED <<up, down, m_clientfd, cache, asked, severed>>
    BY <1>15 DEF NotFound, CallLabels, net, chan, outside, history
  <2>2. \A f \in Fds : \A o \in Loops : table'[f] # <<"out", o>>
    BY <2>1 DEF NoEnd
  <2>3. \A k \in Loops : pc'[k] \notin CallLabels
    BY <2>1 DEF CallLabels
  <2> QED
    BY <1>0, <2>1, <2>2, <2>3, AloneLeft
<1> QED
  BY <1>1, <1>2, <1>3, <1>4, <1>5, <1>6, <1>7, <1>8, <1>9, <1>9a, <1>10, <1>11, <1>13, <1>14, <1>15
     DEF Next, Loop, CallMethod, Returned

-----------------------------------------------------------------------------
(* What the callers are answered.                                          *)

ResultsInv == ~(overlap /\ unconnected) => Results

\* A handler that got no hit, or a true one, answers what its request is due.
LEMMA ReturnRight ==
    ASSUME Types, NEW l \in Loops, pc[l] \in {"connect", "send", "recv", "blocked"}, Handling(l),
           NEW n \in Nat, NEW got, DOMAIN got = 1 .. n,
           \/ \A i \in 1 .. n : ~got[i].exists
           \/ \A i \in 1 .. n : got[i] \in SoundReplies(nested[l].kind, nested[l].key),
           Return(l, got)
    PROVE  \/ pc'[l] = "call"
           \/ pc'[l] = "answer" /\ job'[l].result = Local(job[l].request) /\ job'[l].request = job[l].request
<1> DEFINE r == job[l].request
           filled == {i \in DOMAIN got : got[i].value # Empty}
           value == IF filled = {} THEN Empty
                    ELSE got[CHOOSE i \in filled : \A j \in filled : j <= i].value
           hit == /\ \E i \in DOMAIN got : got[i].name = nested[l].kind /\ got[i].exists
                  /\ r[1] = "GetUserProfile" => value # Empty
<1>1. /\ nested[l].key = Key(r) /\ nested[l].kind \in {FirstCall(r), "Set"}
      /\ OtherTypes
  BY DEF Handling, Types
<1>2. hit => FromCache(r, value) = Local(r)
  <2> SUFFICES ASSUME hit PROVE FromCache(r, value) = Local(r)
    OBVIOUS
  <2>1. PICK i \in 1 .. n : got[i].name = nested[l].kind /\ got[i].exists
    OBVIOUS
  <2>2. \A j \in 1 .. n : got[j] \in SoundReplies(nested[l].kind, nested[l].key)
    BY <2>1
  <2>3. nested[l].kind \in {"Get", "Exists"}
    BY <2>1, <2>2 DEF SoundReplies, Replies
  <2>4. CASE nested[l].kind = "Exists"
    <3>1. r[1] = "Login"
      BY <1>1, <2>4 DEF FirstCall
    <3> QED
      BY <3>1 DEF FromCache
  <2>5. CASE nested[l].kind = "Get"
    <3>1. \A j \in 1 .. n : got[j].value \in Own(Key(r)) \/ (got[j].value = Empty /\ ~got[j].exists)
      BY <1>1, <2>2, <2>5 DEF SoundReplies
    <3>2. \A v \in Own(Key(r)) : v = Local(r) /\ v # Empty
      BY KeyDecides, LocalFact DEF Own
    <3>3. i \in filled
      BY <2>1, <3>1, <3>2
    <3>4. \E k \in filled : \A j \in filled : j <= k
      BY <3>3, MaxExists
    <3>5. PICK m \in filled : m = CHOOSE k \in filled : \A j \in filled : j <= k
      BY <3>4
    <3>6. value = got[m].value
      BY <3>3, <3>5
    <3>7. value = Local(r)
      BY <3>1, <3>2, <3>6
    <3> QED
      BY <3>7, LocalFact
  <2> QED
    BY <2>3, <2>4, <2>5
<1>3. \/ pc' = [pc EXCEPT ![l] = "call"]
      \/ /\ pc' = [pc EXCEPT ![l] = "answer"]
         /\ job' = [job EXCEPT ![l].result = IF hit THEN FromCache(r, value) ELSE Local(r)]
  BY DEF Return, Goto
<1> HIDE DEF value, hit
<1> QED
  BY <1>2, <1>3 DEF Types, LoopTypes

LEMMA ResultsStay ==
    ASSUME Results, asked' = asked, severed => severed',
           \A l \in Loops : pc'[l] = "answer" =>
              \/ pc[l] = "answer" /\ job'[l] = job[l]
              \/ job'[l].result = Local(job'[l].request),
           \A c \in Clients : /\ answer'[c] = answer[c]
                              /\ \A i \in DOMAIN down'[c] : down'[c][i].type = "reply" =>
                                    \E j \in DOMAIN down[c] : down'[c][i] = down[c][j]
    PROVE  Results'
<1>1. \A c \in Clients : Due(c) \subseteq Due(c)'
  BY DEF Due
<1>2. \A l \in Loops : pc'[l] = "answer" => job'[l].result = Local(job'[l].request)
  BY DEF Results
<1>3. ASSUME NEW c \in Clients
      PROVE  /\ \A i \in DOMAIN down'[c] : down'[c][i].type = "reply" => down'[c][i].value \in Due(c)'
             /\ answer'[c] \in {Absent} \cup Due(c)'
  BY <1>1 DEF Results
<1> QED
  BY <1>2, <1>3 DEF Results

LEMMA InitResults == Init => ResultsInv
BY DEF Init, ResultsInv, Results, Conns

LEMMA NextResults ==
    ASSUME Types, Handled, QuietInv, AloneInv, ResultsInv, [Next]_vars
    PROVE  ResultsInv'
<1>0. SUFFICES ASSUME Results, ~unconnected \/ ~overlap, Quiet \/ Alone PROVE Results'
  <2>1. overlap => overlap'
    BY Remembered
  <2> QED
    BY <2>1, Remembered DEF ResultsInv, QuietInv, AloneInv
<1> DEFINE Stays(c) == \A i \in DOMAIN down'[c] : down'[c][i].type = "reply" =>
                          \E j \in DOMAIN down[c] : down'[c][i] = down[c][j]
<1>1. CASE UNCHANGED vars
  <2>1. UNCHANGED <<asked, severed, pc, job, answer, down>>
    BY <1>1 DEF vars, net, outside, history
  <2> QED
    BY <1>0, <2>1, ResultsStay
<1>2. ASSUME NEW c \in Clients, Ask(c) PROVE Results'
  <2>1. UNCHANGED <<asked, severed, pc, job, answer, down>>
    BY <1>2, AskFact DEF history
  <2> QED
    BY <1>0, <2>1, ResultsStay
<1>3. ASSUME NEW c \in Clients, Receive(c) PROVE Results'
  <2>1. /\ UNCHANGED <<asked, severed, pc, job>> /\ down' = [down EXCEPT ![c] = <<>>]
        /\ \/ answer' = answer
           \/ \E i \in DOMAIN down[c] : /\ down[c][i].type = "reply"
                                        /\ answer' = [answer EXCEPT ![c] = down[c][i].value]
    BY <1>3, ReceiveFact DEF history
  <2>2. \A d \in Clients : Due(d)' = Due(d)
    BY <2>1 DEF Due
  <2>3. \A d \in Clients : answer'[d] \in {Absent} \cup Due(d)
    <3>1. CASE answer' = answer
      BY <1>0, <3>1 DEF Results
    <3>2. ASSUME NEW i \in DOMAIN down[c], down[c][i].type = "reply",
                 answer' = [answer EXCEPT ![c] = down[c][i].value]
          PROVE  \A d \in Clients : answer'[d] \in {Absent} \cup Due(d)
      <4>1. down[c][i].value \in Due(c)
        BY <1>0, <3>2 DEF Results
      <4> QED
        BY <1>0, <3>2, <4>1 DEF Results, Types, OtherTypes
    <3> QED
      BY <2>1, <3>1, <3>2
  <2>4. \A d \in Clients : \A i \in DOMAIN down'[d] : down'[d][i].type = "reply" => down'[d][i].value \in Due(d)
    <3> TAKE d \in Clients
    <3>1. CASE d = c
      BY <2>1, <3>1 DEF Types, NetTypes, Conns
    <3>2. CASE d # c
      BY <1>0, <2>1, <3>2 DEF Results, Types, NetTypes, Conns
    <3> QED
      BY <3>1, <3>2
  <2>5. \A l \in Loops : pc'[l] = "answer" => job'[l].result = Local(job'[l].request)
    BY <1>0, <2>1 DEF Results
  <2> QED
    BY <2>2, <2>3, <2>4, <2>5 DEF Results
<1>4. ASSUME NEW l \in Loops, NEW c \in Conns, OnMessage(l, c) PROVE Results'
  <2>1. UNCHANGED <<asked, severed, answer>> /\ up[c] # <<>>
    BY <1>4, OnMessageFact DEF Types, outside, history
  <2>2. CASE /\ Head(up[c]) \in UserRequests
             /\ job' = [job EXCEPT ![l] =
                          [conn |-> c, request |-> Head(up[c]).call, result |-> Absent]]
             /\ pc' = [pc EXCEPT ![l] = "call"] /\ UNCHANGED <<down, cache>>
    <3>1. \A k \in Loops : pc'[k] = "answer" => pc[k] = "answer" /\ job'[k] = job[k]
      BY <2>2 DEF Types, LoopTypes
    <3>2. down' = down
      BY <2>2
    <3> QED
      BY <1>0, <2>1, <3>1, <3>2, ResultsStay
  <2>3. CASE /\ Head(up[c]) \in CacheRequests \cup Answers
             /\ UNCHANGED <<job, pc>>
             /\ down' = [down EXCEPT ![c] = Append(down[c], Reply(Head(up[c])))]
    <3>1. c \notin Clients
      BY <2>1, <2>3, WhoSends
    <3>2. \A d \in Clients : down'[d] = down[d]
      BY <2>3, <3>1 DEF Types, NetTypes, Conns
    <3>3. UNCHANGED <<job, pc>>
      BY <2>3
    <3> QED
      BY <1>0, <2>1, <3>2, <3>3, ResultsStay
  <2> QED
    BY <1>4, <2>2, <2>3, OnMessageFact DEF Types
<1>5. ASSUME NEW l \in Loops, Answer(l) PROVE Results'
  <2>1. /\ pc[l] = "answer" /\ pc' = [pc EXCEPT ![l] = "poll"] /\ job' = [job EXCEPT ![l] = NoJob]
        /\ UNCHANGED <<asked, severed, answer>>
    BY <1>5, AnswerFact DEF outside, history
  <2>2. \A k \in Loops : pc'[k] = "answer" => pc[k] = "answer" /\ job'[k] = job[k]
    BY <2>1 DEF Types, LoopTypes
  <2>3. CASE down' = down
    BY <1>0, <2>1, <2>2, <2>3, ResultsStay
  <2>4. ASSUME NEW item, item.value = job[l].result, NEW c \in Conns,
               inFd[job[l].conn] \in Fds, table[inFd[job[l].conn]] = <<"in", c>>,
               down' = [down EXCEPT ![c] = Append(down[c], item)]
        PROVE  Results'
    <3>1. /\ job[l].conn \in DOMAIN asked /\ job[l].request = asked[job[l].conn]
          /\ ~severed => c = job[l].conn
      BY <2>1, <2>4 DEF Handled, Handling
    <3>2. item.value \in Due(c)
      BY <1>0, <2>1, <2>4, <3>1 DEF Results, Due
    <3>3. \A d \in Clients : Due(d)' = Due(d)
      BY <2>1 DEF Due
    <3>4. ASSUME NEW d \in Clients, NEW i \in DOMAIN down'[d], down'[d][i].type = "reply"
          PROVE  down'[d][i].value \in Due(d)
      <4>1. d \in Conns /\ down[d] \in Seq(Downs)
        BY DEF Conns, Types, NetTypes
      <4>2. CASE d # c
        <5>1. down'[d] = down[d]
          BY <2>4, <4>1, <4>2 DEF Types, NetTypes
        <5> QED
          BY <1>0, <3>4, <5>1 DEF Results
      <4>3. CASE d = c
        <5>1. down'[d] = Append(down[d], item)
          BY <2>4, <4>1, <4>3 DEF Types, NetTypes
        <5>2. down'[d][i] = item \/ (i \in DOMAIN down[d] /\ down'[d][i] = down[d][i])
          BY <3>4, <4>1, <5>1
        <5> QED
          BY <1>0, <3>2, <3>4, <4>3, <5>2 DEF Results
      <4> QED
        BY <4>2, <4>3
    <3>5. \A d \in Clients : answer'[d] \in {Absent} \cup Due(d)
      BY <1>0, <2>1 DEF Results
    <3>6. \A k \in Loops : pc'[k] = "answer" => job'[k].result = Local(job'[k].request)
      BY <1>0, <2>2 DEF Results
    <3> QED
      BY <3>3, <3>4, <3>5, <3>6 DEF Results
  <2>5. ASSUME NEW item, item.value = job[l].result, Put(inFd[job[l].conn], item) PROVE Results'
    BY <2>3, <2>4, <2>5, PutFact DEF Types
  <2> QED
    BY <1>5, <2>3, <2>5, AnswerFact
<1>6. ASSUME NEW l \in Loops, Send(l) PROVE Results'
  <2>1. /\ pc[l] = "send" /\ pc' = [pc EXCEPT ![l] = "recv"]
        /\ UNCHANGED <<asked, severed, job, answer>>
    BY <1>6, SendFact DEF outside, history
  <2>2. \A k \in Loops : pc'[k] = "answer" => pc[k] = "answer" /\ job'[k] = job[k]
    BY <2>1 DEF Types, LoopTypes
  <2>3. PICK item \in CacheRequests : Put(m_clientfd, item)
    BY <1>6, SendFact
  <2>4. ASSUME NEW d \in Clients PROVE Stays(d)
    <3>1. item.type # "reply"
      BY DEF CacheRequests
    <3>2. d \in Conns /\ down[d] \in Seq(Downs)
      BY DEF Conns, Types, NetTypes
    <3>3. down' = down \/ \E c \in Conns : down' = [down EXCEPT ![c] = Append(down[c], item)]
      BY <2>3, PutFact DEF Types
    <3>4. down'[d] = down[d] \/ down'[d] = Append(down[d], item)
      BY <3>2, <3>3 DEF Types, NetTypes
    <3> QED
      BY <3>1, <3>2, <3>4
  <2> QED
    BY <1>0, <2>1, <2>2, <2>4, ResultsStay
\* A cache call that returns: the other loops' jobs stay, this one's is right.
<1>7. ASSUME NEW l \in Loops, pc[l] \in {"connect", "send", "recv", "blocked"}, Handling(l),
             NEW n \in Nat, NEW got, DOMAIN got = 1 .. n, \A i \in 1 .. n : got[i].value \in Vals,
             \/ \A i \in 1 .. n : ~got[i].exists
             \/ \A i \in 1 .. n : got[i] \in SoundReplies(nested[l].kind, nested[l].key),
             Return(l, got)
      PROVE  \A k \in Loops : pc'[k] = "answer" =>
                \/ pc[k] = "answer" /\ job'[k] = job[k]
                \/ job'[k].result = Local(job'[k].request)
  <2>1. \A k \in Loops \ {l} : pc'[k] = pc[k] /\ job'[k] = job[k]
    <3>1. \E p : pc' = [pc EXCEPT ![l] = p]
      BY <1>7, ReturnLabels
    <3>2. job' = job \/ \E v \in Vals : job' = [job EXCEPT ![l].result = v]
      BY <1>7, ReturnFact
    <3> QED
      BY <3>1, <3>2 DEF Types, LoopTypes
  <2>2. \/ pc'[l] = "call"
        \/ job'[l].result = Local(job'[l].request)
    <3>1. \/ pc'[l] = "call"
          \/ pc'[l] = "answer" /\ job'[l].result = Local(job[l].request) /\ job'[l].request = job[l].request
      BY <1>7, ReturnRight
    <3> QED
      BY <3>1
  <2> QED
    BY <2>1, <2>2
<1>8. ASSUME NEW l \in Loops, Returned(l) PROVE Results'
  <2>1. /\ pc[l] \in {"connect", "send", "recv", "blocked"} /\ Return(l, <<>>)
        /\ UNCHANGED <<down, asked, answer>>
    BY <1>8, ReturnedFact DEF outside
  <2>2. severed => severed'
    BY <1>8, ReturnedFact, CloseFact
  <2>3. Handling(l)
    BY <2>1 DEF Handled
  <2>4. \A i \in 1 .. 0 : ~<<>>[i].exists
    OBVIOUS
  <2>5. \A k \in Loops : pc'[k] = "answer" =>
                \/ pc[k] = "answer" /\ job'[k] = job[k]
                \/ job'[k].result = Local(job'[k].request)
    BY <1>7, <2>1, <2>3, <2>4, NoReply
  <2> QED
    BY <1>0, <2>1, <2>2, <2>5, ResultsStay
<1>9. ASSUME NEW l \in Loops, RecvReturns(l) PROVE Results'
  <2>1. /\ pc[l] = "blocked" /\ UNCHANGED <<asked, answer>> /\ on[l] \in Conns
    BY <1>9, RecvReturnsFact DEF outside, Types, LoopTypes
  <2>2. severed => severed'
    BY <1>9, RecvReturnsCloses, CloseFact
  <2>3. Handling(l)
    BY <2>1 DEF Handled
  <2>4a. PICK n \in Nat : \E got : /\ DOMAIN got = 1 .. n /\ Return(l, got)
                                   /\ \A i \in 1 .. n : /\ got[i] \in Replies /\ got[i].value \in Vals
                                                        /\ \E j \in DOMAIN down[on[l]] : got[i] = down[on[l]][j]
    BY <1>9, RecvReturnsFact
  <2>4. PICK got : /\ DOMAIN got = 1 .. n /\ Return(l, got)
                   /\ \A i \in 1 .. n : /\ got[i] \in Replies /\ got[i].value \in Vals
                                        /\ \E j \in DOMAIN down[on[l]] : got[i] = down[on[l]][j]
    BY <2>4a
  <2>5. \/ \A i \in 1 .. n : ~got[i].exists
        \/ \A i \in 1 .. n : got[i] \in SoundReplies(nested[l].kind, nested[l].key)
    <3>1. CASE Quiet
      <4>1. down[on[l]] \in Seq(QuietDowns)
        BY <2>1, <3>1 DEF Quiet
      <4>2. \A i \in 1 .. n : got[i] \in QuietDowns
        BY <2>4, <4>1
      <4>3. \A p \in Replies \cap CacheRequests : FALSE
        BY DEF Replies, CacheRequests
      <4> QED
        BY <2>4, <4>2, <4>3 DEF QuietDowns
    <3>2. CASE Alone
      <4>1. on[l] = l /\ m_clientfd \in Fds /\ table[m_clientfd] = <<"out", l>>
        BY <2>1, <3>2 DEF Alone, OneCaller
      <4>2. down[l] \in Seq(SoundReplies(nested[l].kind, nested[l].key))
        BY <2>1, <3>2, <4>1 DEF Alone, OneConnection, Live, Broken
      <4> QED
        BY <2>4, <4>1, <4>2
    <3> QED
      BY <1>0, <3>1, <3>2
  <2>6. \A k \in Loops : pc'[k] = "answer" =>
                \/ pc[k] = "answer" /\ job'[k] = job[k]
                \/ job'[k].result = Local(job'[k].request)
    BY <1>7, <2>1, <2>3, <2>4, <2>5
  <2>7. PICK left \in Seq(Downs) : /\ down' = [down EXCEPT ![on[l]] = left]
           /\ \A i \in DOMAIN left : \E j \in DOMAIN down[on[l]] : left[i] = down[on[l]][j]
    BY <1>9, RecvReturnsFact
  <2>8. ASSUME NEW d \in Clients PROVE Stays(d)
    <3>1. d \in Conns
      BY DEF Conns
    <3>2. CASE d = on[l]
      BY <2>7, <3>1, <3>2 DEF Types, NetTypes
    <3>3. CASE d # on[l]
      BY <2>7, <3>1, <3>3 DEF Types, NetTypes
    <3> QED
      BY <3>2, <3>3
  <2> QED
    BY <1>0, <2>1, <2>2, <2>6, <2>8, ResultsStay
\* The steps that answer nobody.
<1>10. ASSUME NEW l \in Loops, Enter(l) \/ SetNames(l) \/ Connect(l) \/ ConnectUnaccepted(l) \/ RecvBlocks(l)
       PROVE  Results'
  <2>1. /\ \E p \in CallLabels : pc' = [pc EXCEPT ![l] = p]
        /\ UNCHANGED <<job, down, asked, answer, severed>>
    BY <1>10 DEF Enter, SetNames, Connect, ConnectUnaccepted, RecvBlocks, Goto, CallLabels, net, outside, history
  <2>2. \A k \in Loops : pc'[k] = "answer" => pc[k] = "answer"
    BY <2>1 DEF CallLabels, Types, LoopTypes
  <2> QED
    BY <1>0, <2>1, <2>2, ResultsStay
<1>11. ASSUME NEW l \in Loops, NotFound(l) PROVE Results'
  <2>1. pc' = [k \in Loops |-> "dead"] /\ UNCHANGED <<job, down, asked, answer, severed>>
    BY <1>11 DEF NotFound, net, outside, history
  <2> QED
    BY <1>0, <2>1, ResultsStay
<1>12. ASSUME NEW l \in Loops, NEW c \in Conns, HandleClose(l, c) PROVE Results'
  <2>1. UNCHANGED <<pc, job, down, asked, answer, severed>>
    BY <1>12 DEF HandleClose, outside, history
  <2> QED
    BY <1>0, <2>1, ResultsStay
<1> QED
  BY <1>1, <1>2, <1>3, <1>4, <1>5, <1>6, <1>8, <1>9, <1>10, <1>11, <1>12
     DEF Next, Loop, CallMethod, Returned

-----------------------------------------------------------------------------
(* A sum that fits comes out right, though the addition wraps.             *)

LEMMA DivMod ==
    ASSUME NEW s \in Nat \ {0}, NEW i \in Nat, 2 * i < s
    PROVE  ((i + s \div 2) % s) - s \div 2 = i
<1>1. PICK h \in Nat : h = s \div 2 /\ 2 * h <= s
  <2>1. s \div 2 \in Nat /\ 2 * (s \div 2) <= s
    OBVIOUS
  <2> QED
    BY <2>1
<1>2. i + h < s
  BY <1>1
<1>3. (i + h) % s = i + h
  BY <1>2
<1> QED
  BY <1>1, <1>3

LEMMA WrapFits ==
    ASSUME NEW i \in Nat, 2 * i < 2 ^ Width
    PROVE  Wrap(i) = i
BY DivMod, ConstantsAssumption DEF Wrap

LEMMA Triangle ==
    ASSUME NEW i \in Nat
    PROVE  \E k \in Nat : i * (i + 1) = 2 * k /\ (i * (i + 1)) \div 2 = k
<1>1. PICK j \in Nat : i = 2 * j \/ i = 2 * j + 1
  <2>1. i \div 2 \in Nat /\ (i = 2 * (i \div 2) \/ i = 2 * (i \div 2) + 1)
    OBVIOUS
  <2> QED
    BY <2>1
<1>2. PICK k \in Nat : i * (i + 1) = 2 * k
  <2>1. CASE i = 2 * j
    <3>1. j * (2 * j + 1) \in Nat /\ i * (i + 1) = 2 * (j * (2 * j + 1))
      BY <2>1
    <3> QED
      BY <3>1
  <2>2. CASE i = 2 * j + 1
    <3>1. (2 * j + 1) * (j + 1) \in Nat /\ i * (i + 1) = 2 * ((2 * j + 1) * (j + 1))
      BY <2>2
    <3> QED
      BY <3>1
  <2> QED
    BY <1>1, <2>1, <2>2
<1>3. (2 * k) \div 2 = k
  OBVIOUS
<1> QED
  BY <1>2, <1>3

LEMMA Monotone ==
    ASSUME NEW n \in Nat, NEW i \in 0 .. n
    PROVE  i * (i + 1) <= n * (n + 1)
<1>1. PICK d \in Nat : n = i + d
  <2>1. n - i \in Nat /\ n = i + (n - i)
    OBVIOUS
  <2> QED
    BY <2>1
<1>2. /\ n * (n + 1) = i * (i + 1) + (d * (2 * i + 1) + d * d)
      /\ d * (2 * i + 1) \in Nat /\ d * d \in Nat
      /\ i * (i + 1) \in Nat
  BY <1>1
<1> QED
  BY <1>2

LEMMA SumtoNFits ==
    ASSUME NEW n \in Nat, Fits(n)
    PROVE  SumtoN(n) = (n * (n + 1)) \div 2
<1> DEFINE body(f) == [i \in 0 .. n |-> IF i = 0 THEN 0 ELSE Wrap(f[i - 1] + i)]
           closed == [i \in 0 .. n |-> (i * (i + 1)) \div 2]
           sum == CHOOSE f : f = body(f)
<1>1. \A i \in 0 .. n : closed[i] \in Nat /\ 2 * closed[i] = i * (i + 1)
  <2> TAKE i \in 0 .. n
  <2>1. closed[i] = (i * (i + 1)) \div 2
    OBVIOUS
  <2> QED
    BY <2>1, Triangle
<1>2. \A i \in 0 .. n : 2 * closed[i] < 2 ^ Width
  <2> TAKE i \in 0 .. n
  <2>1. i * (i + 1) <= n * (n + 1) /\ i * (i + 1) \in Int
    BY Monotone
  <2> QED
    BY <1>1, <2>1, ConstantsAssumption DEF Fits
<1>3. DOMAIN closed = 0 .. n /\ closed = [i \in 0 .. n |-> closed[i]] /\ closed[0] = 0
  <2>1. \A i \in {0} : 2 * closed[i] = i * (i + 1)
    BY <1>1
  <2>2. closed[0] \in Nat
    BY <1>1
  <2> QED
    BY <2>1, <2>2
<1> HIDE DEF closed
<1>4. ASSUME NEW f, NEW i \in 0 .. n, i # 0, f[i - 1] = closed[i - 1]
      PROVE  Wrap(f[i - 1] + i) = closed[i]
  <2>1. PICK j \in 0 .. n : i = j + 1 /\ i - 1 = j
    <3>1. i - 1 \in 0 .. n /\ i = (i - 1) + 1
      BY <1>4
    <3> QED
      BY <3>1
  <2>2. 2 * closed[j] = j * (j + 1) /\ 2 * closed[i] = (j + 1) * (j + 2)
    BY <1>1, <2>1
  <2>3. (j + 1) * (j + 2) = j * (j + 1) + 2 * (j + 1)
    OBVIOUS
  <2>4. closed[j] + i = closed[i]
    BY <1>1, <2>1, <2>2, <2>3
  <2> QED
    BY <1>1, <1>2, <1>4, <2>1, <2>4, WrapFits
<1>5. closed = body(closed)
  BY <1>3, <1>4
<1>6. sum = body(sum)
  BY <1>5
<1>7. sum[n] = closed[n]
  <2> DEFINE wrong == {i \in 0 .. n : sum[i] # closed[i]}
  <2> HIDE DEF sum
  <2>1. SUFFICES ASSUME wrong # {} PROVE FALSE
    OBVIOUS
  <2>2. PICK i \in wrong : \A j \in wrong : i <= j
    <3>1. wrong \subseteq Nat
      OBVIOUS
    <3> HIDE DEF wrong
    <3> QED
      BY <2>1, <3>1, LeastNat
  <2>3. i \in 0 .. n /\ sum[i] = IF i = 0 THEN 0 ELSE Wrap(sum[i - 1] + i)
    BY <1>6
  <2>4. i # 0
    BY <1>3, <2>2, <2>3
  <2>5. i - 1 \in 0 .. n /\ ~(i <= i - 1)
    BY <2>3, <2>4
  <2>6. sum[i - 1] = closed[i - 1]
    BY <2>2, <2>5
  <2>7. sum[i] = closed[i]
    BY <1>4, <2>3, <2>4, <2>6
  <2> QED
    BY <2>2, <2>7
<1>8. SumtoN(n) = sum[n]
  BY DEF SumtoN
<1>9. closed[n] = (n * (n + 1)) \div 2
  BY DEF closed
<1> QED
  BY <1>7, <1>8, <1>9

\* A caller's own answer is what the properties call right.
LEMMA RightFact ==
    ASSUME NEW r \in Reqs
    PROVE  Right(r, Local(r))
<1>1. r[1] = "SumtoN" => r[2] \in Int
  BY ConstantsAssumption DEF Reqs
<1>2. ASSUME r[1] = "SumtoN", r[2] >= 0, Fits(r[2])
      PROVE  Local(r) = <<"sum", (r[2] * (r[2] + 1)) \div 2>>
  <2>1. r[2] \in Nat
    BY <1>1, <1>2
  <2>2. SumtoN(r[2]) = (r[2] * (r[2] + 1)) \div 2
    BY <1>2, <2>1, SumtoNFits
  <2>3. Local(r) = <<"sum", SumtoN(r[2])>>
    BY <1>2 DEF Local
  <2> QED
    BY <2>2, <2>3
<1> QED
  BY <1>2 DEF Right

-----------------------------------------------------------------------------
(* The theorems.                                                           *)

Inv == Types /\ Handled /\ QuietInv /\ AloneInv /\ ResultsInv

LEMMA Invariant == Spec => []Inv
<1>1. Init => Inv
  BY InitTypes, InitHandled, InitQuiet, InitAlone, InitResults DEF Inv
<1>2. Inv /\ [Next]_vars => Inv'
  BY NextTypes, NextHandled, NextQuiet, NextAlone, NextResults DEF Inv
<1> QED
  BY <1>1, <1>2, PTL DEF Spec

\* What the tables, connections, loops and callers hold: above all, a loop that
\* handles a request knows it, and a recv waits on a connection there is.
THEOREM TypeCorrect == Spec => []Types
<1>1. Inv => Types
  BY DEF Inv
<1> QED
  BY <1>1, Invariant, PTL

\* A handler works for the caller whose connection its loop has, on that
\* caller's own request (onMessage hands the connection and the parsed request
\* to the closure that answers), and only cache calls about its key are made.
THEOREM HandledIsAsked == Spec => []Handled
<1>1. Inv => Handled
  BY DEF Inv
<1> QED
  BY <1>1, Invariant, PTL

\* For all callers, requests, loops and descriptors: until a call has failed to
\* connect, the channel's one call is no Set and nothing is ever cached.
THEOREM CacheStaysEmpty == Spec => []NothingIsCached
<1>1. Inv => NothingIsCached
  BY DEF Inv, QuietInv, Quiet, NothingIsCached
<1> QED
  BY <1>1, Invariant, PTL

\* A key holds its own value or nothing, as long as no two loops were inside of
\* CallMethod at once or no call failed to connect.
THEOREM CacheIsSound == Spec => []CacheSound
<1>1. Inv => CacheSound
  <2> SUFFICES ASSUME Inv, ~(overlap /\ unconnected), NEW k \in Keys
               PROVE  \/ cache[k] = Absent
                      \/ \E c \in DOMAIN asked : Key(asked[c]) = k /\ cache[k] = Local(asked[c])
    BY DEF CacheSound
  <2>1. CASE ~unconnected
    BY <2>1 DEF Inv, QuietInv, Quiet
  <2>2. CASE ~overlap
    <3>1. cache[k] \in {Absent} \cup Own(k)
      BY <2>2 DEF Inv, AloneInv, Alone, SoundStore
    <3> QED
      BY <3>1 DEF Own
  <2> QED
    BY <2>1, <2>2
<1> QED
  BY <1>1, Invariant, PTL

\* Whoever is answered gets the right answer to a request that was asked: to
\* the caller's own while the channel has closed no accepted connection's
\* number.  A sum is right when it fits an int, though the handler's additions
\* wrap (SumtoNFits).  Excepted as in CacheIsSound.
THEOREM AnswersAreRight == Spec => []AnswerRight
<1>1. Inv => AnswerRight
  <2> SUFFICES ASSUME Inv, ~(overlap /\ unconnected), NEW c \in Clients, answer[c] # Absent
               PROVE  \E d \in DOMAIN asked : (d = c \/ severed) /\ Right(asked[d], answer[c])
    BY DEF AnswerRight
  <2>1. answer[c] \in Due(c)
    BY DEF Inv, ResultsInv, Results
  <2>2. PICK d \in DOMAIN asked : (d = c \/ severed) /\ answer[c] = Local(asked[d])
    BY <2>1 DEF Due
  <2>3. asked[d] \in Reqs
    BY AskedFact DEF Inv, Types
  <2> QED
    BY <2>2, <2>3, RightFact
<1> QED
  BY <1>1, Invariant, PTL
=============================================================================
