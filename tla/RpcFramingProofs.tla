------------------------- MODULE RpcFramingProofs --------------------------
(***************************************************************************)
(* RpcFraming for every set of calls and replies, all names and any size   *)
(* of the receive buffer: what the provider makes of a request of which    *)
(* only the first bytes are there, and the caller of a reply of which the  *)
(* end is missing.                                                         *)
(*                                                                         *)
(* The invariant has, beside what it proves, what has to be known of the   *)
(* bytes under way: until the provider has looked they are the request,    *)
(* until the caller has looked they are the reply to the only call that    *)
(* was executed. FirstBytes says what the provider makes of each prefix of *)
(* a request, CutRead of ProtoMessagesProofs what the caller makes of each *)
(* prefix of a reply.                                                      *)
(***************************************************************************)
EXTENDS ProtoMessagesProofs, RpcFraming

----------------------------------------------------------------------------
(* The classes of the system.                                               *)

\* The kinds a class that is no submessage may have.
IsPlain(k) == IsKind(k) /\ k.type # "message"

IsField(k) == IsKind(k) /\ (k.type = "message" => IsFlatClass(k.of))

LEMMA PlainKinds ==
    IsPlain(Number) /\ IsPlain(Bool) /\ IsPlain(Double) /\ IsPlain(Bytes) /\ IsPlain(SomeBytes)
BY DEF IsPlain, IsKind, Kind, Number, Bool, Double, Bytes, SomeBytes

LEMMA FlatClassFact ==
    ASSUME NEW l, NEW S, S = {l[i] : i \in DOMAIN l}, l \in Seq(S), Len(l) <= 15,
           \A i \in DOMAIN l : IsPlain(l[i])
    PROVE  IsFlatClass(l)
BY DEF IsFlatClass, IsLayout, IsPlain

LEMMA ClassFact ==
    ASSUME NEW l, NEW S, S = {l[i] : i \in DOMAIN l}, l \in Seq(S), Len(l) <= 15,
           \A i \in DOMAIN l : IsField(l[i])
    PROVE  IsClass(l)
BY DEF IsClass, IsLayout, IsField

LEMMA MessageKinds ==
    ASSUME NEW l, IsFlatClass(l)
    PROVE  IsField(Message(l)) /\ IsField(SomeMessages(l))
BY DEF IsField, IsKind, Kind, Message, SomeMessages

LEMMA PlainFields ==
    IsField(Number) /\ IsField(Bool) /\ IsField(Double) /\ IsField(Bytes) /\ IsField(SomeBytes)
BY PlainKinds DEF IsField, IsPlain

LEMMA ClassOf0 == IsClass(<<>>)
<1>1. Len(<<>>) = 0 /\ DOMAIN <<>> = {} /\ <<>> \in Seq({<<>>[i] : i \in DOMAIN <<>>})
  OBVIOUS
<1> QED
  BY <1>1 DEF IsClass, IsLayout

LEMMA ClassOf1 ==
    ASSUME NEW a,
           IsField(a)
    PROVE  IsClass(<<a>>)
<1> DEFINE l == <<a>>
<1>1. l \in Seq({a})
  OBVIOUS
<1>2. /\ Len(l) = 1 /\ DOMAIN l = 1..1
      /\ l[1] = a
  OBVIOUS
<1>3. {l[i] : i \in DOMAIN l} = {a}
  OBVIOUS
<1> HIDE DEF l
<1>4. Len(l) <= 15 /\ \A i \in DOMAIN l : IsField(l[i])
  BY <1>2
<1> DEFINE S == {l[i] : i \in DOMAIN l}
<1>5. S = {l[i] : i \in DOMAIN l} /\ l \in Seq(S)
  BY <1>1, <1>3
<1> HIDE DEF S
<1>6. IsClass(l)
  BY Zenon, <1>4, <1>5, ClassFact
<1> QED
  BY <1>6 DEF l

LEMMA ClassOf2 ==
    ASSUME NEW a, NEW b,
           IsField(a), IsField(b)
    PROVE  IsClass(<<a, b>>)
<1> DEFINE l == <<a, b>>
<1>1. l \in Seq({a, b})
  OBVIOUS
<1>2. /\ Len(l) = 2 /\ DOMAIN l = 1..2
      /\ l[1] = a /\ l[2] = b
  OBVIOUS
<1>3. {l[i] : i \in DOMAIN l} = {a, b}
  OBVIOUS
<1> HIDE DEF l
<1>4. Len(l) <= 15 /\ \A i \in DOMAIN l : IsField(l[i])
  BY <1>2
<1> DEFINE S == {l[i] : i \in DOMAIN l}
<1>5. S = {l[i] : i \in DOMAIN l} /\ l \in Seq(S)
  BY <1>1, <1>3
<1> HIDE DEF S
<1>6. IsClass(l)
  BY Zenon, <1>4, <1>5, ClassFact
<1> QED
  BY <1>6 DEF l

LEMMA ClassOf3 ==
    ASSUME NEW a, NEW b, NEW c,
           IsField(a), IsField(b), IsField(c)
    PROVE  IsClass(<<a, b, c>>)
<1> DEFINE l == <<a, b, c>>
<1>1. l \in Seq({a, b, c})
  OBVIOUS
<1>2. /\ Len(l) = 3 /\ DOMAIN l = 1..3
      /\ l[1] = a /\ l[2] = b /\ l[3] = c
  OBVIOUS
<1>3. {l[i] : i \in DOMAIN l} = {a, b, c}
  OBVIOUS
<1> HIDE DEF l
<1>4. Len(l) <= 15 /\ \A i \in DOMAIN l : IsField(l[i])
  BY <1>2
<1> DEFINE S == {l[i] : i \in DOMAIN l}
<1>5. S = {l[i] : i \in DOMAIN l} /\ l \in Seq(S)
  BY <1>1, <1>3
<1> HIDE DEF S
<1>6. IsClass(l)
  BY Zenon, <1>4, <1>5, ClassFact
<1> QED
  BY <1>6 DEF l

LEMMA ClassOf4 ==
    ASSUME NEW a, NEW b, NEW c, NEW d,
           IsField(a), IsField(b), IsField(c), IsField(d)
    PROVE  IsClass(<<a, b, c, d>>)
<1> DEFINE l == <<a, b, c, d>>
<1>1. l \in Seq({a, b, c, d})
  OBVIOUS
<1>2. /\ Len(l) = 4 /\ DOMAIN l = 1..4
      /\ l[1] = a /\ l[2] = b /\ l[3] = c /\ l[4] = d
  OBVIOUS
<1>3. {l[i] : i \in DOMAIN l} = {a, b, c, d}
  OBVIOUS
<1> HIDE DEF l
<1>4. Len(l) <= 15 /\ \A i \in DOMAIN l : IsField(l[i])
  BY <1>2
<1> DEFINE S == {l[i] : i \in DOMAIN l}
<1>5. S = {l[i] : i \in DOMAIN l} /\ l \in Seq(S)
  BY <1>1, <1>3
<1> HIDE DEF S
<1>6. IsClass(l)
  BY Zenon, <1>4, <1>5, ClassFact
<1> QED
  BY <1>6 DEF l

LEMMA ClassOf6 ==
    ASSUME NEW a, NEW b, NEW c, NEW d, NEW e, NEW f,
           IsField(a), IsField(b), IsField(c), IsField(d), IsField(e), IsField(f)
    PROVE  IsClass(<<a, b, c, d, e, f>>)
<1> DEFINE l == <<a, b, c, d, e, f>>
<1>1. l \in Seq({a, b, c, d, e, f})
  OBVIOUS
<1>2. /\ Len(l) = 6 /\ DOMAIN l = 1..6
      /\ l[1] = a /\ l[2] = b /\ l[3] = c /\ l[4] = d /\ l[5] = e /\ l[6] = f
  OBVIOUS
<1>3. {l[i] : i \in DOMAIN l} = {a, b, c, d, e, f}
  OBVIOUS
<1> HIDE DEF l
<1>4. Len(l) <= 15 /\ \A i \in DOMAIN l : IsField(l[i])
  BY <1>2
<1> DEFINE S == {l[i] : i \in DOMAIN l}
<1>5. S = {l[i] : i \in DOMAIN l} /\ l \in Seq(S)
  BY <1>1, <1>3
<1> HIDE DEF S
<1>6. IsClass(l)
  BY Zenon, <1>4, <1>5, ClassFact
<1> QED
  BY <1>6 DEF l

LEMMA FlatClassOf2 ==
    ASSUME NEW a, NEW b,
           IsPlain(a), IsPlain(b)
    PROVE  IsFlatClass(<<a, b>>)
<1> DEFINE l == <<a, b>>
<1>1. l \in Seq({a, b})
  OBVIOUS
<1>2. /\ Len(l) = 2 /\ DOMAIN l = 1..2
      /\ l[1] = a /\ l[2] = b
  OBVIOUS
<1>3. {l[i] : i \in DOMAIN l} = {a, b}
  OBVIOUS
<1> HIDE DEF l
<1>4. Len(l) <= 15 /\ \A i \in DOMAIN l : IsPlain(l[i])
  BY <1>2
<1> DEFINE S == {l[i] : i \in DOMAIN l}
<1>5. S = {l[i] : i \in DOMAIN l} /\ l \in Seq(S)
  BY <1>1, <1>3
<1> HIDE DEF S
<1>6. IsFlatClass(l)
  BY Zenon, <1>4, <1>5, FlatClassFact
<1> QED
  BY <1>6 DEF l

LEMMA FlatClassOf3 ==
    ASSUME NEW a, NEW b, NEW c,
           IsPlain(a), IsPlain(b), IsPlain(c)
    PROVE  IsFlatClass(<<a, b, c>>)
<1> DEFINE l == <<a, b, c>>
<1>1. l \in Seq({a, b, c})
  OBVIOUS
<1>2. /\ Len(l) = 3 /\ DOMAIN l = 1..3
      /\ l[1] = a /\ l[2] = b /\ l[3] = c
  OBVIOUS
<1>3. {l[i] : i \in DOMAIN l} = {a, b, c}
  OBVIOUS
<1> HIDE DEF l
<1>4. Len(l) <= 15 /\ \A i \in DOMAIN l : IsPlain(l[i])
  BY <1>2
<1> DEFINE S == {l[i] : i \in DOMAIN l}
<1>5. S = {l[i] : i \in DOMAIN l} /\ l \in Seq(S)
  BY <1>1, <1>3
<1> HIDE DEF S
<1>6. IsFlatClass(l)
  BY Zenon, <1>4, <1>5, FlatClassFact
<1> QED
  BY <1>6 DEF l

LEMMA Submessages == IsFlatClass(ResultCode) /\ IsFlatClass(CacheItem)
BY PlainKinds, FlatClassOf2, FlatClassOf3 DEF ResultCode, CacheItem

\* Every class that the services and the header use is one in the sense of
\* ProtoMessagesProofs.
LEMMA Classes ==
    /\ IsClass(ResultCode)
    /\ IsClass(LoginRequest) /\ IsClass(LoginResponse)
    /\ IsClass(RegisterRequest) /\ IsClass(RegisterResponse)
    /\ IsClass(SumToNRequest) /\ IsClass(SumToNResponse)
    /\ IsClass(GetUserProfileRequest) /\ IsClass(GetUserProfileResponse)
    /\ IsClass(CacheSetRequest)
    /\ IsClass(CacheGetRequest) /\ IsClass(CacheGetResponse)
    /\ IsClass(CacheDeleteRequest)
    /\ IsClass(CacheBatchGetRequest) /\ IsClass(CacheBatchGetResponse)
    /\ IsClass(CacheExistsRequest) /\ IsClass(CacheExistsResponse)
    /\ IsClass(CacheStatsRequest) /\ IsClass(CacheStatsResponse)
    /\ IsClass(RpcHeader)
<1> USE PlainFields
<1>1. IsField(Message(ResultCode)) /\ IsField(SomeMessages(CacheItem))
  BY Submessages, MessageKinds
<1>2. /\ IsClass(SumToNRequest) /\ IsClass(GetUserProfileRequest) /\ IsClass(CacheGetRequest)
      /\ IsClass(CacheDeleteRequest) /\ IsClass(CacheExistsRequest) /\ IsClass(CacheBatchGetRequest)
  BY ClassOf1 DEF SumToNRequest, GetUserProfileRequest, CacheGetRequest, CacheDeleteRequest,
                  CacheExistsRequest, CacheBatchGetRequest
<1>3. /\ IsClass(ResultCode) /\ IsClass(LoginRequest) /\ IsClass(LoginResponse)
      /\ IsClass(RegisterResponse) /\ IsClass(SumToNResponse) /\ IsClass(CacheExistsResponse)
      /\ IsClass(CacheBatchGetResponse)
  BY <1>1, ClassOf2 DEF ResultCode, LoginRequest, LoginResponse, RegisterResponse, SumToNResponse,
                        CacheExistsResponse, CacheBatchGetResponse
<1>4. /\ IsClass(RegisterRequest) /\ IsClass(GetUserProfileResponse) /\ IsClass(CacheSetRequest)
      /\ IsClass(RpcHeader)
  BY <1>1, ClassOf3 DEF RegisterRequest, GetUserProfileResponse, CacheSetRequest, RpcHeader
<1>5. IsClass(CacheGetResponse) /\ IsClass(CacheStatsResponse) /\ IsClass(CacheStatsRequest)
  BY <1>1, ClassOf4, ClassOf6, ClassOf0 DEF CacheGetResponse, CacheStatsResponse, CacheStatsRequest
<1> QED
  BY <1>2, <1>3, <1>4, <1>5

----------------------------------------------------------------------------
(* The services.                                                            *)

LEMMA NotifyFact ==
    ASSUME NEW methods, NEW n \in DOMAIN NotifyService(methods)
    PROVE  \E i \in DOMAIN methods : methods[i].name = n /\ NotifyService(methods)[n] = methods[i]
<1>1. PICK i \in DOMAIN methods : methods[i].name = n
  BY DEF NotifyService
<1> DEFINE h == CHOOSE j \in DOMAIN methods : methods[j].name = n
<1>2. h \in DOMAIN methods /\ methods[h].name = n
  BY <1>1
<1>3. NotifyService(methods)[n] = methods[h]
  BY <1>1 DEF NotifyService
<1> QED
  BY <1>2, <1>3

UserMethods  == {"Login", "Register", "SumtoN", "GetUserProfile"}

\* The names of the methods of the two services.
CacheMethods == {"Set", "Get", "Delete", "Exists", "BatchGet", "GetStats"}

\* A method of a service, its classes known.
IsMethod(m, names) == m.name \in names /\ IsClass(m.request) /\ IsClass(m.response)

LEMMA MethodFact ==
    ASSUME NEW names, NEW name \in names, NEW req, NEW res,
           IsClass(req), IsClass(res)
    PROVE  IsMethod(Method(name, req, res), names)
BY DEF IsMethod, Method

LEMMA UserMethodFact ==
    ASSUME NEW i \in DOMAIN UserServiceRpc
    PROVE  IsMethod(UserServiceRpc[i], UserMethods)
<1> DEFINE M(name, req, res) == IsMethod(Method(name, req, res), UserMethods)
<1>1. /\ M("Login", LoginRequest, LoginResponse) /\ M("Register", RegisterRequest, RegisterResponse)
      /\ M("SumtoN", SumToNRequest, SumToNResponse)
      /\ M("GetUserProfile", GetUserProfileRequest, GetUserProfileResponse)
  BY Classes, MethodFact DEF UserMethods
<1>2. DOMAIN UserServiceRpc = 1..4
  BY DEF UserServiceRpc
<1>3. i = 1 \/ i = 2 \/ i = 3 \/ i = 4
  BY <1>2
<1> QED
  BY <1>1, <1>3 DEF UserServiceRpc

LEMMA CacheMethodFact ==
    ASSUME NEW i \in DOMAIN CacheServiceRpc
    PROVE  IsMethod(CacheServiceRpc[i], CacheMethods)
<1> DEFINE M(name, req, res) == IsMethod(Method(name, req, res), CacheMethods)
<1>1. /\ M("Set", CacheSetRequest, ResultCode) /\ M("Get", CacheGetRequest, CacheGetResponse)
      /\ M("Delete", CacheDeleteRequest, ResultCode)
      /\ M("Exists", CacheExistsRequest, CacheExistsResponse)
      /\ M("BatchGet", CacheBatchGetRequest, CacheBatchGetResponse)
      /\ M("GetStats", CacheStatsRequest, CacheStatsResponse)
  BY Classes, MethodFact DEF CacheMethods
<1>2. DOMAIN CacheServiceRpc = 1..6
  BY DEF CacheServiceRpc
<1>3. i = 1 \/ i = 2 \/ i = 3 \/ i = 4 \/ i = 5 \/ i = 6
  BY <1>2
<1> QED
  BY <1>1, <1>3 DEF CacheServiceRpc

\* The entries of service_map: NotifyService keeps the classes.
LEMMA ServiceFact ==
    ASSUME NEW s \in DOMAIN service_map, NEW m \in DOMAIN service_map[s]
    PROVE  /\ IsClass(service_map[s][m].request) /\ IsClass(service_map[s][m].response)
           /\ \/ s = "UserServiceRpc" /\ m \in UserMethods
              \/ s = "CacheServiceRpc" /\ m \in CacheMethods
<1>1. s = "UserServiceRpc" \/ s = "CacheServiceRpc"
  BY DEF service_map
<1>2. CASE s = "UserServiceRpc"
  <2>1. service_map[s] = NotifyService(UserServiceRpc)
    BY <1>2 DEF service_map
  <2>2. PICK i \in DOMAIN UserServiceRpc :
            UserServiceRpc[i].name = m /\ service_map[s][m] = UserServiceRpc[i]
    BY <2>1, NotifyFact
  <2> QED
    BY <1>2, <2>2, UserMethodFact DEF IsMethod
<1>3. CASE s = "CacheServiceRpc"
  <2>1. service_map[s] = NotifyService(CacheServiceRpc)
    BY <1>3 DEF service_map
  <2>2. PICK i \in DOMAIN CacheServiceRpc :
            CacheServiceRpc[i].name = m /\ service_map[s][m] = CacheServiceRpc[i]
    BY <2>1, NotifyFact
  <2> QED
    BY <1>3, <2>2, CacheMethodFact DEF IsMethod
<1> QED
  BY <1>1, <1>2, <1>3

\* No two services have a method of the same name.
LEMMA OneService ==
    ASSUME NEW s \in DOMAIN service_map, NEW z \in DOMAIN service_map,
           NEW m, m \in DOMAIN service_map[s], m \in DOMAIN service_map[z]
    PROVE  s = z
<1>1. (s = "UserServiceRpc" /\ m \in UserMethods) \/ (s = "CacheServiceRpc" /\ m \in CacheMethods)
  BY ServiceFact
<1>2. (z = "UserServiceRpc" /\ m \in UserMethods) \/ (z = "CacheServiceRpc" /\ m \in CacheMethods)
  BY ServiceFact
<1>3. ~(m \in UserMethods /\ m \in CacheMethods)
  BY DEF UserMethods, CacheMethods
<1> QED
  BY <1>1, <1>2, <1>3

----------------------------------------------------------------------------
(* The bytes of a request.                                                  *)

\* Min of FiniteSetsExt for two numbers.
LEMMA MinFact ==
    ASSUME NEW x \in Int, NEW y \in Int
    PROVE  Min({x, y}) = IF x <= y THEN x ELSE y
<1> DEFINE m == IF x <= y THEN x ELSE y
           P(z) == z \in {x, y} /\ \A o \in {x, y} : z <= o
<1>1. P(m)
  OBVIOUS
<1>2. \A z : P(z) => z = m
  OBVIOUS
<1>3. Min({x, y}) = CHOOSE z \in {x, y} : \A o \in {x, y} : z <= o
  BY DEF Min
<1>4. P(CHOOSE z \in {x, y} : \A o \in {x, y} : z <= o)
  BY <1>1
<1> QED
  BY <1>2, <1>3, <1>4

\* Part of a sequence, place by place.
LEMMA RunFact ==
    ASSUME NEW S, NEW s \in Seq(S), NEW a \in Nat, NEW b \in Nat, a <= b, b <= Len(s)
    PROVE  /\ SubSeq(s, a + 1, b) \in Seq(S) /\ Len(SubSeq(s, a + 1, b)) = b - a
           /\ \A x \in 1..b - a : SubSeq(s, a + 1, b)[x] = s[a + x]
OBVIOUS

\* Two sequences that agree at every place.
LEMMA SamePlaces ==
    ASSUME NEW S, NEW s \in Seq(S), NEW t \in Seq(S), NEW n \in Nat, Len(s) = n, Len(t) = n,
           \A x \in 1..n : s[x] = t[x]
    PROVE  s = t
BY SeqEqual

\* Of the first n elements of s and t, those behind m are of t, when s ends by m, ...
LEMMA SecondPart ==
    ASSUME NEW S, NEW s \in Seq(S), NEW t \in Seq(S), NEW n \in Nat, NEW m \in Nat, m <= n,
           Len(s) <= m, n <= Len(s) + Len(t)
    PROVE  SubSeq(SubSeq(s \o t, 1, n), m + 1, n) = SubSeq(t, (m - Len(s)) + 1, n - Len(s))
<1> DEFINE j == s \o t
           p == SubSeq(j, 1, n)
           y == SubSeq(p, m + 1, n)
           a == Len(s)
           z == SubSeq(t, (m - a) + 1, n - a)
<1>1. /\ j \in Seq(S) /\ Len(j) = a + Len(t) /\ a \in Nat /\ Len(t) \in Nat
      /\ \A x \in 1..Len(t) : j[a + x] = t[x]
  BY ConcatFact
<1> HIDE DEF j
<1>2. p \in Seq(S) /\ Len(p) = n /\ \A x \in 1..n : p[x] = j[x]
  BY <1>1, PrefixFact
<1> HIDE DEF p
<1>3. y \in Seq(S) /\ Len(y) = n - m /\ \A x \in 1..n - m : y[x] = p[m + x]
  BY <1>2, RunFact
<1>4. z \in Seq(S) /\ Len(z) = n - m /\ \A x \in 1..n - m : z[x] = t[(m - a) + x]
  <2> DEFINE u == m - a
             w == n - a
  <2>1. u \in Nat /\ w \in Nat /\ u <= w /\ w <= Len(t) /\ w - u = n - m
    BY <1>1
  <2> HIDE DEF u, w
  <2>2. /\ SubSeq(t, u + 1, w) \in Seq(S) /\ Len(SubSeq(t, u + 1, w)) = w - u
        /\ \A x \in 1..w - u : SubSeq(t, u + 1, w)[x] = t[u + x]
    BY <2>1, RunFact
  <2> QED
    BY <2>1, <2>2 DEF u, w
<1> HIDE DEF y, z
<1>5. ASSUME NEW x \in 1..n - m PROVE y[x] = z[x]
  <2> DEFINE v == (m - a) + x
  <2>1. m + x \in 1..n /\ v \in 1..Len(t) /\ a + v = m + x
    BY <1>1
  <2> HIDE DEF v
  <2>2. p[m + x] = j[m + x] /\ j[a + v] = t[v]
    BY <1>1, <1>2, <2>1
  <2> QED
    BY <1>3, <1>4, <2>1, <2>2 DEF v
<1>6. n - m \in Nat
  OBVIOUS
<1>7. y = z
  BY <1>3, <1>4, <1>5, <1>6, SamePlaces
<1> QED
  BY <1>7 DEF y, z, p, j

\* ... and the first m are of s, when s ends behind them.
LEMMA FirstPart ==
    ASSUME NEW S, NEW s \in Seq(S), NEW t \in Seq(S), NEW n \in Nat, n <= Len(s) + Len(t),
           NEW m \in Nat, m <= n, m <= Len(s)
    PROVE  SubSeq(SubSeq(s \o t, 1, n), 1, m) = SubSeq(s, 1, m)
<1> DEFINE j == s \o t
           p == SubSeq(j, 1, n)
           y == SubSeq(p, 1, m)
           z == SubSeq(s, 1, m)
<1>1. /\ j \in Seq(S) /\ Len(j) = Len(s) + Len(t) /\ Len(s) \in Nat
      /\ \A x \in 1..Len(s) : j[x] = s[x]
  BY ConcatFact
<1> HIDE DEF j
<1>2. p \in Seq(S) /\ Len(p) = n /\ \A x \in 1..n : p[x] = j[x]
  BY <1>1, PrefixFact
<1> HIDE DEF p
<1>3. y \in Seq(S) /\ Len(y) = m /\ \A x \in 1..m : y[x] = p[x]
  BY <1>2, PrefixFact
<1>4. z \in Seq(S) /\ Len(z) = m /\ \A x \in 1..m : z[x] = s[x]
  BY <1>1, PrefixFact
<1> HIDE DEF y, z
<1>5. ASSUME NEW x \in 1..m PROVE y[x] = z[x]
  <2>1. x \in 1..n /\ x \in 1..Len(s)
    BY <1>1
  <2> QED
    BY <1>1, <1>2, <1>3, <1>4, <2>1
<1>6. y = z
  BY <1>3, <1>4, <1>5, SamePlaces
<1> QED
  BY <1>6 DEF y, z, p, j

LEMMA NothingLeft ==
    ASSUME NEW S, NEW s \in Seq(S)
    PROVE  Skip(s, Len(s)) = <<>>
BY DEF Skip

LEMMA AllOfIt ==
    ASSUME NEW S, NEW s \in Seq(S)
    PROVE  SubSeq(s, 1, Len(s)) = s
OBVIOUS

----------------------------------------------------------------------------
(* What the provider makes of it.                                           *)

\* A call as the provider makes it of what it has read.
IsCall(c) == /\ c = [service |-> c.service, method |-> c.method, request |-> c.request]
             /\ c.service \in DOMAIN service_map
             /\ c.method \in DOMAIN service_map[c.service]
             /\ c.method \in DOMAIN Replies

\* The parts of Decode, one operator each.
Targets(service_name, method_name) ==
    {c \in [service : DOMAIN service_map, method : DOMAIN Replies] :
        /\ c.method \in DOMAIN service_map[c.service]
        /\ NameOf[c.service] = service_name /\ NameOf[c.method] = method_name}

Called(c, request) ==
    IF request = <<>> THEN <<>>
    ELSE <<[service |-> c.service, method |-> c.method, request |-> request[1]]>>

Dispatched(found, args) ==
    IF found = {} THEN <<>>
    ELSE Called(CHOOSE c \in found : TRUE, Parse(RequestLayout(CHOOSE c \in found : TRUE), args))

Handled(header, rest) ==
    IF header = <<>> THEN <<>>
    ELSE IF header[1].field[3] \notin 0..Len(rest) THEN <<>>
    ELSE Dispatched(Targets(header[1].field[1], header[1].field[2]),
                    SubSeq(rest, 1, header[1].field[3]))

Split(s, n, end) == Handled(Parse(RpcHeader, SubSeq(s, n + 1, end)), Skip(s, end))

HeaderSize(s) == IF VarintLength(s, 5) = 0 THEN -1
                 ELSE VarintValue(SubSeq(s, 1, VarintLength(s, 5)))

HeaderEnd(s, n, size) == IF size < 0 THEN n ELSE Min({n + size, Len(s)})

\* Decode is made of these parts.
LEMMA DecodeDef ==
    ASSUME NEW s
    PROVE  Decode(s) = Split(s, VarintLength(s, 5), HeaderEnd(s, VarintLength(s, 5), HeaderSize(s)))
BY DEF Decode, Split, HeaderSize, HeaderEnd, Handled, Dispatched, Targets, Called

\* Whatever is called is a method of the service.
LEMMA CalledIsCall ==
    ASSUME NEW found, NEW args, NEW service_name, NEW method_name,
           found = Targets(service_name, method_name)
    PROVE  \/ Dispatched(found, args) = <<>>
           \/ \E c : Dispatched(found, args) = <<c>> /\ IsCall(c)
<1> DEFINE t == CHOOSE c \in found : TRUE
           request == Parse(RequestLayout(t), args)
<1>1. SUFFICES ASSUME found # {}, request # <<>>
               PROVE  \E c : Dispatched(found, args) = <<c>> /\ IsCall(c)
  BY DEF Dispatched, Called
<1>2. t \in found
  BY <1>1
<1> HIDE DEF t, request
<1>3. /\ t.service \in DOMAIN service_map /\ t.method \in DOMAIN Replies
      /\ t.method \in DOMAIN service_map[t.service]
  BY <1>2 DEF Targets
<1> DEFINE c == [service |-> t.service, method |-> t.method, request |-> request[1]]
<1>4. IsCall(c)
  BY <1>3 DEF IsCall
<1>5. Dispatched(found, args) = <<c>>
  BY <1>1 DEF Dispatched, Called, t, request
<1> QED
  BY <1>4, <1>5

\* Whatever was read, what comes of it is a call of a method that exists.
LEMMA DecodedIsCall ==
    ASSUME NEW s
    PROVE  Decode(s) = <<>> \/ \E c : Decode(s) = <<c>> /\ IsCall(c)
<1> DEFINE n == VarintLength(s, 5)
           end == HeaderEnd(s, n, HeaderSize(s))
           header == Parse(RpcHeader, SubSeq(s, n + 1, end))
           rest == Skip(s, end)
           found == Targets(header[1].field[1], header[1].field[2])
           args == SubSeq(rest, 1, header[1].field[3])
<1>1. Decode(s) = <<>> \/ Decode(s) = Dispatched(found, args)
  BY DecodeDef DEF Split, Handled
<1> HIDE DEF header, rest
<1>2. Dispatched(found, args) = <<>> \/ \E c : Dispatched(found, args) = <<c>> /\ IsCall(c)
  BY CalledIsCall
<1> QED
  BY <1>1, <1>2

----------------------------------------------------------------------------
(* The header of a call is a message of its class.                          *)

LEMMA PlainElements ==
    ASSUME NEW k, IsPlain(k), ~k.many, k.type # "double", NEW v, IsValue(k, v),
           NEW es, es = Elements(k, v)
    PROVE  /\ es \in Seq({es[j] : j \in DOMAIN es}) /\ Len(es) <= 1
           /\ \A j \in DOMAIN es : IsValue(k, es[j])
           /\ es = <<>> => v = Default(k)
<1>4. es = <<>> => v = Default(k)
  <2> DEFINE d == Default(k)
  <2>1. ~k.many /\ k.type # "message"
    BY DEF IsPlain
  <2>2. Unwritten(k) = {d}
    BY DEF Unwritten
  <2> HIDE DEF d
  <2>3. <<v>> # <<>>
    OBVIOUS
  <2> QED
    BY <2>1, <2>2, <2>3 DEF Elements, d
<1>1. es = <<>> \/ es = <<v>>
  BY DEF Elements, IsPlain
<1>2. CASE es = <<>>
  BY <1>2, <1>4
<1>3. CASE es = <<v>>
  <2> DEFINE S == {es[j] : j \in DOMAIN es}
  <2>1. DOMAIN es = {1} /\ es[1] = v /\ Len(es) = 1
    BY <1>3
  <2>2. es \in Seq({v})
    BY <1>3
  <2>3. S = {v}
    BY <2>1
  <2>4. es \in Seq(S)
    BY <2>2, <2>3
  <2> QED
    BY <1>4, <2>1, <2>4
<1> QED
  BY <1>1, <1>2, <1>3

\* A call of a client: its method exists, its lengths fit an int32.
LEMMA CallFact ==
    ASSUME NEW c \in Calls
    PROVE  /\ IsCall(c) /\ IsMessage(RequestLayout(c), c.request) /\ IsClass(RequestLayout(c))
           /\ Len(args_str(c)) \in Int32 /\ Len(header_str(c)) \in Int32
           /\ NameOf[c.service] \in Seq(Byte) /\ NameOf[c.service] # <<>>
           /\ NameOf[c.method] \in Seq(Byte) /\ NameOf[c.method] # <<>>
           /\ Len(NameOf[c.service]) \in Int32 /\ Len(NameOf[c.method]) \in Int32
<1>1. /\ c = [service |-> c.service, method |-> c.method, request |-> c.request]
      /\ c.service \in DOMAIN service_map
      /\ c.method \in DOMAIN service_map[c.service] \cap DOMAIN Replies
      /\ IsMessage(RequestLayout(c), c.request)
      /\ Len(args_str(c)) \in Int32 /\ Len(header_str(c)) \in Int32
  BY ConstantsAssumption
<1>2. IsClass(RequestLayout(c))
  BY <1>1, ServiceFact DEF RequestLayout
<1>3. \A n \in DOMAIN service_map \cup DOMAIN Replies :
          NameOf[n] \in Seq(Byte) \ {<<>>} /\ Len(NameOf[n]) \in Int32
  BY ConstantsAssumption
<1> QED
  BY <1>1, <1>2, <1>3 DEF IsCall

\* The header of a call is a message of its class, argument size included.
LEMMA HeaderIsMessage ==
    ASSUME NEW c \in Calls
    PROVE  LET m == Zrpcheader(c, Len(args_str(c)))
           IN  /\ IsMessage(RpcHeader, m) /\ m.field[1] = NameOf[c.service]
               /\ m.field[2] = NameOf[c.method] /\ m.field[3] = Len(args_str(c))
<1> DEFINE a == NameOf[c.service]
           b == NameOf[c.method]
           n == Len(args_str(c))
           m == Zrpcheader(c, n)
           l == RpcHeader
<1>1. /\ a \in Seq(Byte) /\ Len(a) \in Int32 /\ b \in Seq(Byte) /\ Len(b) \in Int32 /\ n \in Int32
  BY CallFact
<1> HIDE DEF a, b, n
<1>2. m = [field |-> <<a, b, n>>, unknown |-> <<>>]
  <2> DEFINE f == [i \in DOMAIN l |-> Default(l[i])]
             g == <<a, b, n>>
  <2>1. m = [[field |-> f, unknown |-> <<>>] EXCEPT !.field = g]
    BY DEF Zrpcheader, With, New, a, b
  <2> HIDE DEF f, g
  <2>2. [[field |-> f, unknown |-> <<>>] EXCEPT !.field = g] = [field |-> g, unknown |-> <<>>]
    OBVIOUS
  <2> QED
    BY <2>1, <2>2 DEF g
<1> HIDE DEF m
<1>3. m.field[1] = a /\ m.field[2] = b /\ m.field[3] = n
  BY <1>2
<1>4. /\ DOMAIN l = 1..3 /\ l[1] = Bytes /\ l[2] = Bytes /\ l[3] = Number
      /\ \A i \in DOMAIN l : IsPlain(l[i]) /\ ~l[i].many /\ l[i].type # "double"
  <2>1. DOMAIN l = 1..3 /\ l[1] = Bytes /\ l[2] = Bytes /\ l[3] = Number
    BY DEF RpcHeader
  <2>2. ~Bytes.many /\ ~Number.many /\ Bytes.type # "double" /\ Number.type # "double"
    BY DEF Bytes, Number, Kind
  <2> QED
    BY <2>1, <2>2, PlainKinds
<1>5. IsValue(Bytes, a) /\ IsValue(Bytes, b) /\ IsValue(Number, n)
  BY <1>1 DEF IsValue, Bytes, Number, Kind
<1> HIDE DEF l
<1>6. ASSUME NEW i \in DOMAIN l
      PROVE  LET es == Elements(l[i], m.field[i])
             IN  /\ es \in Seq({es[j] : j \in DOMAIN es}) /\ Len(es) <= 1
                 /\ \A j \in DOMAIN es : IsValue(l[i], es[j])
                 /\ es = <<>> => m.field[i] = Default(l[i])
  <2>1. IsValue(l[i], m.field[i])
    BY <1>3, <1>4, <1>5
  <2>2. IsPlain(l[i]) /\ ~l[i].many /\ l[i].type # "double"
    BY <1>4
  <2> DEFINE k == l[i]
             v == m.field[i]
             es == Elements(k, v)
  <2>3. es = Elements(k, v)
    OBVIOUS
  <2> HIDE DEF k, v, es
  <2>4. /\ es \in Seq({es[j] : j \in DOMAIN es}) /\ Len(es) <= 1
        /\ \A j \in DOMAIN es : IsValue(k, es[j])
        /\ es = <<>> => v = Default(k)
    <3>1. IsPlain(k) /\ ~k.many /\ k.type # "double" /\ IsValue(k, v)
      BY <2>1, <2>2 DEF k, v
    <3>2. \A z : z = Elements(k, v) => /\ z \in Seq({z[j] : j \in DOMAIN z}) /\ Len(z) <= 1
                                       /\ \A j \in DOMAIN z : IsValue(k, z[j])
                                       /\ z = <<>> => v = Default(k)
      BY <3>1, PlainElements
    <3> QED
      BY <2>3, <3>2
  <2> QED
    BY <2>4 DEF k, v, es
<1>7. m = [field |-> [i \in DOMAIN l |-> m.field[i]], unknown |-> <<>>]
  <2>1. <<a, b, n>> = [i \in 1..3 |-> <<a, b, n>>[i]]
    OBVIOUS
  <2> DEFINE f == m.field
  <2>2. f = [i \in 1..3 |-> f[i]]
    BY <1>2, <2>1
  <2> HIDE DEF f
  <2>3. f = [i \in DOMAIN l |-> f[i]]
    BY <1>4, <2>2
  <2>4. m = [field |-> f, unknown |-> <<>>]
    BY <1>2 DEF f
  <2> QED
    BY <2>3, <2>4 DEF f
<1>8. IsMessage(l, m)
  <2>1. \A i \in DOMAIN l : l[i].type # "message"
    BY <1>4 DEF IsPlain
  <2> QED
    BY <1>6, <1>7, <2>1 DEF IsMessage, Is
<1> QED
  BY <1>3, <1>8 DEF m, l, a, b, n

----------------------------------------------------------------------------
(* The first bytes of a request.                                            *)

\* An empty name calls nothing.
LEMMA NoTarget ==
    ASSUME NEW x, NEW y, x = <<>> \/ y = <<>>
    PROVE  Targets(x, y) = {}
<1>1. \A n \in DOMAIN service_map \cup DOMAIN Replies : NameOf[n] # <<>>
  BY ConstantsAssumption
<1>2. ASSUME NEW c \in Targets(x, y) PROVE FALSE
  <2>1. c.service \in DOMAIN service_map /\ c.method \in DOMAIN Replies
    BY DEF Targets
  <2>2. NameOf[c.service] = x /\ NameOf[c.method] = y
    BY DEF Targets
  <2> QED
    BY <1>1, <2>1, <2>2
<1> QED
  BY <1>2

\* The names of a call lead back to its service and its method.
LEMMA CallsTarget ==
    ASSUME NEW c \in Calls, NEW args
    PROVE  Dispatched(Targets(NameOf[c.service], NameOf[c.method]), args)
             = Called(c, Parse(RequestLayout(c), args))
<1> DEFINE found == Targets(NameOf[c.service], NameOf[c.method])
           t == CHOOSE z \in found : TRUE
<1>1. /\ c.service \in DOMAIN service_map /\ c.method \in DOMAIN service_map[c.service]
      /\ c.method \in DOMAIN Replies
  BY CallFact DEF IsCall
<1>2. [service |-> c.service, method |-> c.method] \in found
  BY <1>1 DEF Targets
<1>3. found # {} /\ t \in found
  BY <1>2
<1>4. /\ t.service \in DOMAIN service_map /\ t.method \in DOMAIN Replies
      /\ NameOf[t.service] = NameOf[c.service] /\ NameOf[t.method] = NameOf[c.method]
  <2> HIDE DEF t
  <2> QED
    BY <1>3 DEF Targets
<1>5. \A n \in DOMAIN service_map \cup DOMAIN Replies :
          \A o \in DOMAIN service_map \cup DOMAIN Replies : NameOf[o] = NameOf[n] => o = n
  BY ConstantsAssumption
<1> HIDE DEF t, found
<1>6. t.service = c.service /\ t.method = c.method
  BY <1>1, <1>4, <1>5
<1>7. RequestLayout(t) = RequestLayout(c)
  BY <1>6 DEF RequestLayout
<1> QED
  BY <1>3, <1>6, <1>7 DEF Dispatched, Called, t, found

\* What may be called for c: nothing, c, or if some of it is missing, c with
\* the arguments that Clear leaves.
Emptied(c) == [c EXCEPT !.request = New(RequestLayout(c))]

\* The request of a call and no bytes of it: read back, or as Clear leaves it.
LEMMA CalledFact ==
    ASSUME NEW c, IsCall(c), NEW m
    PROVE  Called(c, <<m>>) = <<[c EXCEPT !.request = m]>>
<1> DEFINE s == c.service
           n == c.method
           r == c.request
<1>1. c = [service |-> s, method |-> n, request |-> r]
  BY DEF IsCall
<1> HIDE DEF s, n, r
<1>2. [c EXCEPT !.request = m] = [service |-> s, method |-> n, request |-> m]
  BY <1>1
<1>3. Called(c, <<m>>) = <<[service |-> s, method |-> n, request |-> m]>>
  BY DEF Called, s, n
<1> QED
  BY <1>2, <1>3

\* A header of which the end is missing names nothing, or the method without the
\* arguments, or is whole.
LEMMA HeaderCut ==
    ASSUME NEW c \in Calls,
           NEW r, CutOf(RpcHeader, r, Zrpcheader(c, Len(args_str(c))))
    PROVE  Handled(<<r>>, <<>>) = <<>> \/ Handled(<<r>>, <<>>) = <<Emptied(c)>>
<1> DEFINE a == r.field[1]
           b == r.field[2]
           n == r.field[3]
           x == NameOf[c.service]
           y == NameOf[c.method]
           d == Dispatched(Targets(a, b), <<>>)
<1>1. (a = <<>> \/ a = x) /\ (b = <<>> \/ b = y)
  <2>1. 1 \in DOMAIN RpcHeader /\ 2 \in DOMAIN RpcHeader /\ RpcHeader[1] = Bytes
        /\ RpcHeader[2] = Bytes
    BY DEF RpcHeader
  <2>2. Default(Bytes) = <<>> /\ ~Bytes.many
    BY DEF Default, Bytes, Kind
  <2> QED
    BY <2>1, <2>2, HeaderIsMessage DEF CutOf
<1>2. IsCall(c)
  BY CallFact
<1> HIDE DEF a, b, n, x, y
<1>3. d = <<>> \/ d = <<Emptied(c)>>
  <2>1. CASE a = <<>> \/ b = <<>>
    BY <2>1, NoTarget DEF Dispatched
  <2>2. CASE a = x /\ b = y
    <3>1. d = Called(c, Parse(RequestLayout(c), <<>>))
      BY <2>2, CallsTarget DEF x, y
    <3>2. Parse(RequestLayout(c), <<>>) = <<New(RequestLayout(c))>>
      BY ParseNothing
    <3> QED
      BY <1>2, <3>1, <3>2, CalledFact DEF Emptied
  <2> QED
    BY <1>1, <2>1, <2>2
<1> HIDE DEF d
<1>4. Handled(<<r>>, <<>>) = IF n \notin 0..Len(<<>>) THEN <<>>
                             ELSE Dispatched(Targets(a, b), SubSeq(<<>>, 1, n))
  BY DEF Handled, a, b, n
<1>5. n \in 0..Len(<<>>) => SubSeq(<<>>, 1, n) = <<>>
  OBVIOUS
<1> QED
  BY <1>3, <1>4, <1>5 DEF d

\* e has the three parts u, w and z; s is its first n places.
Parts(S, u, w, z, e, n, s) ==
    LET a == Len(u)
        k == Len(u) + Len(w)
    IN  /\ a \in Nat /\ Len(w) \in Nat /\ Len(z) \in Nat /\ Len(e) = k + Len(z)
        /\ e \in Seq(S) /\ s \in Seq(S) /\ Len(s) = n
        /\ Agrees(s, u)
        /\ a <= n => SubSeq(s, 1, a) = u
        /\ (a <= n /\ n <= k) => SubSeq(s, a + 1, n) = SubSeq(w, 1, n - a) /\ Skip(s, n) = <<>>
        /\ k <= n => SubSeq(s, a + 1, k) = w /\ Skip(s, k) = SubSeq(z, 1, n - k)

\* The first n bytes of three sequences in a row.
LEMMA ThreeParts ==
    ASSUME NEW S, NEW u \in Seq(S), NEW w \in Seq(S), NEW z \in Seq(S),
           NEW e, e = u \o w \o z, NEW n \in 0..Len(e), NEW s, s = SubSeq(e, 1, n)
    PROVE  Parts(S, u, w, z, e, n, s)
<1> DEFINE j == u \o w
           a == Len(u)
           k == a + Len(w)
<1>1. /\ j \in Seq(S) /\ Len(j) = k /\ a \in Nat /\ Len(w) \in Nat /\ k \in Nat
      /\ \A x \in 1..a : j[x] = u[x]
      /\ \A x \in 1..Len(w) : j[a + x] = w[x]
  BY ConcatFact
<1> HIDE DEF j
<1>2. /\ e \in Seq(S) /\ Len(e) = k + Len(z) /\ Len(z) \in Nat
      /\ \A x \in 1..k : e[x] = j[x]
  <2>1. e = j \o z
    BY DEF j
  <2> DEFINE q == j \o z
  <2>2. q \in Seq(S) /\ Len(q) = Len(j) + Len(z) /\ Len(z) \in Nat
    BY <1>1, ConcatFact
  <2>3. \A x \in 1..Len(j) : q[x] = j[x]
    BY <1>1, ConcatFact
  <2> HIDE DEF k, q
  <2>4. e = q
    BY <2>1 DEF q
  <2> QED
    BY <1>1, <2>2, <2>3, <2>4
<1>3. s \in Seq(S) /\ Len(s) = n /\ \A x \in 1..n : s[x] = e[x]
  BY <1>2, PrefixFact
<1>4. n \in Nat /\ n <= k + Len(z)
  BY <1>2
<1>5. Agrees(s, u)
  <2>1. ASSUME NEW x \in 1..a, x <= n PROVE s[x] = u[x]
    <3>1. x \in 1..k /\ x \in 1..n
      BY <1>1, <1>4, <2>1
    <3> QED
      BY <1>1, <1>2, <1>3, <3>1
  <2> QED
    BY <1>3, <2>1 DEF Agrees
<1>6. ASSUME a <= n PROVE SubSeq(s, 1, a) = u
  <2>1. SubSeq(s, 1, a) \in Seq(S) /\ Len(SubSeq(s, 1, a)) = a
    BY <1>1, <1>3, <1>6, PrefixFact
  <2>2. ASSUME NEW x \in 1..a PROVE SubSeq(s, 1, a)[x] = u[x]
    <3>1. x \in 1..k /\ x \in 1..n
      BY <1>1, <1>4, <1>6
    <3>2. SubSeq(s, 1, a)[x] = s[x]
      BY <1>1, <1>3, <1>6, PrefixFact
    <3> QED
      BY <1>1, <1>2, <1>3, <3>1, <3>2
  <2> QED
    BY <1>1, <2>1, <2>2, SamePlaces
<1>7. ASSUME a <= n, n <= k
      PROVE  SubSeq(s, a + 1, n) = SubSeq(w, 1, n - a) /\ Skip(s, n) = <<>>
  <2>1. s = SubSeq(j, 1, n)
    <3>1. SubSeq(s, 1, n) = s
      BY <1>3, AllOfIt
    <3>2. e = j \o z
      BY DEF j
    <3>3. n <= Len(j) + Len(z) /\ n <= Len(j) /\ n <= n
      BY <1>1, <1>2, <1>4, <1>7
    <3>4. SubSeq(SubSeq(j \o z, 1, n), 1, n) = SubSeq(j, 1, n)
      BY <1>1, <1>4, <3>3, FirstPart
    <3> QED
      BY <3>1, <3>2, <3>4
  <2>2. SubSeq(SubSeq(u \o w, 1, n), a + 1, n) = SubSeq(w, (a - a) + 1, n - a)
    <3>1. a \in Nat /\ a <= a /\ n \in Nat /\ n <= a + Len(w) /\ a <= n
      BY <1>1, <1>4, <1>7
    <3> QED
      BY <3>1, SecondPart
  <2>3. a - a = 0 /\ 0 + 1 = 1
    BY <1>1
  <2>4. Skip(s, n) = <<>>
    BY <1>3, NothingLeft
  <2> QED
    BY <2>1, <2>2, <2>3, <2>4 DEF j
<1>8. ASSUME k <= n
      PROVE  SubSeq(s, a + 1, k) = w /\ Skip(s, k) = SubSeq(z, 1, n - k)
  <2> DEFINE y == SubSeq(s, a + 1, k)
  <2>1. y \in Seq(S) /\ Len(y) = k - a /\ \A x \in 1..k - a : y[x] = s[a + x]
    <3>1. a \in Nat /\ k \in Nat /\ a <= k /\ k <= Len(s)
      BY <1>1, <1>3, <1>4, <1>8
    <3> HIDE DEF a, k
    <3> QED
      BY <1>3, <3>1, RunFact
  <2>2. k - a = Len(w)
    BY <1>1
  <2> HIDE DEF y
  <2>3. ASSUME NEW x \in 1..Len(w) PROVE y[x] = w[x]
    <3> DEFINE i == a + x
    <3>1. i \in 1..k /\ i \in 1..n
      BY <1>1, <1>4, <1>8
    <3>2. j[i] = w[x] /\ y[x] = s[i]
      BY <1>1, <2>1, <2>2
    <3> HIDE DEF i
    <3> QED
      BY <1>2, <1>3, <3>1, <3>2
  <2>4. y = w
    BY <1>1, <2>1, <2>2, <2>3, SamePlaces
  <2>5. Skip(s, k) = SubSeq(s, k + 1, n)
    BY <1>3 DEF Skip
  <2>6. SubSeq(SubSeq(j \o z, 1, n), k + 1, n) = SubSeq(z, (k - Len(j)) + 1, n - Len(j))
    <3>1. Len(j) <= k /\ n <= Len(j) + Len(z) /\ k <= n
      BY <1>1, <1>4, <1>8
    <3> HIDE DEF k
    <3> QED
      BY <1>1, <1>4, <3>1, SecondPart
  <2>7. (k - Len(j)) + 1 = 1 /\ n - Len(j) = n - k
    BY <1>1
  <2> QED
    BY <2>4, <2>5, <2>6, <2>7 DEF y, j
<1> QED
  BY <1>1, <1>2, <1>3, <1>5, <1>6, <1>7, <1>8 DEF Parts

\* The three parts of a request, and their lengths.
LEMMA EncodeFact ==
    ASSUME NEW c \in Calls
    PROVE  /\ args_str(c) \in Seq(Byte) /\ header_str(c) \in Seq(Byte)
           /\ Varint(Len(header_str(c))) \in Seq(Byte) /\ Len(header_str(c)) >= 0
           /\ Len(Varint(Len(header_str(c)))) = VarintSize(Len(header_str(c)))
           /\ VarintSize(Len(header_str(c))) \in 1..5
           /\ Encode(c) \in Seq(Byte) /\ Len(Encode(c)) \in Nat \ {0}
<1> DEFINE h == header_str(c)
           a == args_str(c)
           n == Len(h)
<1>1. a \in Seq(Byte)
  <2>1. IsMessage(RequestLayout(c), c.request) /\ IsClass(RequestLayout(c))
    BY CallFact
  <2> QED
    BY <2>1, SentExact DEF args_str
<1>2. h \in Seq(Byte)
  <2>1. IsMessage(RpcHeader, Zrpcheader(c, Len(args_str(c)))) /\ IsClass(RpcHeader)
    BY HeaderIsMessage, Classes
  <2> QED
    BY <2>1, SentExact DEF header_str
<1>3. n \in Int32
  BY CallFact
<1> HIDE DEF h, a
<1>4. n \in Nat /\ n >= 0
  BY <1>2
<1> HIDE DEF n
<1>5. Varint(n) \in Seq(Byte) /\ Len(Varint(n)) = VarintSize(n) /\ VarintSize(n) \in 1..5
  BY <1>3, <1>4, VarintFact
<1>6. Varint(n) \o h \o a \in Seq(Byte)
  BY <1>1, <1>2, <1>5
<1>7. Encode(c) = Varint(n) \o h \o a
  BY DEF Encode, n, h, a
<1>8. Len(Encode(c)) \in Nat \ {0}
  <2> DEFINE v == Varint(n)
             y == v \o h
             e == y \o a
  <2>1. v \in Seq(Byte) /\ Len(v) \in 1..5
    BY <1>5
  <2> HIDE DEF v
  <2>2. y \in Seq(Byte) /\ Len(y) = Len(v) + Len(h) /\ Len(h) \in Nat
    BY <1>2, <2>1, ConcatFact
  <2> HIDE DEF y
  <2>3. Len(e) = Len(y) + Len(a) /\ Len(a) \in Nat
    BY <1>1, <2>2, ConcatFact
  <2> HIDE DEF e
  <2>4. Len(e) \in Nat \ {0}
    <3>1. \A i \in 1..5, j \in Nat, k \in Nat : i + j + k \in Nat \ {0}
      OBVIOUS
    <3>2. Len(e) = Len(v) + Len(h) + Len(a)
      BY <2>2, <2>3, Zenon
    <3> QED
      BY <3>1, <3>2, <2>1, <2>2, <2>3, Zenon
  <2>5. e = Encode(c)
    BY <1>7 DEF e, y, v
  <2> QED
    BY <2>4, <2>5
<1> QED
  BY <1>1, <1>2, <1>4, <1>5, <1>6, <1>7, <1>8 DEF n, h, a

\* The first n bytes s of a request, whose length takes a bytes.
RequestRead(c, a, n, s) ==
    LET h == header_str(c)
        z == args_str(c)
        k == a + Len(h)
    IN  /\ a \in 1..5 /\ Len(h) \in Nat /\ Len(z) \in Nat
        /\ Len(Encode(c)) = k + Len(z)
        /\ s \in Seq(Byte) /\ Len(s) = n
        /\ VarintLength(s, 5) = IF a <= n THEN a ELSE 0
        /\ a <= n => VarintValue(SubSeq(s, 1, a)) = Len(h)
        /\ (a <= n /\ n <= k) => SubSeq(s, a + 1, n) = SubSeq(h, 1, n - a) /\ Skip(s, n) = <<>>
        /\ k <= n => SubSeq(s, a + 1, k) = h /\ Skip(s, k) = SubSeq(z, 1, n - k)

\* What the first n bytes of a request hold of its parts.
LEMMA RequestParts ==
    ASSUME NEW c \in Calls, NEW n \in 1..Len(Encode(c)),
           NEW s, s = SubSeq(Encode(c), 1, n)
    PROVE  RequestRead(c, VarintSize(Len(header_str(c))), n, s)
<1> DEFINE h == header_str(c)
           z == args_str(c)
           e == Encode(c)
           m == Len(h)
           v == Varint(m)
           a == VarintSize(m)
<1>1. /\ z \in Seq(Byte) /\ h \in Seq(Byte) /\ v \in Seq(Byte) /\ m >= 0
      /\ Len(v) = a /\ a \in 1..5 /\ e \in Seq(Byte) /\ Len(e) \in Nat
  BY EncodeFact
<1>2. e = v \o h \o z
  BY DEF Encode
<1>3. m \in Int32
  BY CallFact
<1>4. n \in 0..Len(e)
  BY <1>1
<1>5. s = SubSeq(e, 1, n)
  OBVIOUS
<1> HIDE DEF h, z, e, m, v, a
<1>6. Parts(Byte, v, h, z, e, n, s)
  BY <1>1, <1>2, <1>4, <1>5, ThreeParts
<1>7. /\ Len(h) \in Nat /\ Len(z) \in Nat /\ Len(e) = a + Len(h) + Len(z)
      /\ s \in Seq(Byte) /\ Len(s) = n /\ Agrees(s, v)
      /\ a <= n => SubSeq(s, 1, a) = v
      /\ (a <= n /\ n <= a + Len(h)) =>
             SubSeq(s, a + 1, n) = SubSeq(h, 1, n - a) /\ Skip(s, n) = <<>>
      /\ a + Len(h) <= n => /\ SubSeq(s, a + 1, a + Len(h)) = h
                            /\ Skip(s, a + Len(h)) = SubSeq(z, 1, n - (a + Len(h)))
  <2>1. Len(v) = a
    BY <1>1
  <2> QED
    BY Zenon, <1>6, <2>1 DEF Parts
<1>8. VarintLength(s, 5) = IF a <= n THEN a ELSE 0
  <2>1. 5 \in Nat /\ VarintSize(m) <= 5 /\ Agrees(s, Varint(m))
    BY <1>1, <1>7 DEF a, v
  <2>2. VarintLength(s, 5) = IF VarintSize(m) <= Len(s) THEN VarintSize(m) ELSE 0
    BY <1>3, <1>7, <2>1, VarintHead
  <2> QED
    BY <1>7, <2>2 DEF a
<1>9. a <= n => VarintValue(SubSeq(s, 1, a)) = m
  BY <1>3, <1>7, VarintRoundTrip DEF v
<1>10. RequestRead(c, a, n, s)
  BY <1>1, <1>7, <1>8, <1>9 DEF RequestRead, h, z, e, m
<1> QED
  BY <1>10 DEF a, m, h

\* The length does not end: no header.
LEMMA LengthCut ==
    ASSUME NEW s, s \in Seq(Byte), VarintLength(s, 5) = 0
    PROVE  Decode(s) = <<>>
<1> DEFINE r == New(RpcHeader)
<1>1. HeaderSize(s) = -1
  BY DEF HeaderSize
<1>2. HeaderEnd(s, 0, HeaderSize(s)) = 0
  BY <1>1 DEF HeaderEnd
<1>3. Decode(s) = Split(s, 0, 0)
  BY <1>2, DecodeDef
<1>4. SubSeq(s, 0 + 1, 0) = <<>>
  OBVIOUS
<1>5. Parse(RpcHeader, <<>>) = <<r>>
  BY ParseNothing
<1>6. Decode(s) = Handled(<<r>>, Skip(s, 0))
  BY <1>3, <1>4, <1>5 DEF Split
<1>7. r.field[1] = <<>>
  <2>1. 1 \in DOMAIN RpcHeader /\ RpcHeader[1] = Bytes
    BY DEF RpcHeader
  <2>2. Default(Bytes) = <<>>
    BY DEF Default, Bytes, Kind
  <2> QED
    BY <2>1, <2>2 DEF New
<1>8. Targets(r.field[1], r.field[2]) = {}
  BY <1>7, NoTarget
<1> HIDE DEF r
<1> QED
  BY <1>6, <1>8 DEF Handled, Dispatched

\* What OnMessage makes of the first n bytes of a request, for any names and
\* arguments: the call if it is all of them, else nothing or the call with all of
\* its arguments at their defaults, although it does not look at what ReadString
\* returns.
THEOREM FirstBytes ==
    ASSUME NEW c \in Calls, NEW n \in 1..Len(Encode(c)),
           NEW s, s = SubSeq(Encode(c), 1, n)
    PROVE  /\ n = Len(Encode(c)) => Decode(s) = <<c>>
           /\ n # Len(Encode(c)) => /\ Decode(s) = <<>> \/ Decode(s) = <<Emptied(c)>>
                                    /\ s # Encode(c)
<1> DEFINE h == header_str(c)
           z == args_str(c)
           a == VarintSize(Len(header_str(c)))
           k == a + Len(h)
           m == Zrpcheader(c, Len(z))
<1>1. /\ a \in 1..5 /\ Len(h) \in Nat /\ Len(z) \in Nat /\ Len(Encode(c)) = k + Len(z)
      /\ s \in Seq(Byte) /\ Len(s) = n
      /\ VarintLength(s, 5) = IF a <= n THEN a ELSE 0
      /\ a <= n => VarintValue(SubSeq(s, 1, a)) = Len(h)
      /\ (a <= n /\ n <= k) => SubSeq(s, a + 1, n) = SubSeq(h, 1, n - a) /\ Skip(s, n) = <<>>
      /\ k <= n => SubSeq(s, a + 1, k) = h /\ Skip(s, k) = SubSeq(z, 1, n - k)
  <2>1. RequestRead(c, a, n, s)
    BY RequestParts
  <2> HIDE DEF a
  <2> QED
    BY <2>1 DEF RequestRead
<1>2. n \in Nat /\ n > 0 /\ n <= k + Len(z)
  BY <1>1
<1>3. s = Encode(c) => n = Len(Encode(c))
  BY <1>1
<1>4. /\ IsMessage(RpcHeader, m) /\ m.field[1] = NameOf[c.service]
      /\ m.field[2] = NameOf[c.method] /\ m.field[3] = Len(z) /\ IsClass(RpcHeader)
  BY HeaderIsMessage, Classes
<1>5. h = Serialize(RpcHeader, m) /\ z = Serialize(RequestLayout(c), c.request)
  BY DEF header_str, args_str
<1>6. /\ IsMessage(RequestLayout(c), c.request) /\ IsClass(RequestLayout(c)) /\ IsCall(c)
      /\ z \in Seq(Byte)
  BY CallFact, EncodeFact
<1>7. CutOf(RpcHeader, m, m)
  BY DEF CutOf
<1> HIDE DEF a, h, z
<1>8. CASE n < a
  <2>1. VarintLength(s, 5) = 0 /\ n # Len(Encode(c))
    BY <1>1, <1>2, <1>8
  <2>2. Decode(s) = <<>>
    BY <1>1, <2>1, LengthCut
  <2> QED
    BY <1>3, <2>1, <2>2
<1>9. ASSUME a <= n
      PROVE  Decode(s) = Split(s, a, IF k <= n THEN k ELSE n)
  <2>1. VarintLength(s, 5) = a /\ a # 0
    BY <1>1, <1>9
  <2>2. HeaderSize(s) = Len(h)
    BY <1>1, <1>9, <2>1 DEF HeaderSize
  <2> DEFINE size == Len(h)
  <2>3. ~(size < 0) /\ size \in Nat
    BY <1>1
  <2>4. HeaderEnd(s, a, size) = Min({a + size, Len(s)})
    BY <2>3 DEF HeaderEnd
  <2>5. Min({k, n}) = IF k <= n THEN k ELSE n
    <3>1. k \in Int /\ n \in Int
      BY <1>1, <1>2
    <3> HIDE DEF k
    <3> QED
      BY <3>1, MinFact
  <2>6. Decode(s) = Split(s, a, HeaderEnd(s, a, size))
    BY <2>1, <2>2, DecodeDef
  <2> QED
    BY <1>1, <2>4, <2>5, <2>6
<1>10. CASE a <= n /\ n < k
  <2> DEFINE y == Parse(RpcHeader, SubSeq(h, 1, n - a))
  <2>1. Decode(s) = Split(s, a, n)
    BY <1>1, <1>2, <1>9, <1>10
  <2>2. SubSeq(s, a + 1, n) = SubSeq(h, 1, n - a) /\ Skip(s, n) = <<>>
    BY <1>1, <1>2, <1>10
  <2>3. Decode(s) = Handled(y, <<>>)
    BY <2>1, <2>2 DEF Split
  <2>4. n - a \in 0..Len(h)
    BY <1>1, <1>2, <1>10
  <2>5. y = <<>> \/ \E r : y = <<r>> /\ CutOf(RpcHeader, r, m)
    <3> DEFINE d == n - a
    <3> HIDE DEF d, m
    <3> QED
      BY <1>4, <1>5, <2>4, CutRead DEF d
  <2> HIDE DEF y
  <2>6. Decode(s) = <<>> \/ Decode(s) = <<Emptied(c)>>
    <3>1. CASE y = <<>>
      BY <2>3, <3>1 DEF Handled
    <3>2. CASE \E r : y = <<r>> /\ CutOf(RpcHeader, r, m)
      <4>1. PICK r : y = <<r>> /\ CutOf(RpcHeader, r, m)
        BY <3>2
      <4>2. Handled(<<r>>, <<>>) = <<>> \/ Handled(<<r>>, <<>>) = <<Emptied(c)>>
        BY <4>1, HeaderCut DEF z
      <4> QED
        BY <2>3, <4>1, <4>2
    <3> QED
      BY <2>5, <3>1, <3>2
  <2>7. n # Len(Encode(c))
    BY <1>1, <1>2, <1>10
  <2> QED
    BY <1>3, <2>6, <2>7
<1>11. CASE k <= n
  <2> DEFINE rest == SubSeq(z, 1, n - k)
  <2>1. Decode(s) = Split(s, a, k)
    BY <1>1, <1>2, <1>9, <1>11
  <2>2. SubSeq(s, a + 1, k) = h /\ Skip(s, k) = rest
    BY <1>1, <1>11
  <2>3. Parse(RpcHeader, h) = <<m>>
    <3> HIDE DEF m
    <3> QED
      BY <1>4, <1>5, SentExact
  <2>4. Decode(s) = Handled(<<m>>, rest)
    BY <2>1, <2>2, <2>3 DEF Split
  <2>5. n - k \in 0..Len(z)
    BY <1>1, <1>2, <1>11
  <2>6. Len(rest) = n - k
    <3> DEFINE d == n - k
    <3> HIDE DEF d
    <3> QED
      BY <1>6, <2>5, PrefixFact DEF d
  <2>7. CASE n # Len(Encode(c))
    <3>1. Len(z) \notin 0..Len(rest)
      BY <1>1, <1>2, <2>5, <2>6, <2>7
    <3> HIDE DEF m, rest
    <3>2. Handled(<<m>>, rest) = <<>>
      BY <1>4, <3>1 DEF Handled
    <3> QED
      BY <1>3, <2>4, <2>7, <3>2
  <2>8. CASE n = Len(Encode(c))
    <3>1. n - k = Len(z) /\ Len(z) \in 0..Len(z)
      BY <1>1, <2>8
    <3>2. SubSeq(z, 1, Len(z)) = z
      BY <1>6, AllOfIt
    <3>3. rest = z
      BY <3>1, <3>2
    <3> HIDE DEF m, rest
    <3>4. Handled(<<m>>, rest) = Dispatched(Targets(NameOf[c.service], NameOf[c.method]), z)
      BY <1>4, <3>1, <3>2, <3>3 DEF Handled
    <3>5. Handled(<<m>>, rest) = Called(c, Parse(RequestLayout(c), z))
      BY <3>4, CallsTarget
    <3>6. Parse(RequestLayout(c), z) = <<c.request>>
      BY <1>5, <1>6, SentExact
    <3>7. Called(c, <<c.request>>) = <<[c EXCEPT !.request = c.request]>>
      BY <1>6, CalledFact
    <3>8. [c EXCEPT !.request = c.request] = c
      BY <1>6 DEF IsCall
    <3> QED
      BY <2>4, <2>8, <3>5, <3>6, <3>7, <3>8
  <2> QED
    BY <2>7, <2>8
<1> QED
  <2>1. n < a \/ (a <= n /\ n < k) \/ k <= n
    BY <1>1, <1>2
  <2> QED
    BY <1>8, <1>10, <1>11, <2>1

----------------------------------------------------------------------------
(* The invariant.                                                           *)

\* A sequence of whatever it holds.
Own(s) == s \in Seq({s[i] : i \in DOMAIN s})

\* A call that was made, and one of the replies its method may give.
IsExecuted(e) == IsCall(e.call) /\ e.reply \in Replies[e.call.method]

\* What SendRpcResponse makes of it.
ReplyBytes(e) == Serialize(ResponseLayout(e.call), e.reply)

\* The invariant.  The shape of the state;
Types == /\ call \in Calls /\ client \in {"idle", "sent", "done"} /\ failed \in BOOLEAN
         /\ reads \in 0..2 /\ provider \in {"up", "crashed"}
         /\ flight \in Seq(Byte) /\ buffer \in Seq(Byte) /\ down \in Seq(Byte)
         /\ Own(executed)

\* Until the provider has looked, what has arrived and what has not are the request.
Unread == reads = 0 => /\ executed = <<>>
                       /\ buffer \o flight \in {<<>>, Encode(call)}
                       /\ client = "idle" => buffer \o flight = <<>>

\* what was executed is a call of a method that exists, whatever was read;
AllCalls == \A i \in DOMAIN executed : IsExecuted(executed[i])

\* Until the caller has looked, what is under way is the reply to the only call.
Unanswered == /\ executed = <<>> => down = <<>>
              /\ (client # "done" /\ Len(executed) = 1) => down = ReplyBytes(executed[1])

\* Nothing was called: the response is as the caller made it, or the call failed.
NoReply == (executed = <<>> /\ ~failed) => response = New(ResponseLayout(call))

Inv == /\ Types /\ Unread /\ AllCalls /\ Unanswered /\ NoReply
       /\ FirstReadIsCallOrDefaults /\ ReplyIsCut

LEMMA OwnElements ==
    ASSUME NEW S, NEW s \in Seq(S)
    PROVE  Own(s)
<1>1. \A i \in 1..Len(s) : s[i] \in {s[j] : j \in DOMAIN s}
  OBVIOUS
<1> QED
  BY <1>1 DEF Own

LEMMA AppendFact ==
    ASSUME NEW s, Own(s), NEW e, NEW t, t = Append(s, e)
    PROVE  /\ Own(t) /\ Len(s) \in Nat /\ Len(t) = Len(s) + 1
           /\ DOMAIN s = 1..Len(s) /\ DOMAIN t = 1..Len(s) + 1
           /\ \A i \in DOMAIN s : t[i] = s[i]
           /\ t[Len(s) + 1] = e
<1> DEFINE S == {s[i] : i \in DOMAIN s} \cup {e}
<1>1. s \in Seq(S) /\ e \in S
  BY DEF Own
<1> HIDE DEF S
<1>2. t \in Seq(S)
  BY <1>1
<1>3. /\ Len(s) \in Nat /\ Len(t) = Len(s) + 1
      /\ DOMAIN s = 1..Len(s) /\ DOMAIN t = 1..Len(s) + 1
      /\ \A i \in DOMAIN s : t[i] = s[i]
      /\ t[Len(s) + 1] = e
  BY <1>1
<1>4. Own(t)
  BY <1>2, OwnElements
<1> QED
  BY <1>3, <1>4

\* The bytes of a reply are read back as the reply.
LEMMA ReplyFact ==
    ASSUME NEW c, IsCall(c), NEW r \in Replies[c.method]
    PROVE  /\ IsMessage(ResponseLayout(c), r) /\ IsClass(ResponseLayout(c))
           /\ Serialize(ResponseLayout(c), r) \in Seq(Byte)
<1> DEFINE s == c.service
           m == c.method
<1>1. s \in DOMAIN service_map /\ m \in DOMAIN service_map[s] /\ m \in DOMAIN Replies
  BY DEF IsCall
<1>2. ResponseLayout(c) = service_map[s][m].response
  BY DEF ResponseLayout
<1>3. IsMessage(service_map[s][m].response, r)
  BY <1>1, ConstantsAssumption
<1>4. IsClass(service_map[s][m].response)
  BY <1>1, ServiceFact
<1> HIDE DEF s, m
<1> QED
  BY <1>2, <1>3, <1>4, SentExact

\* What OnMessage records, and its cases.
Entry(c, r) == [read |-> reads', call |-> c, whole |-> buffer = Encode(call), reply |-> r]

\* What OnMessage does, with the call it makes.
LEMMA OnMessageFact ==
    ASSUME OnMessage
    PROVE  /\ buffer # <<>> /\ buffer' = <<>> /\ reads' = Min({reads + 1, 2})
           /\ UNCHANGED <<call, client, failed, response, flight, provider>>
           /\ \/ executed' = executed /\ down' = down
              \/ \E c : /\ Decode(buffer) = <<c>> /\ IsCall(c)
                        /\ \E r \in Replies[c.method] :
                             /\ executed' = Append(executed, Entry(c, r))
                             /\ down' = down \o Serialize(ResponseLayout(c), r)
<1> DEFINE d == Decode(buffer)
<1>1. /\ buffer # <<>> /\ buffer' = <<>> /\ reads' = Min({reads + 1, 2})
      /\ UNCHANGED <<call, client, failed, response, flight, provider>>
  BY DEF OnMessage
<1>2. IF d = <<>> THEN UNCHANGED <<executed, down>>
      ELSE \E r \in Replies[d[1].method] :
             /\ executed' = Append(executed, Entry(d[1], r))
             /\ down' = down \o Serialize(ResponseLayout(d[1]), r)
  BY DEF OnMessage, Entry
<1>3. d = <<>> \/ \E c : d = <<c>> /\ IsCall(c)
  BY DecodedIsCall
<1> HIDE DEF d
<1>4. CASE d = <<>>
  BY <1>1, <1>2, <1>4
<1>5. CASE \E c : d = <<c>> /\ IsCall(c)
  <2>1. PICK c : d = <<c>> /\ IsCall(c)
    BY <1>5
  <2>2. d # <<>> /\ d[1] = c
    BY <2>1
  <2>3. \E r \in Replies[c.method] :
           /\ executed' = Append(executed, Entry(c, r))
           /\ down' = down \o Serialize(ResponseLayout(c), r)
    BY <1>2, <2>2
  <2> QED
    BY <1>1, <2>1, <2>3 DEF d
<1> QED
  BY <1>3, <1>4, <1>5

LEMMA InitInv == Init => Inv
<1> SUFFICES ASSUME Init PROVE Inv
  OBVIOUS
<1>1. executed = <<>> /\ Own(executed) /\ DOMAIN executed = {}
  BY DEF Init, Own
<1>2. buffer \o flight = <<>>
  BY DEF Init
<1>3. Types
  <2>1. <<>> \in Seq(Byte)
    OBVIOUS
  <2>2. failed \in BOOLEAN /\ client \in {"idle", "sent", "done"} /\ provider \in {"up", "crashed"}
    BY Zenon DEF Init
  <2>3. /\ call \in Calls /\ reads = 0
        /\ flight \in Seq(Byte) /\ buffer \in Seq(Byte) /\ down \in Seq(Byte)
    BY Zenon, <2>1 DEF Init
  <2>4. 0 \in 0..2
    OBVIOUS
  <2> QED
    BY Zenon, <1>1, <2>2, <2>3, <2>4 DEF Types
<1>4. Len(executed) = 0
  BY <1>1
<1> QED
  BY <1>1, <1>2, <1>3, <1>4 DEF Init, Inv, Unread, AllCalls, Unanswered, NoReply,
     FirstReadIsCallOrDefaults, ReplyIsCut

LEMMA ReadsFact ==
    ASSUME Types, reads' = Min({reads + 1, 2})
    PROVE  reads' \in 1..2 /\ (reads' = 1 => reads = 0)
<1>1. reads \in 0..2 /\ reads + 1 \in Int
  BY DEF Types
<1>2. reads' = IF reads + 1 <= 2 THEN reads + 1 ELSE 2
  BY <1>1, MinFact
<1> QED
  BY <1>1, <1>2

LEMMA TypesStep ==
    ASSUME Inv, Next
    PROVE  Types'
<1> USE DEF Types
<1>1. Types
  BY DEF Inv
<1>2. CASE Send
  <2>1. Encode(call) \in Seq(Byte)
    BY <1>1, EncodeFact
  <2> QED
    BY <1>1, <1>2, <2>1 DEF Send
<1>3. CASE Arrive
  <2>1. PICK n \in 1..Len(flight) : /\ buffer' = buffer \o SubSeq(flight, 1, n)
                                    /\ flight' = Skip(flight, n)
    BY <1>3 DEF Arrive
  <2>2. SubSeq(flight, 1, n) \in Seq(Byte) /\ Skip(flight, n) \in Seq(Byte)
    <3>1. flight \in Seq(Byte) /\ n \in 0..Len(flight)
      BY <1>1
    <3> QED
      BY <3>1, PrefixFact, SkipFact
  <2>3. buffer \o SubSeq(flight, 1, n) \in Seq(Byte)
    BY <1>1, <2>2
  <2> QED
    BY <1>1, <1>3, <2>1, <2>2, <2>3 DEF Arrive
<1>4. CASE OnMessage
  <2>1. /\ buffer' = <<>> /\ reads' = Min({reads + 1, 2})
        /\ UNCHANGED <<call, client, failed, response, flight, provider>>
    BY <1>4, OnMessageFact
  <2>2. reads' \in 0..2
    BY <1>1, <2>1, ReadsFact
  <2>3. /\ down' \in Seq(Byte)
        /\ Own(executed')
    <3>1. CASE executed' = executed /\ down' = down
      BY <1>1, <3>1
    <3>2. ASSUME NEW c, IsCall(c), NEW r \in Replies[c.method],
                 executed' = Append(executed, Entry(c, r)),
                 down' = down \o Serialize(ResponseLayout(c), r)
          PROVE  /\ down' \in Seq(Byte)
                 /\ Own(executed')
      <4>1. Serialize(ResponseLayout(c), r) \in Seq(Byte)
        BY <3>2, ReplyFact
      <4>2. down' \in Seq(Byte)
        BY <1>1, <3>2, <4>1
      <4>3. Own(executed)
        BY <1>1
      <4> HIDE DEF Types
      <4>4. Own(executed')
        BY <3>2, <4>3, AppendFact
      <4> QED
        BY <4>2, <4>4
    <3> HIDE DEF Types
    <3> QED
      BY <1>4, <3>1, <3>2, OnMessageFact
  <2> QED
    BY <1>1, <2>1, <2>2, <2>3
<1>5. CASE Recv
  <2>1. PICK n \in 1..Min({Len(down), RecvMax}) : Finish(SubSeq(down, 1, n))
    BY <1>5 DEF Recv
  <2>2. n \in 0..Len(down)
    <3>1. Len(down) \in Int /\ RecvMax \in Int
      BY <1>1, ConstantsAssumption
    <3>2. Min({Len(down), RecvMax}) = IF Len(down) <= RecvMax THEN Len(down) ELSE RecvMax
      BY <3>1, MinFact
    <3> QED
      BY <3>1, <3>2
  <2>3. Len(SubSeq(down, 1, n)) = n
    BY <1>1, <2>2, PrefixFact
  <2>4. Skip(down, n) \in Seq(Byte)
    BY <1>1, <2>2, SkipFact
  <2> QED
    BY <1>1, <2>1, <2>3, <2>4 DEF Finish
<1>6. CASE RecvEnd
  <2>1. Finish(<<>>)
    BY <1>6 DEF RecvEnd
  <2>2. Skip(down, Len(<<>>)) \in Seq(Byte)
    <3>1. down \in Seq(Byte) /\ Len(<<>>) = 0 /\ 0 \in 0..Len(down)
      BY <1>1
    <3>2. Skip(down, 0) \in Seq(Byte)
      BY <3>1, SkipFact
    <3> QED
      BY <3>1, <3>2
  <2> QED
    BY <1>1, <2>1, <2>2 DEF Finish
<1>7. CASE RecvReset
  BY <1>1, <1>7 DEF RecvReset
<1>8. CASE Crash
  BY <1>1, <1>8 DEF Crash
<1> QED
  BY <1>2, <1>3, <1>4, <1>5, <1>6, <1>7, <1>8 DEF Next

LEMMA ArriveKeeps ==
    ASSUME NEW b \in Seq(Byte), NEW f \in Seq(Byte), NEW n \in 1..Len(f)
    PROVE  (b \o SubSeq(f, 1, n)) \o Skip(f, n) = b \o f
<1> DEFINE u == SubSeq(f, 1, n)
           w == Skip(f, n)
           y == (b \o u) \o w
           z == b \o f
<1>1. n \in Nat /\ n \in 0..Len(f) /\ Len(f) \in Nat /\ Len(b) \in Nat
  OBVIOUS
<1>2. /\ u \in Seq(Byte) /\ Len(u) = n /\ \A x \in 1..n : u[x] = f[x]
  BY <1>1, PrefixFact
<1>3. /\ w \in Seq(Byte) /\ Len(w) = Len(f) - n /\ \A x \in 1..Len(f) - n : w[x] = f[n + x]
  BY <1>1, SkipFact
<1> HIDE DEF u, w
<1>4. u \o w = f
  <2> DEFINE q == u \o w
  <2>1. /\ q \in Seq(Byte) /\ Len(q) = n + (Len(f) - n)
        /\ \A x \in 1..n : q[x] = u[x]
        /\ \A x \in 1..Len(f) - n : q[n + x] = w[x]
    <3>0. u \in Seq(Byte) /\ w \in Seq(Byte)
      BY <1>2, <1>3
    <3>1. /\ q \in Seq(Byte) /\ Len(q) = Len(u) + Len(w)
          /\ \A x \in 1..Len(u) : q[x] = u[x]
          /\ \A x \in 1..Len(w) : q[Len(u) + x] = w[x]
      BY <3>0, ConcatFact
    <3> HIDE DEF q
    <3> QED
      BY Zenon, <1>2, <1>3, <3>1
  <2> HIDE DEF q
  <2>2. Len(q) = Len(f)
    BY <1>1, <2>1
  <2>3. ASSUME NEW x \in 1..Len(f) PROVE q[x] = f[x]
    <3>1. CASE x <= n
      BY <1>1, <1>2, <2>1, <3>1
    <3>2. CASE ~(x <= n)
      <4>1. x - n \in 1..Len(f) - n /\ n + (x - n) = x
        BY <1>1, <3>2
      <4>2. q[n + (x - n)] = w[x - n] /\ w[x - n] = f[n + (x - n)]
        BY <1>3, <2>1, <4>1
      <4> QED
        BY <4>1, <4>2
    <3> QED
      BY <3>1, <3>2
  <2>4. q = f
    BY <1>1, <2>1, <2>2, <2>3, SamePlaces
  <2> QED
    BY <2>4 DEF q
<1>5. (b \o u) \o w = b \o (u \o w)
  BY <1>2, <1>3
<1> QED
  BY <1>4, <1>5 DEF u, w

\* One lemma for each part of the invariant that a step could break.
LEMMA UnreadStep ==
    ASSUME Inv, Next
    PROVE  Unread'
<1> USE DEF Unread
<1>1. Types /\ Unread
  BY DEF Inv
<1>2. CASE Send
  <2>1. Encode(call) \in Seq(Byte) /\ buffer \in Seq(Byte) /\ flight \in Seq(Byte)
    BY <1>1, EncodeFact DEF Types
  <2>2. /\ client = "idle" /\ client' = "sent" /\ flight' = Encode(call)
        /\ UNCHANGED <<call, buffer, reads, executed>>
    BY <1>2 DEF Send
  <2>3. reads = 0 => buffer = <<>>
    BY <1>1, <2>1, <2>2
  <2>4. <<>> \o Encode(call) = Encode(call)
    BY <2>1
  <2> QED
    BY <1>1, <2>2, <2>3, <2>4
<1>3. CASE Arrive
  <2>1. PICK n \in 1..Len(flight) : /\ buffer' = buffer \o SubSeq(flight, 1, n)
                                    /\ flight' = Skip(flight, n)
    BY <1>3 DEF Arrive
  <2>2. buffer \in Seq(Byte) /\ flight \in Seq(Byte)
    BY <1>1 DEF Types
  <2>3. buffer' \o flight' = buffer \o flight
    BY <2>1, <2>2, ArriveKeeps
  <2>4. UNCHANGED <<call, client, reads, executed>>
    BY <1>3 DEF Arrive
  <2> QED
    BY <1>1, <2>3, <2>4
<1>4. CASE OnMessage
  <2>1. reads' # 0
    BY <1>1, <1>4, OnMessageFact, ReadsFact
  <2> QED
    BY <2>1
<1>5. ASSUME NEW bytes, Finish(bytes)
      PROVE  Unread'
  <2>1. client' = "done" /\ UNCHANGED <<call, flight, buffer, reads, executed>>
    BY <1>5 DEF Finish
  <2> QED
    BY <1>1, <2>1
<1>6. CASE Recv
  BY <1>5, <1>6 DEF Recv
<1>7. CASE RecvEnd
  BY <1>5, <1>7 DEF RecvEnd
<1>8. CASE RecvReset
  BY <1>1, <1>8 DEF RecvReset
<1>9. CASE Crash
  <2>1. /\ buffer' = <<>> /\ flight' = <<>> /\ UNCHANGED <<call, client, reads, executed>>
        /\ client = "sent"
    BY <1>9 DEF Crash
  <2>2. <<>> \o <<>> = <<>>
    OBVIOUS
  <2> QED
    BY <1>1, <2>1, <2>2
<1> QED
  BY <1>2, <1>3, <1>4, <1>6, <1>7, <1>8, <1>9 DEF Next

LEMMA AllCallsStep ==
    ASSUME Inv, Next
    PROVE  AllCalls'
<1> USE DEF AllCalls
<1>1. Types /\ AllCalls
  BY DEF Inv
<1>2. CASE executed' = executed
  BY <1>1, <1>2
<1>3. CASE OnMessage
  <2>1. ASSUME NEW c, IsCall(c), NEW r \in Replies[c.method],
               executed' = Append(executed, Entry(c, r))
        PROVE  AllCalls'
    <3> DEFINE e == Entry(c, r)
    <3>1. IsExecuted(e)
      BY <2>1 DEF IsExecuted, Entry
    <3>2. Own(executed)
      BY <1>1 DEF Types
    <3> HIDE DEF e
    <3>3. /\ DOMAIN executed' = 1..Len(executed) + 1 /\ DOMAIN executed = 1..Len(executed)
          /\ \A i \in DOMAIN executed : executed'[i] = executed[i]
          /\ executed'[Len(executed) + 1] = e /\ Len(executed) \in Nat
      BY <2>1, <3>2, AppendFact DEF e
    <3>4. ASSUME NEW i \in DOMAIN executed' PROVE IsExecuted(executed'[i])
      <4>1. i \in DOMAIN executed \/ i = Len(executed) + 1
        BY <3>3
      <4> QED
        BY <1>1, <3>1, <3>3, <4>1
    <3> QED
      BY <3>4
  <2> QED
    BY <1>2, <1>3, <2>1, OnMessageFact
<1>4. CASE ~OnMessage
  <2>1. executed' = executed
    BY <1>4 DEF Next, Send, Arrive, Recv, RecvEnd, Finish, RecvReset, Crash
  <2> QED
    BY <1>2, <2>1
<1> QED
  BY <1>3, <1>4

LEMMA UnansweredStep ==
    ASSUME Inv, Next
    PROVE  Unanswered'
<1> USE DEF Unanswered
<1>1. Types /\ Unanswered /\ down \in Seq(Byte) /\ Own(executed)
  BY DEF Inv, Types
<1>2. CASE OnMessage
  <2>1. CASE executed' = executed /\ down' = down
    <3>1. client' = client
      BY <1>2, OnMessageFact
    <3> QED
      BY <1>1, <2>1, <3>1
  <2>2. ASSUME NEW c, IsCall(c), NEW r \in Replies[c.method],
               executed' = Append(executed, Entry(c, r)),
               down' = down \o Serialize(ResponseLayout(c), r)
        PROVE  Unanswered'
    <3> DEFINE e == Entry(c, r)
               n == Len(executed)
    <3>1. e.call = c /\ e.reply = r
      BY DEF Entry
    <3> HIDE DEF e
    <3>2. n \in Nat /\ Len(executed') = n + 1 /\ executed'[n + 1] = e /\ Own(executed')
      BY <1>1, <2>2, AppendFact DEF e
    <3>3. n = 0 => executed = <<>>
      BY <1>1 DEF Own
    <3>4. executed' # <<>>
      BY <3>2
    <3>5. Serialize(ResponseLayout(c), r) \in Seq(Byte)
      BY <2>2, ReplyFact
    <3>6. n = 0 => down' = Serialize(ResponseLayout(c), r)
      BY <1>1, <2>2, <3>3, <3>5
    <3>7. Len(executed') = 1 => n = 0 /\ executed'[1] = e
      <4> DEFINE k == Len(executed')
      <4>0. n \in Nat /\ k = n + 1
        BY <3>2
      <4> HIDE DEF k, n
      <4>1. k = 1 => n = 0
        BY <4>0
      <4>2. 0 + 1 = 1
        OBVIOUS
      <4> QED
        BY Zenon, <3>2, <4>1, <4>2 DEF k, n
    <3>8. ReplyBytes(e) = Serialize(ResponseLayout(c), r)
      BY <3>1 DEF ReplyBytes
    <3> QED
      BY <3>4, <3>6, <3>7, <3>8 DEF ReplyBytes
  <2> QED
    BY <1>2, <2>1, <2>2, OnMessageFact
<1>3. ASSUME NEW bytes, Finish(bytes), bytes = <<>> \/ down # <<>>
      PROVE  Unanswered'
  <2>1. client' = "done" /\ executed' = executed /\ down' = Skip(down, Len(bytes))
    BY <1>3 DEF Finish
  <2>2. bytes = <<>> => down' = down
    <3>1. Len(<<>>) = 0 /\ Skip(down, 0) = down
      BY <1>1, SkipNone
    <3> QED
      BY <2>1, <3>1
  <2> QED
    BY <1>1, <1>3, <2>1, <2>2
<1>4. CASE Recv
  BY <1>3, <1>4 DEF Recv
<1>5. CASE RecvEnd
  BY <1>3, <1>5 DEF RecvEnd
<1>6. CASE RecvReset
  BY <1>1, <1>6 DEF RecvReset
<1>7. CASE Send \/ Arrive \/ Crash
  <2>1. /\ executed' = executed /\ down' = down
        /\ client # "done"
           \/ client' = client
    BY <1>7 DEF Send, Arrive, Crash
  <2> QED
    BY <1>1, <2>1 DEF ReplyBytes
<1> QED
  BY <1>2, <1>4, <1>5, <1>6, <1>7 DEF Next

\* What is in the buffer when nothing has been read is the start of the request.
LEMMA FirstReadFact ==
    ASSUME Types, Unread, reads = 0, buffer # <<>>, NEW c, Decode(buffer) = <<c>>
    PROVE  \/ c = call
           \/ /\ buffer # Encode(call)
              /\ c = [call EXCEPT !.request = New(RequestLayout(call))]
<1> DEFINE e == Encode(call)
           n == Len(buffer)
<1>1. buffer \in Seq(Byte) /\ flight \in Seq(Byte) /\ call \in Calls /\ e \in Seq(Byte)
  BY EncodeFact DEF Types
<1>2. n \in Nat /\ n > 0 /\ Len(flight) \in Nat
  BY <1>1
<1>3. /\ Len(buffer \o flight) = n + Len(flight)
      /\ \A x \in 1..n : (buffer \o flight)[x] = buffer[x]
  BY <1>1, ConcatFact
<1>4. buffer \o flight = e
  <2>1. Len(buffer \o flight) # 0
    BY <1>2, <1>3
  <2>2. buffer \o flight # <<>>
    BY <2>1
  <2> QED
    BY <2>2 DEF Unread
<1> HIDE DEF e
<1>5. Len(e) = n + Len(flight) /\ \A x \in 1..n : e[x] = buffer[x]
  BY <1>3, <1>4
<1>6. n \in 0..Len(e) /\ n \in 1..Len(e)
  BY <1>2, <1>5
<1>7. buffer = SubSeq(e, 1, n)
  <2>1. /\ SubSeq(e, 1, n) \in Seq(Byte) /\ Len(SubSeq(e, 1, n)) = n
        /\ \A x \in 1..n : SubSeq(e, 1, n)[x] = e[x]
    BY <1>1, <1>6, PrefixFact
  <2> QED
    BY <1>1, <1>2, <1>5, <2>1, SamePlaces
<1> HIDE DEF n
<1>8. /\ n = Len(e) => Decode(buffer) = <<call>>
      /\ n # Len(e) => /\ Decode(buffer) = <<>> \/ Decode(buffer) = <<Emptied(call)>>
                       /\ buffer # e
  BY <1>1, <1>6, <1>7, FirstBytes DEF e
<1> QED
  BY <1>8 DEF e, Emptied

LEMMA FirstReadStep ==
    ASSUME Inv, Next
    PROVE  FirstReadIsCallOrDefaults'
<1> USE DEF FirstReadIsCallOrDefaults
<1>1. Types /\ Unread /\ FirstReadIsCallOrDefaults /\ Own(executed)
  BY DEF Inv, Types
<1>2. call' = call
  BY DEF Next, Send, Arrive, OnMessage, Recv, RecvEnd, Finish, RecvReset, Crash
<1>3. CASE executed' = executed
  BY <1>1, <1>2, <1>3
<1>4. CASE OnMessage
  <2>1. ASSUME NEW c, IsCall(c), Decode(buffer) = <<c>>, NEW r \in Replies[c.method],
               executed' = Append(executed, Entry(c, r))
        PROVE  FirstReadIsCallOrDefaults'
    <3> DEFINE e == Entry(c, r)
               n == Len(executed)
               First(x) == x.read = 1 =>
                               \/ x.call = call
                               \/ /\ ~x.whole
                                  /\ x.call = [call EXCEPT !.request = New(RequestLayout(call))]
    <3>1. e.call = c /\ e.read = reads' /\ (e.whole <=> buffer = Encode(call))
      BY DEF Entry
    <3>2. First(e)
      <4>1. SUFFICES ASSUME reads' = 1 PROVE First(e)
        BY <3>1
      <4>2. reads = 0 /\ buffer # <<>>
        BY <1>1, <1>4, <4>1, OnMessageFact, ReadsFact
      <4>3. \/ c = call
            \/ buffer # Encode(call) /\ c = [call EXCEPT !.request = New(RequestLayout(call))]
        BY <1>1, <2>1, <4>2, FirstReadFact
      <4> HIDE DEF e
      <4> QED
        BY <3>1, <4>3
    <3> HIDE DEF e
    <3>3. /\ DOMAIN executed' = 1..n + 1 /\ DOMAIN executed = 1..n
          /\ \A i \in DOMAIN executed : executed'[i] = executed[i]
          /\ executed'[n + 1] = e /\ n \in Nat
      BY <1>1, <2>1, AppendFact DEF e
    <3>4. \A i \in DOMAIN executed : First(executed[i])
      BY <1>1
    <3> HIDE DEF First
    <3>5. ASSUME NEW i \in DOMAIN executed' PROVE First(executed'[i])
      <4>1. i \in DOMAIN executed \/ i = n + 1
        BY <3>3
      <4> QED
        BY <3>2, <3>3, <3>4, <4>1
    <3> QED
      BY <1>2, <3>5 DEF First
  <2> QED
    BY <1>3, <1>4, <2>1, OnMessageFact
<1>5. CASE ~OnMessage
  <2>1. executed' = executed
    BY <1>5 DEF Next, Send, Arrive, Recv, RecvEnd, Finish, RecvReset, Crash
  <2> QED
    BY <1>3, <2>1
<1> QED
  BY <1>4, <1>5

\* A field of what the caller holds: as Clear leaves it, as it was sent, or the
\* first of its elements.
Kept(l, i, r, m) == \/ r.field[i] = Default(l[i])
                    \/ r.field[i] = m.field[i]
                    \/ l[i].many /\ IsPrefix(r.field[i], m.field[i])

\* What ReplyIsCut says of a field is CutOf.
LEMMA CutOfKept ==
    ASSUME NEW l, NEW r, NEW m
    PROVE  CutOf(l, r, m) <=> \A i \in DOMAIN l : Kept(l, i, r, m)
BY DEF CutOf, Kept

\* The reply that ReplyIsCut speaks of, and when it does.
SentReply == IF executed = <<>> THEN New(ResponseLayout(call)) ELSE executed[1].reply

Accepted == /\ client = "done" /\ ~failed /\ Len(executed) <= 1
            /\ \A i \in DOMAIN executed : executed[i].call.method = call.method

LEMMA ReplyIsCutDef == ReplyIsCut <=> (Accepted => CutOf(ResponseLayout(call), response, SentReply))
BY DEF ReplyIsCut, Accepted, CutOf, SentReply

LEMMA NewIsCut ==
    ASSUME NEW l, NEW m
    PROVE  CutOf(l, New(l), m)
BY DEF CutOf, New

LEMMA OnlyOne ==
    ASSUME NEW s, Own(s), s # <<>>, Len(s) <= 1
    PROVE  Len(s) = 1 /\ 1 \in DOMAIN s
<1> DEFINE S == {s[i] : i \in DOMAIN s}
<1>1. s \in Seq(S)
  BY DEF Own
<1> HIDE DEF S
<1>2. Len(s) \in Nat /\ Len(s) # 0 /\ DOMAIN s = 1..Len(s)
  BY <1>1
<1> QED
  BY <1>2

LEMMA RecvFact ==
    ASSUME Types, Recv
    PROVE  \E n \in 0..Len(down) : Finish(SubSeq(down, 1, n)) /\ down # <<>> /\ client = "sent"
<1>1. PICK n \in 1..Min({Len(down), RecvMax}) : Finish(SubSeq(down, 1, n))
  BY DEF Recv
<1>2. Len(down) \in Int /\ RecvMax \in Int
  BY ConstantsAssumption DEF Types
<1>3. Min({Len(down), RecvMax}) = IF Len(down) <= RecvMax THEN Len(down) ELSE RecvMax
  BY <1>2, MinFact
<1>4. n \in 0..Len(down)
  BY <1>2, <1>3
<1> QED
  BY <1>1, <1>4 DEF Recv

LEMMA FinishFact ==
    ASSUME NEW bytes, Finish(bytes), ~failed'
    PROVE  /\ Parse(ResponseLayout(call), bytes) # <<>>
           /\ response' = Parse(ResponseLayout(call), bytes)[1]
           /\ client' = "done" /\ call' = call /\ executed' = executed
BY DEF Finish

\* A recv that returns no bytes leaves the response as the caller made it.
LEMMA FinishNothing ==
    ASSUME Finish(<<>>), ~failed'
    PROVE  response' = New(ResponseLayout(call)) /\ call' = call /\ executed' = executed
<1>1. Parse(ResponseLayout(call), <<>>) = <<New(ResponseLayout(call))>>
  BY ParseNothing
<1> QED
  BY <1>1, FinishFact

LEMMA NoReplyStep ==
    ASSUME Inv, Next
    PROVE  NoReply'
<1> USE DEF NoReply
<1>1. Types /\ NoReply /\ Unanswered
  BY DEF Inv
<1>2. CASE Send \/ Arrive \/ Crash
  BY <1>1, <1>2 DEF Send, Arrive, Crash
<1>3. CASE OnMessage
  <2>1. CASE executed' = executed
    BY <1>1, <1>3, <2>1, OnMessageFact
  <2>2. ASSUME NEW e, executed' = Append(executed, e) PROVE executed' # <<>>
    <3>1. Own(executed)
      BY <1>1 DEF Types
    <3>2. Len(executed') = Len(executed) + 1 /\ Len(executed) \in Nat
      BY <2>2, <3>1, AppendFact
    <3> QED
      BY <3>2
  <2> QED
    BY <1>3, <2>1, <2>2, OnMessageFact
<1>4. CASE Recv
  <2>1. executed # <<>> /\ executed' = executed
    BY <1>1, <1>4, RecvFact DEF Unanswered, Finish
  <2> QED
    BY <2>1
<1>5. CASE RecvEnd
  BY <1>5, FinishNothing DEF RecvEnd
<1>6. CASE RecvReset
  BY <1>6 DEF RecvReset
<1> QED
  BY <1>2, <1>3, <1>4, <1>5, <1>6 DEF Next

LEMMA ReplyIsCutStep ==
    ASSUME Inv, Next
    PROVE  ReplyIsCut'
<1> DEFINE l == ResponseLayout(call)
<1>1. /\ Types /\ AllCalls /\ Unanswered /\ NoReply /\ Own(executed)
      /\ (Accepted => CutOf(l, response, SentReply))
  BY ReplyIsCutDef DEF Inv, Types
<1>2. call' = call
  BY DEF Next, Send, Arrive, OnMessage, Recv, RecvEnd, Finish, RecvReset, Crash
<1>3. SUFFICES ASSUME Accepted' PROVE CutOf(l, response', SentReply')
  <2>1. (Accepted => CutOf(l, response, SentReply))' => ReplyIsCut'
    BY DEF ReplyIsCut, Accepted, CutOf, SentReply
  <2>2. l' = l
    BY <1>2 DEF ResponseLayout
  <2> QED
    BY <1>2, <1>3, <2>1, <2>2
<1>4. CASE Send \/ Arrive \/ Crash
  <2>1. CASE client' = client
    BY <1>1, <1>2, <1>3, <1>4, <2>1 DEF Send, Arrive, Crash, Accepted, SentReply
  <2>2. CASE client' # client
    BY <1>3, <1>4, <2>2 DEF Send, Arrive, Crash, Accepted
  <2> QED
    BY <2>1, <2>2
<1>5. CASE OnMessage
  <2>1. /\ client' = client /\ failed' = failed /\ response' = response
        /\ executed' = executed \/ \E e : executed' = Append(executed, e)
    BY <1>5, OnMessageFact
  <2>2. CASE executed' = executed
    BY <1>1, <1>2, <1>3, <2>1, <2>2 DEF Accepted, SentReply
  <2>3. CASE \E e : executed' = Append(executed, e)
    <3>1. PICK e : executed' = Append(executed, e)
      BY <2>3
    <3>2. Len(executed') = Len(executed) + 1 /\ Len(executed) \in Nat
      BY <1>1, <3>1, AppendFact
    <3>3. Len(executed) = 0
      BY <1>3, <3>2 DEF Accepted
    <3>4. executed = <<>>
      BY <1>1, <3>3 DEF Own
    <3>5. response' = New(l)
      BY <1>1, <1>3, <2>1, <3>4 DEF Accepted, NoReply
    <3> QED
      BY <3>5, NewIsCut
  <2> QED
    BY <2>1, <2>2, <2>3
<1>6. CASE Recv
  <2>1. PICK n \in 0..Len(down) : Finish(SubSeq(down, 1, n)) /\ down # <<>> /\ client = "sent"
    BY <1>1, <1>6, RecvFact
  <2> DEFINE e == executed[1]
             p == Parse(l, SubSeq(down, 1, n))
  <2>2. /\ p # <<>> /\ response' = p[1] /\ executed' = executed
    BY <1>3, <2>1, FinishFact DEF Accepted
  <2>3. executed # <<>> /\ Len(executed) <= 1
    BY <1>1, <1>3, <2>1, <2>2 DEF Accepted, Unanswered
  <2>4. Len(executed) = 1 /\ 1 \in DOMAIN executed
    BY <1>1, <2>3, OnlyOne
  <2>5. /\ down = ReplyBytes(e) /\ IsExecuted(e) /\ e.call.method = call.method
    BY <1>1, <1>2, <1>3, <2>1, <2>2, <2>4 DEF Unanswered, AllCalls, Accepted
  <2>6. IsCall(call)
    BY <1>1, CallFact DEF Types
  <2> HIDE DEF e
  <2>7. e.call.service = call.service
    BY <2>5, <2>6, OneService DEF IsExecuted, IsCall
  <2>8. ResponseLayout(e.call) = l
    BY <2>5, <2>7 DEF ResponseLayout
  <2>9. IsMessage(l, e.reply) /\ IsClass(l)
    <3>1. IsCall(e.call) /\ e.reply \in Replies[e.call.method]
      BY <2>5 DEF IsExecuted
    <3>2. IsMessage(ResponseLayout(e.call), e.reply) /\ IsClass(ResponseLayout(e.call))
      BY <3>1, ReplyFact
    <3> QED
      BY <2>8, <3>2
  <2>10. down = Serialize(l, e.reply)
    BY <2>5, <2>8 DEF ReplyBytes
  <2> HIDE DEF l
  <2>11. p = <<>> \/ \E r : p = <<r>> /\ CutOf(l, r, e.reply)
    BY <2>1, <2>9, <2>10, CutRead
  <2>12. PICK r : p = <<r>> /\ CutOf(l, r, e.reply)
    BY <2>2, <2>11
  <2>13. SentReply' = e.reply
    <3>1. SentReply' = executed'[1].reply
      BY <2>2, <2>3 DEF SentReply
    <3> QED
      BY <2>2, <3>1 DEF e
  <2> QED
    BY <2>2, <2>12, <2>13
<1>7. CASE RecvEnd
  <2>1. response' = New(l)
    BY <1>3, <1>7, FinishNothing DEF RecvEnd, Accepted
  <2> QED
    BY <2>1, NewIsCut
<1>8. CASE RecvReset
  BY <1>3, <1>8 DEF RecvReset, Accepted
<1> QED
  BY <1>4, <1>5, <1>6, <1>7, <1>8 DEF Next

----------------------------------------------------------------------------
(* The theorems.                                                            *)

LEMMA NextInv ==
    ASSUME Inv, [Next]_vars
    PROVE  Inv'
<1>1. CASE Next
  BY <1>1, TypesStep, UnreadStep, AllCallsStep, UnansweredStep, NoReplyStep, FirstReadStep,
     ReplyIsCutStep DEF Inv
<1>2. CASE UNCHANGED vars
  BY <1>2 DEF vars, Inv, Types, Unread, AllCalls, Unanswered, NoReply, FirstReadIsCallOrDefaults,
     ReplyIsCut, SentReply, ReplyBytes
<1> QED
  BY <1>1, <1>2

\* The invariant holds, for every set of calls, every choice of replies and every
\* size of the receive buffer.
LEMMA InvAlways == Spec => []Inv
BY InitInv, NextInv, PTL DEF Spec

\* For every call, every choice of names and every way the request may be cut:
\* the first OnMessage of a connection executes the call that was made, or, of a
\* cut request, at worst that method with every argument at its default.  It
\* never executes another method or half of the arguments.
THEOREM FirstReadIsRight == Spec => []FirstReadIsCallOrDefaults
<1>1. Inv => FirstReadIsCallOrDefaults
  BY DEF Inv
<1> QED
  BY <1>1, InvAlways, PTL

\* What CallMethod accepts of the one recv it makes has, field by field, what the
\* provider replied, the default, or the first elements of a repeated field: a
\* recv that cuts a value in two makes the parse fail, whatever the reply and
\* however small the buffer.
THEOREM ReplyLosesOnlyItsEnd == Spec => []ReplyIsCut
<1>1. Inv => ReplyIsCut
  BY DEF Inv
<1> QED
  BY <1>1, InvAlways, PTL

\* ReadsBack speaks of a call and of what was executed, which are messages.
LEMMA InvReadsBack == Inv => ReadsBack
<1> SUFFICES ASSUME Inv PROVE ReadsBack
  OBVIOUS
<1>1. Types /\ AllCalls
  BY DEF Inv
<1>2. IsMessage(RequestLayout(call), call.request) /\ IsClass(RequestLayout(call))
  BY <1>1, CallFact DEF Types
<1>3. ASSUME NEW l, NEW m, IsClass(l), IsMessage(l, m)
      PROVE  Parse(l, Serialize(l, m)) = <<m>> /\ ByteSize(l, m) = Len(Serialize(l, m))
  BY <1>3, SentExact, SentSize
<1>4. ASSUME NEW i \in DOMAIN executed
      PROVE  LET l == ResponseLayout(executed[i].call)
                 m == executed[i].reply
             IN  IsMessage(l, m) /\ IsClass(l)
  BY <1>1, ReplyFact DEF AllCalls, IsExecuted
<1>5. ASSUME NEW l, NEW m, IsClass(l), IsMessage(l, m), NEW n \in 0..Len(Serialize(l, m)),
             Parse(l, SubSeq(Serialize(l, m), 1, n)) # <<>>
      PROVE  Merge(l, Parse(l, SubSeq(Serialize(l, m), 1, n))[1],
                      Parse(l, Skip(Serialize(l, m), n))[1]) = m
  BY <1>5, PiecesMerge
<1> QED
  BY <1>2, <1>3, <1>4, <1>5 DEF ReadsBack, args_str

\* Whatever the calls and the replies are, each of them is read back as it was,
\* measured as it is written, and any two pieces of it merge into it.
THEOREM EveryMessageIsReadBack == Spec => []ReadsBack
BY InvReadsBack, InvAlways, PTL

\* A request that is in the buffer whole when OnMessage looks is taken for the call
\* that CallMethod made: its service, its method and its arguments.
THEOREM WholeRequestIsRead ==
    ASSUME NEW c \in Calls
    PROVE  Decode(Encode(c)) = <<c>>
<1> DEFINE e == Encode(c)
           n == Len(e)
<1>1. e \in Seq(Byte) /\ n \in Nat \ {0}
  BY EncodeFact
<1>2. SubSeq(e, 1, n) = e
  BY <1>1, AllOfIt
<1>3. n \in 1..n
  BY <1>1
<1> QED
  BY <1>2, <1>3, FirstBytes
============================================================================
