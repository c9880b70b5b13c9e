---------------------------- MODULE ProtoMessages ----------------------------
(****************************************************************************)
(* The messages of the system as protoc generated them (example/user.pb.cc, *)
(* src/Zrpcheader.pb.cc): the bytes a message is written as, what a run of  *)
(* bytes is read as, and the tables that take a method to its messages.     *)
(*                                                                          *)
(* The generated classes differ only in their fields, so a class is its     *)
(* layout, the sequence of the kinds of its fields by field number, and     *)
(* Clear, _InternalParse, _InternalSerialize, ByteSizeLong and MergeFrom    *)
(* are written once over layouts.  A message is [field, unknown]: the       *)
(* values by field number and the bytes of the fields its class does not    *)
(* know.  A submessage is a sequence of at most one message (has_result()), *)
(* a repeated field the sequence of its elements, a bool is 0 or 1 and a    *)
(* double its eight bytes.                                                  *)
(*                                                                          *)
(* BOUND: integers keep the 32 bits of an int32; a uint32 from 2^31 up and  *)
(* an int64 outside of the int32 range are not represented.                 *)
(****************************************************************************)
EXTENDS Integers, Sequences, SequencesExt, Folds

Byte == 0..255

----------------------------------------------------------------------------
(* Base-128 integers: the groups of seven bits, least significant first.    *)

Power == <<1, 128, 16384, 2097152, 268435456>>

\* A negative value is extended to 64 bits: ten groups, one bit in the last.
Group(v, i) == IF i <= 5 THEN (v \div Power[i]) % 128 ELSE IF i < 10 THEN 127 ELSE 1

VarintSize(v) ==
    IF v < 0 THEN 10
    ELSE CHOOSE n \in 1..5 : /\ n = 5 \/ v < Power[n + 1]
                             /\ v >= Power[n] \/ n = 1

Varint(v) ==
    LET n == VarintSize(v)
    IN  [i \in 1..n |-> Group(v, i) + IF i < n THEN 128 ELSE 0]

\* The bytes of the integer at the head of s, 0 if it does not end in time.
VarintLength(s, longest) ==
    LET ends == {i \in 1..Len(s) : i <= longest /\ s[i] < 128}
    IN  IF ends = {} THEN 0 ELSE CHOOSE i \in ends : \A j \in ends : i <= j

\* Its low 32 bits, as an int32.
VarintValue(s) ==
    LET Bits(i) == IF i <= Len(s) THEN s[i] % 128 ELSE 0
        high    == Bits(5) % 16
    IN  Bits(1) + 128 * Bits(2) + 16384 * Bits(3) + 2097152 * Bits(4)
          + 268435456 * (IF high < 8 THEN high ELSE high - 16)

Skip(s, n) == SubSeq(s, n + 1, Len(s))

----------------------------------------------------------------------------
(* Kinds of fields and the classes.                                         *)

Kind(type, of, many) == [type |-> type, of |-> of, many |-> many]
Number        == Kind("int", <<>>, FALSE)
Bool          == Kind("bool", <<>>, FALSE)
Double        == Kind("double", <<>>, FALSE)
Bytes         == Kind("bytes", <<>>, FALSE)
SomeBytes     == Kind("bytes", <<>>, TRUE)
Message(l)    == Kind("message", l, FALSE)
SomeMessages(l) == Kind("message", l, TRUE)

ResultCode            == <<Number, Bytes>>
LoginRequest          == <<Bytes, Bytes>>
LoginResponse         == <<Message(ResultCode), Bool>>
RegisterRequest       == <<Number, Bytes, Bytes>>
RegisterResponse      == <<Message(ResultCode), Bool>>
SumToNRequest         == <<Number>>
SumToNResponse        == <<Message(ResultCode), Number>>
GetUserProfileRequest == <<Number>>
GetUserProfileResponse == <<Message(ResultCode), Bytes, Bool>>
CacheSetRequest       == <<Bytes, Bytes, Number>>
CacheGetRequest       == <<Bytes>>
CacheGetResponse      == <<Message(ResultCode), Bytes, Bool, Number>>
CacheDeleteRequest    == <<Bytes>>
CacheBatchGetRequest  == <<SomeBytes>>
CacheItem             == <<Bytes, Bytes, Bool>>
CacheBatchGetResponse == <<Message(ResultCode), SomeMessages(CacheItem)>>
CacheExistsRequest    == <<Bytes>>
CacheExistsResponse   == <<Message(ResultCode), Bool>>
CacheStatsRequest     == <<>>
CacheStatsResponse    == <<Message(ResultCode), Number, Number, Number, Number, Double>>
RpcHeader             == <<Bytes, Bytes, Number>>

\* The value Clear leaves in a field.
Default(k) == CASE k.many \/ k.type \in {"bytes", "message"} -> <<>>
                [] k.type = "double" -> [i \in 1..8 |-> 0]
                [] OTHER -> 0

\* The values that are not written: of the two zeros of a double neither.
MinusZero == <<0, 0, 0, 0, 0, 0, 0, 128>>
Unwritten(k) == IF k.type = "double" THEN {Default(k), MinusZero} ELSE {Default(k)}

New(l) == [field |-> [i \in DOMAIN l |-> Default(l[i])], unknown |-> <<>>]

With(l, values) == [New(l) EXCEPT !.field = values]

----------------------------------------------------------------------------
(* Writing.                                                                 *)

WireType(k) == CASE k.type \in {"int", "bool"} -> 0
                 [] k.type = "double" -> 1
                 [] OTHER -> 2

\* Mutant: an empty element of a repeated field is skipped like an empty value.
ElementsNoEmpty(k, v) == IF k.type = "message" THEN v
                         ELSE IF k.many THEN SelectSeq(v, LAMBDA e : Len(e) > 0)
                         ELSE IF v \in Unwritten(k) THEN <<>> ELSE <<v>>

\* What a field puts on the wire: nothing, a value, or one element after
\* another.  Only elements of a repeated field are written when empty.
Elements(k, v) == IF k.many \/ k.type = "message" THEN v
                  ELSE IF v \in Unwritten(k) THEN <<>> ELSE <<v>>

\* The fields a message puts on the wire, in order.
Written(l, m) ==
    FlattenSeq([i \in DOMAIN l |->
        LET es == Elements(l[i], m.field[i])
        IN  [j \in DOMAIN es |-> [number |-> i, value |-> es[j]]]])

\* One of them: its tag and its value, a bytes or message behind its length.
Payload(k, v, content) == CASE k.type \in {"int", "bool"} -> Varint(v)
                            [] k.type = "double" -> v
                            [] OTHER -> Varint(Len(content)) \o content

WriteField(l, w, content) ==
    <<8 * w.number + WireType(l[w.number])>> \o Payload(l[w.number], w.value, content)

\* A class whose fields are no messages, and one with messages of such classes.
SerializeFlat(l, m) ==
    LET ws == Written(l, m)
    IN  FlattenSeq([j \in DOMAIN ws |-> WriteField(l, ws[j], ws[j].value)]) \o m.unknown

Content(l, w) == IF l[w.number].type = "message"
                 THEN SerializeFlat(l[w.number].of, w.value) ELSE w.value

Serialize(l, m) ==
    LET ws == Written(l, m)
    IN  FlattenSeq([j \in DOMAIN ws |-> WriteField(l, ws[j], Content(l, ws[j]))])
          \o m.unknown

\* ByteSizeLong: computed on its own and trusted by the writer, which sizes
\* its buffer and the length prefix of a submessage with it.
Total(ns) ==
    LET total[n \in 0..Len(ns)] == IF n = 0 THEN 0 ELSE total[n - 1] + ns[n]
    IN  total[Len(ns)]

FieldSize(l, w, size) ==
    1 + CASE l[w.number].type = "int"    -> VarintSize(w.value)
          [] l[w.number].type = "bool"   -> 1
          [] l[w.number].type = "double" -> 8
          [] OTHER -> VarintSize(size) + size

ByteSizeFlat(l, m) ==
    LET ws == Written(l, m)
    IN  Total([j \in DOMAIN ws |-> FieldSize(l, ws[j], Len(ws[j].value))]) + Len(m.unknown)

ByteSize(l, m) ==
    LET ws == Written(l, m)
        Size(w) == IF l[w.number].type = "message"
                   THEN ByteSizeFlat(l[w.number].of, w.value) ELSE Len(w.value)
    IN  Total([j \in DOMAIN ws |-> FieldSize(l, ws[j], Size(ws[j]))]) + Len(m.unknown)

\* What a program can put in a message: values of the types of its fields,
\* submessages of the classes they are of, both of less than 2 GiB; no minus
\* zero, which no handler computes and which is read back as zero.
Int32 == {v \in Int : -2147483647 - 1 <= v /\ v <= 2147483647}

IsValue(k, v) == CASE k.type = "int"    -> v \in Int32
                   [] k.type = "bool"   -> v \in {0, 1}
                   [] k.type = "double" -> v \in [1..8 -> Byte]
                   [] k.type = "bytes"  -> v \in Seq(Byte) /\ Len(v) \in Int32
                   [] OTHER             -> FALSE

Is(l, m, Holds(_, _)) ==
    /\ m = [field |-> [i \in DOMAIN l |-> m.field[i]], unknown |-> <<>>]
    /\ \A i \in DOMAIN l :
           LET es == Elements(l[i], m.field[i])
           IN  /\ es \in Seq({es[j] : j \in DOMAIN es})
               /\ l[i].many \/ Len(es) <= 1
               /\ es = <<>> => m.field[i] = Default(l[i])
               /\ \A j \in DOMAIN es : Holds(l[i], es[j])

IsFlat(l, m) == Is(l, m, IsValue)

IsMessage(l, m) ==
    Is(l, m, LAMBDA k, v : IF k.type # "message" THEN IsValue(k, v)
                           ELSE IsFlat(k.of, v) /\ Len(SerializeFlat(k.of, v)) \in Int32)

----------------------------------------------------------------------------
(* Reading.  A result is <<message>>, or <<>> when the bytes are refused.   *)

\* The bytes that follow a tag and belong to its field, 0 if they are
\* malformed or missing.
PlainExtent(s, wire) ==
    CASE wire = 0 -> VarintLength(s, 10)
      [] wire = 1 -> IF Len(s) >= 8 THEN 8 ELSE 0
      [] wire = 5 -> IF Len(s) >= 4 THEN 4 ELSE 0
      [] wire = 2 -> LET Behind(n, size) ==
                             IF n > 0 /\ size \in 0..(Len(s) - n) THEN n + size ELSE 0
                         t == VarintLength(s, 5)
                     IN  Behind(t, VarintValue(SubSeq(s, 1, t)))
      [] OTHER    -> 0

\* A group runs up to its end tag; groups nest.
GroupExtent(s, number) ==
    LET extent[at \in 0..Len(s), group \in Int] ==
            LET Joined(size, more) == IF more = 0 THEN 0 ELSE size + more
                Inside(n, e) == IF e = 0 THEN 0 ELSE Joined(n + e, extent[at + n + e, group])
                Tagged(n, field, wire) ==
                    IF n = 0 \/ field = 0 THEN 0
                    ELSE IF wire = 4 THEN IF field = group THEN n ELSE 0
                    ELSE Inside(n, IF wire = 3 THEN extent[at + n, field]
                                   ELSE PlainExtent(Skip(s, at + n), wire))
                Read(n, tag) == Tagged(n, tag \div 8, tag % 8)
                t == VarintLength(Skip(s, at), 5)
            IN  Read(t, VarintValue(SubSeq(s, at + 1, at + t)))
    IN  extent[0, number]

\* Mutant: a value that ends too early is taken as far as it goes.
ExtentLenient(s, wire, number) ==
    CASE wire = 0 -> VarintLength(s, 10)
      [] wire = 2 -> LET n == VarintLength(s, 5)
                         end == n + VarintValue(SubSeq(s, 1, n))
                     IN  IF n = 0 THEN 0 ELSE IF end > Len(s) THEN Len(s) ELSE end
      [] OTHER    -> IF Len(s) < 8 THEN Len(s) ELSE 8

Extent(s, wire, number) ==
    IF wire = 3 THEN GroupExtent(s, number) ELSE PlainExtent(s, wire)

\* The field at the head of s: its number and wire type, the bytes it takes
\* (0 if they are malformed) and, without its tag, its body.
FieldAt(s) ==
    LET Found(n, tag, e) ==
            [number |-> tag \div 8, wire |-> tag % 8,
             length |-> IF e = 0 THEN 0 ELSE n + e, body |-> SubSeq(s, n + 1, n + e)]
        Tagged(n, tag) ==
            Found(n, tag, IF n = 0 \/ tag \div 8 = 0 THEN 0
                          ELSE Extent(Skip(s, n), tag % 8, tag \div 8))
        t == VarintLength(s, 5)
    IN  Tagged(t, VarintValue(SubSeq(s, 1, t)))

Delimited(body) == Skip(body, VarintLength(body, 5))

\* A field seen again replaces a value and extends a repeated field.
Store(k, old, body, submessage) ==
    CASE k.type = "message" -> IF k.many THEN old \o submessage ELSE submessage
      [] k.type = "bytes"  -> IF k.many THEN Append(old, Delimited(body)) ELSE Delimited(body)
      [] k.type = "double" -> body
      [] k.type = "bool"   -> IF \A i \in DOMAIN body : body[i] % 128 = 0 THEN 0 ELSE 1
      [] OTHER             -> VarintValue(body)

\* One round of _InternalParse on what is not read yet.  A field with a
\* wire type its class does not expect is kept as unknown; a stray end tag, a
\* tag of 0 and a submessage that is refused end it.
ReadField(l, r, f, submessage) ==
    LET m == r.message[1]
        read ==
            IF ~(f.number \in DOMAIN l /\ f.wire = WireType(l[f.number]))
            THEN <<[m EXCEPT !.unknown = @ \o SubSeq(r.rest, 1, f.length)]>>
            ELSE IF l[f.number].type = "message" /\ submessage = <<>> THEN <<>>
            ELSE <<[m EXCEPT !.field[f.number] =
                        Store(l[f.number], @, f.body, submessage)]>>
    IN  IF f.length = 0 THEN [r EXCEPT !.message = <<>>]
        ELSE [rest |-> Skip(r.rest, f.length), message |-> read]

ParseFlat(l, s, m) ==
    LET Round(r) == IF r.message = <<>> \/ r.rest = <<>> THEN r
                    ELSE ReadField(l, r, FieldAt(r.rest), <<>>)
        read[n \in 0..Len(s)] == IF n = 0 THEN [rest |-> s, message |-> <<m>>]
                                 ELSE Round(read[n - 1])
    IN  read[Len(s)].message

\* A submessage seen again is merged into.
Submessage(l, r, f) ==
    LET k   == l[f.number]
        old == r.message[1].field[f.number]
    IN  ParseFlat(k.of, Delimited(f.body), IF k.many \/ old = <<>> THEN New(k.of) ELSE old[1])

ParseInto(l, s, m) ==
    LET Take(r, f) == ReadField(l, r, f, Submessage(l, r, f))
        Round(r) == IF r.message = <<>> \/ r.rest = <<>> THEN r ELSE Take(r, FieldAt(r.rest))
        read[n \in 0..Len(s)] == IF n = 0 THEN [rest |-> s, message |-> <<m>>]
                                 ELSE Round(read[n - 1])
    IN  read[Len(s)].message

Parse(l, s) == ParseInto(l, s, New(l))

MergeFlat(l, a, b) ==
    [field   |-> [i \in DOMAIN l |-> IF l[i].many THEN a.field[i] \o b.field[i]
                                     ELSE IF b.field[i] \in Unwritten(l[i]) THEN a.field[i]
                                     ELSE b.field[i]],
     unknown |-> a.unknown \o b.unknown]

Merge(l, a, b) ==
    LET Field(k, x, y) ==
          IF k.many THEN x \o y
          ELSE IF y \in Unwritten(k) THEN x
          ELSE IF k.type = "message" /\ x # <<>> THEN <<MergeFlat(k.of, x[1], y[1])>>
          ELSE y
    IN  [field   |-> [i \in DOMAIN l |-> Field(l[i], a.field[i], b.field[i])],
         unknown |-> a.unknown \o b.unknown]

----------------------------------------------------------------------------
(* The services: what a stub writes for a method, and what CallMethod of    *)
(* the service casts the request and the response to.                       *)

Method(name, request, response) ==
    [name |-> name, request |-> request, response |-> response]

UserServiceRpc == <<
    Method("Login", LoginRequest, LoginResponse),
    Method("Register", RegisterRequest, RegisterResponse),
    Method("SumtoN", SumToNRequest, SumToNResponse),
    Method("GetUserProfile", GetUserProfileRequest, GetUserProfileResponse) >>

CacheServiceRpc == <<
    Method("Set", CacheSetRequest, ResultCode),
    Method("Get", CacheGetRequest, CacheGetResponse),
    Method("Delete", CacheDeleteRequest, ResultCode),
    Method("Exists", CacheExistsRequest, CacheExistsResponse),
    Method("BatchGet", CacheBatchGetRequest, CacheBatchGetResponse),
    Method("GetStats", CacheStatsRequest, CacheStatsResponse) >>
=============================================================================
