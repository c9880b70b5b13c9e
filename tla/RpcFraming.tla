------------------------------ MODULE RpcFraming ------------------------------
(****************************************************************************)
(* One call on the wire: what ZrpcChannel::CallMethod writes, what arrives  *)
(* of it when ZrpcProvider::OnMessage looks, and what the caller makes of   *)
(* the bytes that are there when its single recv returns.                   *)
(*                                                                          *)
(* TCP keeps the order of the bytes and nothing else: either side finds any *)
(* non-empty prefix of what the other wrote.  OnMessage empties the buffer  *)
(* whatever it holds, takes it for one request, and drops without an answer *)
(* what it cannot read.  Messages are real bytes (ProtoMessages); the names *)
(* of services and methods are shortened to the bytes of NameOf.            *)
(****************************************************************************)
EXTENDS ProtoMessages, FiniteSetsExt

CONSTANTS
    Calls,      \* the calls a client may make: [service, method, request]
    Replies,    \* Replies[m]: the responses method m may give
    NameOf,     \* the bytes of the names of services and methods
    RecvMax     \* BOUND: the size of recv_buf, 1024 in the code

VARIABLES
    call,       \* the call that is being made
    client,     \* "idle", "sent" (in recv), "done"
    failed,     \* SetFailed was called on the controller
    response,   \* the response object of the caller
    flight,     \* bytes on their way to the provider
    buffer,     \* bytes in the provider's input buffer
    reads,      \* OnMessage calls so far: 0, 1, or 2 for more than one
    executed,   \* the calls it made: [read, call, whole, reply]
    down,       \* bytes on their way to the client
    provider    \* "up" or "crashed"

vars == <<call, client, failed, response, flight, buffer, reads, executed,
          down, provider>>

----------------------------------------------------------------------------
(* The tables of the provider and the bytes of a request.                   *)

\* NotifyService: the methods of a service by name.
NotifyService(methods) ==
    [n \in {methods[i].name : i \in DOMAIN methods} |->
        methods[CHOOSE i \in DOMAIN methods : methods[i].name = n]]

service_map == [UserServiceRpc  |-> NotifyService(UserServiceRpc),
                CacheServiceRpc |-> NotifyService(CacheServiceRpc)]

RequestLayout(c)  == service_map[c.service][c.method].request
ResponseLayout(c) == service_map[c.service][c.method].response

args_str(c) == Serialize(RequestLayout(c), c.request)

Zrpcheader(c, args_size) ==
    With(RpcHeader, <<NameOf[c.service], NameOf[c.method], args_size>>)

\* Mutant: the length of the arguments is that of the whole body.
EncodeWholeLength(c) ==
    LET header_str == Serialize(RpcHeader, Zrpcheader(c, Len(args_str(c)) + 6))
    IN  Varint(Len(header_str)) \o header_str \o args_str(c)

header_str(c) == Serialize(RpcHeader, Zrpcheader(c, Len(args_str(c))))

\* The length of the header, the header, the arguments.
Encode(c) ==
    LET send_rpc_str(header) == Varint(Len(header)) \o header \o args_str(c)
    IN  send_rpc_str(header_str(c))

\* The calls a program makes and the replies its handlers give: of a method
\* of the service, with the messages that it takes and gives.  Each part of a
\* request is less than 2 GiB, which its lengths are written for; services
\* and methods have names, no two the same.
ASSUME ConstantsAssumption ==
    /\ \A c \in Calls :
          /\ c = [service |-> c.service, method |-> c.method, request |-> c.request]
          /\ c.service \in DOMAIN service_map
          /\ c.method \in DOMAIN service_map[c.service] \cap DOMAIN Replies
          /\ IsMessage(RequestLayout(c), c.request)
          /\ Len(args_str(c)) \in Int32 /\ Len(header_str(c)) \in Int32
    /\ \A service \in DOMAIN service_map :
          \A method \in DOMAIN service_map[service] \cap DOMAIN Replies :
             \A r \in Replies[method] : IsMessage(service_map[service][method].response, r)
    /\ \A n \in DOMAIN service_map \cup DOMAIN Replies :
          /\ NameOf[n] \in Seq(Byte) \ {<<>>} /\ Len(NameOf[n]) \in Int32
          /\ \A o \in DOMAIN service_map \cup DOMAIN Replies : NameOf[o] = NameOf[n] => o = n
    /\ RecvMax \in Nat \ {0}

\* Mutant: the arguments are whatever follows the header.
DecodeRest(recv_buf) ==
    LET Call(c, request) ==
            IF request = <<>> THEN <<>>
            ELSE <<[service |-> c.service, method |-> c.method, request |-> request[1]]>>
        Dispatch(found, args) ==
            IF found = {} THEN <<>>
            ELSE LET target == CHOOSE c \in found : TRUE
                 IN  Call(target, Parse(RequestLayout(target), args))
        Header(header, rest) ==
            IF header = <<>> THEN <<>>
            ELSE Dispatch({c \in [service : DOMAIN service_map, method : DOMAIN Replies] :
                              /\ c.method \in DOMAIN service_map[c.service]
                              /\ NameOf[c.service] = header[1].field[1]
                              /\ NameOf[c.method] = header[1].field[2]}, rest)
        end == Min({1 + recv_buf[1], Len(recv_buf)})
    IN  Header(Parse(RpcHeader, SubSeq(recv_buf, 2, end)), Skip(recv_buf, end))

\* What OnMessage makes of the bytes: <<call>> or <<>>.  A header that is cut
\* short is parsed as far as it goes, the result of ReadString is not looked
\* at; bytes beyond the arguments are gone with the buffer.
Decode(recv_buf) ==
    LET Call(c, request) ==
            IF request = <<>> THEN <<>>
            ELSE <<[service |-> c.service, method |-> c.method, request |-> request[1]]>>
        Dispatch(found, args) ==
            IF found = {} THEN <<>>
            ELSE LET target == CHOOSE c \in found : TRUE
                 IN  Call(target, Parse(RequestLayout(target), args))
        Found(service_name, method_name) ==
            {c \in [service : DOMAIN service_map, method : DOMAIN Replies] :
                /\ c.method \in DOMAIN service_map[c.service]
                /\ NameOf[c.service] = service_name /\ NameOf[c.method] = method_name}
        Header(header, rest) ==
            IF header = <<>> THEN <<>>
            ELSE LET f == header[1].field
                 IN  IF f[3] \notin 0..Len(rest) THEN <<>>
                     ELSE Dispatch(Found(f[1], f[2]), SubSeq(rest, 1, f[3]))
        Start(n, header_size) ==
            LET end == IF header_size < 0 THEN n ELSE Min({n + header_size, Len(recv_buf)})
            IN  Header(Parse(RpcHeader, SubSeq(recv_buf, n + 1, end)), Skip(recv_buf, end))
        length == VarintLength(recv_buf, 5)
    IN  Start(length, IF length = 0 THEN -1 ELSE VarintValue(SubSeq(recv_buf, 1, length)))

----------------------------------------------------------------------------
(* Behaviour.                                                               *)

Init == /\ call \in Calls
        /\ client = "idle" /\ failed = FALSE
        /\ response = New(ResponseLayout(call))
        /\ flight = <<>> /\ buffer = <<>> /\ down = <<>>
        /\ reads = 0 /\ executed = <<>>
        /\ provider = "up"

\* CallMethod, up to and including send on the connection it just opened.
Send == /\ client = "idle"
        /\ flight' = Encode(call)
        /\ client' = "sent"
        /\ UNCHANGED <<call, failed, response, buffer, reads, executed, down, provider>>

\* TCP hands over some more of what is under way.
Arrive == /\ flight # <<>> /\ provider = "up"
          /\ \E n \in 1..Len(flight) : /\ buffer' = buffer \o SubSeq(flight, 1, n)
                                       /\ flight' = Skip(flight, n)
          /\ UNCHANGED <<call, client, failed, response, reads, executed, down, provider>>

\* OnMessage with the call of the service and SendRpcResponse, all in the
\* IO thread of the connection.
OnMessage ==
    /\ buffer # <<>> /\ provider = "up"
    /\ buffer' = <<>>
    /\ reads' = Min({reads + 1, 2})
    /\ LET Execute(decoded) ==
              IF decoded = <<>> THEN UNCHANGED <<executed, down>>
              ELSE \E r \in Replies[decoded[1].method] :
                     /\ executed' = Append(executed,
                                      [read |-> reads', call |-> decoded[1],
                                       whole |-> buffer = Encode(call), reply |-> r])
                     /\ down' = down \o Serialize(ResponseLayout(decoded[1]), r)
       IN  Execute(Decode(buffer))
    /\ UNCHANGED <<call, client, failed, response, flight, provider>>

\* The end of CallMethod: recv returned these bytes.
Finish(bytes) ==
    LET Return(parsed) ==
            /\ failed' = (parsed = <<>>)
            /\ response' = IF parsed = <<>> THEN response ELSE parsed[1]
    IN  /\ client' = "done"
        /\ Return(Parse(ResponseLayout(call), bytes))
        /\ down' = Skip(down, Len(bytes))
        /\ UNCHANGED <<call, flight, buffer, reads, executed, provider>>

Recv == /\ client = "sent" /\ down # <<>>
        /\ \E n \in 1..Min({Len(down), RecvMax}) : Finish(SubSeq(down, 1, n))

\* The provider is gone: recv returns 0, which is parsed like a reply, or
\* fails because the connection was reset.
RecvEnd == client = "sent" /\ down = <<>> /\ provider = "crashed" /\ Finish(<<>>)

RecvReset == /\ client = "sent" /\ provider = "crashed"
             /\ client' = "done" /\ failed' = TRUE
             /\ UNCHANGED <<call, response, flight, buffer, reads, executed, down, provider>>

Crash == /\ client = "sent" /\ provider = "up"
         /\ provider' = "crashed"
         /\ buffer' = <<>> /\ flight' = <<>>
         /\ UNCHANGED <<call, client, failed, response, reads, executed, down>>

Next == Send \/ Arrive \/ OnMessage \/ Recv \/ RecvEnd \/ RecvReset \/ Crash

\* The network delivers, the IO thread empties a buffer that is not empty and
\* recv returns when there is something to return; nothing makes the provider
\* crash.  The last two are weak fairness of OnMessage and of the steps that
\* end the call, said of the variable each of them sets.
TakesBuffer == buffer # <<>> /\ provider = "up" /\ buffer' = <<>>
Returns     == /\ client = "sent" /\ (down # <<>> \/ provider = "crashed")
               /\ client' = "done"
Fairness    == WF_vars(Arrive) /\ WF_buffer(TakesBuffer) /\ WF_client(Returns)

Spec == Init /\ [][Next]_vars /\ Fairness

----------------------------------------------------------------------------
(* Properties.                                                              *)

\* The first thing the provider makes of a request that is alone on its
\* connection is the call that was sent, provided all of it was there.  If it
\* was cut, it is at worst the right method with every argument at its
\* default (a cut just before args_size leaves a header that parses), never
\* another method and never half of the arguments.
FirstReadIsCallOrDefaults ==
    \A i \in DOMAIN executed :
        executed[i].read = 1 =>
            \/ executed[i].call = call
            \/ /\ ~executed[i].whole
               /\ executed[i].call = [call EXCEPT !.request = New(RequestLayout(call))]

\* A request that had arrived in one piece when OnMessage looked is answered:
\* the call returns.  Without that the caller may wait in recv for ever.
WholeIsAnswered ==
    (client = "sent" /\ flight = <<>> /\ reads = 0) ~> (client = "done")

\* The caller takes what one recv returns for the whole reply.  What it then
\* accepts has, field by field, what was sent or the default, and of a
\* repeated field the first elements: a reply can lose its end, no value in
\* it is ever mangled.
ReplyIsCut ==
    (client = "done" /\ ~failed /\ Len(executed) <= 1 /\
     \A i \in DOMAIN executed : executed[i].call.method = call.method) =>
        LET l == ResponseLayout(call)
            sent == IF executed = <<>> THEN New(l) ELSE executed[1].reply
        IN  \A i \in DOMAIN l :
                \/ response.field[i] = Default(l[i])
                \/ response.field[i] = sent.field[i]
                \/ l[i].many /\ IsPrefix(response.field[i], sent.field[i])

\* Every message that is sent is read back as it was by its class, and
\* ByteSizeLong, which sizes the buffer and the length prefixes, tells what
\* is written.  A reply that is read in two pieces, where both can be read at
\* all, is the merge of the pieces.
ReadsBack ==
    LET Exact(l, m, s) == Parse(l, s) = <<m>> /\ ByteSize(l, m) = Len(s)
        Merges(l, m, a, b) == (a # <<>> /\ b # <<>>) => Merge(l, a[1], b[1]) = m
        Cut(l, m, s) == \A n \in 0..Len(s) :
                            Merges(l, m, Parse(l, SubSeq(s, 1, n)), Parse(l, Skip(s, n)))
        Reply(l, m, s) == Exact(l, m, s) /\ Cut(l, m, s)
    IN  /\ Exact(RequestLayout(call), call.request, args_str(call))
        /\ \A i \in DOMAIN executed :
               LET e == executed[i]
               IN  Reply(ResponseLayout(e.call), e.reply,
                         Serialize(ResponseLayout(e.call), e.reply))

=============================================================================
