------------------------------ MODULE MCClients ------------------------------
(* Each mode of the load generator, twice the one that can end the process,  *)
(* and IntegratedClient.  Small command lines and configuration files for    *)
(* what comes before the first call.                                         *)
EXTENDS ClientPrograms, ZrpcConfig

CONSTANTS t1, t2

Pair(p, q) == [t \in Threads |-> IF t = t1 THEN p ELSE q]

MCPrograms == {Pair("cache", "idle"), Pair("integrated", "idle"),
               Pair("user", "user"), Pair("app", "idle")}

Tokens == {"-i", "test.conf", "missing", "--cache", "--user", "--integrated"}
CommandLines == UNION {[1 .. n -> Tokens] : n \in 1 .. 4}

\* The modes of the load generator that a command line can select: those of
\* one that ZrpcApplication::Init lets through.
StartableModes == {TestMode(argv) : argv \in {a \in CommandLines : Started(a, {"test.conf"})}}

\* A line of a file and what it says.
Line(text, key, value) == [text |-> text, key |-> key, value |-> value]
Setting(key, value, before, around, after, end) ==
    Line(before \o <<key>> \o around \o <<"=">> \o around \o value \o after \o end,
         <<key>>, value \o (IF end[1] = "\r" THEN <<"\r">> ELSE <<>>))

nl == <<"\n">>
crlf == <<"\r", "\n">>
Lines ==
    {Setting(k, v, b, a, e, nl) : k \in {"I", "P"}, v \in {<<"7">>, <<"4", "2">>},
                                  b \in {<<>>, <<" ">>}, a \in {<<>>, <<" ">>}, e \in {<<>>, <<" ">>}}
      \cup {Setting("I", <<"8", ".", "8">>, <<>>, <<>>, <<>>, crlf),
            Line(<<"#", "I", "=", "9", "\n">>, <<"#">>, <<>>),
            Line(<<" ", "\n">>, <<"#">>, <<>>),
            Line(<<"#", "#", "#", "#", "#", "#", "#", "#", "#", "I", "=", "9", "\n">>, <<"#">>, <<>>)}

Says(lines, key) ==
    LET at == {i \in DOMAIN lines : lines[i].key = key}
    IN  IF at = {} THEN <<>> ELSE lines[CHOOSE i \in at : \A j \in at : i <= j].value

\* Whatever the blanks, the comments and the order of the lines, a client
\* connects to the address that the provider's file names first, provided the
\* lines fit the buffer and what lies behind the node's data in GetData's
\* buffer does not start with a digit.
ConfiguredAddressIsReached ==
    \A lines \in UNION {[1 .. n -> Lines] : n \in 1 .. 2} :
        LET map  == LoadConfigFile(FlattenSeq([i \in DOMAIN lines |-> lines[i].text]))
            data == NodeData(Load(map, <<"I">>), Load(map, <<"P">>))
        IN  (\A i \in DOMAIN lines : Len(lines[i].text) < LineMax) =>
               \A left \in {<<>>, <<"x", "1">>} :
                   Address(GetData(data, left)) =
                       [ip |-> Says(lines, <<"I">>), port |-> Atoi(Says(lines, <<"P">>))]

\* What a client program is started with.  No command line selects a mode other
\* than the default, Init takes its option for a mistake; and the address is
\* the configured one.
StartsAsConfigured ==
    /\ \A t \in Threads : program[t] \in StartableModes => program[t] = "integrated"
    /\ ConfiguredAddressIsReached
=============================================================================
