------------------------------ MODULE ZrpcConfig ------------------------------
(****************************************************************************)
(* From the command line and the configuration file to the address a client *)
(* connects to: ZrpcApplication::Init, Zrpcconfig, the node data that       *)
(* ZrpcProvider::Run writes, and what GetData, QueryServiceHost and         *)
(* CallMethod make of them.  Text is a sequence of characters.              *)
(*                                                                          *)
(* sprintf's buffer of 128 bytes is taken to be large enough.               *)
(****************************************************************************)
EXTENDS Integers, Sequences, SequencesExt, TLC

CONSTANTS
    LineMax,    \* BOUND: the size of buf, 1024 in the code
    DataMax     \* BOUND: the size of the buffer of zoo_get, 64 in the code

Digits == <<"0", "1", "2", "3", "4", "5", "6", "7", "8", "9">>
Digit(c) == CHOOSE d \in 0 .. 9 : Digits[d + 1] = c
IsDigit(c) == \E i \in DOMAIN Digits : Digits[i] = c

\* find(c, from), 0 for npos.
Find(s, c, from) ==
    LET at == {i \in DOMAIN s : i >= from /\ s[i] = c}
    IN  IF at = {} THEN 0 ELSE CHOOSE i \in at : \A j \in at : i <= j

UpTo(s, n) == SubSeq(s, 1, IF n < Len(s) THEN n ELSE Len(s))

\* atoi of a string that starts with its digits: up to the first other one.
Atoi(s) ==
    LET value[i \in 0 .. Len(s)] ==
          IF i = 0 THEN 0
          ELSE IF \A j \in 1 .. i : IsDigit(s[j]) THEN 10 * value[i - 1] + Digit(s[i])
          ELSE value[i - 1]
    IN  value[Len(s)]

RECURSIVE Decimal(_)
Decimal(n) == IF n < 10 THEN <<Digits[n + 1]>> ELSE Append(Decimal(n \div 10), Digits[(n % 10) + 1])

----------------------------------------------------------------------------
(* Zrpcconfig.                                                              *)

\* Mutant: only leading blanks go.
TrimLeft(s) ==
    LET kept == {i \in DOMAIN s : s[i] # " "}
    IN  IF kept = {} THEN s ELSE SubSeq(s, CHOOSE i \in kept : \A j \in kept : i <= j, Len(s))

\* A string of blanks stays as it is.
Trim(s) ==
    LET kept == {i \in DOMAIN s : s[i] # " "}
    IN  IF kept = {} THEN s
        ELSE SubSeq(s, CHOOSE i \in kept : \A j \in kept : i <= j,
                       CHOOSE i \in kept : \A j \in kept : i >= j)

\* fgets: a line with its newline, or as much of it as the buffer takes.
RECURSIVE Pieces(_)
Pieces(file) ==
    LET newline == Find(file, "\n", 1)
        piece   == UpTo(IF newline = 0 THEN file ELSE SubSeq(file, 1, newline), LineMax - 1)
    IN  IF file = <<>> THEN <<>>
        ELSE <<piece>> \o Pieces(SubSeq(file, Len(piece) + 1, Len(file)))

\* What a piece binds: <<key, value>>, or <<>>.
Binding(piece) ==
    LET read_buf == Trim(piece)
        index    == Find(read_buf, "=", 1)
        newline  == Find(read_buf, "\n", index)
        end      == IF newline = 0 THEN Len(read_buf) ELSE newline - 1
    IN  IF read_buf[1] = "#" \/ index = 0 THEN <<>>
        ELSE <<Trim(SubSeq(read_buf, 1, index - 1)), Trim(SubSeq(read_buf, index + 1, end))>>

\* insert does not replace.
LoadConfigFile(file) ==
    FoldLeft(LAMBDA map, b : IF b = <<>> THEN map ELSE map @@ (b[1] :> b[2]),
             [k \in {} |-> <<>>],
             [i \in DOMAIN Pieces(file) |-> Binding(Pieces(file)[i])])

Load(config_map, key) == IF key \in DOMAIN config_map THEN config_map[key] ELSE <<>>

----------------------------------------------------------------------------
(* The address on its way through ZooKeeper.                                *)

\* ZrpcProvider::Run: the data of a method's node.
NodeData(ip, port) == ip \o <<":">> \o Decimal(Atoi(port))

\* GetData returns what zoo_get put into its buffer, up to the first zero byte
\* there: nothing writes one after the data.  left is what the buffer held.
GetData(data, left) == UpTo(data, DataMax) \o left

\* QueryServiceHost with CallMethod's two calls of substr.
QueryServiceHost(data) ==
    LET idx == Find(data, ":", 1)
    IN  [ip |-> SubSeq(data, 1, idx - 1), port |-> SubSeq(data, idx + 1, Len(data))]

\* m_port is a uint16_t.
Address(data) == [ip |-> QueryServiceHost(data).ip, port |-> Atoi(QueryServiceHost(data).port) % (2 ^ 16)]

----------------------------------------------------------------------------
(* The command line, without the program's name.                            *)

Usage == "usage"

\* Mutant: an option that is not known is passed over.
RECURSIVE GetoptLenient(_, _)
GetoptLenient(argv, config_file) ==
    IF argv = <<>> THEN config_file
    ELSE IF argv[1] = "-i"
         THEN IF Len(argv) = 1 THEN Usage ELSE GetoptLenient(SubSeq(argv, 3, Len(argv)), argv[2])
    ELSE GetoptLenient(Tail(argv), config_file)

\* getopt with "i:", which passes over what is no option and reads "--cache"
\* as the option '-'.
RECURSIVE Getopt(_, _)
Getopt(argv, config_file) ==
    IF argv = <<>> THEN config_file
    ELSE IF argv[1] = "-i"
         THEN IF Len(argv) = 1 THEN Usage ELSE Getopt(SubSeq(argv, 3, Len(argv)), argv[2])
    ELSE IF argv[1] \in {"--cache", "--user", "--integrated"} THEN Usage
    ELSE Getopt(Tail(argv), config_file)

\* ZrpcApplication::Init: a file it opens, or the process ends.
Started(argv, files) == argv # <<>> /\ Getopt(argv, "none") \in files

\* The mode the load generator takes afterwards.
TestMode(argv) == CASE argv[1] = "--cache" -> "cache"
                    [] argv[1] = "--user" -> "user"
                    [] OTHER -> "integrated"

=============================================================================
