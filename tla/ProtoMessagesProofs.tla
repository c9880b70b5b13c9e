------------------------ MODULE ProtoMessagesProofs ------------------------
(***************************************************************************)
(* What the generated classes read of what they have written, for every    *)
(* class with at most 15 fields, one level of submessages and any values:  *)
(* all of a message is the message (SentExact), ByteSizeLong is its length *)
(* (SentSize), the first bytes of it are nothing or a message that has     *)
(* lost its end (CutRead), and what is read in two pieces merges into it   *)
(* (PiecesMerge).                                                          *)
(*                                                                         *)
(* The argument: a record x describes the bytes of a message by the fields *)
(* it writes, the elements they carry and the places they end (IsWire).  A *)
(* run of these bytes that starts where an element ends (Segment) is read  *)
(* element by element, and the reader is always behind a whole number of   *)
(* them or has failed (Reached, ReachedNext).  Recursion over data is a    *)
(* recursive function on numbers or a fold; each is replaced by the        *)
(* function it stands for, which is shown to exist, and numbers are        *)
(* counted up (UpTo).                                                      *)
(***************************************************************************)
EXTENDS ProtoMessages, WellFoundedInduction, SequenceTheorems, TLAPS

----------------------------------------------------------------------------
(* Sequences, and the functions that recursive definitions stand for.       *)

LEMMA LeastNumber ==
    ASSUME NEW S, S \subseteq Nat, S # {}
    PROVE  \E n \in S : \A m \in S : n <= m
<1>1. PICK n \in S : \A m \in S : ~(<<m, n>> \in OpToRel(<, Nat))
  BY WFMin, NatLessThanWellFounded
<1>2. \A m \in S : ~(m < n)
  BY <1>1 DEF OpToRel
<1> QED
  BY <1>2

\* Induction from a to b, over a set.
LEMMA UpTo ==
    ASSUME NEW a \in Nat, NEW b \in Nat, NEW S, a \in S,
           \A n \in a + 1..b : n - 1 \in S => n \in S
    PROVE  \A n \in a..b : n \in S
<1> DEFINE wrong == {n \in a..b : n \notin S}
<1>1. SUFFICES ASSUME wrong # {} PROVE FALSE
  OBVIOUS
<1>2. PICK i \in wrong : \A j \in wrong : i <= j
  BY <1>1, LeastNumber, wrong \subseteq Nat
<1>3. i \in a..b /\ i \notin S
  OBVIOUS
<1>4. i # a
  BY <1>3
<1>5. i \in a + 1..b /\ i - 1 \in a..b /\ ~(i <= i - 1)
  BY <1>3, <1>4
<1>6. i - 1 \in S
  BY <1>2, <1>5
<1> QED
  BY <1>3, <1>5, <1>6

\* Two functions that start alike and go on alike are alike.
LEMMA Agree ==
    ASSUME NEW n \in Nat, NEW f, NEW g, f[0] = g[0],
           \A i \in 1..n : f[i - 1] = g[i - 1] => f[i] = g[i]
    PROVE  \A i \in 0..n : f[i] = g[i]
<1> DEFINE S == {i \in 0..n : f[i] = g[i]}
<1>1. 0 \in S
  OBVIOUS
<1>2. \A i \in 0 + 1..n : i - 1 \in S => i \in S
  OBVIOUS
<1> HIDE DEF S
<1>3. \A i \in 0..n : i \in S
  BY <1>1, <1>2, UpTo
<1> QED
  BY <1>3 DEF S

LEMMA SeqFact ==
    ASSUME NEW n \in Nat, NEW S, NEW f \in [1..n -> S]
    PROVE  f \in Seq(S) /\ Len(f) = n
OBVIOUS

LEMMA SkipFact ==
    ASSUME NEW S, NEW s \in Seq(S), NEW n \in 0..Len(s)
    PROVE  /\ Skip(s, n) \in Seq(S)
           /\ Len(Skip(s, n)) = Len(s) - n
           /\ \A x \in 1..Len(s) - n : Skip(s, n)[x] = s[n + x]
BY DEF Skip

LEMMA PrefixFact ==
    ASSUME NEW S, NEW s \in Seq(S), NEW n \in 0..Len(s)
    PROVE  /\ SubSeq(s, 1, n) \in Seq(S)
           /\ Len(SubSeq(s, 1, n)) = n
           /\ \A x \in 1..n : SubSeq(s, 1, n)[x] = s[x]
OBVIOUS

LEMMA ConcatFact ==
    ASSUME NEW S, NEW s \in Seq(S), NEW t \in Seq(S)
    PROVE  /\ s \o t \in Seq(S) /\ Len(s \o t) = Len(s) + Len(t)
           /\ Len(s) \in Nat /\ Len(t) \in Nat
           /\ \A x \in 1..Len(s) : (s \o t)[x] = s[x]
           /\ \A x \in 1..Len(t) : (s \o t)[Len(s) + x] = t[x]
OBVIOUS

\* FlattenSeq is a recursive function: the function it chooses exists.
LEMMA FlattenExists ==
    ASSUME NEW A, NEW ss \in Seq(Seq(A)), Len(ss) > 0
    PROVE  \E f \in [1..Len(ss) -> Seq(A)] :
               f = [i \in 1..Len(ss) |-> IF i = 1 THEN ss[i] ELSE f[i - 1] \o ss[i]]
<1> DEFINE Partial(n, f) == \A i \in 1..n : f[i] = IF i = 1 THEN ss[i] ELSE f[i - 1] \o ss[i]
           S == {n \in 1..Len(ss) : \E f \in [1..n -> Seq(A)] : Partial(n, f)}
<1>1. 1 \in S
  <2> DEFINE f == [i \in 1..1 |-> ss[i]]
  <2>1. f \in [1..1 -> Seq(A)] /\ Partial(1, f) /\ 1 \in 1..Len(ss)
    OBVIOUS
  <2> HIDE DEF f
  <2> QED
    BY <2>1
<1>2. ASSUME NEW n \in 1 + 1..Len(ss), n - 1 \in S PROVE n \in S
  <2>1. n \in Nat /\ n - 1 \in 1..Len(ss) /\ n \in 1..Len(ss) /\ n # 1 /\ n # n - 1
        /\ ss[n] \in Seq(A)
    OBVIOUS
  <2>2. PICK f \in [1..n - 1 -> Seq(A)] : Partial(n - 1, f)
    BY <1>2
  <2> DEFINE last == f[n - 1] \o ss[n]
             g == [i \in 1..n |-> IF i = n THEN last ELSE f[i]]
  <2>3. f[n - 1] \in Seq(A) /\ last \in Seq(A)
    BY <2>1
  <2> HIDE DEF last
  <2>4. g \in [1..n -> Seq(A)]
    BY <2>1, <2>3
  <2>5. g[n] = last /\ g[n - 1] = f[n - 1]
    <3>1. n \in 1..n /\ n - 1 \in 1..n
      BY <2>1
    <3> QED
      BY <2>1, <3>1
  <2>6. \A i \in 1..n - 1 : g[i] = f[i] /\ (i # 1 => g[i - 1] = f[i - 1])
    BY <2>1
  <2> HIDE DEF g
  <2>7. Partial(n, g)
    <3> TAKE i \in 1..n
    <3>1. CASE i = n
      BY <3>1, <2>1, <2>5 DEF last
    <3>2. CASE i # n
      <4>1. i \in 1..n - 1
        BY <2>1, <3>2
      <4> QED
        BY <4>1, <2>2, <2>6
    <3> QED
      BY <3>1, <3>2
  <2> QED
    BY <2>1, <2>4, <2>7
<1> HIDE DEF S
<1>3. Len(ss) \in S
  BY <1>1, <1>2, UpTo, 1 \in Nat, Len(ss) \in Nat, Len(ss) \in 1..Len(ss)
<1>4. PICK f \in [1..Len(ss) -> Seq(A)] : Partial(Len(ss), f)
  BY <1>3 DEF S
<1>5. f = [i \in 1..Len(ss) |-> f[i]]
  OBVIOUS
<1>6. f = [i \in 1..Len(ss) |-> IF i = 1 THEN ss[i] ELSE f[i - 1] \o ss[i]]
  BY <1>4, <1>5
<1> QED
  BY <1>6

\* Where the parts of a sum end.
Cuts(ns, p) == /\ p \in [0..Len(ns) -> Nat] /\ p[0] = 0
               /\ \A n \in 1..Len(ns) : p[n] = p[n - 1] + ns[n]

LEMMA CutsType ==
    ASSUME NEW ns \in Seq(Nat), NEW p, Cuts(ns, p)
    PROVE  Len(ns) \in Nat /\ p[0] = 0 /\ \A n \in 0..Len(ns) : p[n] \in Nat
<1>1. p \in [0..Len(ns) -> Nat] /\ p[0] = 0
  BY Zenon DEF Cuts
<1> QED
  BY <1>1

LEMMA CutsStep ==
    ASSUME NEW ns \in Seq(Nat), NEW p, Cuts(ns, p), NEW n \in 1..Len(ns)
    PROVE  /\ p[n] = p[n - 1] + ns[n] /\ p[n] \in Nat /\ p[n - 1] \in Nat
           /\ ns[n] \in Nat /\ n - 1 \in 0..Len(ns) /\ n \in 0..Len(ns)
<1>1. p[n] = p[n - 1] + ns[n]
  BY Zenon DEF Cuts
<1>2. n - 1 \in 0..Len(ns) /\ n \in 0..Len(ns) /\ ns[n] \in Nat
  OBVIOUS
<1> QED
  BY <1>1, <1>2, CutsType

\* Every sequence of numbers has such places.
LEMMA CutsExist ==
    ASSUME NEW ns \in Seq(Nat)
    PROVE  \E p : /\ Cuts(ns, p)
                  /\ p = [n \in 0..Len(ns) |-> IF n = 0 THEN 0 ELSE p[n - 1] + ns[n]]
<1> DEFINE Partial(n, p) == /\ p \in [0..n -> Nat] /\ p[0] = 0
                            /\ \A i \in 1..n : p[i] = p[i - 1] + ns[i]
           S == {n \in 0..Len(ns) : \E p : Partial(n, p)}
<1>1. 0 \in S
  <2>1. Partial(0, [i \in 0..0 |-> 0])
    OBVIOUS
  <2>2. 0 \in 0..Len(ns)
    OBVIOUS
  <2> QED
    BY <2>1, <2>2
<1>2. ASSUME NEW n \in 0 + 1..Len(ns), n - 1 \in S PROVE n \in S
  <2>1. n \in Nat /\ n - 1 \in 0..Len(ns) /\ n \in 0..Len(ns) /\ n # 0 /\ n # n - 1 /\ ns[n] \in Nat
    OBVIOUS
  <2>2. PICK p : Partial(n - 1, p)
    BY <1>2
  <2> DEFINE last == p[n - 1] + ns[n]
             g == [i \in 0..n |-> IF i = n THEN last ELSE p[i]]
  <2>3. last \in Nat
    BY <2>1, <2>2
  <2> HIDE DEF last
  <2>4. g \in [0..n -> Nat] /\ g[0] = 0
    BY <2>1, <2>2, <2>3
  <2>5. g[n] = p[n - 1] + ns[n] /\ g[n - 1] = p[n - 1]
    BY <2>1 DEF last
  <2>6. \A i \in 1..n - 1 : g[i] = p[i] /\ g[i - 1] = p[i - 1]
    BY <2>1
  <2> HIDE DEF g
  <2>7. \A i \in 1..n : g[i] = g[i - 1] + ns[i]
    <3> TAKE i \in 1..n
    <3>1. CASE i = n
      BY <3>1, <2>1, <2>5
    <3>2. CASE i # n
      <4>1. i \in 1..n - 1
        BY <2>1, <3>2
      <4> QED
        BY <4>1, <2>2, <2>6
    <3> QED
      BY <3>1, <3>2
  <2>8. Partial(n, g)
    BY <2>4, <2>7
  <2> QED
    BY <2>1, <2>8
<1> HIDE DEF S
<1>3. Len(ns) \in S
  BY <1>1, <1>2, UpTo, 0 \in Nat, Len(ns) \in Nat, Len(ns) \in 0..Len(ns)
<1>4. PICK p : Partial(Len(ns), p)
  BY <1>3 DEF S
<1>5. p = [n \in 0..Len(ns) |-> p[n]]
  BY <1>4
<1>6. \A n \in 0..Len(ns) : p[n] = IF n = 0 THEN 0 ELSE p[n - 1] + ns[n]
  <2> TAKE n \in 0..Len(ns)
  <2>1. CASE n = 0
    BY <2>1, <1>4
  <2>2. CASE n # 0
    BY <2>2, <1>4, n \in 1..Len(ns)
  <2> QED
    BY <2>1, <2>2
<1>7. p = [n \in 0..Len(ns) |-> IF n = 0 THEN 0 ELSE p[n - 1] + ns[n]]
  BY <1>5, <1>6
<1> QED
  BY <1>4, <1>7 DEF Cuts

\* Total is where the last part ends.
LEMMA TotalFact ==
    ASSUME NEW ns \in Seq(Nat), NEW p, Cuts(ns, p)
    PROVE  Total(ns) = p[Len(ns)]
<1> DEFINE body(f) == [n \in 0..Len(ns) |-> IF n = 0 THEN 0 ELSE f[n - 1] + ns[n]]
           total == CHOOSE f : f = body(f)
<1>1. PICK q : Cuts(ns, q) /\ q = body(q)
  BY CutsExist
<1>2. total = body(total)
  BY <1>1
<1> HIDE DEF total
<1>3. total[0] = p[0]
  BY <1>2, 0 \in 0..Len(ns), Len(ns) \in Nat DEF Cuts
<1>4. ASSUME NEW n \in 1..Len(ns), total[n - 1] = p[n - 1] PROVE total[n] = p[n]
  <2>1. total[n] = total[n - 1] + ns[n]
    BY <1>2
  <2> QED
    BY <1>4, <2>1 DEF Cuts
<1>5. \A n \in 0..Len(ns) : total[n] = p[n]
  BY <1>3, <1>4, Agree, Len(ns) \in Nat
<1>6. Total(ns) = total[Len(ns)]
  BY DEF Total, total
<1> QED
  BY <1>5, <1>6, Len(ns) \in Nat

LEMMA CutsMonotone ==
    ASSUME NEW ns \in Seq(Nat), NEW p, Cuts(ns, p), NEW a \in 0..Len(ns), NEW b \in a..Len(ns)
    PROVE  p[a] <= p[b]
<1> DEFINE S == {n \in a..Len(ns) : p[a] <= p[n]}
<1>1. a \in S
  BY CutsType
<1>2. ASSUME NEW n \in a + 1..Len(ns), n - 1 \in S PROVE n \in S
  <2>1. n \in 1..Len(ns) /\ n - 1 \in 0..Len(ns) /\ n \in a..Len(ns)
    OBVIOUS
  <2>2. p[n] = p[n - 1] + ns[n] /\ p[n - 1] \in Nat /\ ns[n] \in Nat /\ p[a] \in Nat
    BY <2>1, CutsType, CutsStep
  <2>3. p[a] <= p[n - 1]
    BY <1>2
  <2> QED
    BY <2>1, <2>2, <2>3
<1> HIDE DEF S
<1>3. \A n \in a..Len(ns) : n \in S
  BY <1>1, <1>2, UpTo, a \in Nat, Len(ns) \in Nat
<1> QED
  BY <1>3 DEF S

\* Every place up to the end lies in exactly one part.
LEMMA CutsCover ==
    ASSUME NEW ns \in Seq(Nat), NEW p, Cuts(ns, p), NEW y \in 1..p[Len(ns)]
    PROVE  \E n \in 1..Len(ns) : p[n - 1] < y /\ y <= p[n]
<1> DEFINE ends == {n \in 0..Len(ns) : y <= p[n]}
<1>1. Len(ns) \in ends
  BY CutsType
<1>2. PICK n \in ends : \A m \in ends : n <= m
  BY <1>1, LeastNumber, ends \subseteq Nat
<1>3. n \in 0..Len(ns) /\ y <= p[n]
  OBVIOUS
<1>4. n # 0
  BY <1>3, CutsType
<1>5. n \in 1..Len(ns) /\ n - 1 \in 0..Len(ns) /\ ~(n <= n - 1)
  BY <1>3, <1>4
<1>6. n - 1 \notin ends
  BY <1>2, <1>5
<1>7. ~(y <= p[n - 1])
  BY <1>5, <1>6
<1>8. p[n - 1] \in Nat /\ y \in Nat
  BY <1>5, CutsType
<1> QED
  BY <1>3, <1>5, <1>7, <1>8

\* The lengths of the sequences of a sequence.
Lengths(ss) == [n \in 1..Len(ss) |-> Len(ss[n])]

LEMMA LengthsFact ==
    ASSUME NEW A, NEW ss \in Seq(Seq(A))
    PROVE  /\ Lengths(ss) \in Seq(Nat) /\ Len(Lengths(ss)) = Len(ss) /\ Len(ss) \in Nat
           /\ \A n \in 1..Len(ss) : Lengths(ss)[n] = Len(ss[n]) /\ Len(ss[n]) \in Nat
BY DEF Lengths

\* The parts of a sequence that was put together lie one after another.
LEMMA FlattenFact ==
    ASSUME NEW A, NEW ss \in Seq(Seq(A)), NEW p, Cuts(Lengths(ss), p)
    PROVE  /\ FlattenSeq(ss) \in Seq(A)
           /\ Len(FlattenSeq(ss)) = p[Len(ss)]
           /\ \A n \in 1..Len(ss) : \A x \in 1..Len(ss[n]) :
                  FlattenSeq(ss)[p[n - 1] + x] = ss[n][x]
<1> DEFINE N == Len(ss)
<1>1. N \in Nat /\ p[0] = 0 /\ (\A n \in 0..N : p[n] \in Nat)
      /\ \A n \in 1..N : p[n] = p[n - 1] + Len(ss[n]) /\ Len(ss[n]) \in Nat
  BY LengthsFact, CutsType, CutsStep
<1>2. \A a \in 0..N : \A b \in a..N : p[a] <= p[b]
  BY CutsMonotone, LengthsFact
<1>3. CASE N = 0
  <2>1. FlattenSeq(ss) = ss /\ ss = <<>>
    BY <1>3 DEF FlattenSeq
  <2> QED
    BY <1>1, <1>3, <2>1
<1>4. CASE N > 0
  <2> DEFINE body(f) == [i \in 1..N |-> IF i = 1 THEN ss[i] ELSE f[i - 1] \o ss[i]]
             flat == CHOOSE f : f = body(f)
  <2>1. PICK g \in [1..N -> Seq(A)] : g = body(g)
    BY <1>4, FlattenExists
  <2>2. flat = body(flat)
    BY <2>1
  <2>3. FlattenSeq(ss) = flat[N]
    BY <1>4 DEF FlattenSeq
  <2> HIDE DEF flat
  <2> DEFINE Ok(n) == /\ flat[n] \in Seq(A) /\ Len(flat[n]) = p[n]
                      /\ \A m \in 1..n : \A x \in 1..Len(ss[m]) :
                             flat[n][p[m - 1] + x] = ss[m][x]
             S == {n \in 1..N : Ok(n)}
  <2>4. 1 \in S
    <3>1. flat[1] = ss[1] /\ ss[1] \in Seq(A) /\ 1 \in 1..N
      BY <2>2, <1>4
    <3>2. p[1] = Len(ss[1]) /\ p[1 - 1] = 0
      BY <1>1, <3>1
    <3>3. \A m \in 1..1 : \A x \in 1..Len(ss[m]) : flat[1][p[m - 1] + x] = ss[m][x]
      BY <3>1, <3>2
    <3>4. Ok(1)
      BY <3>1, <3>2, <3>3
    <3> QED
      BY <3>1, <3>4
  <2>5. ASSUME NEW n \in 1 + 1..N, n - 1 \in S PROVE n \in S
    <3>1. n \in Nat /\ n \in 1..N /\ n - 1 \in 1..N /\ n # 1 /\ ss[n] \in Seq(A)
      OBVIOUS
    <3>2. flat[n - 1] \in Seq(A) /\ Len(flat[n - 1]) = p[n - 1]
      BY <2>5
    <3>8. \A m \in 1..n - 1 : \A x \in 1..Len(ss[m]) :
                             flat[n - 1][p[m - 1] + x] = ss[m][x]
      BY <2>5
    <3>3. flat[n] = flat[n - 1] \o ss[n]
      BY <2>2, <3>1
    <3>4. p[n] = p[n - 1] + Len(ss[n])
      BY <1>1, <3>1
    <3> HIDE DEF S
    <3>9. /\ flat[n] \in Seq(A) /\ Len(flat[n]) = Len(flat[n - 1]) + Len(ss[n])
          /\ \A x \in 1..Len(flat[n - 1]) : flat[n][x] = flat[n - 1][x]
          /\ \A x \in 1..Len(ss[n]) : flat[n][Len(flat[n - 1]) + x] = ss[n][x]
      <4> DEFINE s == flat[n - 1]
                 t == ss[n]
      <4>1. s \in Seq(A) /\ t \in Seq(A) /\ flat[n] = s \o t
        BY <3>1, <3>2, <3>3
      <4> HIDE DEF s, t
      <4>2. /\ flat[n] \in Seq(A) /\ Len(flat[n]) = Len(s) + Len(t)
            /\ \A x \in 1..Len(s) : flat[n][x] = s[x]
            /\ \A x \in 1..Len(t) : flat[n][Len(s) + x] = t[x]
        BY <4>1, ConcatFact
      <4> QED
        BY <4>2 DEF s, t
    <3>5. flat[n] \in Seq(A) /\ Len(flat[n]) = p[n]
      BY <3>9, <3>2, <3>4
    <3>6. ASSUME NEW m \in 1..n, NEW x \in 1..Len(ss[m])
          PROVE  flat[n][p[m - 1] + x] = ss[m][x]
      <4>1. CASE m = n
        <5>1. x \in 1..Len(ss[n])
          BY <4>1
        <5> QED
          BY <3>2, <3>9, <4>1, <5>1
      <4>2. CASE m # n
        <5>1. m \in 1..n - 1 /\ m \in 1..N /\ m \in 0..N /\ n - 1 \in m..N /\ n - 1 \in 0..N
              /\ m - 1 \in 0..N
          BY <4>2, <3>1
        <5>2. p[m] <= p[n - 1] /\ p[m] = p[m - 1] + Len(ss[m]) /\ Len(ss[m]) \in Nat
          BY <5>1, <1>1, <1>2
        <5>3. p[m - 1] \in Nat /\ p[n - 1] \in Nat /\ p[m] \in Nat
          BY <5>1, <1>1
        <5>6. p[m - 1] + x \in 1..p[n - 1]
          <6> DEFINE before == p[m - 1]
                     here == p[m]
                     all == p[n - 1]
          <6>1. before \in Nat /\ here \in Nat /\ all \in Nat /\ here <= all
                /\ here = before + Len(ss[m]) /\ Len(ss[m]) \in Nat
            BY <5>2, <5>3
          <6> HIDE DEF before, here, all
          <6>2. before + x \in 1..all
            BY <6>1
          <6> QED
            BY <6>2 DEF before, all
        <5>4. p[m - 1] + x \in 1..Len(flat[n - 1])
          BY <5>6, <3>2
        <5>5. flat[n][p[m - 1] + x] = flat[n - 1][p[m - 1] + x]
          BY <5>4, <3>9
        <5> QED
          BY <5>1, <5>5, <3>8
      <4> QED
        BY <4>1, <4>2
    <3>7. Ok(n)
      BY <3>5, <3>6
    <3> QED
      BY <3>1, <3>7 DEF S
  <2> HIDE DEF S
  <2>6. N \in S
    <3>1. 1 \in Nat /\ N \in Nat /\ N \in 1..N
      BY <1>1, <1>4
    <3> QED
      BY <2>4, <2>5, <3>1, UpTo
  <2> QED
    BY <2>3, <2>6 DEF S
<1> QED
  BY <1>1, <1>3, <1>4

----------------------------------------------------------------------------
(* Base-128 integers.                                                       *)

\* The five groups of seven bits of an int32; the fifth holds the sign.
FromDigits(v) ==
    (v % 128) + 128 * ((v \div 128) % 128) + 16384 * ((v \div 16384) % 128)
      + 2097152 * ((v \div 2097152) % 128) + 268435456 * (v \div 268435456)

LEMMA Digits ==
    ASSUME NEW v \in Int
    PROVE  /\ v = FromDigits(v)
           /\ \A p \in {1, 128, 16384, 2097152, 268435456} : (v \div p) % 128 \in 0..127
<1> DEFINE a == v \div 128
           b == v \div 16384
           c == v \div 2097152
           d == v \div 268435456
<1>1. a \in Int /\ b \in Int /\ c \in Int /\ d \in Int
  BY SMT
<1>2. v = 128 * a + (v % 128)
  BY SMT
<1>3. a = 128 * b + (a % 128)
  BY SMT
<1>4. b = 128 * c + (b % 128)
  BY SMT
<1>5. c = 128 * d + (c % 128)
  BY SMT
<1>6. v % 128 \in Int /\ a % 128 \in Int /\ b % 128 \in Int /\ c % 128 \in Int
  BY SMT, <1>1
<1>7. v \div 1 = v
  BY SMT
<1>8. \A p \in {1, 128, 16384, 2097152, 268435456} : (v \div p) % 128 \in 0..127
  BY SMT, <1>7, <1>1
<1> HIDE DEF a, b, c, d
<1>9. v = (v % 128) + 128 * (a % 128) + 16384 * (b % 128) + 2097152 * (c % 128) + 268435456 * d
  BY SMT, <1>1, <1>2, <1>3, <1>4, <1>5, <1>6
<1> QED
  BY SMT, <1>8, <1>9 DEF a, b, c, d, FromDigits

\* A group of a varint has seven bits.
LEMMA GroupFact ==
    ASSUME NEW v \in Int32, NEW i \in 1..10
    PROVE  Group(v, i) \in 0..127
<1>1. i <= 5 => Power[i] \in {1, 128, 16384, 2097152, 268435456}
  BY SMT DEF Power
<1>2. v \in Int
  BY SMT DEF Int32
<1>3. \A p \in {1, 128, 16384, 2097152, 268435456} : (v \div p) % 128 \in 0..127
  BY SMT, <1>2, Digits
<1>4. CASE i <= 5
  <2>1. (v \div Power[i]) % 128 \in 0..127
    BY SMT, <1>1, <1>3, <1>4
  <2>2. Group(v, i) = (v \div Power[i]) % 128
    BY SMT, <1>4 DEF Group
  <2> QED
    BY SMT, <2>1, <2>2
<1>5. CASE ~(i <= 5)
  <2>1. Group(v, i) = IF i < 10 THEN 127 ELSE 1
    BY SMT, <1>5 DEF Group
  <2> QED
    BY SMT, <2>1
<1> QED
  BY SMT, <1>4, <1>5

\* A varint has as many groups as its value needs, ten below zero.
LEMMA SizeFact ==
    ASSUME NEW v \in Int32
    PROVE  /\ v < 0 => VarintSize(v) = 10
           /\ v >= 0 => /\ VarintSize(v) \in 1..5
                        /\ VarintSize(v) = 5 \/ v < Power[VarintSize(v) + 1]
                        /\ v >= Power[VarintSize(v)] \/ VarintSize(v) = 1
<1>1. ASSUME v >= 0
      PROVE  \E n \in 1..5 : (n = 5 \/ v < Power[n + 1]) /\ (v >= Power[n] \/ n = 1)
  <2>1. v \in Int
    BY SMT DEF Int32
  <2>2. CASE v < 128
    <3>1. 1 \in 1..5 /\ v < Power[1 + 1]
      BY SMT, <2>2 DEF Power
    <3> QED
      BY SMT, <3>1
  <2>3. CASE 128 <= v /\ v < 16384
    <3>1. 2 \in 1..5 /\ v < Power[2 + 1] /\ v >= Power[2]
      BY SMT, <2>3 DEF Power
    <3> QED
      BY SMT, <3>1
  <2>4. CASE 16384 <= v /\ v < 2097152
    <3>1. 3 \in 1..5 /\ v < Power[3 + 1] /\ v >= Power[3]
      BY SMT, <2>4 DEF Power
    <3> QED
      BY SMT, <3>1
  <2>5. CASE 2097152 <= v /\ v < 268435456
    <3>1. 4 \in 1..5 /\ v < Power[4 + 1] /\ v >= Power[4]
      BY SMT, <2>5 DEF Power
    <3> QED
      BY SMT, <3>1
  <2>6. CASE 268435456 <= v
    <3>1. 5 \in 1..5 /\ v >= Power[5]
      BY SMT, <2>6 DEF Power
    <3> QED
      BY SMT, <3>1
  <2> QED
    BY SMT, <2>1, <2>2, <2>3, <2>4, <2>5, <2>6
<1>2. v >= 0 \/ v < 0
  BY SMT DEF Int32
<1>3. v < 0 => ~(v >= 0)
  BY SMT DEF Int32
<1> QED
  BY SMT, <1>1, <1>2, <1>3 DEF VarintSize

\* The bytes of an integer: the last one, and only that one, is below 128.
LEMMA VarintFact ==
    ASSUME NEW v \in Int32
    PROVE  /\ VarintSize(v) \in 1..10 /\ (v >= 0 => VarintSize(v) \in 1..5)
           /\ Varint(v) \in Seq(Byte) /\ Len(Varint(v)) = VarintSize(v)
           /\ \A i \in 1..VarintSize(v) :
                  /\ Varint(v)[i] = Group(v, i) + IF i < VarintSize(v) THEN 128 ELSE 0
                  /\ Varint(v)[i] < 128 <=> i = VarintSize(v)
                  /\ Varint(v)[i] % 128 = Group(v, i)
<1> DEFINE n == VarintSize(v)
           w == [i \in 1..n |-> Group(v, i) + IF i < n THEN 128 ELSE 0]
<1>1. n \in 1..10 /\ (v >= 0 => n \in 1..5)
  BY SMT, SizeFact DEF Int32
<1>2. Varint(v) = w
  BY DEF Varint
<1> HIDE DEF n
<1>3. \A i \in 1..n : Group(v, i) \in 0..127
  BY <1>1, GroupFact
<1>4. ASSUME NEW i \in 1..n
      PROVE  /\ w[i] \in Byte
             /\ w[i] = Group(v, i) + IF i < n THEN 128 ELSE 0
             /\ w[i] < 128 <=> i = n
             /\ w[i] % 128 = Group(v, i)
  <2> DEFINE g == Group(v, i)
  <2>1. g \in 0..127 /\ n \in Int /\ i \in Int
    BY <1>1, <1>3
  <2>2. w[i] = g + IF i < n THEN 128 ELSE 0
    OBVIOUS
  <2> HIDE DEF g, w
  <2>3. CASE i < n
    <3>1. w[i] = g + 128
      BY <2>2, <2>3
    <3>2. (g + 128) % 128 = g /\ g + 128 \in Byte /\ ~(g + 128 < 128) /\ i # n
      BY <2>1, <2>3 DEF Byte
    <3> QED
      BY <2>2, <2>3, <3>1, <3>2 DEF g
  <2>4. CASE ~(i < n)
    <3>1. w[i] = g
      BY <2>1, <2>2, <2>4
    <3>2. g % 128 = g /\ g \in Byte /\ g < 128 /\ i = n
      BY <1>1, <2>1, <2>4 DEF Byte
    <3> QED
      BY <2>2, <2>4, <3>1, <3>2 DEF g
  <2> QED
    BY <2>3, <2>4
<1>5. w \in [1..n -> Byte]
  BY <1>4
<1>6. w \in Seq(Byte) /\ Len(w) = n
  BY <1>1, <1>5, SeqFact, n \in Nat
<1> QED
  BY <1>1, <1>2, <1>4, <1>6 DEF n

\* As far as both go, s and w are the same bytes.
Agrees(s, w) == \A x \in 1..Len(w) : x <= Len(s) => s[x] = w[x]

\* A varint at the front of some bytes is measured, or found to be cut.
LEMMA VarintHead ==
    ASSUME NEW v \in Int32, NEW longest \in Nat, VarintSize(v) <= longest, NEW s \in Seq(Byte),
           Agrees(s, Varint(v))
    PROVE  VarintLength(s, longest) = IF VarintSize(v) <= Len(s) THEN VarintSize(v) ELSE 0
<1> DEFINE n == VarintSize(v)
           ends == {i \in 1..Len(s) : i <= longest /\ s[i] < 128}
<1>1. n \in 1..10 /\ Len(s) \in Nat /\ \A i \in 1..n : Varint(v)[i] < 128 <=> i = n
  BY VarintFact
<1>5. \A x \in 1..VarintSize(v) : x <= Len(s) => s[x] = Varint(v)[x]
  BY VarintFact DEF Agrees
<1> HIDE DEF n
<1>2. \A i \in ends : i < n => FALSE
  BY <1>1, <1>5 DEF n
<1>3. CASE n <= Len(s)
  <2>1. n \in ends
    BY <1>1, <1>3, <1>5 DEF n
  <2>2. \A i \in ends : n <= i
    BY <1>1, <1>2
  <2>3. \A j \in ends : (\A i \in ends : j <= i) => j = n
    BY <1>1, <2>1, <2>2
  <2> HIDE DEF ends
  <2>4. (CHOOSE i \in ends : \A j \in ends : i <= j) = n
    BY <2>1, <2>2, <2>3
  <2> QED
    BY <1>3, <2>1, <2>4 DEF VarintLength, ends, n
<1>4. CASE ~(n <= Len(s))
  <2>1. ends = {}
    BY <1>1, <1>2, <1>4
  <2> QED
    BY <1>4, <2>1 DEF VarintLength, n
<1> QED
  BY <1>3, <1>4

\* An integer written as a varint is read back as it was.
LEMMA VarintRoundTrip ==
    ASSUME NEW v \in Int32
    PROVE  VarintValue(Varint(v)) = v
<1> DEFINE n == VarintSize(v)
           s == Varint(v)
           bit(i) == IF i <= Len(s) THEN s[i] % 128 ELSE 0
<1>1. v \in Int /\ v >= -2147483648 /\ v <= 2147483647
  BY SMT DEF Int32
<1>2. Len(s) = n /\ n \in 1..10 /\ \A i \in 1..n : s[i] % 128 = Group(v, i)
  BY SMT, VarintFact
<1>3. Group(v, 1) = v % 128 /\ Group(v, 2) = (v \div 128) % 128
      /\ Group(v, 3) = (v \div 16384) % 128 /\ Group(v, 4) = (v \div 2097152) % 128
      /\ Group(v, 5) = (v \div 268435456) % 128
  <2>1. v \div 1 = v
    BY SMT, <1>1
  <2>2. \A i \in 1..5 : Group(v, i) = (v \div Power[i]) % 128
    BY SMT DEF Group
  <2>3. Power[1] = 1 /\ Power[2] = 128 /\ Power[3] = 16384 /\ Power[4] = 2097152
        /\ Power[5] = 268435456
    BY SMT DEF Power
  <2> QED
    BY SMT, <2>1, <2>2, <2>3
<1>4. \A i \in 1..5 : bit(i) = Group(v, i)
  <2> SUFFICES ASSUME NEW i \in 1..5 PROVE bit(i) = Group(v, i)
    BY SMT
  <2>1. CASE i <= n
    BY SMT, <1>2, <2>1
  <2>2. CASE ~(i <= n)
    <3>1. v >= 0 /\ n \in 1..4 /\ v < Power[n + 1] /\ bit(i) = 0
      BY SMT, <1>1, <1>2, <2>2, SizeFact
    <3>2. Power[i] \in Nat /\ Power[n + 1] <= Power[i]
      BY SMT, <3>1, <2>2 DEF Power
    <3>3. v < Power[i] /\ Power[i] \in {1, 128, 16384, 2097152, 268435456}
      BY SMT, <1>1, <3>1, <3>2 DEF Power
    <3>4. v \div Power[i] = 0
      BY SMT, <1>1, <3>1, <3>3
    <3> QED
      BY SMT, <3>1, <3>4 DEF Group
  <2> QED
    BY SMT, <1>2, <2>1, <2>2
<1> DEFINE d == v \div 268435456
           high == Group(v, 5) % 16
<1>5. d \in -8..7 /\ high = d % 16
  <2>1. d \in -8..7
    BY SMT, <1>1
  <2>2. (d % 128) % 16 = d % 16
    BY SMT, <2>1
  <2> QED
    BY SMT, <1>3, <2>1, <2>2
<1>6. (IF high < 8 THEN high ELSE high - 16) = d
  <2> HIDE DEF d, high
  <2> QED
    BY SMT, <1>5
<1>7. VarintValue(s) = bit(1) + 128 * bit(2) + 16384 * bit(3) + 2097152 * bit(4)
          + 268435456 * (IF bit(5) % 16 < 8 THEN bit(5) % 16 ELSE (bit(5) % 16) - 16)
  BY SMT DEF VarintValue
<1>8. v = (v % 128) + 128 * ((v \div 128) % 128) + 16384 * ((v \div 16384) % 128)
                   + 2097152 * ((v \div 2097152) % 128) + 268435456 * d
  <2>1. v = FromDigits(v)
    BY SMT, <1>1, Digits
  <2> QED
    BY SMT, <2>1 DEF FromDigits
<1> HIDE DEF bit, d, s
<1>9. /\ bit(1) = Group(v, 1) /\ bit(2) = Group(v, 2) /\ bit(3) = Group(v, 3)
      /\ bit(4) = Group(v, 4) /\ bit(5) = Group(v, 5)
  BY SMT, <1>4
<1>10. VarintValue(s) = Group(v, 1) + 128 * Group(v, 2) + 16384 * Group(v, 3)
           + 2097152 * Group(v, 4) + 268435456 * d
  BY SMT, <1>6, <1>7, <1>9
<1> QED
  BY SMT, <1>3, <1>8, <1>10 DEF s

----------------------------------------------------------------------------
(* One field.                                                               *)

\* The fields that the classes of the system have.
IsKind(k) == /\ k.type \in {"int", "bool", "double", "bytes", "message"}
             /\ k.many \in BOOLEAN
             /\ k.many => k.type \in {"bytes", "message"}

\* A tag is one byte.
IsLayout(l) == /\ l \in Seq({l[i] : i \in DOMAIN l}) /\ Len(l) <= 15
               /\ \A i \in DOMAIN l : IsKind(l[i])

\* A value and the bytes that are written for it behind its length.
Carries(k, v, content) ==
    CASE k.type = "int"    -> v \in Int32
      [] k.type = "bool"   -> v \in {0, 1}
      [] k.type = "double" -> v \in [1..8 -> Byte]
      [] OTHER             -> /\ content \in Seq(Byte) /\ Len(content) \in Int32
                              /\ k.type = "bytes" => content = v

\* A tag below 128 is a varint of one byte.
LEMMA TagFact ==
    ASSUME NEW t \in 0..127, NEW s \in Seq(Byte), Len(s) > 0, s[1] = t
    PROVE  VarintLength(s, 5) = 1 /\ VarintValue(SubSeq(s, 1, 1)) = t
<1> DEFINE ends == {i \in 1..Len(s) : i <= 5 /\ s[i] < 128}
           one == SubSeq(s, 1, 1)
<1>1. Len(s) \in Nat /\ 1 \in 1..Len(s)
  OBVIOUS
<1>2. 1 \in ends /\ \A j \in ends : 1 <= j
  BY <1>1
<1>3. \A j \in ends : (\A i \in ends : j <= i) => j = 1
  BY <1>2
<1> HIDE DEF ends
<1>4. (CHOOSE i \in ends : \A j \in ends : i <= j) = 1
  BY <1>2, <1>3
<1>5. VarintLength(s, 5) = 1
  BY <1>2, <1>4 DEF VarintLength, ends
<1> DEFINE bit(i) == IF i <= Len(one) THEN one[i] % 128 ELSE 0
<1>6. Len(one) = 1 /\ one[1] = t
  BY <1>1, PrefixFact, 1 \in 0..Len(s)
<1>7. VarintValue(one) = bit(1) + 128 * bit(2) + 16384 * bit(3) + 2097152 * bit(4)
          + 268435456 * (IF bit(5) % 16 < 8 THEN bit(5) % 16 ELSE (bit(5) % 16) - 16)
  BY SMT DEF VarintValue
<1> HIDE DEF one
<1>8. bit(1) = t /\ bit(2) = 0 /\ bit(3) = 0 /\ bit(4) = 0 /\ bit(5) = 0
  BY <1>6
<1>9. 0 % 16 = 0
  OBVIOUS
<1> HIDE DEF bit
<1>10. VarintValue(one) = t
  BY SMT, <1>7, <1>8, <1>9
<1> QED
  BY <1>5, <1>10 DEF one

LEMMA EightBytes ==
    ASSUME NEW v \in [1..8 -> Byte]
    PROVE  v \in Seq(Byte) /\ Len(v) = 8
BY SeqFact, 8 \in Nat

\* Behind every tag there is at least one byte.
LEMMA PayloadFact ==
    ASSUME NEW k, IsKind(k), NEW v, NEW c, Carries(k, v, c)
    PROVE  Payload(k, v, c) \in Seq(Byte) /\ Len(Payload(k, v, c)) \in Nat \ {0}
<1>1. CASE k.type \in {"int", "bool"}
  <2>1. v \in Int32
    BY SMT, <1>1 DEF Carries, Int32
  <2>2. Payload(k, v, c) = Varint(v)
    BY <1>1 DEF Payload
  <2>3. Varint(v) \in Seq(Byte) /\ Len(Varint(v)) = VarintSize(v) /\ VarintSize(v) \in 1..10
    BY <2>1, VarintFact
  <2> QED
    BY <2>2, <2>3
<1>2. CASE k.type = "double"
  <2>1. v \in [1..8 -> Byte] /\ Payload(k, v, c) = v
    BY <1>2 DEF Payload, Carries
  <2>2. v \in Seq(Byte) /\ Len(v) = 8
    BY <2>1, EightBytes
  <2> QED
    BY <2>1, <2>2
<1>3. CASE k.type \in {"bytes", "message"}
  <2>1. c \in Seq(Byte) /\ Len(c) \in Int32 /\ Payload(k, v, c) = Varint(Len(c)) \o c
    BY <1>3 DEF Payload, Carries
  <2> DEFINE len == Varint(Len(c))
             y == len \o c
  <2>2. len \in Seq(Byte) /\ Len(len) \in 1..10
    BY <2>1, VarintFact
  <2> HIDE DEF len
  <2>3. y \in Seq(Byte) /\ Len(c) \in Nat /\ Len(y) = Len(len) + Len(c)
    BY <2>1, <2>2, ConcatFact
  <2>5. Payload(k, v, c) = y
    BY <2>1 DEF len
  <2> HIDE DEF y
  <2>4. Len(y) \in Nat \ {0}
    <3> DEFINE a == Len(len)
               b == Len(c)
    <3>1. a \in 1..10 /\ b \in Nat /\ Len(y) = a + b
      BY <2>2, <2>3
    <3> HIDE DEF a, b
    <3> QED
      BY <3>1
  <2> QED
    BY <2>3, <2>4, <2>5
<1> QED
  BY <1>1, <1>2, <1>3 DEF IsKind

\* The bytes that follow a tag are found to be the value, or to be too few.
LEMMA ExtentFact ==
    ASSUME NEW k, IsKind(k), NEW v, NEW c, Carries(k, v, c), NEW n, NEW s \in Seq(Byte),
           Agrees(s, Payload(k, v, c))
    PROVE  Extent(s, WireType(k), n) =
               IF Len(Payload(k, v, c)) <= Len(s) THEN Len(Payload(k, v, c)) ELSE 0
<1>0. Extent(s, WireType(k), n) = PlainExtent(s, WireType(k)) /\ Len(s) \in Nat
  BY DEF Extent, WireType, IsKind
<1>1. CASE k.type \in {"int", "bool"}
  <2>1. v \in Int32
    BY SMT, <1>1 DEF Carries, Int32
  <2>2. Payload(k, v, c) = Varint(v) /\ WireType(k) = 0
    BY <1>1 DEF Payload, WireType
  <2>3. Len(Varint(v)) = VarintSize(v) /\ VarintSize(v) <= 10
    BY <2>1, VarintFact
  <2>5. Agrees(s, Varint(v))
    BY <2>2
  <2>4. VarintLength(s, 10) = IF VarintSize(v) <= Len(s) THEN VarintSize(v) ELSE 0
    BY <2>1, <2>3, <2>5, VarintHead, 10 \in Nat
  <2> QED
    BY <1>0, <2>2, <2>3, <2>4 DEF PlainExtent
<1>2. CASE k.type = "double"
  <2>1. v \in [1..8 -> Byte] /\ Payload(k, v, c) = v /\ WireType(k) = 1
    BY <1>2 DEF Payload, Carries, WireType
  <2>2. Len(v) = 8
    BY <2>1, EightBytes
  <2> QED
    BY <1>0, <2>1, <2>2 DEF PlainExtent
<1>3. CASE k.type \in {"bytes", "message"}
  <2> DEFINE len == Varint(Len(c))
             t == VarintSize(Len(c))
             size == VarintValue(SubSeq(s, 1, t))
  <2>1. c \in Seq(Byte) /\ Len(c) \in Int32 /\ Payload(k, v, c) = len \o c /\ WireType(k) = 2
        /\ Len(c) \in Nat
    BY <1>3 DEF Payload, Carries, WireType
  <2>2. len \in Seq(Byte) /\ Len(len) = t /\ t \in 1..5
    BY <2>1, VarintFact
  <2> HIDE DEF t
  <2>3. Len(len \o c) = t + Len(c) /\ \A x \in 1..t : (len \o c)[x] = len[x]
    BY <2>1, <2>2, ConcatFact
  <2>9. Agrees(s, len \o c)
    BY <2>1
  <2>4. \A x \in 1..t : x <= Len(s) => s[x] = len[x]
    <3> SUFFICES ASSUME NEW x \in 1..t, x <= Len(s) PROVE s[x] = len[x]
      OBVIOUS
    <3>1. x \in 1..Len(len \o c)
      BY <2>1, <2>2, <2>3
    <3>2. s[x] = (len \o c)[x]
      BY <2>9, <3>1 DEF Agrees
    <3> QED
      BY <2>3, <3>2
  <2>5. VarintLength(s, 5) = IF t <= Len(s) THEN t ELSE 0
    <3>1. VarintSize(Len(c)) <= 5 /\ 5 \in Nat
      BY <2>2 DEF t
    <3>2. Agrees(s, Varint(Len(c)))
      BY <2>2, <2>4 DEF t, Agrees
    <3>3. VarintLength(s, 5) = IF VarintSize(Len(c)) <= Len(s) THEN VarintSize(Len(c)) ELSE 0
      BY <2>1, <3>1, <3>2, VarintHead
    <3> QED
      BY <3>3 DEF t
  <2>6. PlainExtent(s, 2) = LET m == VarintLength(s, 5)
                                z == VarintValue(SubSeq(s, 1, m))
                            IN  IF m > 0 /\ z \in 0..(Len(s) - m) THEN m + z ELSE 0
    BY DEF PlainExtent
  <2>7. CASE t <= Len(s)
    <3>1. t \in 0..Len(s)
      BY <1>0, <2>2, <2>7
    <3>2. SubSeq(s, 1, t) = len
      <4>1. /\ SubSeq(s, 1, t) \in Seq(Byte) /\ Len(SubSeq(s, 1, t)) = t
            /\ \A x \in 1..t : SubSeq(s, 1, t)[x] = s[x]
        BY <3>1, PrefixFact
      <4>2. \A x \in 1..t : SubSeq(s, 1, t)[x] = len[x]
        BY <2>2, <2>4, <2>7, <4>1
      <4> QED
        BY <2>2, <4>1, <4>2, SeqEqual
    <3>3. size = Len(c)
      BY <2>1, <3>2, VarintRoundTrip
    <3>4. PlainExtent(s, 2) = IF t > 0 /\ size \in 0..(Len(s) - t) THEN t + size ELSE 0
      BY <2>5, <2>6, <2>7
    <3> QED
      BY <1>0, <2>1, <2>2, <2>3, <2>7, <3>3, <3>4
  <2>8. CASE ~(t <= Len(s))
    <3>1. PlainExtent(s, 2) = 0
      BY <2>5, <2>6, <2>8
    <3> QED
      BY <1>0, <2>1, <2>2, <2>3, <2>8, <3>1
  <2> QED
    BY <2>7, <2>8
<1> QED
  BY <1>1, <1>2, <1>3 DEF IsKind

\* What is read from the bytes of a value is the value.
LEMMA PayloadRead ==
    ASSUME NEW k, IsKind(k), NEW v, NEW c, Carries(k, v, c)
    PROVE  /\ k.type = "int" => VarintValue(Payload(k, v, c)) = v
           /\ k.type = "bool" =>
                  v = IF \A i \in DOMAIN Payload(k, v, c) : Payload(k, v, c)[i] % 128 = 0
                      THEN 0 ELSE 1
           /\ k.type = "double" => Payload(k, v, c) = v
           /\ k.type \in {"bytes", "message"} => Delimited(Payload(k, v, c)) = c
<1>1. ASSUME k.type = "int" PROVE VarintValue(Payload(k, v, c)) = v
  <2>1. v \in Int32 /\ Payload(k, v, c) = Varint(v)
    BY <1>1 DEF Payload, Carries
  <2> QED
    BY <2>1, VarintRoundTrip
<1>2. ASSUME k.type = "bool"
      PROVE  v = IF \A i \in DOMAIN Payload(k, v, c) : Payload(k, v, c)[i] % 128 = 0
                 THEN 0 ELSE 1
  <2>1. v \in {0, 1} /\ Payload(k, v, c) = Varint(v)
    BY <1>2 DEF Payload, Carries
  <2>2. v \in Int32 /\ v >= 0
    BY SMT, <2>1 DEF Int32
  <2>3. VarintSize(v) = 1
    <3>1. VarintSize(v) \in 1..5 /\ (VarintSize(v) = 1 \/ v >= Power[VarintSize(v)])
      BY <2>2, SizeFact
    <3>2. \A n \in 2..5 : Power[n] > 1 /\ Power[n] \in Nat
      BY SMT DEF Power
    <3> QED
      BY <2>1, <3>1, <3>2
  <2>4. Varint(v) \in Seq(Byte) /\ Len(Varint(v)) = 1 /\ Varint(v)[1] % 128 = Group(v, 1)
    <3>1. /\ Varint(v) \in Seq(Byte) /\ Len(Varint(v)) = VarintSize(v)
          /\ \A i \in 1..VarintSize(v) : Varint(v)[i] % 128 = Group(v, i)
      BY <2>2, VarintFact
    <3> QED
      BY <2>3, <3>1
  <2>5. Group(v, 1) = v
    BY SMT, <2>1 DEF Group, Power
  <2>6. DOMAIN Varint(v) = {1}
    BY <2>4
  <2> QED
    BY <2>1, <2>4, <2>5, <2>6
<1>3. ASSUME k.type = "double" PROVE Payload(k, v, c) = v
  BY <1>3 DEF Payload
<1>4. ASSUME k.type \in {"bytes", "message"} PROVE Delimited(Payload(k, v, c)) = c
  <2> DEFINE len == Varint(Len(c))
             t == VarintSize(Len(c))
             y == len \o c
  <2>1. c \in Seq(Byte) /\ Len(c) \in Int32 /\ Payload(k, v, c) = len \o c
        /\ Len(c) \in Nat
    BY <1>4 DEF Payload, Carries
  <2>2. len \in Seq(Byte) /\ Len(len) = t /\ t \in 1..5
    BY <2>1, VarintFact
  <2> HIDE DEF t
  <2>3. /\ y \in Seq(Byte) /\ Len(y) = t + Len(c) /\ \A x \in 1..t : y[x] = len[x]
        /\ \A x \in 1..Len(c) : y[t + x] = c[x]
    BY <2>1, <2>2, ConcatFact
  <2> HIDE DEF y
  <2>4. VarintLength(y, 5) = t
    <3>1. t <= Len(y)
      BY <2>1, <2>2, <2>3
    <3>2. VarintSize(Len(c)) <= 5 /\ 5 \in Nat
      BY <2>2 DEF t
    <3>3. Agrees(y, Varint(Len(c)))
      BY <2>2, <2>3 DEF t, Agrees
    <3>4. VarintLength(y, 5) = IF VarintSize(Len(c)) <= Len(y) THEN VarintSize(Len(c)) ELSE 0
      BY <2>1, <2>3, <3>2, <3>3, VarintHead
    <3> QED
      BY <3>1, <3>4 DEF t
  <2>5. t \in 0..Len(y) /\ Len(y) - t = Len(c)
    BY <2>1, <2>2, <2>3
  <2>6. /\ Skip(y, t) \in Seq(Byte) /\ Len(Skip(y, t)) = Len(c)
        /\ \A x \in 1..Len(c) : Skip(y, t)[x] = y[t + x]
    BY <2>3, <2>5, SkipFact
  <2>7. \A x \in 1..Len(c) : Skip(y, t)[x] = c[x]
    BY <2>3, <2>6
  <2>8. Skip(y, t) = c
    BY <2>1, <2>6, <2>7, SeqEqual
  <2> QED
    BY <2>1, <2>4, <2>8 DEF Delimited, y
<1> QED
  BY <1>1, <1>2, <1>3, <1>4

\* An entry of Written.
Field(i, v) == [number |-> i, value |-> v]

\* A tag gives back the number of the field and how its value is written.
LEMMA TagValue ==
    ASSUME NEW i \in 1..15, NEW k
    PROVE  LET t == 8 * i + WireType(k)
           IN  WireType(k) \in 0..2 /\ t \in 0..127 /\ t \div 8 = i /\ t % 8 = WireType(k)
<1> DEFINE w == WireType(k)
<1>1. w \in 0..2
  BY DEF WireType
<1> HIDE DEF w
<1>2. 8 * i + w \in 0..127 /\ (8 * i + w) \div 8 = i /\ (8 * i + w) % 8 = w
  BY <1>1
<1> QED
  BY <1>1, <1>2 DEF w

LEMMA BytesJoined ==
    ASSUME NEW s \in Seq(Byte), NEW t \in Seq(Byte)
    PROVE  /\ s \o t \in Seq(Byte) /\ Len(s \o t) = Len(s) + Len(t)
           /\ \A x \in 1..Len(s) : (s \o t)[x] = s[x]
           /\ \A x \in 1..Len(t) : (s \o t)[Len(s) + x] = t[x]
BY ConcatFact

LEMMA LayoutFact ==
    ASSUME NEW l, IsLayout(l)
    PROVE  /\ Len(l) \in Nat /\ DOMAIN l = 1..Len(l) /\ Len(l) <= 15
           /\ \A i \in DOMAIN l : IsKind(l[i]) /\ i \in 1..15
<1> DEFINE S == {l[i] : i \in DOMAIN l}
<1>1. l \in Seq(S) /\ Len(l) <= 15 /\ \A i \in DOMAIN l : IsKind(l[i])
  BY DEF IsLayout
<1> HIDE DEF S
<1>2. Len(l) \in Nat /\ DOMAIN l = 1..Len(l)
  BY <1>1, LenProperties
<1> QED
  BY <1>1, <1>2

\* The bytes of a field: its tag, then its value.
LEMMA WriteFieldFact ==
    ASSUME NEW l, IsLayout(l), NEW i \in DOMAIN l, NEW v, NEW c, Carries(l[i], v, c)
    PROVE  LET y == Payload(l[i], v, c)
               w == WriteField(l, Field(i, v), c)
           IN  /\ i \in 1..15 /\ IsKind(l[i])
               /\ y \in Seq(Byte) /\ Len(y) \in Nat \ {0}
               /\ w \in Seq(Byte) /\ Len(w) = 1 + Len(y)
               /\ w[1] = 8 * i + WireType(l[i])
               /\ \A x \in 1..Len(y) : w[1 + x] = y[x]
<1> DEFINE y == Payload(l[i], v, c)
           t == 8 * i + WireType(l[i])
           w == <<t>> \o y
<1>1. i \in 1..15 /\ IsKind(l[i])
  BY LayoutFact
<1>2. y \in Seq(Byte) /\ Len(y) \in Nat \ {0}
  BY <1>1, PayloadFact
<1>3. t \in Byte
  <2>1. t \in 0..127
    BY <1>1, TagValue
  <2> HIDE DEF t
  <2> QED
    BY <2>1 DEF Byte
<1>4. WriteField(l, Field(i, v), c) = w
  BY DEF WriteField, Field
<1> HIDE DEF y, t
<1>5. <<t>> \in Seq(Byte) /\ Len(<<t>>) = 1 /\ <<t>>[1] = t
  BY <1>3
<1>6. /\ w \in Seq(Byte) /\ Len(w) = 1 + Len(y) /\ w[1] = t
      /\ \A x \in 1..Len(y) : w[1 + x] = y[x]
  <2> DEFINE u == <<t>>
  <2>1. u \in Seq(Byte) /\ Len(u) = 1 /\ u[1] = t /\ 1 \in 1..1
    BY <1>5
  <2> HIDE DEF u
  <2> DEFINE z == u \o y
  <2>2. /\ z \in Seq(Byte) /\ Len(z) = Len(u) + Len(y)
        /\ \A x \in 1..Len(u) : z[x] = u[x]
        /\ \A x \in 1..Len(y) : z[Len(u) + x] = y[x]
    BY <1>2, <2>1, BytesJoined
  <2> HIDE DEF z
  <2>3. z[1] = t /\ Len(z) = 1 + Len(y) /\ \A x \in 1..Len(y) : z[1 + x] = y[x]
    BY <2>1, <2>2
  <2>4. w = z
    BY DEF u, z
  <2> QED
    BY <2>2, <2>3, <2>4
<1> HIDE DEF w
<1> QED
  BY <1>1, <1>2, <1>4, <1>6 DEF y, t

\* FieldAt, from the length of the tag and its value.
LEMMA FieldAtDef ==
    ASSUME NEW s, NEW n, n = VarintLength(s, 5), NEW tag, tag = VarintValue(SubSeq(s, 1, n))
    PROVE  LET e == IF n = 0 \/ tag \div 8 = 0 THEN 0
                    ELSE Extent(Skip(s, n), tag % 8, tag \div 8)
           IN  FieldAt(s) = [number |-> tag \div 8, wire |-> tag % 8,
                             length |-> IF e = 0 THEN 0 ELSE n + e,
                             body |-> SubSeq(s, n + 1, n + e)]
BY Zenon DEF FieldAt

\* A field that is there is found; one that is cut is refused.
LEMMA FieldAtFact ==
    ASSUME NEW l, IsLayout(l), NEW i \in DOMAIN l, NEW v, NEW c, Carries(l[i], v, c),
           NEW s \in Seq(Byte), Len(s) > 0, Agrees(s, WriteField(l, Field(i, v), c))
    PROVE  LET w == WriteField(l, Field(i, v), c)
           IN  /\ Len(w) <= Len(s) =>
                      FieldAt(s) = [number |-> i, wire |-> WireType(l[i]), length |-> Len(w),
                                    body |-> Payload(l[i], v, c)]
               /\ ~(Len(w) <= Len(s)) => FieldAt(s).length = 0
<1> DEFINE y == Payload(l[i], v, c)
           w == WriteField(l, Field(i, v), c)
           n == Len(y)
           t == 8 * i + WireType(l[i])
           rest == Skip(s, 1)
<1>1. /\ i \in 1..15 /\ IsKind(l[i]) /\ y \in Seq(Byte) /\ n \in Nat \ {0}
      /\ w \in Seq(Byte) /\ Len(w) = 1 + n /\ w[1] = t
      /\ \A x \in 1..n : w[1 + x] = y[x]
  BY WriteFieldFact
<1>2. t \in 0..127 /\ t \div 8 = i /\ t % 8 = WireType(l[i])
  BY <1>1, TagValue
<1>3. \A x \in 1..Len(w) : x <= Len(s) => s[x] = w[x]
  BY DEF Agrees
<1> DEFINE m == Len(s)
<1>4. m \in Nat \ {0} /\ 1 \in 1..m
  OBVIOUS
<1> HIDE DEF w, n, m, t
<1>5. s[1] = t
  BY <1>1, <1>3, <1>4 DEF m
<1>6. VarintLength(s, 5) = 1 /\ VarintValue(SubSeq(s, 1, 1)) = t
  BY <1>2, <1>5, TagFact
<1>7. rest \in Seq(Byte) /\ Len(rest) = m - 1 /\ \A x \in 1..m - 1 : rest[x] = s[1 + x]
  BY <1>4, SkipFact DEF m
<1> HIDE DEF rest
<1>8. \A x \in 1..n : x <= Len(rest) => rest[x] = y[x]
  <2> SUFFICES ASSUME NEW x \in 1..n, x <= m - 1 PROVE rest[x] = y[x]
    BY <1>7
  <2>1. 1 + x \in 1..Len(w) /\ 1 + x <= m /\ x \in 1..m - 1
    BY <1>1, <1>4
  <2>2. s[1 + x] = w[1 + x]
    BY <1>3, <2>1 DEF m
  <2> QED
    BY <1>1, <1>7, <2>1, <2>2
<1>9. Extent(rest, WireType(l[i]), i) = IF n <= m - 1 THEN n ELSE 0
  <2>1. Extent(rest, WireType(l[i]), i) = IF n <= Len(rest) THEN n ELSE 0
    <3>1. Agrees(rest, Payload(l[i], v, c))
      BY <1>8 DEF n, Agrees
    <3>2. IsKind(l[i]) /\ rest \in Seq(Byte)
      BY <1>1, <1>7
    <3>3. Extent(rest, WireType(l[i]), i) =
               IF Len(Payload(l[i], v, c)) <= Len(rest) THEN Len(Payload(l[i], v, c)) ELSE 0
      BY <3>1, <3>2, ExtentFact
    <3> QED
      BY <3>3 DEF n
  <2> QED
    BY <1>7, <2>1
<1> DEFINE e == IF t \div 8 = 0 THEN 0 ELSE Extent(Skip(s, 1), t % 8, t \div 8)
<1>10. FieldAt(s) = [number |-> t \div 8, wire |-> t % 8,
                     length |-> IF e = 0 THEN 0 ELSE 1 + e, body |-> SubSeq(s, 1 + 1, 1 + e)]
  BY <1>6, FieldAtDef
<1>11. e = IF n <= m - 1 THEN n ELSE 0
  <2>1. t \div 8 # 0 /\ t \div 8 = i /\ t % 8 = WireType(l[i])
    BY <1>1, <1>2
  <2>2. e = Extent(rest, WireType(l[i]), i)
    BY Zenon, <2>1 DEF rest
  <2> HIDE DEF e
  <2> QED
    BY <1>9, <2>2
<1> HIDE DEF e
<1>12. CASE Len(w) <= m
  <2>1. e = n /\ e # 0 /\ 1 + e = Len(w)
    BY <1>1, <1>4, <1>11, <1>12
  <2>2. SubSeq(s, 1 + 1, 1 + e) = y
    <3> DEFINE b == SubSeq(s, 1 + 1, 1 + e)
    <3>1. \A x \in 1 + 1..1 + e : s[x] \in Byte
      <4>1. \A x \in 1..m : s[x] \in Byte
        BY ElementOfSeq DEF m
      <4>2. 1 + e <= m /\ 1 + e \in Nat
        BY <1>1, <1>4, <1>12, <2>1
      <4> QED
        BY <1>4, <4>1, <4>2
    <3>2. 1 + 1 \in Int /\ 1 + e \in Int /\ (1 + e) - (1 + 1) + 1 = n /\ 1 + 1 <= 1 + e
      BY <1>1, <2>1
    <3> DEFINE p == 1 + 1
               q == 1 + e
    <3>6. b = SubSeq(s, p, q) /\ p \in Int /\ q \in Int /\ q - p + 1 = n /\ p <= q
          /\ \A x \in p..q : s[x] \in Byte
      BY <3>1, <3>2
    <3> HIDE DEF p, q, b
    <3>3. b \in Seq(Byte) /\ Len(b) = n /\ \A x \in 1..n : b[x] = s[p + x - 1]
      BY <3>6, SubSeqProperties
    <3>4. \A x \in 1..n : b[x] = y[x]
      <4> TAKE x \in 1..n
      <4>1. p + x - 1 = 1 + x /\ 1 + x \in 1..Len(w) /\ 1 + x <= m
        BY <1>1, <1>4, <1>12 DEF p
      <4> QED
        BY <1>1, <1>3, <3>3, <4>1 DEF m
    <3>5. b = y
      BY <1>1, <3>3, <3>4, SeqEqual DEF n
    <3> QED
      BY <3>5 DEF b
  <2>3. FieldAt(s) = [number |-> i, wire |-> WireType(l[i]), length |-> Len(w), body |-> y]
    BY <1>2, <1>10, <2>1, <2>2
  <2> QED
    BY <1>12, <2>3 DEF w, m
<1>13. CASE ~(Len(w) <= m)
  <2>1. e = 0
    BY <1>1, <1>4, <1>11, <1>13
  <2>2. FieldAt(s).length = 0
    BY <1>10, <2>1
  <2> QED
    BY <1>13, <2>2 DEF w, m
<1> QED
  BY <1>12, <1>13

\* What an element adds to its field.
Put(k, old, v) == IF k.many THEN old \o <<v>> ELSE IF k.type = "message" THEN <<v>> ELSE v

\* The field i of a message is read from a run of bytes with length of them.
IsFieldRead(l, i, v, c, s, field, length, sub) ==
    ReadField(l, [rest |-> s, message |-> <<[field |-> field, unknown |-> <<>>]>>],
              [number |-> i, wire |-> WireType(l[i]), length |-> length,
               body |-> Payload(l[i], v, c)], sub)
      = [rest |-> Skip(s, length),
         message |-> <<[field |-> [field EXCEPT ![i] = Put(l[i], @, v)], unknown |-> <<>>]>>]

\* A function on the fields of the class and on nothing else.
HasFields(l, field) == field = [j \in DOMAIN l |-> field[j]]

\* The value of a repeated field is a sequence.
Appends(k, old, v) == k.many => Append(old, v) = old \o <<v>>

\* A field that is there is stored and its bytes are passed.
LEMMA ReadFieldFact ==
    ASSUME NEW l, IsLayout(l), NEW i \in DOMAIN l, NEW v, NEW c, Carries(l[i], v, c),
           NEW s, NEW field, NEW length, length # 0, NEW sub,
           l[i].type = "message" => sub = <<v>>,
           Appends(l[i], field[i], v), HasFields(l, field)
    PROVE  IsFieldRead(l, i, v, c, s, field, length, sub)
<1> DEFINE k == l[i]
           y == Payload(k, v, c)
<1>1. IsKind(k)
  BY DEF IsLayout
<1>2. Store(k, field[i], y, sub) = Put(k, field[i], v)
  <2>1. CASE k.type = "message"
    BY <1>1, <2>1 DEF Store, Put, IsKind
  <2>2. CASE k.type = "bytes"
    <3>1. Delimited(y) = c /\ c = v
      BY <1>1, <2>2, PayloadRead DEF Carries
    <3> QED
      BY <1>1, <2>2, <3>1 DEF Store, Put, IsKind, Appends
  <2>3. CASE k.type = "double"
    <3>1. y = v /\ ~k.many
      BY <1>1, <2>3, PayloadRead DEF IsKind
    <3> QED
      BY <1>1, <2>3, <3>1 DEF Store, Put, IsKind
  <2>4. CASE k.type = "bool"
    <3>1. ~k.many
      BY <1>1, <2>4 DEF IsKind
    <3>2. v = IF \A j \in DOMAIN y : y[j] % 128 = 0 THEN 0 ELSE 1
      BY <1>1, <2>4, PayloadRead
    <3> HIDE DEF y, k
    <3> QED
      BY <2>4, <3>1, <3>2 DEF Store, Put
  <2>5. CASE k.type = "int"
    <3>1. VarintValue(y) = v /\ ~k.many
      BY <1>1, <2>5, PayloadRead DEF IsKind
    <3> QED
      BY <1>1, <2>5, <3>1 DEF Store, Put, IsKind
  <2> QED
    BY <1>1, <2>1, <2>2, <2>3, <2>4, <2>5 DEF IsKind
<1>3. ~(k.type = "message" /\ sub = <<>>)
  <2>1. <<v>> # <<>>
    OBVIOUS
  <2>2. k.type = "message" => sub = <<v>>
    BY DEF k
  <2> QED
    BY <2>1, <2>2, Zenon
<1> HIDE DEF y, k
<1> QED
  BY <1>2, <1>3 DEF ReadField, IsFieldRead, HasFields, k, y

\* A field that is cut ends the parse.
LEMMA CutFieldFact ==
    ASSUME NEW l, NEW s, NEW message, NEW f, f.length = 0, NEW sub
    PROVE  ReadField(l, [rest |-> s, message |-> message], f, sub) = [rest |-> s, message |-> <<>>]
BY DEF ReadField

----------------------------------------------------------------------------
(* What a message holds when some of its fields have been read.             *)

\* The nearest number in 0..n.
Clip(x, n) == IF x < 0 THEN 0 ELSE IF x > n THEN n ELSE x

\* The elements after the first lo and up to the first hi.
Part(s, lo, hi) == SubSeq(s, Clip(lo, Len(s)) + 1, Clip(hi, Len(s)))

\* The value of a field with these elements.
Value(k, es) == IF k.many \/ k.type = "message" THEN es
                ELSE IF es = <<>> THEN Default(k) ELSE es[1]

\* es[i] are the elements of field i, q[i] where they end among all of them: the
\* message that has those after a and up to b.
Held(l, es, q, a, b) ==
    [field   |-> [i \in DOMAIN l |-> Value(l[i], Part(es[i], a - q[i - 1], b - q[i - 1]))],
     unknown |-> <<>>]

\* z is s followed by t.
Joined(S, s, t, z) == /\ z \in Seq(S) /\ Len(z) = Len(s) + Len(t)
                      /\ \A x \in 1..Len(s) : z[x] = s[x]
                      /\ \A x \in 1..Len(t) : z[Len(s) + x] = t[x]

LEMMA JoinedFact ==
    ASSUME NEW S, NEW s \in Seq(S), NEW t \in Seq(S)
    PROVE  Joined(S, s, t, s \o t)
BY ConcatFact DEF Joined

\* A part lies in the sequence, at the place it was cut from.
LEMMA PartFact ==
    ASSUME NEW S, NEW s \in Seq(S), NEW lo \in Int, NEW hi \in Int
    PROVE  /\ Part(s, lo, hi) \in Seq(S)
           /\ Clip(lo, Len(s)) \in 0..Len(s) /\ Clip(hi, Len(s)) \in 0..Len(s)
           /\ Clip(hi, Len(s)) <= Clip(lo, Len(s)) => Part(s, lo, hi) = <<>>
           /\ Clip(lo, Len(s)) <= Clip(hi, Len(s)) =>
                 /\ Len(Part(s, lo, hi)) = Clip(hi, Len(s)) - Clip(lo, Len(s))
                 /\ \A x \in 1..Clip(hi, Len(s)) - Clip(lo, Len(s)) :
                        Part(s, lo, hi)[x] = s[Clip(lo, Len(s)) + x]
<1> DEFINE n == Len(s)
           u == Clip(lo, n)
           w == Clip(hi, n)
           z == SubSeq(s, u + 1, w)
<1>1. n \in Nat
  OBVIOUS
<1>2. u \in 0..n /\ w \in 0..n
  BY <1>1 DEF Clip
<1>3. \A x \in u + 1..w : s[x] \in S
  <2>1. \A x \in 1..n : s[x] \in S
    BY ElementOfSeq
  <2> HIDE DEF u, w, n
  <2> QED
    BY <1>1, <1>2, <2>1
<1>4. Part(s, lo, hi) = z
  BY DEF Part
<1> HIDE DEF u, w
<1>5. /\ z \in Seq(S)
      /\ Len(z) = IF u + 1 <= w THEN w - (u + 1) + 1 ELSE 0
      /\ \A x \in 1..w - (u + 1) + 1 : z[x] = s[u + 1 + x - 1]
  <2> DEFINE d == u + 1
  <2>1. d \in Int /\ w \in Int /\ \A x \in d..w : s[x] \in S
    BY <1>1, <1>2, <1>3
  <2> HIDE DEF d
  <2>2. /\ SubSeq(s, d, w) \in Seq(S)
        /\ Len(SubSeq(s, d, w)) = IF d <= w THEN w - d + 1 ELSE 0
        /\ \A x \in 1..w - d + 1 : SubSeq(s, d, w)[x] = s[d + x - 1]
    BY <2>1, SubSeqProperties
  <2> QED
    BY <2>2 DEF d
<1> HIDE DEF z, n
<1>6. ASSUME w <= u PROVE z = <<>>
  <2>1. Len(z) = 0
    BY <1>1, <1>2, <1>5, <1>6
  <2> QED
    BY <1>5, <2>1, EmptySeq, SeqEqual
<1>7. ASSUME u <= w
      PROVE  Len(z) = w - u /\ \A x \in 1..w - u : z[x] = s[u + x]
  <2>1. Len(z) = w - u /\ w - (u + 1) + 1 = w - u
    BY <1>1, <1>2, <1>5, <1>7
  <2>2. \A x \in 1..w - u : u + 1 + x - 1 = u + x
    BY <1>1, <1>2
  <2> QED
    BY <1>5, <2>1, <2>2
<1> QED
  BY <1>2, <1>4, <1>5, <1>6, <1>7 DEF u, w, n

\* One more element, when hi is inside.
LEMMA PartNext ==
    ASSUME NEW S, NEW s \in Seq(S), NEW hi \in 0..Len(s) - 1, NEW lo \in Int, lo <= hi
    PROVE  Part(s, lo, hi + 1) = Part(s, lo, hi) \o <<s[hi + 1]>>
<1> DEFINE n == Len(s)
           w == hi + 1
           u == Clip(lo, n)
           z == Part(s, lo, w)
           y == Part(s, lo, hi)
           e == <<s[w]>>
           j == y \o e
<1>1. n \in Nat /\ hi \in 0..n - 1 /\ w \in 1..n /\ w \in Int /\ w = hi + 1
  OBVIOUS
<1>2. Clip(hi, n) = hi /\ Clip(w, n) = w /\ u \in 0..n /\ u <= hi
  BY <1>1 DEF Clip
<1> HIDE DEF w
<1>3. s[w] \in S
  BY <1>1
<1> HIDE DEF u, n
<1>4. z \in Seq(S) /\ Len(z) = w - u /\ \A x \in 1..w - u : z[x] = s[u + x]
  <2>1. u <= w
    BY <1>1, <1>2
  <2> QED
    BY <1>1, <1>2, <2>1, PartFact DEF u, n
<1>5. y \in Seq(S) /\ Len(y) = hi - u /\ \A x \in 1..hi - u : y[x] = s[u + x]
  <2>1. hi \in Int
    BY <1>1
  <2> QED
    BY <1>2, <2>1, PartFact DEF u, n
<1>6. e \in Seq(S) /\ Len(e) = 1 /\ e[1] = s[w]
  BY <1>3
<1> HIDE DEF z, y, e
<1>7. /\ j \in Seq(S) /\ Len(j) = Len(y) + Len(e)
      /\ \A x \in 1..Len(y) : j[x] = y[x]
      /\ \A x \in 1..Len(e) : j[Len(y) + x] = e[x]
  <2>1. Joined(S, y, e, y \o e)
    BY <1>5, <1>6, JoinedFact
  <2> QED
    BY <2>1 DEF Joined
<1> HIDE DEF j
<1>8. Len(j) = w - u
  BY <1>1, <1>2, <1>5, <1>6, <1>7
<1>9. ASSUME NEW x \in 1..w - u PROVE z[x] = j[x]
  <2>1. CASE x <= hi - u
    <3>1. x \in 1..hi - u
      BY <1>1, <1>2, <2>1
    <3> QED
      BY <1>4, <1>5, <1>7, <1>9, <3>1
  <2>2. CASE ~(x <= hi - u)
    <3>1. x = w - u /\ x = (hi - u) + 1 /\ u + x = w
      BY <1>1, <1>2, <2>2
    <3>2. z[x] = s[w]
      BY <1>4, <1>9, <3>1
    <3>3. j[(hi - u) + 1] = e[1]
      BY <1>5, <1>6, <1>7
    <3> QED
      BY <1>6, <3>1, <3>2, <3>3
  <2> QED
    BY <2>1, <2>2
<1>10. z = j
  BY <1>4, <1>7, <1>8, <1>9, SeqEqual
<1> QED
  BY <1>10 DEF z, j, y, e, w

LEMMA PartAll ==
    ASSUME NEW S, NEW s \in Seq(S), NEW lo \in Int, NEW hi \in Int, lo <= 0, Len(s) <= hi
    PROVE  Part(s, lo, hi) = s
<1> DEFINE n == Len(s)
           z == Part(s, lo, hi)
<1>1. n \in Nat /\ Clip(lo, n) = 0 /\ Clip(hi, n) = n
  BY DEF Clip
<1>2. z \in Seq(S) /\ Len(z) = n - 0 /\ \A x \in 1..n - 0 : z[x] = s[0 + x]
  BY <1>1, PartFact
<1> HIDE DEF z
<1>3. Len(z) = n /\ \A x \in 1..n : z[x] = s[x]
  BY <1>1, <1>2
<1>4. z = s
  BY <1>2, <1>3, SeqEqual
<1> QED
  BY <1>4 DEF z

\* Two parts that meet make one.
LEMMA PartsMeet ==
    ASSUME NEW S, NEW s \in Seq(S), NEW lo \in Int, NEW mid \in Int, NEW hi \in Int,
           lo <= 0, lo <= mid, mid <= hi, Len(s) <= hi
    PROVE  Part(s, lo, mid) \o Part(s, mid, hi) = s
<1> DEFINE n == Len(s)
           c == Clip(mid, n)
           y == Part(s, lo, mid)
           z == Part(s, mid, hi)
           j == y \o z
<1>1. n \in Nat /\ Clip(lo, n) = 0 /\ Clip(hi, n) = n /\ c \in 0..n
  BY DEF Clip
<1> HIDE DEF c
<1>2. y \in Seq(S) /\ Len(y) = c /\ \A x \in 1..c : y[x] = s[x]
  <2>1. y \in Seq(S) /\ Len(y) = c - 0 /\ \A x \in 1..c - 0 : y[x] = s[0 + x]
    BY <1>1, PartFact DEF c
  <2> HIDE DEF y
  <2> QED
    BY <1>1, <2>1
<1>3. z \in Seq(S) /\ Len(z) = n - c /\ \A x \in 1..n - c : z[x] = s[c + x]
  BY <1>1, PartFact DEF c
<1> HIDE DEF y, z
<1>4. /\ j \in Seq(S) /\ Len(j) = Len(y) + Len(z)
      /\ \A x \in 1..Len(y) : j[x] = y[x]
      /\ \A x \in 1..Len(z) : j[Len(y) + x] = z[x]
  <2>1. Joined(S, y, z, y \o z)
    BY <1>2, <1>3, JoinedFact
  <2> QED
    BY <2>1 DEF Joined
<1> HIDE DEF j
<1>5. Len(j) = n
  BY <1>1, <1>2, <1>3, <1>4
<1>6. ASSUME NEW x \in 1..n PROVE j[x] = s[x]
  <2>1. CASE x <= c
    <3>1. x \in 1..c
      BY <1>1, <2>1
    <3> QED
      BY <1>2, <1>4, <3>1
  <2>2. CASE ~(x <= c)
    <3>1. x - c \in 1..n - c /\ c + (x - c) = x
      BY <1>1, <2>2
    <3>2. j[c + (x - c)] = z[x - c] /\ z[x - c] = s[c + (x - c)]
      BY <1>2, <1>3, <1>4, <3>1
    <3> QED
      BY <3>1, <3>2
  <2> QED
    BY <2>1, <2>2
<1>7. j = s
  BY <1>4, <1>5, <1>6, SeqEqual
<1> QED
  BY <1>7 DEF j, y, z

\* The elements of the fields of a message of class l.
IsContent(l, es, S) == /\ IsLayout(l) /\ es \in Seq(Seq(S)) /\ Len(es) = Len(l)
                       /\ \A i \in DOMAIN l : l[i].many \/ Len(es[i]) <= 1

LEMMA ContentFact ==
    ASSUME NEW l, NEW es, NEW S, IsContent(l, es, S)
    PROVE  /\ Len(l) \in Nat /\ DOMAIN l = 1..Len(l) /\ Len(es) = Len(l)
           /\ \A i \in 1..Len(l) : /\ IsKind(l[i]) /\ es[i] \in Seq(S) /\ Len(es[i]) \in Nat
                                   /\ l[i].many \/ Len(es[i]) <= 1
<1>1. /\ Len(l) \in Nat /\ DOMAIN l = 1..Len(l)
      /\ \A i \in DOMAIN l : IsKind(l[i])
  BY LayoutFact DEF IsContent
<1>2. es \in Seq(Seq(S)) /\ Len(es) = Len(l) /\ \A i \in DOMAIN l : l[i].many \/ Len(es[i]) <= 1
  BY DEF IsContent
<1>3. \A i \in 1..Len(l) : es[i] \in Seq(S)
  BY <1>2
<1>4. \A i \in 1..Len(l) : Len(es[i]) \in Nat
  BY <1>3
<1> QED
  BY <1>1, <1>2, <1>3, <1>4

LEMMA ContentCuts ==
    ASSUME NEW l, NEW es, NEW S, IsContent(l, es, S), NEW q, Cuts(Lengths(es), q)
    PROVE  /\ q[0] = 0 /\ \A i \in 0..Len(l) : q[i] \in Nat
           /\ \A i \in 1..Len(l) : q[i] = q[i - 1] + Len(es[i]) /\ q[i - 1] \in Nat
           /\ \A i \in 0..Len(l) : \A h \in i..Len(l) : q[i] <= q[h]
<1>1. es \in Seq(Seq(S)) /\ Len(es) = Len(l)
  BY DEF IsContent
<1>2. /\ Lengths(es) \in Seq(Nat) /\ Len(Lengths(es)) = Len(l)
      /\ \A n \in 1..Len(l) : Lengths(es)[n] = Len(es[n])
  BY <1>1, LengthsFact
<1>3. q[0] = 0 /\ \A i \in 0..Len(l) : q[i] \in Nat
  BY <1>2, CutsType
<1>4. \A i \in 1..Len(l) : q[i] = q[i - 1] + Len(es[i]) /\ q[i - 1] \in Nat
  BY <1>2, CutsStep
<1>5. \A i \in 0..Len(l) : \A h \in i..Len(l) : q[i] <= q[h]
  BY <1>2, CutsMonotone
<1> QED
  BY <1>3, <1>4, <1>5

LEMMA Past ==
    ASSUME NEW u \in Nat, NEW m \in Nat, NEW w \in Nat, NEW o \in Nat, NEW b \in Nat,
           w = u + m, w <= o, o <= b
    PROVE  m <= b - u /\ m <= (b + 1) - u
OBVIOUS

LEMMA Before ==
    ASSUME NEW u \in Nat, NEW w \in Nat, NEW b \in Nat, b + 1 <= w, w <= u
    PROVE  b - u <= 0 /\ (b + 1) - u <= 0
OBVIOUS

\* From b to b + 1 elements: element j of field i is put into what is held.
HeldStep(l, es, q, a, b, i, j) ==
    LET old == Held(l, es, q, a, b).field
    IN  /\ Held(l, es, q, a, b + 1) = [field |-> [old EXCEPT ![i] = Put(l[i], @, es[i][j])],
                                       unknown |-> <<>>]
        /\ Appends(l[i], old[i], es[i][j])
        /\ ~l[i].many => old[i] = Default(l[i])

\* Reading the next element turns what is held into what is held after it.
LEMMA HeldNext ==
    ASSUME NEW l, NEW es, NEW S, IsContent(l, es, S), NEW q, Cuts(Lengths(es), q),
           NEW i \in 1..Len(l), NEW j \in 1..Len(es[i]), NEW b, b = q[i - 1] + j - 1,
           NEW a \in 0..b
    PROVE  HeldStep(l, es, q, a, b, i, j)
<1> DEFINE old == Held(l, es, q, a, b).field
           new == Held(l, es, q, a, b + 1).field
           k == l[i]
           s == es[i]
           n == Len(s)
           o == q[i - 1]
           lo == a - o
           hi == j - 1
<1>1. /\ Len(l) \in Nat /\ DOMAIN l = 1..Len(l)
      /\ \A h \in 1..Len(l) : /\ IsKind(l[h]) /\ es[h] \in Seq(S) /\ Len(es[h]) \in Nat
                              /\ l[h].many \/ Len(es[h]) <= 1
  BY ContentFact
<1>2. /\ \A h \in 0..Len(l) : q[h] \in Nat
      /\ \A h \in 1..Len(l) : q[h] = q[h - 1] + Len(es[h]) /\ q[h - 1] \in Nat
      /\ \A h \in 0..Len(l) : \A g \in h..Len(l) : q[h] <= q[g]
  BY ContentCuts
<1>3. s \in Seq(S) /\ n \in Nat /\ j \in 1..n /\ o \in Nat /\ (k.many \/ n <= 1) /\ IsKind(k)
  BY <1>1, <1>2
<1>4. b = o + hi /\ b - o = hi /\ (b + 1) - o = hi + 1 /\ hi \in 0..n - 1 /\ lo \in Int
      /\ lo <= hi /\ b \in Nat /\ hi + 1 = j /\ a \in Nat
  <2> HIDE DEF n, o
  <2> QED
    BY <1>3 DEF o
<1>5. new[i] = Put(k, old[i], s[j]) /\ Appends(k, old[i], s[j])
      /\ (~k.many => old[i] = Default(k))
  <2>1. old[i] = Value(k, Part(s, lo, hi)) /\ new[i] = Value(k, Part(s, lo, hi + 1))
    BY <1>1, <1>4 DEF Held
  <2>2. Part(s, lo, hi + 1) = Part(s, lo, hi) \o <<s[j]>>
    BY <1>3, <1>4, PartNext
  <2>3. Part(s, lo, hi) \in Seq(S)
    <3>1. hi \in Int
      BY <1>4
    <3> QED
      BY <1>3, <1>4, <3>1, PartFact
  <2>4. CASE k.many
    <3> DEFINE y == Part(s, lo, hi)
    <3>1. Append(y, s[j]) = y \o <<s[j]>>
      <4>1. y \in Seq(S) /\ s[j] \in S
        BY <1>3, <2>3
      <4> HIDE DEF y
      <4> QED
        BY <4>1
    <3>2. old[i] = y /\ new[i] = y \o <<s[j]>>
      BY <1>4, <2>1, <2>2, <2>4 DEF Value
    <3>3. Put(k, y, s[j]) = y \o <<s[j]>>
      BY <2>4 DEF Put
    <3> HIDE DEF y, old, new
    <3> QED
      BY <2>4, <3>1, <3>2, <3>3 DEF Appends
  <2>5. CASE ~k.many
    <3>0. n <= 1
      BY <1>3, <2>5
    <3>1. j = 1 /\ hi = 0 /\ n = 1 /\ lo <= 0
      <4> HIDE DEF n, o, s, lo
      <4> QED
        BY <1>3, <1>4, <3>0
    <3>2. Part(s, lo, hi + 1) = s
      <4> DEFINE t == hi + 1
      <4>1. t = 1 /\ lo \in Int /\ lo <= 0 /\ Len(s) = 1 /\ s \in Seq(S)
        BY <1>3, <1>4, <3>1
      <4> HIDE DEF t, lo, s
      <4>2. t \in Int /\ Len(s) <= t
        BY <4>1
      <4>3. Part(s, lo, t) = s
        BY <4>1, <4>2, PartAll
      <4> QED
        BY <4>3 DEF t
    <3>3. s = <<s[j]>> /\ s # <<>> /\ s[1] = s[j]
      BY <1>3, <3>1
    <3>4. Part(s, lo, hi) = <<>>
      <4>1. Clip(hi, n) = 0 /\ Clip(lo, n) = 0 /\ Clip(hi, n) <= Clip(lo, n)
        <5> HIDE DEF n, hi, lo
        <5> QED
          BY <1>3, <1>4, <3>1 DEF Clip
      <4> HIDE DEF s, hi, lo
      <4>2. hi \in Int /\ lo \in Int
        BY <1>4, <3>1
      <4>3. s \in Seq(S)
        BY <1>3
      <4>4. Clip(hi, Len(s)) <= Clip(lo, Len(s))
        BY <4>1 DEF n
      <4> HIDE DEF n
      <4> QED
        BY <4>2, <4>3, <4>4, PartFact
    <3>5. Value(k, <<>>) = Default(k)
      <4> DEFINE z == Default(k)
      <4>1. k.type = "message" => z = <<>>
        BY DEF Default
      <4> HIDE DEF z
      <4> QED
        BY <2>5, <4>1 DEF Value, z
    <3>6. new[i] = Put(k, old[i], s[j])
      BY <2>1, <2>5, <3>2, <3>3 DEF Value, Put
    <3>7. old[i] = Default(k)
      BY <2>1, <3>4, <3>5
    <3> HIDE DEF old, new
    <3> QED
      BY <2>5, <3>6, <3>7 DEF Appends
  <2> QED
    BY <2>4, <2>5
<1>6. ASSUME NEW h \in 1..Len(l), h # i PROVE new[h] = old[h]
  <2> DEFINE z == es[h]
             m == Len(z)
             u == q[h - 1]
  <2>1. z \in Seq(S) /\ m \in Nat /\ u \in Nat /\ q[h] = u + m /\ q[h] \in Nat
    BY <1>1, <1>2
  <2>2. old[h] = Value(l[h], Part(z, a - u, b - u))
        /\ new[h] = Value(l[h], Part(z, a - u, (b + 1) - u))
    BY <1>1 DEF Held
  <2>3. Clip(b - u, m) = Clip((b + 1) - u, m)
    <3>1. CASE h < i
      <4>1. q[h] <= o
        <5>1. h \in 0..Len(l) /\ i - 1 \in h..Len(l)
          BY <1>1, <3>1
        <5> QED
          BY <1>2, <5>1
      <4> HIDE DEF u, m, o
      <4>2. m <= b - u /\ m <= (b + 1) - u
        <5> DEFINE w == q[h]
        <5>1. w = u + m /\ w <= o /\ o <= b
          BY <1>3, <1>4, <2>1, <4>1
        <5>2. w \in Nat /\ o \in Nat
          BY <1>3, <2>1
        <5> HIDE DEF w
        <5> QED
          BY <1>4, <2>1, <5>1, <5>2, Past
      <4>3. b - u \in Int /\ (b + 1) - u \in Int
        BY <1>4, <2>1
      <4> QED
        BY <2>1, <4>2, <4>3 DEF Clip
    <3>2. CASE h > i
      <4>1. q[i] <= u /\ q[i] = o + n
        <5>1. i \in 0..Len(l) /\ h - 1 \in i..Len(l)
          BY <1>1, <3>2
        <5> QED
          BY <1>2, <5>1
      <4> HIDE DEF u, m, o, n
      <4>2. b - u <= 0 /\ (b + 1) - u <= 0
        <5> DEFINE w == q[i]
        <5>1. w = o + n /\ w <= u /\ b = o + (j - 1)
          BY <1>4, <4>1
        <5> HIDE DEF w, lo
        <5>2. b + 1 <= w
          BY <1>3, <1>4, <5>1
        <5>3. w \in Nat /\ u \in Nat /\ b \in Nat
          BY <1>3, <1>4, <2>1, <5>1
        <5> QED
          BY <5>1, <5>2, <5>3, Before
      <4>3. b - u \in Int /\ (b + 1) - u \in Int
        BY <1>4, <2>1
      <4> QED
        BY <2>1, <4>2, <4>3 DEF Clip
    <3> QED
      BY <1>1, <1>6, <3>1, <3>2
  <2>4. Part(z, a - u, b - u) = Part(z, a - u, (b + 1) - u)
    BY <2>3 DEF Part
  <2> QED
    BY <2>2, <2>4
<1>7. old = [h \in 1..Len(l) |-> old[h]] /\ new = [h \in 1..Len(l) |-> new[h]]
  BY <1>1 DEF Held
<1>8. Held(l, es, q, a, b + 1) = [field |-> new, unknown |-> <<>>]
  BY DEF Held
<1> HIDE DEF old, new
<1>9. new = [old EXCEPT ![i] = Put(k, @, s[j])]
  BY <1>5, <1>6, <1>7
<1> QED
  BY <1>5, <1>8, <1>9 DEF old, new, HeldStep

\* Every element up to the last is one of a field.
LEMMA PlaceOf ==
    ASSUME NEW l, NEW es, NEW S, IsContent(l, es, S), NEW q, Cuts(Lengths(es), q),
           NEW t \in 1..q[Len(l)]
    PROVE  \E i \in 1..Len(l) : \E j \in 1..Len(es[i]) :
               t = q[i - 1] + j /\ i \in DOMAIN l /\ q[i - 1] \in Nat
<1> DEFINE ns == Lengths(es)
<1>2. es \in Seq(Seq(S)) /\ Len(es) = Len(l)
  BY DEF IsContent
<1>3. ns \in Seq(Nat) /\ Len(ns) = Len(l) /\ \A n \in 1..Len(l) : ns[n] = Len(es[n])
  BY <1>2, LengthsFact
<1>4. PICK i \in 1..Len(l) : q[i - 1] < t /\ t <= q[i]
  <2>1. t \in 1..q[Len(ns)]
    BY <1>3
  <2> HIDE DEF ns
  <2> QED
    BY <1>3, <2>1, CutsCover DEF ns
<1>5. q[i] = q[i - 1] + Len(es[i]) /\ q[i - 1] \in Nat /\ Len(es[i]) \in Nat
  <2>1. q[i] = q[i - 1] + Len(es[i]) /\ q[i - 1] \in Nat
    BY ContentCuts
  <2>2. Len(es[i]) \in Nat
    BY ContentFact
  <2> QED
    BY <2>1, <2>2
<1>6. i \in DOMAIN l
  BY ContentFact
<1> DEFINE o == q[i - 1]
           n == Len(es[i])
           j == t - o
<1>7. j \in 1..n /\ t = o + j
  <2> DEFINE w == q[i]
  <2>1. w = o + n /\ o < t /\ t <= w /\ o \in Nat /\ n \in Nat /\ t \in Int
    BY <1>4, <1>5
  <2> HIDE DEF w, o, n
  <2> QED
    BY <2>1
<1> HIDE DEF j
<1> QED
  BY <1>5, <1>6, <1>7

----------------------------------------------------------------------------
(* A message on the wire.                                                   *)

\* x has the class of the message (layout), the elements of its fields and, field
\* by field, how many there are up to its end (counts), all of them in order
\* (fields), the bytes behind their lengths (contents), their number (size),
\* where each ends (ends), and the bytes of them all.
Writing(x, t) == WriteField(x.layout, x.fields[t], x.contents[t])

Widths(x) == [t \in 1..x.size |-> Len(Writing(x, t))]

Listed(x) == \A i \in 1..Len(x.layout) : \A j \in 1..Len(x.elements[i]) :
                 x.fields[x.counts[i - 1] + j] = Field(i, x.elements[i][j])

Carried(x) == \A t \in 1..x.size :
                  Carries(x.layout[x.fields[t].number], x.fields[t].value, x.contents[t])

Placed(x) == \A t \in 1..x.size : \A y \in 1..Len(Writing(x, t)) :
                 x.bytes[x.ends[t - 1] + y] = Writing(x, t)[y]

IsList(x) == /\ IsContent(x.layout, x.elements, x.values)
             /\ Cuts(Lengths(x.elements), x.counts) /\ x.size = x.counts[Len(x.layout)]
             /\ Listed(x) /\ Carried(x)

IsWire(x) == /\ IsList(x)
             /\ Cuts(Widths(x), x.ends)
             /\ x.bytes \in Seq(Byte) /\ Len(x.bytes) = x.ends[x.size]
             /\ Placed(x)

LEMMA TokenOfList ==
    ASSUME NEW x, IsList(x), NEW t \in 1..x.size
    PROVE  \E i \in 1..Len(x.layout) : \E j \in 1..Len(x.elements[i]) :
               /\ t = x.counts[i - 1] + j /\ x.fields[t] = Field(i, x.elements[i][j])
               /\ i \in DOMAIN x.layout /\ x.counts[i - 1] \in Nat
<1> DEFINE l == x.layout
           es == x.elements
           q == x.counts
<1>1. IsContent(l, es, x.values) /\ Cuts(Lengths(es), q) /\ x.size = q[Len(l)] /\ Listed(x)
  BY DEF IsList
<1>2. PICK i \in 1..Len(l) : \E j \in 1..Len(es[i]) :
          t = q[i - 1] + j /\ i \in DOMAIN l /\ q[i - 1] \in Nat
  <2> HIDE DEF l, es, q
  <2>1. t \in 1..q[Len(l)]
    BY <1>1
  <2> QED
    BY <1>1, <2>1, PlaceOf
<1> QED
  BY <1>1, <1>2 DEF Listed

LEMMA TokenFact ==
    ASSUME NEW x, IsWire(x), NEW t \in 1..x.size
    PROVE  \E i \in 1..Len(x.layout) : \E j \in 1..Len(x.elements[i]) :
               /\ t = x.counts[i - 1] + j /\ x.fields[t] = Field(i, x.elements[i][j])
               /\ i \in DOMAIN x.layout /\ x.counts[i - 1] \in Nat
BY TokenOfList DEF IsWire

LEMMA WritingOfList ==
    ASSUME NEW x, IsList(x), NEW t \in 1..x.size
    PROVE  Writing(x, t) \in Seq(Byte) /\ Len(Writing(x, t)) \in Nat /\ Len(Writing(x, t)) >= 2
<1>1. PICK i \in 1..Len(x.layout) : \E j \in 1..Len(x.elements[i]) :
          x.fields[t] = Field(i, x.elements[i][j]) /\ i \in DOMAIN x.layout
  BY TokenOfList
<1>2. PICK v : x.fields[t] = Field(i, v)
  BY <1>1
<1>3. x.fields[t].number = i /\ x.fields[t].value = v
  BY <1>2 DEF Field
<1>4. Carries(x.layout[i], v, x.contents[t]) /\ IsLayout(x.layout)
  BY <1>3 DEF IsList, Carried, IsContent
<1> DEFINE w == WriteField(x.layout, Field(i, v), x.contents[t])
           n == Len(Payload(x.layout[i], v, x.contents[t]))
<1>5. w \in Seq(Byte) /\ n \in Nat \ {0} /\ Len(w) = 1 + n
  BY <1>1, <1>4, WriteFieldFact
<1>6. Writing(x, t) = w
  BY <1>2 DEF Writing
<1> HIDE DEF w, n
<1> QED
  BY <1>5, <1>6

LEMMA WritingFact ==
    ASSUME NEW x, IsWire(x), NEW t \in 1..x.size
    PROVE  Writing(x, t) \in Seq(Byte) /\ Len(Writing(x, t)) \in Nat /\ Len(Writing(x, t)) >= 2
BY WritingOfList DEF IsWire

LEMMA SizeIsNat ==
    ASSUME NEW x, IsWire(x)
    PROVE  x.size \in Nat
<1>1. \A i \in 0..Len(x.layout) : x.counts[i] \in Nat
  BY ContentCuts DEF IsWire, IsList
<1>2. Len(x.layout) \in Nat
  BY LayoutFact DEF IsWire, IsList, IsContent
<1> QED
  BY <1>1, <1>2 DEF IsWire, IsList

LEMMA EndsFact ==
    ASSUME NEW x, IsWire(x)
    PROVE  /\ x.size \in Nat /\ x.ends[0] = 0 /\ \A t \in 0..x.size : x.ends[t] \in Nat
           /\ \A t \in 1..x.size : /\ x.ends[t] = x.ends[t - 1] + Len(Writing(x, t))
                                   /\ x.ends[t - 1] \in Nat
           /\ \A a \in 0..x.size : \A b \in a..x.size : x.ends[a] <= x.ends[b]
           /\ Widths(x) \in Seq(Nat) /\ Len(Widths(x)) = x.size
           /\ \A t \in 1..x.size : Widths(x)[t] = Len(Writing(x, t))
<1>1. x.size \in Nat
  BY SizeIsNat
<1>2. Widths(x) \in [1..x.size -> Nat]
  BY WritingFact DEF Widths
<1>3. Widths(x) \in Seq(Nat) /\ Len(Widths(x)) = x.size
  BY <1>1, <1>2, SeqFact
<1>4. \A t \in 1..x.size : Widths(x)[t] = Len(Writing(x, t))
  BY DEF Widths
<1>5. Cuts(Widths(x), x.ends)
  BY DEF IsWire, IsList
<1>6. x.ends[0] = 0 /\ \A t \in 0..x.size : x.ends[t] \in Nat
  BY <1>3, <1>5, CutsType
<1>7. \A t \in 1..x.size : x.ends[t] = x.ends[t - 1] + Len(Writing(x, t)) /\ x.ends[t - 1] \in Nat
  <2> TAKE t \in 1..x.size
  <2> DEFINE ns == Widths(x)
             e == x.ends
  <2>1. ns \in Seq(Nat) /\ Cuts(ns, e) /\ t \in 1..Len(ns) /\ ns[t] = Len(Writing(x, t))
    BY <1>3, <1>4, <1>5
  <2> HIDE DEF ns, e
  <2>2. e[t] = e[t - 1] + ns[t] /\ e[t - 1] \in Nat
    BY <2>1, CutsStep
  <2> QED
    BY <2>1, <2>2 DEF e
<1>8. \A a \in 0..x.size : \A b \in a..x.size : x.ends[a] <= x.ends[b]
  BY <1>3, <1>5, CutsMonotone
<1> QED
  BY <1>1, <1>3, <1>4, <1>6, <1>7, <1>8

\* s is a run of these bytes that starts where element a ends.
Segment(x, a, s) == /\ a \in 0..x.size /\ s \in Seq(Byte) /\ Len(s) <= x.ends[x.size] - x.ends[a]
                    /\ \A y \in 1..Len(s) : s[y] = x.bytes[x.ends[a] + y]

\* What is left of it when the elements up to t are read starts with the next.
LEMMA RestFact ==
    ASSUME NEW x, IsWire(x), NEW a, NEW s, Segment(x, a, s), NEW t \in a..x.size,
           x.ends[t] - x.ends[a] < Len(s)
    PROVE  LET rest == Skip(s, x.ends[t] - x.ends[a])
           IN  /\ t + 1 \in 1..x.size /\ rest \in Seq(Byte)
               /\ Len(rest) = Len(s) - (x.ends[t] - x.ends[a]) /\ Len(rest) > 0
               /\ Agrees(rest, Writing(x, t + 1))
<1> DEFINE N == x.size
           A == x.ends[a]
           E == x.ends[t]
           m == Len(s)
           d == E - A
           rest == Skip(s, d)
           w == Writing(x, t + 1)
<1>1. /\ a \in 0..N /\ s \in Seq(Byte) /\ m <= x.ends[N] - A
      /\ \A y \in 1..m : s[y] = x.bytes[A + y]
  BY DEF Segment
<1>2. N \in Nat /\ \A b \in 0..N : x.ends[b] \in Nat
  BY EndsFact
<1>3. t \in 0..N /\ a \in 0..N /\ N \in 0..N
  BY <1>1, <1>2
<1>4. A \in Nat /\ E \in Nat /\ x.ends[N] \in Nat /\ m \in Nat
  BY <1>1, <1>2, <1>3
<1>5. A <= E
  BY <1>1, <1>3, EndsFact
<1>6. d \in 0..m /\ d < m
  <2> HIDE DEF A, E, m
  <2> QED
    BY <1>4, <1>5 DEF A, E, m
<1>7. t # N
  <2>1. t = N => E = x.ends[N]
    OBVIOUS
  <2> HIDE DEF A, E, m
  <2> QED
    BY <1>1, <1>4, <1>6, <2>1
<1>8. t + 1 \in 1..N /\ (t + 1) - 1 = t
  BY <1>2, <1>3, <1>7
<1>9. rest \in Seq(Byte) /\ Len(rest) = m - d /\ \A y \in 1..m - d : rest[y] = s[d + y]
  BY <1>1, <1>6, SkipFact
<1>10. w \in Seq(Byte) /\ Len(w) \in Nat
  BY <1>8, WritingFact
<1>11. \A y \in 1..Len(w) : x.bytes[E + y] = w[y]
  <2>1. Placed(x)
    BY DEF IsWire, IsList
  <2> QED
    BY <1>8, <2>1 DEF Placed
<1> HIDE DEF rest, w
<1>12. Agrees(rest, w)
  <2> SUFFICES ASSUME NEW y \in 1..Len(w), y <= Len(rest) PROVE rest[y] = w[y]
    BY DEF Agrees
  <2> HIDE DEF A, E, m, d
  <2>1. y \in 1..m - d /\ d + y \in 1..m
    BY <1>4, <1>6, <1>9, <1>10
  <2>2. rest[y] = s[d + y] /\ s[d + y] = x.bytes[A + (d + y)]
    BY <1>1, <1>9, <2>1
  <2>3. A + (d + y) = E + y
    BY <1>4, <1>10 DEF d
  <2> QED
    BY <1>11, <2>2, <2>3
<1>13. Len(rest) > 0
  <2> HIDE DEF m, d
  <2> QED
    BY <1>4, <1>6, <1>9
<1> QED
  BY <1>8, <1>9, <1>12, <1>13 DEF rest, w

LEMMA SkipSkip ==
    ASSUME NEW S, NEW s \in Seq(S), NEW m \in 0..Len(s), NEW n \in 0..Len(s) - m
    PROVE  Skip(Skip(s, m), n) = Skip(s, m + n)
<1> DEFINE y == Skip(s, m)
           z == Skip(y, n)
           w == Skip(s, m + n)
           N == Len(s)
<1>1. y \in Seq(S) /\ Len(y) = N - m /\ \A x \in 1..N - m : y[x] = s[m + x]
  BY SkipFact
<1>2. N \in Nat /\ n \in 0..N - m /\ m \in 0..N /\ m + n \in 0..N
  OBVIOUS
<1> HIDE DEF y, N
<1>3. z \in Seq(S) /\ Len(z) = (N - m) - n /\ \A x \in 1..(N - m) - n : z[x] = y[n + x]
  <2>1. n \in 0..Len(y)
    BY <1>1, <1>2
  <2>2. z \in Seq(S) /\ Len(z) = Len(y) - n /\ \A x \in 1..Len(y) - n : z[x] = y[n + x]
    BY <1>1, <2>1, SkipFact
  <2> HIDE DEF z
  <2> QED
    BY <1>1, <2>2
<1>4. w \in Seq(S) /\ Len(w) = N - (m + n) /\ \A x \in 1..N - (m + n) : w[x] = s[(m + n) + x]
  BY <1>2, SkipFact DEF N
<1> HIDE DEF z, w
<1>5. Len(z) = Len(w)
  BY <1>2, <1>3, <1>4
<1>6. ASSUME NEW x \in 1..Len(w) PROVE z[x] = w[x]
  <2>1. x \in 1..N - (m + n) /\ x \in 1..(N - m) - n /\ n + x \in 1..N - m
        /\ m + (n + x) = (m + n) + x
    BY <1>2, <1>4, <1>6
  <2>2. z[x] = y[n + x] /\ y[n + x] = s[m + (n + x)] /\ w[x] = s[(m + n) + x]
    BY <1>1, <1>3, <1>4, <2>1
  <2> QED
    BY <2>1, <2>2
<1>7. z = w
  BY <1>3, <1>4, <1>5, <1>6, SeqEqual
<1> QED
  BY <1>7 DEF z, y, w

\* Reading s, when the elements after a and up to t are read.
HeldAt(x, a, t) == Held(x.layout, x.elements, x.counts, a, t)

At(x, a, s, t) == [rest |-> Skip(s, x.ends[t] - x.ends[a]), message |-> <<HeldAt(x, a, t)>>]

\* What FieldAt finds there: element j of field i, or a field that is cut.
Found(x, a, s, t, i, j) ==
    LET l == x.layout
        v == x.elements[i][j]
        f == FieldAt(At(x, a, s, t).rest)
    IN  /\ i \in 1..Len(l) /\ i \in DOMAIN l /\ t = x.counts[i - 1] + j - 1
        /\ x.fields[t + 1] = Field(i, v) /\ Carries(l[i], v, x.contents[t + 1])
        /\ x.ends[t + 1] - x.ends[a] <= Len(s) =>
             /\ x.ends[t + 1] - x.ends[t] \in Nat \ {0}
             /\ f = [number |-> i, wire |-> WireType(l[i]),
                     length |-> x.ends[t + 1] - x.ends[t],
                     body |-> Payload(l[i], v, x.contents[t + 1])]
        /\ ~(x.ends[t + 1] - x.ends[a] <= Len(s)) => f.length = 0

\* In front of an element FieldAt finds it, whole or cut.
LEMMA NextField ==
    ASSUME NEW x, IsWire(x), NEW a, NEW s, Segment(x, a, s), NEW t \in a..x.size,
           x.ends[t] - x.ends[a] < Len(s)
    PROVE  \E i \in DOMAIN x.layout : \E j \in 1..Len(x.elements[i]) : Found(x, a, s, t, i, j)
<1> DEFINE l == x.layout
           c == x.contents[t + 1]
           rest == Skip(s, x.ends[t] - x.ends[a])
           A == x.ends[a]
           E == x.ends[t]
           U == x.ends[t + 1]
           m == Len(s)
<1>1. /\ t + 1 \in 1..x.size /\ rest \in Seq(Byte) /\ Len(rest) = m - (E - A)
      /\ Len(rest) > 0 /\ Agrees(rest, Writing(x, t + 1))
  BY RestFact
<1>2. PICK i \in 1..Len(l) : \E j \in 1..Len(x.elements[i]) :
          /\ t + 1 = x.counts[i - 1] + j /\ x.fields[t + 1] = Field(i, x.elements[i][j])
          /\ i \in DOMAIN l /\ x.counts[i - 1] \in Nat
  BY <1>1, TokenFact
<1>3. PICK j \in 1..Len(x.elements[i]) :
          /\ t + 1 = x.counts[i - 1] + j /\ x.fields[t + 1] = Field(i, x.elements[i][j])
          /\ i \in DOMAIN l /\ x.counts[i - 1] \in Nat
  BY <1>2
<1> DEFINE v == x.elements[i][j]
           w == WriteField(l, Field(i, v), c)
<1>4. x.fields[t + 1].number = i /\ x.fields[t + 1].value = v
  BY <1>3 DEF Field
<1>5. IsLayout(l) /\ Carries(l[i], v, c)
  BY <1>1, <1>4 DEF IsWire, IsList, IsContent, Carried
<1>6. Writing(x, t + 1) = w
  BY <1>3 DEF Writing
<1>7. /\ Len(w) <= Len(rest) =>
             FieldAt(rest) = [number |-> i, wire |-> WireType(l[i]), length |-> Len(w),
                              body |-> Payload(l[i], v, c)]
      /\ ~(Len(w) <= Len(rest)) => FieldAt(rest).length = 0
  <2> HIDE DEF rest, v, c, l
  <2> QED
    BY <1>1, <1>3, <1>5, <1>6, FieldAtFact
<1>8. Len(w) \in Nat \ {0} /\ U - E = Len(w) /\ (Len(w) <= Len(rest) <=> U - A <= m)
  <2>1. U = E + Len(w) /\ Len(w) \in Nat /\ Len(w) >= 2 /\ E \in Nat /\ U \in Nat
    <3>1. (t + 1) - 1 = t
      BY <1>1, SizeIsNat DEF Segment
    <3>2. U = E + Len(Writing(x, t + 1)) /\ E \in Nat
      BY <1>1, <3>1, EndsFact
    <3>3. Len(w) \in Nat /\ Len(w) >= 2
      BY <1>1, <1>6, WritingFact
    <3> HIDE DEF U, E, w
    <3> QED
      BY <1>6, <3>2, <3>3
  <2>2. A \in Nat
    BY EndsFact DEF Segment
  <2>3. m \in Nat
    BY DEF Segment
  <2> HIDE DEF U, E, A, m, w
  <2> QED
    BY <1>1, <2>1, <2>2, <2>3
<1>9. t = x.counts[i - 1] + j - 1
  <2>1. t \in Int /\ t + 1 = x.counts[i - 1] + j /\ x.counts[i - 1] \in Nat /\ j \in Int
    BY <1>3, SizeIsNat DEF Segment
  <2> QED
    BY <2>1
<1>10. At(x, a, s, t).rest = rest
  BY DEF At
<1> HIDE DEF v, w, c, rest
<1>11. /\ U - A <= m =>
             /\ U - E \in Nat \ {0}
             /\ FieldAt(rest) = [number |-> i, wire |-> WireType(l[i]), length |-> U - E,
                              body |-> Payload(l[i], v, c)]
       /\ ~(U - A <= m) => FieldAt(rest).length = 0
  <2> HIDE DEF U, A, E, m, l
  <2> QED
    BY <1>7, <1>8
<1>12. /\ U - A <= m =>
             /\ U - E \in Nat \ {0}
             /\ FieldAt(At(x, a, s, t).rest) =
                    [number |-> i, wire |-> WireType(l[i]), length |-> U - E,
                     body |-> Payload(l[i], v, c)]
       /\ ~(U - A <= m) => FieldAt(At(x, a, s, t).rest).length = 0
  <2> DEFINE f == FieldAt(At(x, a, s, t).rest)
             g == FieldAt(rest)
  <2>1. f = g
    BY <1>10
  <2> HIDE DEF U, A, E, m, l, f
  <2> QED
    BY <1>11, <2>1 DEF f
<1>13. Found(x, a, s, t, i, j)
  BY Zenon, <1>3, <1>5, <1>9, <1>12 DEF v, c, Found
<1> QED
  BY <1>3, <1>13

\* One whole field.
LEMMA WholeField ==
    ASSUME NEW x, IsWire(x), NEW a, NEW s, Segment(x, a, s), NEW t \in a..x.size,
           x.ends[t] - x.ends[a] < Len(s), x.ends[t + 1] - x.ends[a] <= Len(s),
           NEW sub, x.layout[x.fields[t + 1].number].type = "message" =>
                        sub = <<x.fields[t + 1].value>>
    PROVE  ReadField(x.layout, At(x, a, s, t), FieldAt(At(x, a, s, t).rest), sub)
             = At(x, a, s, t + 1)
<1> DEFINE l == x.layout
           c == x.contents[t + 1]
           A == x.ends[a]
           E == x.ends[t]
           U == x.ends[t + 1]
           d == E - A
           rest == Skip(s, d)
           old == HeldAt(x, a, t).field
<1>1. PICK i \in DOMAIN l : \E j \in 1..Len(x.elements[i]) : Found(x, a, s, t, i, j)
  BY NextField
<1>0. PICK j \in 1..Len(x.elements[i]) : Found(x, a, s, t, i, j)
  BY <1>1
<1> DEFINE v == x.elements[i][j]
<1>2. /\ i \in 1..Len(l) /\ i \in DOMAIN l /\ t = x.counts[i - 1] + j - 1
      /\ x.fields[t + 1] = Field(i, v) /\ Carries(l[i], v, c)
      /\ U - E \in Nat \ {0}
      /\ FieldAt(At(x, a, s, t).rest) =
             [number |-> i, wire |-> WireType(l[i]), length |-> U - E,
              body |-> Payload(l[i], v, c)]
  BY <1>0 DEF Found
<1>3. l[i].type = "message" => sub = <<v>>
  BY <1>2 DEF Field
<1>4. IsContent(l, x.elements, x.values) /\ Cuts(Lengths(x.elements), x.counts) /\ IsLayout(l)
  BY DEF IsWire, IsList, IsContent
<1>5. /\ HeldAt(x, a, t + 1) = [field |-> [old EXCEPT ![i] = Put(l[i], @, x.elements[i][j])],
                                unknown |-> <<>>]
      /\ Appends(l[i], old[i], v)
  <2>1. a \in 0..t
    BY SizeIsNat DEF Segment
  <2> DEFINE es == x.elements
             q == x.counts
  <2>2. /\ i \in 1..Len(l) /\ j \in 1..Len(es[i]) /\ t = q[i - 1] + j - 1
        /\ IsContent(l, es, x.values) /\ Cuts(Lengths(es), q)
    BY <1>2, <1>4
  <2> HIDE DEF es, q, l
  <2>3. HeldStep(l, es, q, a, t, i, j)
    BY <2>1, <2>2, HeldNext
  <2> QED
    BY <2>3 DEF HeldAt, HeldStep, es, q, l
<1>6. HasFields(l, old) /\ HeldAt(x, a, t) = [field |-> old, unknown |-> <<>>]
  BY DEF HeldAt, Held, HasFields
<1>7. At(x, a, s, t) = [rest |-> rest, message |-> <<[field |-> old, unknown |-> <<>>]>>]
  BY <1>6 DEF At
<1> HIDE DEF rest, old
<1>8. ReadField(l, At(x, a, s, t), FieldAt(At(x, a, s, t).rest), sub) =
         [rest |-> Skip(rest, U - E),
          message |-> <<[field |-> [old EXCEPT ![i] = Put(l[i], @, v)], unknown |-> <<>>]>>]
  <2> DEFINE n == U - E
  <2>1. n # 0
    BY <1>2
  <2>2. FieldAt(At(x, a, s, t).rest) = [number |-> i, wire |-> WireType(l[i]), length |-> n,
                                        body |-> Payload(l[i], v, c)]
    BY <1>2
  <2> HIDE DEF n, l, c, v
  <2>3. IsFieldRead(l, i, v, c, rest, old, n, sub)
    BY <1>1, <1>2, <1>3, <1>4, <1>5, <1>6, <2>1, ReadFieldFact
  <2> QED
    BY <1>7, <2>2, <2>3 DEF n, IsFieldRead
<1>9. Skip(rest, U - E) = Skip(s, U - A)
  <2>1. A \in Nat /\ E \in Nat /\ U \in Nat /\ A <= E /\ Len(s) \in Nat /\ s \in Seq(Byte)
    <3>1. t + 1 \in 1..x.size
      BY RestFact
    <3>2. a \in 0..x.size /\ s \in Seq(Byte) /\ t \in 0..x.size
      BY SizeIsNat DEF Segment
    <3>3. A \in Nat /\ E \in Nat /\ A <= E
      BY <3>2, EndsFact
    <3>4. U \in Nat
      <4>1. x.size \in Nat
        BY SizeIsNat
      <4>2. t + 1 \in 0..x.size
        BY <3>1, <4>1
      <4> QED
        BY <4>2, EndsFact
    <3>5. Len(s) \in Nat
      BY <3>2
    <3> QED
      BY <3>2, <3>3, <3>4, <3>5
  <2> DEFINE m == Len(s)
             n == U - E
  <2>2. d < m /\ U - A <= m /\ n \in Nat \ {0} /\ m \in Nat
    BY <1>2, <2>1
  <2> HIDE DEF A, E, U, m
  <2>3. d \in 0..m /\ n \in 0..m - d /\ d + n = U - A
    <3>1. A \in Nat /\ E \in Nat /\ U \in Nat /\ A <= E /\ E - A < m /\ U - A <= m
      BY <2>1, <2>2
    <3>2. U - E \in Nat \ {0} /\ m \in Nat
      BY <2>2
    <3> QED
      BY <3>1, <3>2
  <2> HIDE DEF d, n
  <2>4. Skip(Skip(s, d), n) = Skip(s, d + n)
    BY <2>1, <2>3, SkipSkip DEF m
  <2> QED
    BY <2>3, <2>4 DEF rest, n
<1>10. At(x, a, s, t + 1) = [rest |-> Skip(s, U - A), message |-> <<HeldAt(x, a, t + 1)>>]
  BY DEF At
<1> QED
  BY <1>2, <1>5, <1>8, <1>9, <1>10

----------------------------------------------------------------------------
(* Reading all of it.                                                       *)

\* One round of ParseFlat and of ParseInto, which goes deeper.
Round(deep, l, r) ==
    IF r.message = <<>> \/ r.rest = <<>> THEN r
    ELSE ReadField(l, r, FieldAt(r.rest),
                   IF deep THEN Submessage(l, r, FieldAt(r.rest)) ELSE <<>>)

\* The states of the parse of s into m, one per round.
Rounds(deep, l, s, m, read) ==
    /\ read[0] = [rest |-> s, message |-> <<m>>]
    /\ \A n \in 1..Len(s) : read[n] = Round(deep, l, read[n - 1])

\* The same as a recursive function.
IsRounds(N, deep, l, start, f) ==
    f = [n \in 0..N |-> IF n = 0 THEN start ELSE Round(deep, l, f[n - 1])]

LEMMA RoundsExist ==
    ASSUME NEW N \in Nat, NEW deep, NEW l, NEW start
    PROVE  \E f : IsRounds(N, deep, l, start, f)
<1> DEFINE Partial(n, f) == /\ f = [i \in 0..n |-> f[i]] /\ f[0] = start
                            /\ \A i \in 1..n : f[i] = Round(deep, l, f[i - 1])
           S == {n \in 0..N : \E f : Partial(n, f)}
<1>1. 0 \in S
  <2> DEFINE g == [i \in 0..0 |-> start]
  <2>1. g = [i \in 0..0 |-> g[i]] /\ g[0] = start /\ 1..0 = {}
    OBVIOUS
  <2> HIDE DEF g
  <2>2. Partial(0, g)
    BY <2>1
  <2> QED
    BY <2>2
<1>2. ASSUME NEW n \in 0 + 1..N, n - 1 \in S PROVE n \in S
  <2>1. n \in Nat /\ n - 1 \in 0..N /\ n \in 0..N /\ n # 0 /\ n # n - 1
    OBVIOUS
  <2>2. PICK f : Partial(n - 1, f)
    BY <1>2
  <2> DEFINE last == Round(deep, l, f[n - 1])
             g == [i \in 0..n |-> IF i = n THEN last ELSE f[i]]
  <2> HIDE DEF last
  <2>3. g = [i \in 0..n |-> g[i]] /\ g[0] = start
    BY <2>1, <2>2
  <2>4. g[n] = last /\ g[n - 1] = f[n - 1]
    BY <2>1
  <2>5. \A i \in 1..n - 1 : g[i] = f[i] /\ g[i - 1] = f[i - 1]
    BY <2>1
  <2> HIDE DEF g
  <2>6. \A i \in 1..n : g[i] = Round(deep, l, g[i - 1])
    <3> TAKE i \in 1..n
    <3>1. CASE i = n
      BY <3>1, <2>4 DEF last
    <3>2. CASE i # n
      <4>1. i \in 1..n - 1
        BY <2>1, <3>2
      <4> QED
        BY <4>1, <2>2, <2>5
    <3> QED
      BY <3>1, <3>2
  <2>7. Partial(n, g)
    BY <2>3, <2>6
  <2> QED
    BY <2>1, <2>7
<1> HIDE DEF S
<1>3. N \in S
  BY <1>1, <1>2, UpTo, 0 \in Nat, N \in 0..N
<1>4. PICK f : Partial(N, f)
  BY <1>3 DEF S
<1>5. \A n \in 0..N : f[n] = IF n = 0 THEN start ELSE Round(deep, l, f[n - 1])
  <2> TAKE n \in 0..N
  <2>1. CASE n = 0
    BY <2>1, <1>4
  <2>2. CASE n # 0
    BY <2>2, <1>4, n \in 1..N
  <2> QED
    BY <2>1, <2>2
<1>6. f = [n \in 0..N |-> IF n = 0 THEN start ELSE Round(deep, l, f[n - 1])]
  BY <1>4, <1>5
<1> QED
  BY <1>6 DEF IsRounds

\* ParseFlat is what such rounds come to, ...
LEMMA FlatRounds ==
    ASSUME NEW l, NEW s, Len(s) \in Nat, NEW m
    PROVE  \E read : Rounds(FALSE, l, s, m, read) /\ ParseFlat(l, s, m) = read[Len(s)].message
<1> DEFINE start == [rest |-> s, message |-> <<m>>]
           step(r) == IF r.message = <<>> \/ r.rest = <<>> THEN r
                      ELSE ReadField(l, r, FieldAt(r.rest), <<>>)
           body(f) == [n \in 0..Len(s) |-> IF n = 0 THEN start ELSE step(f[n - 1])]
           read == CHOOSE f : f = body(f)
<1>1. PICK f : IsRounds(Len(s), FALSE, l, start, f)
  BY RoundsExist
<1>2. \A r : Round(FALSE, l, r) = step(r)
  BY Zenon DEF Round
<1> HIDE DEF start, step
<1>3. f = body(f)
  BY <1>1, <1>2 DEF IsRounds
<1>4. read = body(read)
  BY <1>3
<1>5. ParseFlat(l, s, m) = read[Len(s)].message
  BY Zenon DEF ParseFlat, read, step, start
<1> HIDE DEF read
<1>6. read[0] = start
  BY <1>4
<1>7. \A n \in 1..Len(s) : read[n] = Round(FALSE, l, read[n - 1])
  <2> TAKE n \in 1..Len(s)
  <2>1. read[n] = step(read[n - 1])
    BY <1>4
  <2> QED
    BY <1>2, <2>1
<1> QED
  BY <1>5, <1>6, <1>7 DEF Rounds, start

\* ... and ParseInto is.
LEMMA DeepRounds ==
    ASSUME NEW l, NEW s, Len(s) \in Nat, NEW m
    PROVE  \E read : Rounds(TRUE, l, s, m, read) /\ ParseInto(l, s, m) = read[Len(s)].message
<1> DEFINE start == [rest |-> s, message |-> <<m>>]
           step(r) == IF r.message = <<>> \/ r.rest = <<>> THEN r
                      ELSE ReadField(l, r, FieldAt(r.rest), Submessage(l, r, FieldAt(r.rest)))
           body(f) == [n \in 0..Len(s) |-> IF n = 0 THEN start ELSE step(f[n - 1])]
           read == CHOOSE f : f = body(f)
<1>1. PICK f : IsRounds(Len(s), TRUE, l, start, f)
  BY RoundsExist
<1>2. \A r : Round(TRUE, l, r) = step(r)
  BY Zenon DEF Round
<1> HIDE DEF start, step
<1>3. f = body(f)
  BY <1>1, <1>2 DEF IsRounds
<1>4. read = body(read)
  BY <1>3
<1>5. ParseInto(l, s, m) = read[Len(s)].message
  BY Zenon DEF ParseInto, read, step, start
<1> HIDE DEF read
<1>6. read[0] = start
  BY <1>4
<1>7. \A n \in 1..Len(s) : read[n] = Round(TRUE, l, read[n - 1])
  <2> TAKE n \in 1..Len(s)
  <2>1. read[n] = step(read[n - 1])
    BY <1>4
  <2> QED
    BY <1>2, <2>1
<1> QED
  BY <1>5, <1>6, <1>7 DEF Rounds, start

\* Its submessages are read as they are, and only where the reader goes deeper.
Readable(deep, x) ==
    \A t \in 1..x.size :
        LET k == x.layout[x.fields[t].number]
        IN  k.type = "message" =>
                deep = TRUE /\ ParseFlat(k.of, x.contents[t], New(k.of)) = <<x.fields[t].value>>

\* A round in front of a whole element reads it.
LEMMA RoundWhole ==
    ASSUME NEW x, IsWire(x), NEW deep \in BOOLEAN, Readable(deep, x), NEW a,
           NEW s, Segment(x, a, s),
           NEW t \in a..x.size, x.ends[t] - x.ends[a] < Len(s), x.ends[t + 1] - x.ends[a] <= Len(s)
    PROVE  Round(deep, x.layout, At(x, a, s, t)) = At(x, a, s, t + 1)
<1> DEFINE l == x.layout
           r == At(x, a, s, t)
           f == FieldAt(r.rest)
           c == x.contents[t + 1]
           sub == IF deep THEN Submessage(l, r, f) ELSE <<>>
<1>1. PICK i \in DOMAIN l : \E j \in 1..Len(x.elements[i]) : Found(x, a, s, t, i, j)
  BY NextField
<1>2. PICK j \in 1..Len(x.elements[i]) : Found(x, a, s, t, i, j)
  BY <1>1
<1> DEFINE v == x.elements[i][j]
<1>3. /\ i \in 1..Len(l) /\ t = x.counts[i - 1] + j - 1
      /\ x.fields[t + 1] = Field(i, v) /\ Carries(l[i], v, c)
      /\ f.number = i /\ f.body = Payload(l[i], v, c)
  BY <1>2 DEF Found
<1>4. x.fields[t + 1].number = i /\ x.fields[t + 1].value = v
  BY <1>3 DEF Field
<1>5. t + 1 \in 1..x.size /\ Len(r.rest) > 0 /\ r.rest \in Seq(Byte)
  BY RestFact DEF At
<1>6. ASSUME l[i].type = "message" PROVE sub = <<v>>
  <2>1. deep = TRUE /\ ParseFlat(l[i].of, c, New(l[i].of)) = <<v>>
    BY <1>4, <1>5, <1>6 DEF Readable
  <2>2. l[i].many \/ HeldAt(x, a, t).field[i] = <<>>
    <3>1. HeldStep(l, x.elements, x.counts, a, t, i, j)
      <4>1. a \in 0..t
        BY SizeIsNat DEF Segment
      <4>2. IsContent(l, x.elements, x.values) /\ Cuts(Lengths(x.elements), x.counts)
        BY DEF IsWire, IsList
      <4> DEFINE es == x.elements
                 q == x.counts
      <4>3. t = q[i - 1] + j - 1 /\ j \in 1..Len(es[i]) /\ i \in 1..Len(l)
            /\ IsContent(l, es, x.values) /\ Cuts(Lengths(es), q)
        BY <1>3, <4>2
      <4> HIDE DEF es, q, l
      <4>4. HeldStep(l, es, q, a, t, i, j)
        BY <4>1, <4>3, HeldNext
      <4> QED
        BY <4>4 DEF es, q
    <3>2. ~l[i].many => HeldAt(x, a, t).field[i] = Default(l[i])
      BY <3>1 DEF HeldStep, HeldAt
    <3>3. Default(l[i]) = <<>>
      BY <1>6 DEF Default
    <3> QED
      BY <3>2, <3>3
  <2>3. Delimited(f.body) = c
    <3>1. IsKind(l[i])
      BY LayoutFact DEF IsWire, IsList, IsContent
    <3>2. Delimited(Payload(l[i], v, c)) = c
      <4> HIDE DEF v, c, l
      <4> QED
        BY <1>3, <1>6, <3>1, PayloadRead
    <3> QED
      BY <1>3, <3>2
  <2>4. r.message[1].field[i] = HeldAt(x, a, t).field[i]
    BY DEF At
  <2> HIDE DEF r, f, c, l
  <2>5. Submessage(l, r, f) = ParseFlat(l[i].of, c, New(l[i].of))
    BY <1>3, <2>2, <2>3, <2>4 DEF Submessage
  <2> QED
    BY <2>1, <2>5
<1> HIDE DEF sub, v
<1>7. ReadField(l, r, f, sub) = At(x, a, s, t + 1)
  <2>1. l[x.fields[t + 1].number].type = "message" => sub = <<x.fields[t + 1].value>>
    BY <1>4, <1>6
  <2> QED
    BY <2>1, WholeField
<1>8. r.message # <<>> /\ r.rest # <<>>
  <2>1. r.rest # <<>>
    BY <1>5
  <2> QED
    BY <2>1 DEF At
<1> HIDE DEF r, f
<1>9. Round(deep, l, r) = ReadField(l, r, f, sub)
  BY Zenon, <1>8 DEF Round, f, sub
<1> QED
  BY <1>7, <1>9 DEF r

\* A round in front of a cut element fails.
LEMMA RoundCut ==
    ASSUME NEW x, IsWire(x), NEW deep, NEW a, NEW s, Segment(x, a, s),
           NEW t \in a..x.size, x.ends[t] - x.ends[a] < Len(s),
           ~(x.ends[t + 1] - x.ends[a] <= Len(s))
    PROVE  Round(deep, x.layout, At(x, a, s, t)).message = <<>>
<1> DEFINE l == x.layout
           r == At(x, a, s, t)
           f == FieldAt(r.rest)
           sub == IF deep THEN Submessage(l, r, f) ELSE <<>>
<1>1. PICK i \in DOMAIN l : \E j \in 1..Len(x.elements[i]) : Found(x, a, s, t, i, j)
  BY NextField
<1>2. f.length = 0
  BY <1>1 DEF Found
<1>3. Len(r.rest) > 0 /\ r.rest \in Seq(Byte)
  BY RestFact DEF At
<1>4. r.message # <<>> /\ r.rest # <<>>
  <2>1. r.rest # <<>>
    BY <1>3
  <2> QED
    BY <2>1 DEF At
<1>5. r = [rest |-> r.rest, message |-> r.message]
  BY DEF At
<1> HIDE DEF r, f, sub
<1>6. Round(deep, l, r) = ReadField(l, r, f, sub)
  BY Zenon, <1>4 DEF Round, f, sub
<1>7. ReadField(l, [rest |-> r.rest, message |-> r.message], f, sub)
        = [rest |-> r.rest, message |-> <<>>]
  BY <1>2, CutFieldFact
<1>8. ReadField(l, r, f, sub).message = <<>>
  BY <1>5, <1>7
<1> QED
  BY <1>6, <1>8 DEF r

\* Every element takes at least a byte, so there are rounds enough.
LEMMA Spread ==
    ASSUME NEW x, IsWire(x), NEW a \in 0..x.size, NEW b \in a..x.size
    PROVE  /\ x.ends[a] \in Nat /\ x.ends[b] \in Nat
           /\ x.ends[b] - x.ends[a] >= b - a
<1> DEFINE N == x.size
           S == {n \in a..N : x.ends[n] - x.ends[a] >= n - a}
<1>1. N \in Nat /\ \A n \in 0..N : x.ends[n] \in Nat
  BY EndsFact
<1>2. a \in S
  BY <1>1
<1>3. ASSUME NEW n \in a + 1..N, n - 1 \in S PROVE n \in S
  <2> DEFINE w == Len(Writing(x, n))
  <2>1. n \in 1..N /\ n \in a..N /\ n - 1 \in 0..N
    BY <1>1
  <2>2. x.ends[n] = x.ends[n - 1] + w
    BY <2>1, EndsFact
  <2>3. w \in Nat /\ w >= 2
    BY <2>1, WritingFact
  <2>4. x.ends[n] \in Nat /\ x.ends[n - 1] \in Nat /\ x.ends[a] \in Nat
    BY <1>1, <2>1
  <2>5. x.ends[n - 1] - x.ends[a] >= (n - 1) - a
    BY <1>3
  <2> HIDE DEF w
  <2> QED
    BY <2>1, <2>2, <2>3, <2>4, <2>5
<1> HIDE DEF S
<1>4. b \in S
  <2>1. a \in Nat /\ b \in a..N
    BY <1>1
  <2>2. \A n \in a..N : n \in S
    BY <1>1, <1>2, <1>3, <2>1, UpTo
  <2> QED
    BY <2>1, <2>2
<1>5. a \in 0..N /\ b \in 0..N
  BY <1>1
<1> QED
  BY <1>1, <1>4, <1>5 DEF S

LEMMA SameEnd ==
    ASSUME NEW x, IsWire(x), NEW a \in 0..x.size, NEW b \in 0..x.size, x.ends[a] = x.ends[b]
    PROVE  a = b
<1>1. x.size \in Nat
  BY SizeIsNat
<1>2. CASE a <= b
  BY <1>1, <1>2, Spread
<1>3. CASE b <= a
  BY <1>1, <1>3, Spread
<1> QED
  BY <1>1, <1>2, <1>3

\* Where the reader is after n rounds.
IsRead(x, a, s, t) == t \in a..x.size /\ x.ends[t] - x.ends[a] <= Len(s)

IsEnd(x, a, s, t) == t \in a..x.size /\ x.ends[t] - x.ends[a] = Len(s)

\* After n rounds the reader is behind n elements, or at the end of s, or it has
\* failed, which it does only when s does not end with an element.
Reached(x, a, s, n, r) ==
    \/ \E t \in a..x.size : /\ IsRead(x, a, s, t) /\ r = At(x, a, s, t)
                            /\ t - a = n \/ IsEnd(x, a, s, t)
    \/ r.message = <<>> /\ \A t \in a..x.size : ~IsEnd(x, a, s, t)

\* A round keeps that.
LEMMA ReachedNext ==
    ASSUME NEW x, IsWire(x), NEW deep \in BOOLEAN, Readable(deep, x), NEW a,
           NEW s, Segment(x, a, s),
           NEW n \in 1..Len(s), NEW r, Reached(x, a, s, n - 1, r)
    PROVE  Reached(x, a, s, n, Round(deep, x.layout, r))
<1> DEFINE N == x.size
           m == Len(s)
           A == x.ends[a]
           next == Round(deep, x.layout, r)
<1>1. N \in Nat /\ a \in 0..N /\ m \in Nat /\ s \in Seq(Byte) /\ m <= x.ends[N] - A
      /\ A \in Nat /\ x.ends[N] \in Nat
  <2>1. a \in 0..N /\ s \in Seq(Byte) /\ N \in Nat /\ m <= x.ends[N] - A
    BY SizeIsNat DEF Segment
  <2> QED
    BY <2>1, EndsFact
<1>2. CASE r.message = <<>> /\ \A t \in a..N : ~IsEnd(x, a, s, t)
  <2>1. next = r
    BY <1>2 DEF Round
  <2> QED
    BY <1>2, <2>1 DEF Reached
<1>3. ASSUME NEW t \in a..N, IsRead(x, a, s, t), r = At(x, a, s, t),
             t - a = n - 1 \/ IsEnd(x, a, s, t)
      PROVE  Reached(x, a, s, n, next)
  <2> DEFINE E == x.ends[t]
             U == x.ends[t + 1]
  <2>1. E \in Nat /\ A <= E /\ E - A <= m /\ t \in 0..N
    BY <1>1, <1>3, EndsFact DEF IsRead
  <2>2. CASE E - A = m
    <3>1. IsEnd(x, a, s, t)
      BY <2>2 DEF IsEnd
    <3>2. r.rest = <<>>
      <4> DEFINE y == Skip(s, E - A)
      <4>1. E - A \in 0..m
        BY <1>1, <2>1, <2>2
      <4>2. y \in Seq(Byte) /\ Len(y) = m - (E - A)
        BY <1>1, <4>1, SkipFact
      <4> HIDE DEF y, E, A, m
      <4>3. Len(y) = 0
        BY <1>1, <2>1, <2>2, <4>2
      <4>4. y = <<>>
        BY <4>2, <4>3, EmptySeq, SeqEqual
      <4> QED
        BY <1>3, <4>4 DEF At, y, E, A
    <3>3. next = r
      BY <3>2 DEF Round
    <3> QED
      BY <1>3, <3>1, <3>3 DEF Reached
  <2>3. CASE E - A # m
    <3>1. E - A < m
      <4> HIDE DEF E, A, m
      <4> QED
        BY <1>1, <2>1, <2>3
    <3>2. t + 1 \in 1..N /\ t + 1 \in a..N /\ ~IsEnd(x, a, s, t)
      BY <1>1, <2>3, <3>1, RestFact DEF IsEnd
    <3>3. CASE U - A <= m
      <4>1. next = At(x, a, s, t + 1)
        BY <1>3, <3>1, <3>3, RoundWhole
      <4>2. IsRead(x, a, s, t + 1)
        BY <3>2, <3>3 DEF IsRead
      <4>3. (t + 1) - a = n
        <5>1. t - a = n - 1
          BY <1>3, <3>2
        <5>2. n \in Int /\ t \in Int /\ a \in Int
          BY <1>1, <2>1
        <5> QED
          BY <5>1, <5>2
      <4> HIDE DEF next
      <4> QED
        BY <3>2, <4>1, <4>2, <4>3 DEF Reached
    <3>4. CASE ~(U - A <= m)
      <4>1. next.message = <<>>
        BY <1>3, <3>1, <3>4, RoundCut
      <4>2. ASSUME NEW b \in a..N, IsEnd(x, a, s, b) PROVE FALSE
        <5> DEFINE B == x.ends[b]
        <5>1. B - A = m /\ b \in 0..N
          <6>1. b \in 0..N
            BY <1>1, <4>2
          <6> QED
            BY <4>2, <6>1 DEF IsEnd
        <5>2. B \in Nat /\ U \in Nat /\ t + 1 \in 0..N
          BY <1>1, <3>2, <5>1, EndsFact
        <5>3. CASE b <= t
          <6>1. B <= E
            BY <1>1, <2>1, <5>1, <5>3, EndsFact
          <6> HIDE DEF B, E, A, m
          <6> QED
            BY <1>1, <2>1, <3>1, <5>1, <5>2, <6>1
        <5>4. CASE t + 1 <= b
          <6>1. U <= B
            BY <1>1, <5>1, <5>2, <5>4, EndsFact
          <6> HIDE DEF B, U, A, m
          <6> QED
            BY <1>1, <3>4, <5>1, <5>2, <6>1
        <5> QED
          BY <1>1, <2>1, <5>1, <5>3, <5>4
      <4> HIDE DEF next
      <4> QED
        BY <4>1, <4>2 DEF Reached
    <3> QED
      BY <3>3, <3>4
  <2> QED
    BY <2>2, <2>3
<1> QED
  BY <1>2, <1>3 DEF Reached

LEMMA SkipNone ==
    ASSUME NEW S, NEW s \in Seq(S)
    PROVE  Skip(s, 0) = s
<1> DEFINE y == Skip(s, 0)
<1>1. Len(s) \in Nat /\ 0 \in 0..Len(s)
  OBVIOUS
<1>2. y \in Seq(S) /\ Len(y) = Len(s) - 0 /\ \A x \in 1..Len(s) - 0 : y[x] = s[0 + x]
  BY <1>1, SkipFact
<1> HIDE DEF y
<1>3. Len(y) = Len(s) /\ \A x \in 1..Len(s) : y[x] = s[x]
  BY <1>1, <1>2
<1>4. y = s
  BY <1>2, <1>3, SeqEqual
<1> QED
  BY <1>4 DEF y

\* What is read of a run of these bytes: up to the end of an element all of
\* them, else nothing.
LEMMA ReadAll ==
    ASSUME NEW x, IsWire(x), NEW deep \in BOOLEAN, Readable(deep, x), NEW a,
           NEW s, Segment(x, a, s),
           NEW read, Rounds(deep, x.layout, s, HeldAt(x, a, a), read)
    PROVE  /\ \A t \in a..x.size : IsEnd(x, a, s, t) => read[Len(s)].message = <<HeldAt(x, a, t)>>
           /\ (\A t \in a..x.size : ~IsEnd(x, a, s, t)) => read[Len(s)].message = <<>>
<1> DEFINE N == x.size
           m == Len(s)
           S == {n \in 0..m : Reached(x, a, s, n, read[n])}
<1>1. N \in Nat /\ a \in 0..N /\ m \in Nat /\ s \in Seq(Byte) /\ a \in a..N
  <2>1. a \in 0..N /\ s \in Seq(Byte) /\ N \in Nat
    BY SizeIsNat DEF Segment
  <2> QED
    BY <2>1
<1>2. 0 \in S
  <2>1. x.ends[a] \in Nat
    BY <1>1, EndsFact
  <2>2. x.ends[a] - x.ends[a] = 0
    BY <2>1
  <2>3. read[0] = At(x, a, s, a)
    BY <1>1, <2>2, SkipNone DEF Rounds, At
  <2>4. IsRead(x, a, s, a) /\ a - a = 0
    BY <1>1, <2>2 DEF IsRead
  <2>5. Reached(x, a, s, 0, read[0])
    BY <1>1, <2>3, <2>4 DEF Reached
  <2> QED
    BY <1>1, <2>5
<1>3. ASSUME NEW n \in 0 + 1..m, n - 1 \in S PROVE n \in S
  <2>1. n \in 1..m /\ n \in 0..m /\ Reached(x, a, s, n - 1, read[n - 1])
    BY <1>1, <1>3
  <2>2. read[n] = Round(deep, x.layout, read[n - 1])
    BY <2>1 DEF Rounds
  <2>3. Reached(x, a, s, n, read[n])
    BY <2>1, <2>2, ReachedNext
  <2> QED
    BY <2>1, <2>3
<1> HIDE DEF S
<1>4. m \in S
  BY <1>1, <1>2, <1>3, UpTo, 0 \in Nat, m \in 0..m
<1>5. Reached(x, a, s, m, read[m])
  BY <1>4 DEF S
<1>6. CASE read[m].message = <<>> /\ \A t \in a..N : ~IsEnd(x, a, s, t)
  BY <1>6
<1>7. ASSUME NEW t \in a..N, IsRead(x, a, s, t), read[m] = At(x, a, s, t),
             t - a = m \/ IsEnd(x, a, s, t)
      PROVE  IsEnd(x, a, s, t) /\ read[m].message = <<HeldAt(x, a, t)>>
  <2>1. IsEnd(x, a, s, t)
    <3>1. CASE t - a = m
      <4> DEFINE d == x.ends[t] - x.ends[a]
      <4>1. d >= t - a /\ d \in Int
        BY <1>1, Spread
      <4>2. d <= m
        BY <1>7 DEF IsRead
      <4> HIDE DEF d, m
      <4>3. d = m
        BY <1>1, <3>1, <4>1, <4>2
      <4> QED
        BY <4>3 DEF IsEnd, d, m
    <3> QED
      BY <1>7, <3>1
  <2> QED
    BY <1>7, <2>1 DEF At
<1>8. ASSUME NEW t \in a..N, NEW b \in a..N, IsEnd(x, a, s, t), IsEnd(x, a, s, b) PROVE t = b
  <2> DEFINE T == x.ends[t]
             B == x.ends[b]
             A == x.ends[a]
  <2>1. t \in 0..N /\ b \in 0..N /\ T \in Nat /\ B \in Nat /\ A \in Nat
    BY <1>1, EndsFact
  <2>2. T - A = m /\ B - A = m
    BY <1>8 DEF IsEnd
  <2> HIDE DEF T, B, A
  <2>3. T = B
    BY <2>1, <2>2
  <2> QED
    BY <2>1, <2>3, SameEnd DEF T, B
<1> QED
  BY <1>5, <1>6, <1>7, <1>8 DEF Reached

----------------------------------------------------------------------------
(* Every message has such bytes.                                            *)

\* The elements of every field of a message.
ElementsOf(l, m) == [i \in 1..Len(l) |-> Elements(l[i], m.field[i])]

AllOf(es) == UNION {{es[i][j] : j \in DOMAIN es[i]} : i \in DOMAIN es}

\* A message whose fields have elements, whatever they are.
IsBody(l, m) ==
    /\ m = [field |-> [i \in DOMAIN l |-> m.field[i]], unknown |-> <<>>]
    /\ \A i \in DOMAIN l :
           /\ Elements(l[i], m.field[i]) \in
                  Seq({Elements(l[i], m.field[i])[j] : j \in DOMAIN Elements(l[i], m.field[i])})
           /\ l[i].many \/ Len(Elements(l[i], m.field[i])) <= 1
           /\ Elements(l[i], m.field[i]) = <<>> => m.field[i] = Default(l[i])

\* A field without elements has its default, the others their elements.
LEMMA ValueOfElements ==
    ASSUME NEW k, IsKind(k), NEW v, Elements(k, v) = <<>> => v = Default(k)
    PROVE  /\ Value(k, Elements(k, v)) = v
           /\ v \in Unwritten(k) => v = Default(k)
<1> DEFINE d == Default(k)
<1>1. k.many => k.type = "bytes" \/ k.type = "message"
  BY DEF IsKind
<1>2. CASE k.many \/ k.type = "message"
  <2>1. Elements(k, v) = v
    BY <1>2 DEF Elements
  <2>2. Unwritten(k) = {d}
    BY <1>1, <1>2 DEF Unwritten
  <2> HIDE DEF d
  <2> QED
    BY <1>2, <2>1, <2>2 DEF Value, d
<1>3. CASE ~(k.many \/ k.type = "message")
  <2>1. Elements(k, v) = IF v \in Unwritten(k) THEN <<>> ELSE <<v>>
    BY <1>3 DEF Elements
  <2>2. \A e : Value(k, e) = IF e = <<>> THEN d ELSE e[1]
    BY <1>3 DEF Value
  <2> HIDE DEF d
  <2>3. CASE v \in Unwritten(k)
    BY <2>1, <2>2, <2>3 DEF d
  <2>4. CASE v \notin Unwritten(k)
    <3>1. Elements(k, v) = <<v>>
      BY <2>1, <2>4
    <3>2. <<v>> # <<>> /\ <<v>>[1] = v
      OBVIOUS
    <3> QED
      BY <2>2, <2>4, <3>1, <3>2
  <2> QED
    BY <2>3, <2>4
<1> QED
  BY <1>2, <1>3

LEMMA BodyContent ==
    ASSUME NEW l, IsLayout(l), NEW m, IsBody(l, m)
    PROVE  IsContent(l, ElementsOf(l, m), AllOf(ElementsOf(l, m)))
<1> DEFINE es == ElementsOf(l, m)
           S == AllOf(es)
<1>1. Len(l) \in Nat /\ DOMAIN l = 1..Len(l)
  BY LayoutFact
<1>2. DOMAIN es = 1..Len(l) /\ \A i \in 1..Len(l) : es[i] = Elements(l[i], m.field[i])
  BY DEF ElementsOf
<1>3. ASSUME NEW i \in 1..Len(l)
      PROVE  es[i] \in Seq(S) /\ (l[i].many \/ Len(es[i]) <= 1)
  <2> DEFINE e == es[i]
             R == {e[j] : j \in DOMAIN e}
  <2>0. \A h \in DOMAIN l : LET d == Elements(l[h], m.field[h])
                             IN  d \in Seq({d[j] : j \in DOMAIN d}) /\ (l[h].many \/ Len(d) <= 1)
    BY Zenon DEF IsBody
  <2>1. e \in Seq(R) /\ (l[i].many \/ Len(e) <= 1)
    BY <1>1, <1>2, <2>0
  <2>2. R \subseteq S
    BY <1>2 DEF AllOf
  <2> HIDE DEF e, S, R
  <2>3. Len(e) \in Nat /\ e \in [1..Len(e) -> R]
    BY <2>1
  <2>4. e \in [1..Len(e) -> S]
    BY <2>2, <2>3
  <2>5. e \in Seq(S)
    BY <2>3, <2>4
  <2> QED
    BY <2>1, <2>5 DEF e
<1>4. es = [i \in 1..Len(l) |-> es[i]]
  BY DEF ElementsOf
<1> HIDE DEF es, S
<1>5. es \in [1..Len(l) -> Seq(S)]
  BY <1>3, <1>4
<1>6. es \in Seq(Seq(S)) /\ Len(es) = Len(l)
  BY <1>1, <1>5, SeqFact
<1> QED
  BY <1>1, <1>3, <1>6 DEF IsContent, es, S

\* The fields a message writes are its elements in order.
LEMMA WrittenFact ==
    ASSUME NEW l, IsLayout(l), NEW m, IsBody(l, m), NEW q, Cuts(Lengths(ElementsOf(l, m)), q)
    PROVE  /\ Len(Written(l, m)) = q[Len(l)] /\ q[Len(l)] \in Nat
           /\ DOMAIN Written(l, m) = 1..q[Len(l)]
           /\ \A i \in 1..Len(l) : \A j \in 1..Len(ElementsOf(l, m)[i]) :
                  Written(l, m)[q[i - 1] + j] = Field(i, ElementsOf(l, m)[i][j])
<1> DEFINE es == ElementsOf(l, m)
           S == AllOf(es)
           N == Len(l)
           ss == [i \in 1..N |-> [j \in 1..Len(es[i]) |-> Field(i, es[i][j])]]
           A == {Field(i, v) : i \in 1..N, v \in S}
           W == FlattenSeq(ss)
<1>1. N \in Nat /\ DOMAIN l = 1..N /\ \A i \in 1..N : es[i] \in Seq(S) /\ Len(es[i]) \in Nat
  <2>1. IsContent(l, es, S)
    BY BodyContent
  <2> HIDE DEF es, S
  <2> QED
    BY <2>1, ContentFact
<1>2. Written(l, m) = W
  <2>1. \A i \in 1..N : es[i] = Elements(l[i], m.field[i])
    BY DEF ElementsOf
  <2>2. \A i \in 1..N : DOMAIN es[i] = 1..Len(es[i])
    BY <1>1
  <2> DEFINE tt == [i \in DOMAIN l |->
                       [j \in DOMAIN Elements(l[i], m.field[i]) |->
                           [number |-> i, value |-> Elements(l[i], m.field[i])[j]]]]
  <2> HIDE DEF es
  <2>3. ss = tt
    BY <1>1, <2>1, <2>2 DEF Field
  <2>4. Written(l, m) = FlattenSeq(tt)
    BY Zenon DEF Written
  <2> QED
    BY <2>3, <2>4
<1> HIDE DEF es, S
<1>3. \A i \in 1..N : ss[i] \in Seq(A) /\ Len(ss[i]) = Len(es[i])
  <2> TAKE i \in 1..N
  <2> DEFINE e == es[i]
             n == Len(e)
             f == [j \in 1..n |-> Field(i, e[j])]
  <2>1. n \in Nat /\ \A j \in 1..n : e[j] \in S
    BY <1>1
  <2> HIDE DEF n, e
  <2>2. \A j \in 1..n : Field(i, e[j]) \in A
    BY <2>1
  <2> HIDE DEF A
  <2>3. f \in [1..n -> A]
    BY <2>2
  <2>4. f \in Seq(A) /\ Len(f) = n
    BY <2>1, <2>3, SeqFact
  <2> QED
    BY <2>4 DEF e, n
<1>4. \A i \in 1..N : \A j \in 1..Len(es[i]) : ss[i][j] = Field(i, es[i][j])
  OBVIOUS
<1>5. ss = [i \in 1..N |-> ss[i]]
  OBVIOUS
<1> HIDE DEF ss, A
<1>6. ss \in [1..N -> Seq(A)]
  BY <1>3, <1>5
<1>7. ss \in Seq(Seq(A)) /\ Len(ss) = N
  BY <1>1, <1>6, SeqFact
<1>8. Lengths(ss) = Lengths(es)
  <2>1. Len(es) = N
    <3>1. IsContent(l, es, S)
      BY BodyContent DEF es, S
    <3> QED
      BY <3>1, ContentFact
  <2> QED
    BY <1>3, <1>7, <2>1 DEF Lengths
<1>9. Cuts(Lengths(ss), q)
  BY <1>8 DEF es
<1>10. /\ W \in Seq(A) /\ Len(W) = q[N]
       /\ \A i \in 1..N : \A j \in 1..Len(ss[i]) : W[q[i - 1] + j] = ss[i][j]
  BY <1>7, <1>9, FlattenFact
<1> HIDE DEF W
<1>11. q[N] \in Nat /\ DOMAIN W = 1..q[N]
  BY <1>10
<1>12. \A i \in 1..N : \A j \in 1..Len(es[i]) : W[q[i - 1] + j] = Field(i, es[i][j])
  BY <1>3, <1>4, <1>10
<1> QED
  BY <1>2, <1>10, <1>11, <1>12 DEF es

\* Nothing read yet is the message that Clear leaves; all read, the message.
LEMMA HeldNone ==
    ASSUME NEW x, IsWire(x), NEW a \in 0..x.size
    PROVE  HeldAt(x, a, a) = New(x.layout)
<1> DEFINE l == x.layout
           es == x.elements
           q == x.counts
           S == x.values
<1>1. IsContent(l, es, S) /\ Cuts(Lengths(es), q) /\ IsLayout(l)
  BY DEF IsWire, IsList, IsContent
<1>2. DOMAIN l = 1..Len(l) /\ a \in Nat
  BY <1>1, LayoutFact, SizeIsNat
<1> HIDE DEF es, q, S, l
<1>3. ASSUME NEW i \in DOMAIN l
      PROVE  Value(l[i], Part(es[i], a - q[i - 1], a - q[i - 1])) = Default(l[i])
  <2> DEFINE d == a - q[i - 1]
             z == Part(es[i], d, d)
  <2>1. es[i] \in Seq(S)
    BY <1>1, <1>2, ContentFact
  <2>2. d \in Int
    BY <1>1, <1>2, ContentCuts
  <2>3. Clip(d, Len(es[i])) <= Clip(d, Len(es[i]))
    <3>1. Clip(d, Len(es[i])) \in 0..Len(es[i])
      BY <2>1, <2>2, PartFact
    <3> QED
      BY <3>1
  <2> HIDE DEF d
  <2>4. z = <<>>
    BY <2>1, <2>2, <2>3, PartFact
  <2> HIDE DEF z
  <2>5. Value(l[i], z) = Default(l[i])
    <3> DEFINE y == Default(l[i])
    <3>1. l[i].many \/ l[i].type = "message" => y = <<>>
      <4>1. CASE l[i].many
        <5>1. IsKind(l[i])
          BY <1>1, LayoutFact
        <5>2. l[i].type = "bytes" \/ l[i].type = "message"
          BY <4>1, <5>1 DEF IsKind
        <5> QED
          BY <5>2 DEF Default
      <4>2. CASE l[i].type = "message"
        BY <4>2 DEF Default
      <4> QED
        BY <4>1, <4>2
    <3> HIDE DEF y
    <3> QED
      BY <2>4, <3>1 DEF Value, y
  <2> QED
    BY <2>5 DEF z, d
<1>4. [i \in DOMAIN l |-> Value(l[i], Part(es[i], a - q[i - 1], a - q[i - 1]))]
         = [i \in DOMAIN l |-> Default(l[i])]
  BY <1>3
<1> QED
  BY <1>4 DEF HeldAt, Held, New, l, es, q

LEMMA HeldAll ==
    ASSUME NEW x, IsWire(x), NEW m, IsBody(x.layout, m), x.elements = ElementsOf(x.layout, m)
    PROVE  HeldAt(x, 0, x.size) = m
<1> DEFINE l == x.layout
           es == x.elements
           q == x.counts
           S == x.values
           N == x.size
<1>1. IsContent(l, es, S) /\ Cuts(Lengths(es), q) /\ IsLayout(l) /\ N = q[Len(l)]
  BY DEF IsWire, IsList, IsContent
<1>2. Len(l) \in Nat /\ DOMAIN l = 1..Len(l) /\ N \in Nat
  BY <1>1, LayoutFact, SizeIsNat
<1>3. ASSUME NEW i \in DOMAIN l
      PROVE  Value(l[i], Part(es[i], 0 - q[i - 1], N - q[i - 1])) = m.field[i]
  <2> DEFINE o == q[i - 1]
             e == es[i]
             n == Len(e)
             h == q[i]
  <2>1. e \in Seq(S) /\ n \in Nat
    <3> HIDE DEF es, S, l
    <3> QED
      BY <1>1, <1>2, ContentFact
  <2>2. h = o + n /\ o \in Nat /\ h <= N
    <3> HIDE DEF es, S, l, q
    <3>1. i \in 1..Len(l) /\ i \in 0..Len(l) /\ Len(l) \in i..Len(l)
      BY <1>2
    <3>2. q[i] = q[i - 1] + Len(es[i]) /\ q[i - 1] \in Nat
      BY <1>1, <3>1, ContentCuts
    <3>3. q[i] <= q[Len(l)]
      <4> DEFINE u == Len(l)
      <4>1. i \in 0..u /\ u \in i..u
        BY <3>1
      <4>2. \A j \in 0..u : \A k \in j..u : q[j] <= q[k]
        BY <1>1, ContentCuts
      <4> QED
        BY <4>1, <4>2
    <3> QED
      BY <1>1, <3>2, <3>3
  <2> HIDE DEF o, h, N
  <2>3. 0 - o \in Int /\ N - o \in Int /\ 0 - o <= 0 /\ n <= N - o
    <3> HIDE DEF n
    <3> QED
      BY <1>2, <2>1, <2>2
  <2>4. Part(e, 0 - o, N - o) = e
    <3> DEFINE u == 0 - o
               w == N - o
    <3>1. u \in Int /\ w \in Int /\ u <= 0 /\ Len(e) <= w
      BY <2>3
    <3> HIDE DEF u, w, e
    <3> QED
      BY <2>1, <3>1, PartAll DEF u, w
  <2>5. e = Elements(l[i], m.field[i])
    BY <1>2 DEF ElementsOf
  <2>6. Value(l[i], e) = m.field[i]
    <3>1. IsKind(l[i]) /\ (Elements(l[i], m.field[i]) = <<>> => m.field[i] = Default(l[i]))
      BY <1>1, LayoutFact DEF IsBody
    <3> HIDE DEF e, l
    <3> QED
      BY <2>5, <3>1, ValueOfElements
  <2> HIDE DEF e
  <2> QED
    BY <2>4, <2>6 DEF o, e
<1>4. [i \in DOMAIN l |-> Value(l[i], Part(es[i], 0 - q[i - 1], N - q[i - 1]))]
         = [i \in DOMAIN l |-> m.field[i]]
  BY <1>3
<1>5. m = [field |-> [i \in DOMAIN l |-> m.field[i]], unknown |-> <<>>]
  BY DEF IsBody
<1>6. HeldAt(x, 0, x.size) =
        [field |-> [i \in DOMAIN l |-> Value(l[i], Part(es[i], 0 - q[i - 1], N - q[i - 1]))],
         unknown |-> <<>>]
  BY DEF HeldAt, Held
<1> QED
  BY Zenon, <1>4, <1>5, <1>6

\* c[t] are the bytes behind the length of the t-th field a message writes.
Contents(l, m, c) ==
    \A t \in DOMAIN Written(l, m) :
        Carries(l[Written(l, m)[t].number], Written(l, m)[t].value, c[t])

\* The bytes of the message with these contents, ...
BytesOf(l, m, c) ==
    FlattenSeq([t \in DOMAIN Written(l, m) |-> WriteField(l, Written(l, m)[t], c[t])])

\* ... and the record that describes them.
IsWireOf(x, l, m, c) ==
    /\ IsWire(x) /\ x.layout = l /\ x.elements = ElementsOf(l, m)
    /\ x.fields = Written(l, m) /\ x.contents = c /\ x.size = Len(Written(l, m))
    /\ x.bytes = BytesOf(l, m, c)

\* Every message has such a record.
LEMMA WireExists ==
    ASSUME NEW l, IsLayout(l), NEW m, IsBody(l, m), NEW c, Contents(l, m, c)
    PROVE  \E x : IsWireOf(x, l, m, c)
<1> DEFINE es == ElementsOf(l, m)
           S == AllOf(es)
           W == Written(l, m)
<1>1. IsContent(l, es, S)
  BY BodyContent
<1>2. PICK q : Cuts(Lengths(es), q)
  <2>1. es \in Seq(Seq(S))
    BY <1>1 DEF IsContent
  <2> HIDE DEF es, S
  <2>2. Lengths(es) \in Seq(Nat)
    BY <2>1, LengthsFact
  <2> QED
    BY <2>2, CutsExist
<1> DEFINE N == q[Len(l)]
           wire(p, F) == [layout |-> l, elements |-> es, values |-> S, counts |-> q, size |-> N,
                          fields |-> W, contents |-> c, ends |-> p, bytes |-> F]
<1>3. /\ Len(W) = N /\ N \in Nat /\ DOMAIN W = 1..N
      /\ \A i \in 1..Len(l) : \A j \in 1..Len(es[i]) : W[q[i - 1] + j] = Field(i, es[i][j])
  BY <1>2, WrittenFact
<1>4. \A p, F : IsList(wire(p, F))
  <2> TAKE p, F
  <2> DEFINE x == wire(p, F)
  <2>1. /\ x.layout = l /\ x.elements = es /\ x.values = S /\ x.counts = q /\ x.size = N
        /\ x.fields = W /\ x.contents = c
    OBVIOUS
  <2> HIDE DEF es, S, W, x
  <2>2. Listed(x)
    BY <1>3, <2>1 DEF Listed
  <2>3. Carried(x)
    BY <1>3, <2>1 DEF Carried, Contents, W
  <2>4. IsList(x)
    BY <1>1, <1>2, <2>1, <2>2, <2>3 DEF IsList
  <2> QED
    BY <2>4 DEF x
<1> DEFINE x0 == wire(<<>>, <<>>)
           ss == [t \in 1..N |-> WriteField(l, W[t], c[t])]
           ns == Widths(x0)
<1>5. /\ x0.size = N /\ IsList(x0) /\ \A t \in 1..N : Writing(x0, t) = ss[t]
  <2>1. x0.size = N /\ x0.layout = l /\ x0.fields = W /\ x0.contents = c
    OBVIOUS
  <2>2. IsList(x0)
    BY <1>4
  <2> HIDE DEF x0
  <2> QED
    BY <2>1, <2>2 DEF Writing
<1> HIDE DEF wire
<1>6. ss \in Seq(Seq(Byte)) /\ Len(ss) = N
  <2>1. \A t \in 1..N : ss[t] \in Seq(Byte)
    BY <1>5, WritingOfList
  <2>2. ss = [t \in 1..N |-> ss[t]]
    OBVIOUS
  <2> HIDE DEF ss
  <2>3. ss \in [1..N -> Seq(Byte)]
    BY <2>1, <2>2
  <2> QED
    BY <1>3, <2>3, SeqFact
<1>7. Lengths(ss) \in Seq(Nat)
  BY <1>6, LengthsFact
<1>8. PICK p : Cuts(Lengths(ss), p)
  BY <1>7, CutsExist
<1> DEFINE F == FlattenSeq(ss)
           x == wire(p, F)
<1>9. /\ F \in Seq(Byte) /\ Len(F) = p[N]
      /\ \A t \in 1..N : \A y \in 1..Len(ss[t]) : F[p[t - 1] + y] = ss[t][y]
  <2> HIDE DEF ss
  <2> QED
    BY <1>6, <1>8, FlattenFact
<1>10. /\ x.layout = l /\ x.elements = es /\ x.size = N /\ x.fields = W /\ x.contents = c
       /\ x.ends = p /\ x.bytes = F
  BY DEF wire
<1>11. IsList(x)
  BY <1>4
<1> HIDE DEF x, F
<1>12. \A t \in 1..N : Writing(x, t) = ss[t]
  BY <1>10 DEF Writing
<1>13. Widths(x) = Lengths(ss)
  <2> HIDE DEF ss
  <2> QED
    BY <1>6, <1>10, <1>12 DEF Widths, Lengths
<1>14. Placed(x)
  <2> HIDE DEF ss
  <2> QED
    BY <1>9, <1>10, <1>12 DEF Placed
<1>15. IsWire(x)
  BY <1>8, <1>9, <1>10, <1>11, <1>13, <1>14 DEF IsWire
<1>16. F = BytesOf(l, m, c)
  BY <1>3 DEF BytesOf, F
<1> QED
  BY <1>3, <1>10, <1>15, <1>16 DEF IsWireOf

\* The prefixes and the suffixes of these bytes that end or start with an element.
LEMMA PrefixSegment ==
    ASSUME NEW x, IsWire(x), NEW n \in 0..Len(x.bytes)
    PROVE  /\ Segment(x, 0, SubSeq(x.bytes, 1, n)) /\ Len(SubSeq(x.bytes, 1, n)) = n
           /\ x.ends[0] = 0 /\ 0 \in 0..x.size
<1> DEFINE s == SubSeq(x.bytes, 1, n)
           N == x.size
<1>1. x.bytes \in Seq(Byte) /\ Len(x.bytes) = x.ends[N]
  BY DEF IsWire
<1>2. N \in Nat /\ x.ends[0] = 0 /\ 0 \in 0..N
  BY EndsFact
<1>3. s \in Seq(Byte) /\ Len(s) = n /\ \A y \in 1..n : s[y] = x.bytes[y]
  BY <1>1, PrefixFact
<1> HIDE DEF s
<1>4. n \in Nat /\ n <= x.ends[N] /\ x.ends[N] \in Nat
  BY <1>1
<1>5. \A y \in 1..n : 0 + y = y
  BY <1>4
<1>6. Segment(x, 0, s)
  BY <1>2, <1>3, <1>4, <1>5 DEF Segment
<1> QED
  BY <1>2, <1>3, <1>6 DEF s

LEMMA SuffixSegment ==
    ASSUME NEW x, IsWire(x), NEW a \in 0..x.size
    PROVE  /\ Segment(x, a, Skip(x.bytes, x.ends[a]))
           /\ IsEnd(x, a, Skip(x.bytes, x.ends[a]), x.size)
           /\ x.ends[a] \in 0..Len(x.bytes)
<1> DEFINE F == x.bytes
           E == x.ends[a]
           U == x.ends[x.size]
           s == Skip(F, E)
<1>1. F \in Seq(Byte) /\ Len(F) = U
  BY DEF IsWire
<1>2. x.size \in Nat /\ x.size \in a..x.size /\ x.size \in 0..x.size /\ a \in 0..x.size
  BY EndsFact
<1>3. E \in Nat /\ U \in Nat /\ E <= U
  BY <1>2, EndsFact
<1>4. E \in 0..Len(F)
  <2> HIDE DEF E, F, U
  <2> QED
    BY <1>1, <1>3
<1>5. s \in Seq(Byte) /\ Len(s) = U - E /\ \A y \in 1..U - E : s[y] = F[E + y]
  <2> HIDE DEF E, F, U
  <2> QED
    BY <1>1, <1>4, SkipFact
<1> HIDE DEF s
<1>6. Segment(x, a, s)
  BY <1>2, <1>3, <1>5 DEF Segment
<1>7. IsEnd(x, a, s, x.size)
  BY <1>2, <1>5 DEF IsEnd
<1> QED
  BY <1>4, <1>6, <1>7 DEF s

----------------------------------------------------------------------------
(* What a class reads of what it wrote.                                     *)

\* A class without submessages, and one whose submessages have none of their own,
\* as all classes of user.proto and of the header; at most 15 fields (IsLayout), so
\* that a tag is one byte.
IsFlatClass(l) == IsLayout(l) /\ \A i \in DOMAIN l : l[i].type # "message"

IsClass(l) == IsLayout(l) /\ \A i \in DOMAIN l : l[i].type = "message" => IsFlatClass(l[i].of)

LEMMA WrittenToken ==
    ASSUME NEW l, IsLayout(l), NEW m, IsBody(l, m), NEW t \in DOMAIN Written(l, m)
    PROVE  \E i \in DOMAIN l : \E j \in DOMAIN Elements(l[i], m.field[i]) :
               Written(l, m)[t] = Field(i, Elements(l[i], m.field[i])[j])
<1> DEFINE es == ElementsOf(l, m)
           S == AllOf(es)
<1>1. IsContent(l, es, S)
  BY BodyContent
<1>2. PICK q : Cuts(Lengths(es), q)
  <2>1. es \in Seq(Seq(S))
    BY <1>1 DEF IsContent
  <2> HIDE DEF es, S
  <2>2. Lengths(es) \in Seq(Nat)
    BY <2>1, LengthsFact
  <2> QED
    BY <2>2, CutsExist
<1>3. t \in 1..q[Len(l)]
  BY <1>2, WrittenFact
<1>4. PICK i \in 1..Len(l) : \E j \in 1..Len(es[i]) :
          t = q[i - 1] + j /\ i \in DOMAIN l /\ q[i - 1] \in Nat
  <2> HIDE DEF es, S
  <2> QED
    BY <1>1, <1>2, <1>3, PlaceOf
<1>5. PICK j \in 1..Len(es[i]) : t = q[i - 1] + j
  BY <1>4
<1>6. Written(l, m)[t] = Field(i, es[i][j])
  <2>1. \A h \in 1..Len(l) : \A g \in 1..Len(es[h]) :
            Written(l, m)[q[h - 1] + g] = Field(h, es[h][g])
    BY <1>2, WrittenFact
  <2>2. Written(l, m)[q[i - 1] + j] = Field(i, es[i][j])
    BY Zenon, <2>1
  <2> QED
    BY <1>5, <2>2
<1>7. es[i] = Elements(l[i], m.field[i]) /\ j \in DOMAIN es[i]
  <2>1. es[i] \in Seq(S)
    <3> HIDE DEF es, S
    <3> QED
      BY <1>1, ContentFact
  <2> HIDE DEF S
  <2>2. es[i] = Elements(l[i], m.field[i])
    BY DEF ElementsOf
  <2> HIDE DEF es
  <2> QED
    BY <2>1, <2>2
<1>8. i \in DOMAIN l
  BY <1>4
<1> HIDE DEF es
<1>9. j \in DOMAIN Elements(l[i], m.field[i])
      /\ Written(l, m)[t] = Field(i, Elements(l[i], m.field[i])[j])
  BY <1>6, <1>7
<1> QED
  BY <1>8, <1>9

\* What a reading of the run s of the bytes of x, from the end of element a, gives.
Reads(x, a, s, result) ==
    /\ \A t \in a..x.size : IsEnd(x, a, s, t) => result = <<HeldAt(x, a, t)>>
    /\ (\A t \in a..x.size : ~IsEnd(x, a, s, t)) => result = <<>>

\* ParseFlat reads a run of the bytes, ...
LEMMA FlatRead ==
    ASSUME NEW x, IsWire(x), IsFlatClass(x.layout), NEW a, NEW s, Segment(x, a, s)
    PROVE  Reads(x, a, s, ParseFlat(x.layout, s, New(x.layout)))
<1> DEFINE l == x.layout
<1>1. Len(s) \in Nat /\ a \in 0..x.size
  BY DEF Segment
<1>2. New(l) = HeldAt(x, a, a)
  BY <1>1, HeldNone
<1>3. PICK read : Rounds(FALSE, l, s, HeldAt(x, a, a), read)
                  /\ ParseFlat(l, s, HeldAt(x, a, a)) = read[Len(s)].message
  <2> DEFINE h == HeldAt(x, a, a)
  <2> HIDE DEF h, l
  <2> QED
    BY <1>1, FlatRounds DEF h
<1>4. Readable(FALSE, x)
  <2> SUFFICES ASSUME NEW t \in 1..x.size, l[x.fields[t].number].type = "message"
               PROVE  FALSE
    BY DEF Readable
  <2>1. PICK i \in DOMAIN l : \E v : x.fields[t] = Field(i, v)
    BY TokenFact
  <2>2. x.fields[t].number = i
    BY <2>1 DEF Field
  <2> QED
    BY <2>2 DEF IsFlatClass
<1>5. FALSE \in BOOLEAN
  OBVIOUS
<1>6. /\ \A t \in a..x.size : IsEnd(x, a, s, t) => read[Len(s)].message = <<HeldAt(x, a, t)>>
      /\ (\A t \in a..x.size : ~IsEnd(x, a, s, t)) => read[Len(s)].message = <<>>
  BY <1>3, <1>4, <1>5, ReadAll
<1> QED
  BY <1>2, <1>3, <1>6 DEF Reads

\* ... and Parse does.
LEMMA DeepRead ==
    ASSUME NEW x, IsWire(x), Readable(TRUE, x), NEW a, NEW s, Segment(x, a, s)
    PROVE  Reads(x, a, s, Parse(x.layout, s))
<1> DEFINE l == x.layout
<1>1. Len(s) \in Nat /\ a \in 0..x.size
  BY DEF Segment
<1>2. New(l) = HeldAt(x, a, a)
  BY <1>1, HeldNone
<1>3. PICK read : Rounds(TRUE, l, s, HeldAt(x, a, a), read)
                  /\ ParseInto(l, s, HeldAt(x, a, a)) = read[Len(s)].message
  <2> DEFINE h == HeldAt(x, a, a)
  <2> HIDE DEF h, l
  <2> QED
    BY <1>1, DeepRounds DEF h
<1>4. TRUE \in BOOLEAN
  OBVIOUS
<1>5. /\ \A t \in a..x.size : IsEnd(x, a, s, t) => read[Len(s)].message = <<HeldAt(x, a, t)>>
      /\ (\A t \in a..x.size : ~IsEnd(x, a, s, t)) => read[Len(s)].message = <<>>
  BY <1>3, <1>4, ReadAll
<1>6. Parse(l, s) = ParseInto(l, s, HeldAt(x, a, a))
  BY <1>2 DEF Parse
<1> QED
  BY <1>3, <1>5, <1>6 DEF Reads

\* All of it is read as the message.
LEMMA ReadsWhole ==
    ASSUME NEW x, NEW l, IsLayout(l), NEW m, IsBody(l, m), NEW c, IsWireOf(x, l, m, c), NEW result,
           Reads(x, 0, x.bytes, result)
    PROVE  result = <<m>>
<1>1. IsWire(x) /\ x.layout = l /\ x.elements = ElementsOf(l, m)
  BY DEF IsWireOf
<1>2. x.size \in Nat /\ x.size \in 0..x.size /\ x.ends[0] = 0 /\ x.ends[x.size] \in Nat
  BY <1>1, EndsFact
<1>3. IsEnd(x, 0, x.bytes, x.size)
  <2>1. Len(x.bytes) = x.ends[x.size]
    BY <1>1 DEF IsWire
  <2> QED
    BY <1>2, <2>1 DEF IsEnd
<1>4. result = <<HeldAt(x, 0, x.size)>>
  BY <1>2, <1>3 DEF Reads
<1> QED
  BY <1>1, <1>4, HeldAll

LEMMA WholeSegment ==
    ASSUME NEW x, IsWire(x)
    PROVE  Segment(x, 0, x.bytes)
<1>1. x.size \in Nat /\ 0 \in 0..x.size /\ x.ends[0] = 0 /\ x.ends[x.size] \in Nat
  BY EndsFact
<1>2. x.bytes \in Seq(Byte) /\ Len(x.bytes) = x.ends[x.size]
  BY DEF IsWire
<1>3. \A y \in 1..Len(x.bytes) : 0 + y = y
  OBVIOUS
<1> QED
  BY <1>1, <1>2, <1>3 DEF Segment

\* An empty sequence adds nothing.
LEMMA NoBytesAdded ==
    ASSUME NEW s \in Seq(Byte)
    PROVE  s \o <<>> = s
OBVIOUS

\* What lies behind the length of every field of a class without submessages.
FlatContents(l, m) == [t \in DOMAIN Written(l, m) |-> Written(l, m)[t].value]

LEMMA FlatWire ==
    ASSUME NEW l, IsFlatClass(l), NEW m, IsFlat(l, m)
    PROVE  \E x : /\ IsWireOf(x, l, m, FlatContents(l, m)) /\ x.bytes = SerializeFlat(l, m)
                  /\ IsBody(l, m)
<1> DEFINE c == FlatContents(l, m)
           W == Written(l, m)
<1>1. IsLayout(l) /\ \A i \in DOMAIN l : l[i].type # "message"
  BY DEF IsFlatClass
<1>2. /\ IsBody(l, m)
      /\ \A i \in DOMAIN l : \A j \in DOMAIN Elements(l[i], m.field[i]) :
             IsValue(l[i], Elements(l[i], m.field[i])[j])
  BY Zenon DEF IsFlat, Is, IsBody
<1>3. Contents(l, m, c)
  <2> SUFFICES ASSUME NEW t \in DOMAIN W PROVE Carries(l[W[t].number], W[t].value, c[t])
    BY DEF Contents
  <2>0. PICK i \in DOMAIN l : \E j \in DOMAIN Elements(l[i], m.field[i]) :
            W[t] = Field(i, Elements(l[i], m.field[i])[j])
    BY <1>1, <1>2, WrittenToken
  <2>1. PICK j \in DOMAIN Elements(l[i], m.field[i]) :
            W[t] = Field(i, Elements(l[i], m.field[i])[j])
    BY <2>0
  <2> DEFINE v == Elements(l[i], m.field[i])[j]
  <2>2. IsValue(l[i], v) /\ W[t].number = i /\ W[t].value = v /\ c[t] = v
    BY <1>2, <2>1 DEF Field, FlatContents
  <2>3. IsKind(l[i]) /\ l[i].type # "message"
    BY <1>1, LayoutFact
  <2> HIDE DEF v, W, c
  <2>4. Carries(l[i], v, v)
    BY SMT, <2>2, <2>3 DEF Carries, IsValue, IsKind
  <2> QED
    BY <2>2, <2>4
<1>4. PICK x : IsWireOf(x, l, m, c)
  BY <1>1, <1>2, <1>3, WireExists
<1>5. SerializeFlat(l, m) = BytesOf(l, m, c) \o m.unknown
  <2>1. \A t \in DOMAIN W : c[t] = W[t].value
    BY DEF FlatContents
  <2> HIDE DEF c
  <2>2. [t \in DOMAIN W |-> WriteField(l, W[t], W[t].value)]
          = [t \in DOMAIN W |-> WriteField(l, W[t], c[t])]
    BY <2>1
  <2> QED
    BY <2>2 DEF SerializeFlat, BytesOf
<1>6. m.unknown = <<>>
  BY <1>2 DEF IsBody
<1>7. x.bytes = BytesOf(l, m, c) /\ x.bytes \in Seq(Byte)
  BY <1>4 DEF IsWireOf, IsWire
<1>8. SerializeFlat(l, m) = x.bytes
  BY <1>5, <1>6, <1>7, NoBytesAdded
<1> QED
  BY <1>2, <1>4, <1>8

\* A message of a class without submessages is read back as it was.
LEMMA FlatExact ==
    ASSUME NEW l, IsFlatClass(l), NEW m, IsFlat(l, m)
    PROVE  ParseFlat(l, SerializeFlat(l, m), New(l)) = <<m>> /\ SerializeFlat(l, m) \in Seq(Byte)
<1>1. PICK x : /\ IsWireOf(x, l, m, FlatContents(l, m)) /\ x.bytes = SerializeFlat(l, m)
               /\ IsBody(l, m)
  BY FlatWire
<1>2. IsWire(x) /\ x.layout = l /\ IsLayout(l)
  BY <1>1 DEF IsWireOf, IsFlatClass
<1>3. Reads(x, 0, x.bytes, ParseFlat(l, x.bytes, New(l)))
  BY <1>2, WholeSegment, FlatRead
<1>4. ParseFlat(l, x.bytes, New(l)) = <<m>>
  BY <1>1, <1>2, <1>3, ReadsWhole
<1>5. x.bytes \in Seq(Byte)
  BY <1>2 DEF IsWire
<1> QED
  BY <1>1, <1>4, <1>5

\* The same for any class.
DeepContents(l, m) == [t \in DOMAIN Written(l, m) |-> Content(l, Written(l, m)[t])]

\* A message as its class writes it, and that its submessages can be read back.
IsSent(x, l, m) == /\ IsWireOf(x, l, m, DeepContents(l, m)) /\ x.bytes = Serialize(l, m)
                   /\ IsLayout(l) /\ IsBody(l, m) /\ Readable(TRUE, x)

LEMMA DeepWire ==
    ASSUME NEW l, IsClass(l), NEW m, IsMessage(l, m)
    PROVE  \E x : IsSent(x, l, m)
<1> DEFINE c == DeepContents(l, m)
           W == Written(l, m)
<1>1. IsLayout(l) /\ \A i \in DOMAIN l : l[i].type = "message" => IsFlatClass(l[i].of)
  BY DEF IsClass
<1>2. /\ IsBody(l, m)
      /\ \A i \in DOMAIN l : \A j \in DOMAIN Elements(l[i], m.field[i]) :
             LET v == Elements(l[i], m.field[i])[j]
             IN  IF l[i].type # "message" THEN IsValue(l[i], v)
                 ELSE IsFlat(l[i].of, v) /\ Len(SerializeFlat(l[i].of, v)) \in Int32
  BY Zenon DEF IsMessage, Is, IsBody
<1>3. ASSUME NEW t \in DOMAIN W
      PROVE  /\ Carries(l[W[t].number], W[t].value, c[t])
             /\ l[W[t].number].type = "message" =>
                    ParseFlat(l[W[t].number].of, c[t], New(l[W[t].number].of)) = <<W[t].value>>
  <2>0. PICK i \in DOMAIN l : \E j \in DOMAIN Elements(l[i], m.field[i]) :
            W[t] = Field(i, Elements(l[i], m.field[i])[j])
    BY <1>1, <1>2, WrittenToken
  <2>1. PICK j \in DOMAIN Elements(l[i], m.field[i]) :
            W[t] = Field(i, Elements(l[i], m.field[i])[j])
    BY <2>0
  <2> DEFINE v == Elements(l[i], m.field[i])[j]
             k == l[i]
  <2>2. W[t].number = i /\ W[t].value = v
    BY <2>1 DEF Field
  <2>3. IsKind(k)
    BY <1>1, LayoutFact
  <2>4. c[t] = Content(l, W[t])
    BY DEF DeepContents
  <2>5. IF k.type # "message" THEN IsValue(k, v)
        ELSE IsFlat(k.of, v) /\ Len(SerializeFlat(k.of, v)) \in Int32
    BY <1>2
  <2>6. k.type = "message" => IsFlatClass(k.of)
    BY <1>1
  <2>9. c[t] = IF k.type = "message" THEN SerializeFlat(k.of, v) ELSE v
    BY <2>2, <2>4 DEF Content
  <2> HIDE DEF v, W, c, k
  <2>7. CASE k.type = "message"
    <3> DEFINE s == SerializeFlat(k.of, v)
    <3>1. c[t] = s
      BY <2>7, <2>9
    <3>2. ParseFlat(k.of, s, New(k.of)) = <<v>> /\ s \in Seq(Byte) /\ Len(s) \in Int32
      BY <2>5, <2>6, <2>7, FlatExact
    <3> HIDE DEF s
    <3>3. Carries(k, v, s)
      BY <2>7, <3>2 DEF Carries
    <3> QED
      BY <2>2, <3>1, <3>2, <3>3 DEF k
  <2>8. CASE k.type # "message"
    <3>1. c[t] = v /\ IsValue(k, v)
      BY <2>5, <2>8, <2>9
    <3>2. Carries(k, v, v)
      BY SMT, <2>3, <2>8, <3>1 DEF Carries, IsValue, IsKind
    <3> QED
      BY <2>2, <2>8, <3>1, <3>2 DEF k
  <2> QED
    BY <2>7, <2>8
<1>4. Contents(l, m, c)
  BY <1>3 DEF Contents
<1>5. PICK x : IsWireOf(x, l, m, c)
  BY <1>1, <1>2, <1>4, WireExists
<1>6. Serialize(l, m) = BytesOf(l, m, c) \o m.unknown
  <2>1. \A t \in DOMAIN W : c[t] = Content(l, W[t])
    BY DEF DeepContents
  <2> HIDE DEF c
  <2>2. [t \in DOMAIN W |-> WriteField(l, W[t], Content(l, W[t]))]
          = [t \in DOMAIN W |-> WriteField(l, W[t], c[t])]
    BY <2>1
  <2> QED
    BY <2>2 DEF Serialize, BytesOf
<1>7. m.unknown = <<>>
  BY <1>2 DEF IsBody
<1>8. x.bytes = BytesOf(l, m, c) /\ x.bytes \in Seq(Byte)
  BY <1>5 DEF IsWireOf, IsWire
<1>9. x.bytes = Serialize(l, m)
  BY <1>6, <1>7, <1>8, NoBytesAdded
<1>10. Readable(TRUE, x)
  <2> SUFFICES ASSUME NEW t \in 1..x.size, x.layout[x.fields[t].number].type = "message"
               PROVE  ParseFlat(x.layout[x.fields[t].number].of, x.contents[t],
                                New(x.layout[x.fields[t].number].of)) = <<x.fields[t].value>>
    BY DEF Readable
  <2>1. x.layout = l /\ x.fields = W /\ x.contents = c /\ x.size = Len(W) /\ IsWire(x)
    BY <1>5 DEF IsWireOf
  <2>2. t \in DOMAIN W
    <3>1. PICK q : Cuts(Lengths(ElementsOf(l, m)), q)
      BY <2>1, <1>5 DEF IsWire, IsList, IsWireOf
    <3> QED
      BY <1>1, <1>2, <2>1, <3>1, WrittenFact
  <2> QED
    BY <1>3, <2>1, <2>2
<1> QED
  BY <1>1, <1>2, <1>5, <1>9, <1>10 DEF IsSent

----------------------------------------------------------------------------
(* Sizes.                                                                   *)

\* The size that is added up for a field is the number of its bytes.
LEMMA FieldSizeFact ==
    ASSUME NEW l, IsLayout(l), NEW i \in DOMAIN l, NEW v, NEW c, Carries(l[i], v, c),
           NEW size, l[i].type \in {"bytes", "message"} => size = Len(c)
    PROVE  FieldSize(l, Field(i, v), size) = Len(WriteField(l, Field(i, v), c))
<1> DEFINE k == l[i]
           y == Payload(k, v, c)
           n == Len(y)
           w == Len(WriteField(l, Field(i, v), c))
           r == FieldSize(l, Field(i, v), size)
<1>1. IsKind(k) /\ n \in Nat /\ w = 1 + n
  BY WriteFieldFact
<1>2. Field(i, v).number = i /\ Field(i, v).value = v
  BY DEF Field
<1> HIDE DEF w
<1>3. CASE k.type = "int"
  <2>1. r = 1 + VarintSize(v)
    BY <1>2, <1>3 DEF FieldSize
  <2>2. v \in Int32 /\ y = Varint(v)
    BY <1>3 DEF Carries, Payload
  <2>3. n = VarintSize(v)
    BY <2>2, VarintFact
  <2> QED
    BY <1>1, <2>1, <2>3 DEF w
<1>4. CASE k.type = "bool"
  <2>1. r = 1 + 1
    BY <1>2, <1>4 DEF FieldSize
  <2>2. v \in {0, 1} /\ y = Varint(v)
    BY <1>4 DEF Carries, Payload
  <2>3. v \in Int32 /\ v >= 0 /\ v < 128
    BY SMT, <2>2 DEF Int32
  <2>4. n = VarintSize(v)
    BY <2>2, <2>3, VarintFact
  <2>5. VarintSize(v) = 1
    <3>1. VarintSize(v) \in 1..5 /\ (VarintSize(v) = 1 \/ v >= Power[VarintSize(v)])
      BY <2>3, SizeFact
    <3>2. \A h \in 2..5 : Power[h] > 1 /\ Power[h] \in Nat
      BY SMT DEF Power
    <3> QED
      BY <2>2, <3>1, <3>2
  <2> HIDE DEF r, n
  <2> QED
    BY <1>1, <2>1, <2>4, <2>5 DEF w, r
<1>5. CASE k.type = "double"
  <2>1. r = 1 + 8
    BY <1>2, <1>5 DEF FieldSize
  <2>2. v \in [1..8 -> Byte] /\ y = v
    BY <1>5 DEF Carries, Payload
  <2>3. n = 8
    BY <2>2, EightBytes
  <2> HIDE DEF r, n
  <2> QED
    BY <1>1, <2>1, <2>3 DEF w, r
<1>6. CASE k.type \in {"bytes", "message"}
  <2> DEFINE len == Varint(Len(c))
  <2>1. c \in Seq(Byte) /\ Len(c) \in Int32 /\ y = len \o c /\ size = Len(c)
    BY <1>6 DEF Carries, Payload
  <2>2. r = 1 + (VarintSize(size) + size)
    BY <1>2, <1>6 DEF FieldSize
  <2>3. len \in Seq(Byte) /\ Len(len) = VarintSize(size)
    BY <2>1, VarintFact
  <2> HIDE DEF len, y, r
  <2>4. n = VarintSize(size) + size
    BY <2>1, <2>3, BytesJoined
  <2> HIDE DEF n
  <2> QED
    BY <1>1, <2>2, <2>4 DEF w, r
<1> QED
  BY <1>1, <1>3, <1>4, <1>5, <1>6 DEF IsKind, w

\* The sizes of the fields add up to the bytes.
LEMMA SizesFact ==
    ASSUME NEW l, IsLayout(l), NEW m, NEW c, NEW x, IsWireOf(x, l, m, c), NEW size,
           \A t \in DOMAIN Written(l, m) :
               l[Written(l, m)[t].number].type \in {"bytes", "message"} => size[t] = Len(c[t])
    PROVE  Total([t \in DOMAIN Written(l, m) |-> FieldSize(l, Written(l, m)[t], size[t])])
             = Len(x.bytes)
<1> DEFINE W == Written(l, m)
           N == x.size
           ns == [t \in DOMAIN W |-> FieldSize(l, W[t], size[t])]
<1>1. /\ IsWire(x) /\ x.layout = l /\ x.fields = W /\ x.contents = c /\ N = Len(W)
      /\ x.elements = ElementsOf(l, m)
  BY DEF IsWireOf
<1>2. DOMAIN W = 1..N
  <2>1. W \in Seq({W[t] : t \in DOMAIN W}) \/ DOMAIN W = 1..Len(W)
    BY <1>1
  <2> QED
    BY <1>1, <2>1
<1>3. ASSUME NEW t \in 1..N PROVE ns[t] = Widths(x)[t]
  <2>1. PICK i \in DOMAIN l : \E v : x.fields[t] = Field(i, v)
    BY <1>1, <1>3, TokenFact
  <2>2. PICK v : W[t] = Field(i, v)
    BY <1>1, <2>1
  <2>3. W[t].number = i /\ W[t].value = v
    BY <2>2 DEF Field
  <2>4. Carries(l[i], v, c[t])
    BY <1>1, <1>3, <2>3 DEF IsWire, IsList, Carried
  <2>5. l[i].type \in {"bytes", "message"} => size[t] = Len(c[t])
    BY <1>2, <2>3
  <2>6. FieldSize(l, Field(i, v), size[t]) = Len(WriteField(l, Field(i, v), c[t]))
    BY <2>4, <2>5, FieldSizeFact
  <2>7. ns[t] = FieldSize(l, Field(i, v), size[t])
    BY <1>2, <2>2
  <2>8. Widths(x)[t] = Len(WriteField(l, Field(i, v), c[t]))
    BY <1>1, <2>2 DEF Widths, Writing
  <2> QED
    BY <2>6, <2>7, <2>8
<1>4. ns = Widths(x)
  <2>1. ns = [t \in 1..N |-> ns[t]] /\ Widths(x) = [t \in 1..N |-> Widths(x)[t]]
    BY <1>2 DEF Widths
  <2> HIDE DEF ns, N
  <2> QED
    BY <1>3, <2>1
<1>5. Total(Widths(x)) = x.ends[N]
  <2>1. Widths(x) \in Seq(Nat) /\ Len(Widths(x)) = N /\ Cuts(Widths(x), x.ends)
    BY <1>1, EndsFact DEF IsWire
  <2> QED
    BY <2>1, TotalFact
<1>6. Len(x.bytes) = x.ends[N]
  BY <1>1 DEF IsWire
<1> QED
  BY <1>4, <1>5, <1>6

LEMMA FlatSize ==
    ASSUME NEW l, IsFlatClass(l), NEW m, IsFlat(l, m)
    PROVE  ByteSizeFlat(l, m) = Len(SerializeFlat(l, m))
<1> DEFINE c == FlatContents(l, m)
           W == Written(l, m)
           size == [t \in DOMAIN W |-> Len(W[t].value)]
<1>1. PICK x : IsWireOf(x, l, m, c) /\ x.bytes = SerializeFlat(l, m) /\ IsBody(l, m)
  BY FlatWire
<1>2. IsLayout(l)
  BY DEF IsFlatClass
<1>3. \A t \in DOMAIN W : size[t] = Len(c[t]) /\ size[t] = Len(W[t].value)
  BY DEF FlatContents
<1> HIDE DEF c, size
<1>4. Total([t \in DOMAIN W |-> FieldSize(l, W[t], size[t])]) = Len(x.bytes)
  BY <1>1, <1>2, <1>3, SizesFact
<1>5. [t \in DOMAIN W |-> FieldSize(l, W[t], size[t])]
        = [t \in DOMAIN W |-> FieldSize(l, W[t], Len(W[t].value))]
  BY <1>3
<1>6. ByteSizeFlat(l, m) = Total([t \in DOMAIN W |-> FieldSize(l, W[t], Len(W[t].value))])
                             + Len(m.unknown)
  BY DEF ByteSizeFlat
<1>7. m.unknown = <<>> /\ Len(<<>>) = 0
  BY <1>1 DEF IsBody
<1>8. Len(x.bytes) \in Nat
  BY <1>1 DEF IsWireOf, IsWire
<1> QED
  BY <1>1, <1>4, <1>5, <1>6, <1>7, <1>8

\* ByteSizeLong is right: it gives the number of bytes that serialization writes,
\* for every message of every class.  user.pb.cc:5323-5378, as SerializeToString uses it.
THEOREM SentSize ==
    ASSUME NEW l, IsClass(l), NEW m, IsMessage(l, m)
    PROVE  ByteSize(l, m) = Len(Serialize(l, m))
<1> DEFINE c == DeepContents(l, m)
           W == Written(l, m)
           Size(w) == IF l[w.number].type = "message"
                      THEN ByteSizeFlat(l[w.number].of, w.value) ELSE Len(w.value)
           size == [t \in DOMAIN W |-> Size(W[t])]
<1>1. PICK x : IsSent(x, l, m)
  BY DeepWire
<1>2. IsWireOf(x, l, m, c) /\ x.bytes = Serialize(l, m) /\ IsLayout(l) /\ IsBody(l, m)
  BY <1>1 DEF IsSent
<1>3. ASSUME NEW t \in DOMAIN W PROVE size[t] = Len(c[t])
  <2>1. PICK i \in DOMAIN l : \E j \in DOMAIN Elements(l[i], m.field[i]) :
            W[t] = Field(i, Elements(l[i], m.field[i])[j])
    BY <1>2, WrittenToken
  <2>2. PICK j \in DOMAIN Elements(l[i], m.field[i]) :
            W[t] = Field(i, Elements(l[i], m.field[i])[j])
    BY <2>1
  <2> DEFINE v == Elements(l[i], m.field[i])[j]
             k == l[i]
  <2>3. W[t].number = i /\ W[t].value = v
    BY <2>2 DEF Field
  <2>4. c[t] = IF k.type = "message" THEN SerializeFlat(k.of, v) ELSE v
    BY <2>3 DEF DeepContents, Content
  <2>5. size[t] = IF k.type = "message" THEN ByteSizeFlat(k.of, v) ELSE Len(v)
    BY <2>3
  <2>6. k.type = "message" => IsFlatClass(k.of) /\ IsFlat(k.of, v)
    <3>1. \A h \in DOMAIN l : \A g \in DOMAIN Elements(l[h], m.field[h]) :
             LET u == Elements(l[h], m.field[h])[g]
             IN  IF l[h].type # "message" THEN IsValue(l[h], u)
                 ELSE IsFlat(l[h].of, u) /\ Len(SerializeFlat(l[h].of, u)) \in Int32
      BY Zenon DEF IsMessage, Is
    <3>2. k.type = "message" => IsFlatClass(k.of)
      BY DEF IsClass
    <3> QED
      BY <3>1, <3>2
  <2> HIDE DEF v, k, c, size
  <2> QED
    BY <2>4, <2>5, <2>6, FlatSize
<1> HIDE DEF c
<1>4. Total([t \in DOMAIN W |-> FieldSize(l, W[t], size[t])]) = Len(x.bytes)
  <2> HIDE DEF size
  <2> QED
    BY <1>2, <1>3, SizesFact
<1>5. [t \in DOMAIN W |-> FieldSize(l, W[t], size[t])]
        = [t \in DOMAIN W |-> FieldSize(l, W[t], Size(W[t]))]
  OBVIOUS
<1> HIDE DEF size
<1>6. ByteSize(l, m) = Total([t \in DOMAIN W |-> FieldSize(l, W[t], Size(W[t]))])
                         + Len(m.unknown)
  BY Zenon DEF ByteSize
<1>7. m.unknown = <<>> /\ Len(<<>>) = 0
  BY <1>2 DEF IsBody
<1>8. Len(x.bytes) \in Nat
  BY <1>2 DEF IsWireOf, IsWire
<1> HIDE DEF Size
<1> QED
  BY <1>2, <1>4, <1>5, <1>6, <1>7, <1>8

----------------------------------------------------------------------------
(* Messages whole, cut and merged.                                          *)

\* A field of a message on the wire: its elements and where they start.
LEMMA FieldOf ==
    ASSUME NEW x, IsWire(x), NEW m, IsBody(x.layout, m),
           x.elements = ElementsOf(x.layout, m), NEW i \in DOMAIN x.layout
    PROVE  LET e == x.elements[i]
               o == x.counts[i - 1]
           IN  /\ e \in Seq(x.values) /\ Len(e) \in Nat /\ o \in Nat /\ x.size \in Nat
               /\ Len(e) <= x.size - o
               /\ m.field[i] = Value(x.layout[i], e)
               /\ x.layout[i].many \/ Len(e) <= 1
               /\ IsKind(x.layout[i])
               /\ m.field[i] \in Unwritten(x.layout[i]) => m.field[i] = Default(x.layout[i])
<1> DEFINE l == x.layout
           es == x.elements
           q == x.counts
           S == x.values
           N == x.size
           o == q[i - 1]
           e == es[i]
           n == Len(e)
           h == q[i]
<1>1. IsContent(l, es, S) /\ Cuts(Lengths(es), q) /\ IsLayout(l) /\ N = q[Len(l)]
  BY DEF IsWire, IsList, IsContent
<1>2. Len(l) \in Nat /\ DOMAIN l = 1..Len(l) /\ N \in Nat /\ IsKind(l[i])
  BY <1>1, LayoutFact, SizeIsNat
<1>3. e \in Seq(S) /\ n \in Nat /\ (l[i].many \/ n <= 1)
  <2> HIDE DEF es, S, l
  <2> QED
    BY <1>1, <1>2, ContentFact DEF l
<1>4. h = o + n /\ o \in Nat /\ h <= N
  <2>1. i \in DOMAIN l
    OBVIOUS
  <2> HIDE DEF es, S, l, q
  <2>2. i \in 1..Len(l) /\ i \in 0..Len(l) /\ Len(l) \in i..Len(l)
    BY <1>2, <2>1
  <2>3. q[i] = q[i - 1] + Len(es[i]) /\ q[i - 1] \in Nat
    BY <1>1, <2>2, ContentCuts
  <2>4. q[i] <= q[Len(l)]
    <3> DEFINE u == Len(l)
    <3>1. i \in 0..u /\ u \in i..u
      BY <2>2
    <3>2. \A j \in 0..u : \A k \in j..u : q[j] <= q[k]
      BY <1>1, ContentCuts
    <3> QED
      BY <3>1, <3>2
  <2> QED
    BY <1>1, <2>3, <2>4
<1>5. n <= N - o
  <2> HIDE DEF n, o, h, N
  <2> QED
    BY <1>2, <1>3, <1>4
<1>6. e = Elements(l[i], m.field[i])
  BY <1>2 DEF ElementsOf
<1>7. /\ m.field[i] = Value(l[i], e)
      /\ m.field[i] \in Unwritten(l[i]) => m.field[i] = Default(l[i])
  <2>1. Elements(l[i], m.field[i]) = <<>> => m.field[i] = Default(l[i])
    BY DEF IsBody
  <2> HIDE DEF e, l
  <2> QED
    BY <1>2, <1>6, <2>1, ValueOfElements
<1> QED
  BY <1>2, <1>3, <1>4, <1>5, <1>7

\* A part from the start is a prefix.
LEMMA PartCut ==
    ASSUME NEW S, NEW s \in Seq(S), NEW lo \in Int, NEW hi \in Int, lo <= 0
    PROVE  /\ IsPrefix(Part(s, lo, hi), s)
           /\ Len(s) <= 1 => Part(s, lo, hi) = <<>> \/ Part(s, lo, hi) = s
<1> DEFINE n == Len(s)
           c == Clip(hi, n)
           y == Part(s, lo, hi)
<1>1. n \in Nat /\ Clip(lo, n) = 0 /\ c \in 0..n
  BY DEF Clip
<1>2. y = SubSeq(s, 1, c)
  BY <1>1 DEF Part
<1> HIDE DEF c, y
<1>3. y \in Seq(S) /\ Len(y) = c /\ SubSeq(y, 1, c) = y
  BY <1>1, <1>2
<1>4. IsPrefix(y, s)
  BY <1>1, <1>2, <1>3 DEF IsPrefix
<1>5. c = 0 => y = <<>>
  BY <1>3
<1>6. c = n => y = s
  BY <1>2
<1>7. n <= 1 => c = 0 \/ c = n
  BY <1>1
<1> QED
  BY <1>4, <1>5, <1>6, <1>7 DEF y

\* Of at most one element each side has all or none.
LEMMA OneSide ==
    ASSUME NEW S, NEW s \in Seq(S), Len(s) <= 1, NEW lo \in Int, NEW mid \in Int, NEW hi \in Int,
           lo <= 0, lo <= mid, mid <= hi, Len(s) <= hi
    PROVE  \/ Part(s, lo, mid) = s /\ Part(s, mid, hi) = <<>>
           \/ Part(s, lo, mid) = <<>> /\ Part(s, mid, hi) = s
<1> DEFINE n == Len(s)
           c == Clip(mid, n)
           y == Part(s, lo, mid)
           z == Part(s, mid, hi)
<1>1. n \in Nat /\ Clip(lo, n) = 0 /\ Clip(hi, n) = n /\ c \in 0..n
  BY DEF Clip
<1>2. y = SubSeq(s, 1, c) /\ z = SubSeq(s, c + 1, n)
  BY <1>1 DEF Part
<1> HIDE DEF c, y, z
<1>3. c = 0 => y = <<>> /\ z = s
  BY <1>2
<1>4. c = n => y = s /\ z = <<>>
  BY <1>1, <1>2
<1>5. c = 0 \/ c = n
  BY <1>1
<1> QED
  BY <1>3, <1>4, <1>5 DEF y, z

\* A message that has lost its end.
CutOf(l, r, m) ==
    \A i \in DOMAIN l : \/ r.field[i] = Default(l[i])
                        \/ r.field[i] = m.field[i]
                        \/ l[i].many /\ IsPrefix(r.field[i], m.field[i])

LEMMA NoElements ==
    ASSUME NEW k, IsKind(k)
    PROVE  Value(k, <<>>) = Default(k)
<1>1. k.many \/ k.type = "message" => Default(k) = <<>>
  <2>1. k.many => k.type = "bytes" \/ k.type = "message"
    BY DEF IsKind
  <2> QED
    BY <2>1 DEF Default
<1> DEFINE y == Default(k)
<1> HIDE DEF y
<1> QED
  BY <1>1 DEF Value, y

\* What is held up to some element has lost the end of the message.
LEMMA HeldCut ==
    ASSUME NEW x, IsWire(x), NEW m, IsBody(x.layout, m),
           x.elements = ElementsOf(x.layout, m), NEW t \in 0..x.size
    PROVE  CutOf(x.layout, HeldAt(x, 0, t), m)
<1> SUFFICES ASSUME NEW i \in DOMAIN x.layout
             PROVE  LET v == HeldAt(x, 0, t).field[i]
                        k == x.layout[i]
                    IN  v = Default(k) \/ v = m.field[i] \/ (k.many /\ IsPrefix(v, m.field[i]))
  BY DEF CutOf
<1> DEFINE k == x.layout[i]
           e == x.elements[i]
           o == x.counts[i - 1]
           lo == 0 - o
           hi == t - o
           S == x.values
           v == HeldAt(x, 0, t).field[i]
<1>1. /\ e \in Seq(S) /\ Len(e) \in Nat /\ o \in Nat /\ x.size \in Nat
      /\ m.field[i] = Value(k, e) /\ (k.many \/ Len(e) <= 1) /\ IsKind(k)
  BY FieldOf
<1>2. v = Value(k, Part(e, lo, hi))
  BY DEF HeldAt, Held
<1> HIDE DEF v, k, e, o, S
<1>3. lo \in Int /\ hi \in Int /\ lo <= 0
  BY <1>1
<1> HIDE DEF lo, hi
<1> DEFINE p == Part(e, lo, hi)
<1>4. IsPrefix(p, e) /\ (Len(e) <= 1 => p = <<>> \/ p = e)
  BY <1>1, <1>3, PartCut
<1>5. Value(k, <<>>) = Default(k)
  BY <1>1, NoElements
<1> HIDE DEF p
<1>6. CASE k.many
  <2>1. v = p /\ m.field[i] = e
    BY <1>1, <1>2, <1>6 DEF Value, p
  <2> QED
    BY <1>4, <1>6, <2>1 DEF v, k
<1>7. CASE ~k.many
  BY <1>1, <1>2, <1>4, <1>5, <1>7 DEF v, k, p
<1> QED
  BY <1>6, <1>7

\* A field of the merge of what is read up to t and what is read after it.
MergedField(k, x, y) ==
    IF k.many THEN x \o y
    ELSE IF y \in Unwritten(k) THEN x
    ELSE IF k.type = "message" /\ x # <<>> THEN <<MergeFlat(k.of, x[1], y[1])>>
    ELSE y

LEMMA MergedFieldFact ==
    ASSUME NEW k, IsKind(k), NEW S, NEW e \in Seq(S), k.many \/ Len(e) <= 1,
           NEW lo \in Int, NEW mid \in Int, NEW hi \in Int,
           lo <= 0, lo <= mid, mid <= hi, Len(e) <= hi,
           Value(k, e) \in Unwritten(k) => Value(k, e) = Default(k)
    PROVE  MergedField(k, Value(k, Part(e, lo, mid)), Value(k, Part(e, mid, hi))) = Value(k, e)
<1> DEFINE p == Part(e, lo, mid)
           r == Part(e, mid, hi)
           d == Default(k)
<1>1. p \o r = e
  BY PartsMeet
<1>2. k.many \/ (p = e /\ r = <<>>) \/ (p = <<>> /\ r = e)
  <2>1. SUFFICES ASSUME Len(e) <= 1
                 PROVE  (p = e /\ r = <<>>) \/ (p = <<>> /\ r = e)
    OBVIOUS
  <2> QED
    BY <2>1, OneSide
<1>3. Value(k, <<>>) = d
  BY NoElements
<1>4. k.type = "message" => d = <<>>
  BY DEF Default
<1>8. d \in Unwritten(k)
  BY DEF Unwritten
<1> HIDE DEF p, r, d
<1>5. CASE k.many
  BY <1>1, <1>5 DEF MergedField, Value, p, r
<1> DEFINE v == Value(k, e)
           a == Value(k, p)
           b == Value(k, r)
<1>6. CASE ~k.many /\ p = e /\ r = <<>>
  <2>1. a = v /\ b = d
    BY <1>3, <1>6
  <2> HIDE DEF a, b, v
  <2>2. MergedField(k, a, b) = v
    BY <1>6, <1>8, <2>1 DEF MergedField
  <2> QED
    BY <2>2 DEF a, b, v, p, r
<1>7. CASE ~k.many /\ p = <<>> /\ r = e
  <2>1. a = d /\ b = v /\ (v \in Unwritten(k) => v = d)
    BY <1>3, <1>7 DEF d
  <2> HIDE DEF a, b, v
  <2>2. MergedField(k, a, b) = v
    BY <1>4, <1>7, <2>1 DEF MergedField
  <2> QED
    BY <2>2 DEF a, b, v, p, r
<1> QED
  BY <1>2, <1>5, <1>6, <1>7

LEMMA MergeDef ==
    ASSUME NEW l, NEW a, NEW b
    PROVE  Merge(l, a, b)
             = [field   |-> [i \in DOMAIN l |-> MergedField(l[i], a.field[i], b.field[i])],
                             unknown |-> a.unknown \o b.unknown]
BY DEF Merge, MergedField

\* What is held before and what is held after it merge into the message.
LEMMA HeldMerges ==
    ASSUME NEW x, IsWire(x), NEW m, IsBody(x.layout, m),
           x.elements = ElementsOf(x.layout, m), NEW t \in 0..x.size
    PROVE  Merge(x.layout, HeldAt(x, 0, t), HeldAt(x, t, x.size)) = m
<1> DEFINE l == x.layout
           a == HeldAt(x, 0, t)
           b == HeldAt(x, t, x.size)
<1>1. ASSUME NEW i \in DOMAIN l
      PROVE  MergedField(l[i], a.field[i], b.field[i]) = m.field[i]
  <2> DEFINE k == l[i]
             e == x.elements[i]
             o == x.counts[i - 1]
             lo == 0 - o
             mid == t - o
             hi == x.size - o
             S == x.values
  <2>1. /\ e \in Seq(S) /\ Len(e) \in Nat /\ o \in Nat /\ x.size \in Nat
        /\ Len(e) <= hi /\ m.field[i] = Value(k, e) /\ (k.many \/ Len(e) <= 1) /\ IsKind(k)
        /\ m.field[i] \in Unwritten(k) => m.field[i] = Default(k)
    BY FieldOf
  <2>2. a.field[i] = Value(k, Part(e, lo, mid)) /\ b.field[i] = Value(k, Part(e, mid, hi))
    BY DEF HeldAt, Held
  <2> DEFINE u == a.field[i]
             w == b.field[i]
  <2> HIDE DEF u, w, k, e, S, a, b
  <2>3. lo \in Int /\ mid \in Int /\ hi \in Int /\ lo <= 0 /\ lo <= mid /\ mid <= hi
    <3> HIDE DEF o
    <3> QED
      BY <2>1
  <2> HIDE DEF lo, mid, hi
  <2>4. MergedField(k, Value(k, Part(e, lo, mid)), Value(k, Part(e, mid, hi))) = Value(k, e)
    <3>1. Value(k, e) \in Unwritten(k) => Value(k, e) = Default(k)
      BY <2>1
    <3> QED
      BY <2>1, <2>3, <3>1, MergedFieldFact
  <2> QED
    BY <2>1, <2>2, <2>4 DEF k
<1>2. m = [field |-> [i \in DOMAIN l |-> m.field[i]], unknown |-> <<>>]
  BY DEF IsBody
<1>3. a.unknown = <<>> /\ b.unknown = <<>> /\ <<>> \o <<>> = <<>>
  BY DEF HeldAt, Held
<1> HIDE DEF a, b, l
<1>4. [i \in DOMAIN l |-> MergedField(l[i], a.field[i], b.field[i])]
        = [i \in DOMAIN l |-> m.field[i]]
  BY <1>1
<1>5. Merge(l, a, b) = [field |-> [i \in DOMAIN l |-> m.field[i]], unknown |-> <<>>]
  BY <1>3, <1>4, MergeDef
<1> QED
  BY <1>2, <1>5 DEF a, b, l

\* No bytes are read as the message Clear leaves.
LEMMA ParseNothing ==
    ASSUME NEW l
    PROVE  Parse(l, <<>>) = <<New(l)>>
<1> DEFINE s == <<>>
           m == New(l)
<1>1. Len(s) = 0
  OBVIOUS
<1> HIDE DEF s, m
<1>2. Len(s) \in Nat
  BY <1>1
<1>3. PICK read : Rounds(TRUE, l, s, m, read) /\ ParseInto(l, s, m) = read[Len(s)].message
  BY <1>2, DeepRounds
<1>4. read[0] = [rest |-> s, message |-> <<m>>]
  BY <1>3 DEF Rounds
<1>5. ParseInto(l, s, m) = <<m>>
  BY <1>1, <1>3, <1>4
<1> QED
  BY <1>5 DEF Parse, s, m

\* Whatever values a program puts in a message of whatever class, ParseFromString
\* of what SerializeToString wrote gives that message, field by field and with
\* nothing unknown in it.
THEOREM SentExact ==
    ASSUME NEW l, IsClass(l), NEW m, IsMessage(l, m)
    PROVE  Parse(l, Serialize(l, m)) = <<m>> /\ Serialize(l, m) \in Seq(Byte)
<1>1. PICK x : IsSent(x, l, m)
  BY DeepWire
<1>2. /\ IsWireOf(x, l, m, DeepContents(l, m)) /\ x.bytes = Serialize(l, m)
      /\ IsLayout(l) /\ IsBody(l, m) /\ Readable(TRUE, x)
  BY <1>1 DEF IsSent
<1>3. IsWire(x) /\ x.layout = l
  BY <1>2 DEF IsWireOf
<1>4. Segment(x, 0, x.bytes) /\ x.bytes \in Seq(Byte)
  BY <1>3, WholeSegment DEF IsWire
<1>5. Reads(x, 0, x.bytes, Parse(l, x.bytes))
  BY <1>2, <1>3, <1>4, DeepRead
<1>6. Parse(l, x.bytes) = <<m>>
  BY <1>2, <1>5, ReadsWhole
<1> QED
  BY <1>2, <1>4, <1>6

\* A message of which only the first bytes are there, as CallMethod's one recv and
\* OnMessage may find it, is refused by _InternalParse or is read as a message that
\* has lost its end: no value is cut in two, no field gets another one's bytes.
THEOREM CutRead ==
    ASSUME NEW l, IsClass(l), NEW m, IsMessage(l, m), NEW n \in 0..Len(Serialize(l, m))
    PROVE  \/ Parse(l, SubSeq(Serialize(l, m), 1, n)) = <<>>
           \/ \E r : Parse(l, SubSeq(Serialize(l, m), 1, n)) = <<r>> /\ CutOf(l, r, m)
<1>1. PICK x : IsSent(x, l, m)
  BY DeepWire
<1>2. /\ IsWireOf(x, l, m, DeepContents(l, m)) /\ x.bytes = Serialize(l, m)
      /\ IsLayout(l) /\ IsBody(l, m) /\ Readable(TRUE, x)
  BY <1>1 DEF IsSent
<1>3. IsWire(x) /\ x.layout = l /\ x.elements = ElementsOf(l, m)
  BY <1>2 DEF IsWireOf
<1> DEFINE s == SubSeq(x.bytes, 1, n)
           p == Parse(l, s)
<1>4. Segment(x, 0, s)
  BY <1>2, <1>3, PrefixSegment
<1>5. Reads(x, 0, s, p)
  BY <1>2, <1>3, <1>4, DeepRead
<1> HIDE DEF s, p
<1>6. CASE \E t \in 0..x.size : IsEnd(x, 0, s, t)
  <2>1. PICK t \in 0..x.size : IsEnd(x, 0, s, t)
    BY <1>6
  <2>2. p = <<HeldAt(x, 0, t)>>
    BY <1>5, <2>1 DEF Reads
  <2>3. CutOf(l, HeldAt(x, 0, t), m)
    BY <1>2, <1>3, HeldCut
  <2> QED
    BY <1>2, <2>2, <2>3 DEF p, s
<1>7. CASE \A t \in 0..x.size : ~IsEnd(x, 0, s, t)
  <2>1. p = <<>>
    BY <1>5, <1>7 DEF Reads
  <2> QED
    BY <1>2, <2>1 DEF p, s
<1> QED
  BY <1>6, <1>7

\* If the first bytes of a message can be read at all, so can the rest, and MergeFrom
\* of the two messages gives the one that was written: they end between two fields.
THEOREM PiecesMerge ==
    ASSUME NEW l, IsClass(l), NEW m, IsMessage(l, m), NEW n \in 0..Len(Serialize(l, m)),
           Parse(l, SubSeq(Serialize(l, m), 1, n)) # <<>>
    PROVE  Merge(l, Parse(l, SubSeq(Serialize(l, m), 1, n))[1],
                    Parse(l, Skip(Serialize(l, m), n))[1]) = m
<1>1. PICK x : IsSent(x, l, m)
  BY DeepWire
<1>2. /\ IsWireOf(x, l, m, DeepContents(l, m)) /\ x.bytes = Serialize(l, m)
      /\ IsLayout(l) /\ IsBody(l, m) /\ Readable(TRUE, x)
  BY <1>1 DEF IsSent
<1>3. IsWire(x) /\ x.layout = l /\ x.elements = ElementsOf(l, m)
  BY <1>2 DEF IsWireOf
<1> DEFINE s == SubSeq(x.bytes, 1, n)
           p == Parse(l, s)
           z == Skip(x.bytes, n)
           r == Parse(l, z)
<1>4. Segment(x, 0, s) /\ Len(s) = n /\ x.ends[0] = 0
  BY <1>2, <1>3, PrefixSegment
<1>5. Reads(x, 0, s, p)
  BY <1>2, <1>3, <1>4, DeepRead
<1>6. p # <<>>
  BY <1>2
<1> HIDE DEF s, p
<1>7. PICK t \in 0..x.size : IsEnd(x, 0, s, t)
  BY <1>5, <1>6 DEF Reads
<1>8. p = <<HeldAt(x, 0, t)>>
  BY <1>5, <1>7 DEF Reads
<1>9. x.ends[t] \in Nat /\ x.size \in Nat
  BY <1>3, EndsFact
<1>10. n = x.ends[t]
  BY <1>4, <1>7, <1>9 DEF IsEnd
<1>11. Segment(x, t, z) /\ IsEnd(x, t, z, x.size)
  BY <1>3, <1>10, SuffixSegment
<1>12. Reads(x, t, z, r)
  BY <1>2, <1>3, <1>11, DeepRead
<1> HIDE DEF z, r
<1>13. r = <<HeldAt(x, t, x.size)>>
  <2>1. x.size \in t..x.size
    BY <1>9
  <2> QED
    BY <1>11, <1>12, <2>1 DEF Reads
<1>14. Merge(l, HeldAt(x, 0, t), HeldAt(x, t, x.size)) = m
  BY <1>2, <1>3, HeldMerges
<1>15. Merge(l, p[1], r[1]) = m
  BY <1>8, <1>13, <1>14
<1> QED
  BY <1>2, <1>15 DEF p, r, s, z
============================================================================
