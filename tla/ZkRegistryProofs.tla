-------------------------- MODULE ZkRegistryProofs --------------------------
(***************************************************************************)
(* ZkRegistry proved for every number of providers, services and methods:  *)
(* crashes, early restarts, expired sessions, lost connections and races   *)
(* of several providers included.                                          *)
(*                                                                         *)
(* ServingIsPublished speaks of the provider that serves; what makes it     *)
(* inductive is what one that is still registering has done so far, and    *)
(* that no node is its own which it has not come to.                       *)
(*                                                                         *)
(* The last part is about the client of that server, ZkClientStart.        *)
(***************************************************************************)
EXTENDS ZkRegistry, ZkClientStart, TLAPS

Alive(p) == pc[p] \in {"exists", "create", "serving"}

\* The nodes q has passed are its own, except for those it has skipped.
Published(q) ==
    Alive(q) /\ Me(q) \in sessions =>
        \A i \in 1 .. Len(PathsOf[q]) : i < next[q] /\ PathsOf[q][i] \in Methods =>
            IF PathsOf[q][i] \notin skipped[q] THEN owner[PathsOf[q][i]] = Me(q)
            ELSE undisturbed[q] /\ q \notin lost => owner[PathsOf[q][i]] \in Sessions \ {Me(q)}

\* Those it has not come to it has not skipped, and it does not own them.
Ahead(q) ==
    /\ Alive(q) => \A i \in 1 .. Len(PathsOf[q]) : i >= next[q] => PathsOf[q][i] \notin skipped[q]
    /\ \A m \in Methods : \A s \in Sessions : owner[m] = s /\ s[1] = q =>
          /\ s[2] <= run[q]
          /\ s = Me(q) /\ Alive(q) =>
                \E i \in 1 .. Len(PathsOf[q]) : i < next[q] /\ PathsOf[q][i] = m

Progress == \A q \in Providers : Published(q) /\ Ahead(q)

\* Where a provider is in its list of nodes.
Place == \A p \in Providers :
    /\ pc[p] = "create" => next[p] <= Len(PathsOf[p])
    /\ pc[p] = "serving" => next[p] > Len(PathsOf[p])

Inv == TypeOK /\ Place /\ Progress

LEMMA PathsFact ==
    ASSUME NEW p \in Providers
    PROVE  /\ Len(PathsOf[p]) \in Nat
           /\ \A i \in 1 .. Len(PathsOf[p]) : PathsOf[p][i] \in Services \cup Methods
           /\ \A i, j \in 1 .. Len(PathsOf[p]) : PathsOf[p][i] = PathsOf[p][j] => i = j
BY ConstantsAssumption

LEMMA SessionsFact ==
    ASSUME TypeOK
    PROVE  /\ \A m \in Methods : owner[m] # NoSession => owner[m] \in Sessions
           /\ \A s \in Sessions : s # NoSession /\ s = <<s[1], s[2]>> /\ s[1] \in Providers /\ s[2] \in Nat
BY ConstantsAssumption DEF TypeOK, Sessions

LEMMA InitInv == Init => Inv
<1> SUFFICES ASSUME Init PROVE Inv
  OBVIOUS
<1>1. TypeOK /\ Place
  BY ConstantsAssumption DEF Init, TypeOK, Place
<1>2. \A m \in Methods : \A s \in Sessions : owner[m] # s
  BY ConstantsAssumption DEF Init
<1> QED
  BY <1>1, <1>2 DEF Init, Inv, Progress, Published, Ahead, Alive

LEMMA NextTypeOK ==
    ASSUME TypeOK, Place, [Next]_vars
    PROVE  TypeOK'
<1>1. ASSUME NEW p \in Providers, Start(p) PROVE TypeOK'
  <2>1. run[p] + 1 \in 1 .. MaxRuns[p] /\ run[p] + 1 \in Nat
    <3>1. run[p] \in Nat /\ MaxRuns[p] \in Nat
      BY ConstantsAssumption DEF TypeOK
    <3> QED
      BY <1>1, <3>1 DEF Start
  <2>2. <<p, run[p] + 1>> \in Sessions
    BY <2>1 DEF Sessions
  <2>3. run' \in [Providers -> Nat] /\ \A q \in Providers : run'[q] <= MaxRuns[q]
    BY <1>1, <2>1, ConstantsAssumption DEF Start, TypeOK
  <2> QED
    BY <1>1, <2>2, <2>3 DEF Start, Goto, TypeOK
<1>2. ASSUME NEW p \in Providers, Exists(p) PROVE TypeOK'
  <2>1. next[p] + 1 \in Nat \ {0}
    BY DEF TypeOK
  <2>2. next' = next \/ next' = [next EXCEPT ![p] = next[p] + 1]
    BY <1>2 DEF Exists, Skip, Proceed
  <2>3. next' \in [Providers -> Nat \ {0}]
    BY <2>1, <2>2 DEF TypeOK
  <2>4. pc' = pc \/ pc' = [pc EXCEPT ![p] = "create"]
    BY <1>2 DEF Exists, Skip, Proceed, Goto
  <2>5. UNCHANGED <<sessions, persistent, owner, run, undisturbed>> /\ lost' \in SUBSET Providers
    BY <1>2 DEF Exists, server, TypeOK
  <2>6. skipped' \in [Providers -> SUBSET Methods]
    <3>1. skipped' = skipped \/ skipped' = [skipped EXCEPT ![p] = skipped[p] \cup ({Path(p)} \cap Methods)]
      BY <1>2 DEF Exists, Skip, Proceed
    <3>2. skipped[p] \cup ({Path(p)} \cap Methods) \in SUBSET Methods
      BY DEF TypeOK
    <3> QED
      BY <3>1, <3>2 DEF TypeOK
  <2> QED
    BY <2>3, <2>4, <2>5, <2>6 DEF TypeOK
<1>3. ASSUME NEW p \in Providers, Apply(p), pc[p] = "create", Me(p) \in sessions
      PROVE  persistent' \in SUBSET Services /\ owner' \in [Methods -> Sessions \cup {NoSession}]
  BY <1>3 DEF Apply, TypeOK
<1>4. ASSUME NEW p \in Providers, CreateOk(p) PROVE TypeOK'
  BY <1>3, <1>4 DEF CreateOk, CanCreate, Goto, TypeOK, history
<1>5. ASSUME NEW p \in Providers, CreateFail(p) PROVE TypeOK'
  BY <1>3, <1>5 DEF CreateFail, CanCreate, Goto, TypeOK, server
<1>6. ASSUME NEW p \in Providers, Serve(p) \/ Crash(p) PROVE TypeOK'
  BY <1>6 DEF Serve, Crash, Goto, TypeOK, server, history
<1>7. ASSUME NEW s \in Sessions, Expire(s) PROVE TypeOK'
  BY <1>7 DEF Expire, TypeOK
<1>8. CASE UNCHANGED vars
  BY <1>8 DEF vars, server, history, TypeOK
<1> QED
  BY <1>1, <1>2, <1>4, <1>5, <1>6, <1>7, <1>8 DEF Next, Run

LEMMA NextPlace ==
    ASSUME TypeOK, Place, [Next]_vars
    PROVE  Place'
<1>1. ASSUME NEW p \in Providers, Start(p) \/ Run(p) \/ Crash(p) PROVE Place'
  BY <1>1, PathsFact
     DEF Start, Run, Exists, Skip, Proceed, CreateOk, CreateFail, Serve, Crash, Goto, TypeOK, Place
<1>2. ASSUME NEW s \in Sessions, Expire(s) PROVE Place'
  BY <1>2 DEF Expire, Place
<1>3. CASE UNCHANGED vars
  BY <1>3 DEF vars, Place
<1> QED
  BY <1>1, <1>2, <1>3 DEF Next

\* A step of another provider, or one that passes no node.
LEMMA ProgressKept ==
    ASSUME TypeOK, NEW q \in Providers, Published(q), Ahead(q),
           UNCHANGED <<run[q], next[q], skipped[q]>>, Alive(q)' => Alive(q),
           undisturbed'[q] => undisturbed[q], q \in lost => q \in lost',
           Me(q) \in sessions' => Me(q) \in sessions,
           \A m \in Methods : owner[m] = Me(q) /\ Me(q) \in sessions' => owner'[m] = owner[m],
           \A m \in Methods : owner[m] \in Sessions /\ undisturbed'[q] => owner'[m] = owner[m],
           \A m \in Methods : \A s \in Sessions : owner'[m] = s /\ s[1] = q =>
              owner[m] = s \/ (s = Me(q) /\ ~Alive(q)')
    PROVE  Published(q)' /\ Ahead(q)'
<1>1. Me(q)' = Me(q) /\ Me(q)[2] = run[q] /\ run[q] \in Nat
  BY DEF Me, TypeOK
<1>2. Published(q)'
  <2>1. SUFFICES ASSUME Alive(q), Me(q) \in sessions, Me(q) \in sessions',
                        NEW i \in 1 .. Len(PathsOf[q]), i < next[q], PathsOf[q][i] \in Methods
                 PROVE  IF PathsOf[q][i] \notin skipped[q] THEN owner'[PathsOf[q][i]] = Me(q)
                        ELSE undisturbed'[q] /\ q \notin lost' =>
                                owner'[PathsOf[q][i]] \in Sessions \ {Me(q)}
    BY <1>1 DEF Published
  <2>2. IF PathsOf[q][i] \notin skipped[q] THEN owner[PathsOf[q][i]] = Me(q)
        ELSE undisturbed[q] /\ q \notin lost => owner[PathsOf[q][i]] \in Sessions \ {Me(q)}
    BY <2>1 DEF Published
  <2> QED
    BY <2>1, <2>2
<1>3. Ahead(q)'
  <2>1. ASSUME NEW m \in Methods, NEW s \in Sessions, owner'[m] = s, s[1] = q
        PROVE  /\ s[2] <= run[q]
               /\ s = Me(q) /\ Alive(q)' =>
                     \E i \in 1 .. Len(PathsOf[q]) : i < next[q] /\ PathsOf[q][i] = m
    <3>1. CASE owner[m] = s
      BY <2>1, <3>1 DEF Ahead
    <3>2. CASE s = Me(q) /\ ~Alive(q)'
      BY <1>1, <3>2
    <3> QED
      BY <2>1, <3>1, <3>2
  <2> QED
    BY <1>1, <2>1 DEF Ahead
<1> QED
  BY <1>2, <1>3

LEMMA NextProgress ==
    ASSUME Inv, [Next]_vars
    PROVE  Progress'
<1>t. TypeOK /\ Place /\ \A q \in Providers : Published(q) /\ Ahead(q)
  BY DEF Inv, Progress
<1>1. ASSUME NEW p \in Providers, Start(p) PROVE Progress'
  <2>1. ASSUME NEW q \in Providers, q # p
        PROVE  /\ UNCHANGED <<pc[q], run[q], next[q], skipped[q], undisturbed[q]>>
               /\ q \in lost => q \in lost'
               /\ Me(q) \in sessions' => Me(q) \in sessions
    BY <1>t, <1>1, <2>1 DEF Start, Goto, TypeOK, Me
  <2>2. UNCHANGED <<persistent, owner>>
    BY <1>1 DEF Start
  <2>3. next'[p] = 1 /\ skipped'[p] = {} /\ run'[p] = run[p] + 1 /\ run[p] \in Nat
    BY <1>t, <1>1 DEF Start, TypeOK
  <2>4. Published(p)' /\ Ahead(p)'
    <3>1. ASSUME NEW m \in Methods, NEW s \in Sessions, owner[m] = s, s[1] = p
          PROVE  s[2] <= run'[p] /\ s # <<p, run'[p]>>
      <4>1. s[2] <= run[p] /\ s[2] \in Nat
        BY <1>t, <3>1, SessionsFact DEF Ahead
      <4> QED
        BY <2>3, <4>1
    <3>2. \A i \in 1 .. Len(PathsOf[p]) : ~(i < next'[p])
      BY <2>3, PathsFact
    <3> QED
      BY <2>2, <2>3, <3>1, <3>2 DEF Published, Ahead, Me
  <2>5. ASSUME NEW q \in Providers, q # p PROVE Published(q)' /\ Ahead(q)'
    BY <1>t, <2>1, <2>2, <2>5, ProgressKept DEF Alive
  <2> QED
    BY <2>4, <2>5 DEF Progress
<1>2. ASSUME NEW p \in Providers, Exists(p) PROVE Progress'
  <2>1. UNCHANGED <<sessions, persistent, owner, run, undisturbed>> /\ lost \subseteq lost'
    BY <1>2 DEF Exists, server
  <2>2. ASSUME NEW q \in Providers, q # p PROVE UNCHANGED <<pc[q], next[q], skipped[q]>>
    BY <1>t, <1>2, <2>2 DEF Exists, Skip, Proceed, Goto, TypeOK
  <2>3. ASSUME NEW q \in Providers, q # p PROVE Published(q)' /\ Ahead(q)'
    BY <1>t, <2>1, <2>2, <2>3, ProgressKept DEF Alive
  <2>4. Alive(p) /\ next[p] \in 1 .. Len(PathsOf[p]) /\ Path(p) \in Services \cup Methods
    <3>1. next[p] \in 1 .. Len(PathsOf[p])
      BY <1>t, <1>2, PathsFact DEF Exists, TypeOK
    <3> QED
      BY <1>2, <3>1, PathsFact DEF Exists, Alive, Path
  <2>5. CASE Proceed(p)
    <3>1. UNCHANGED <<next[p], skipped[p]>>
      BY <2>5 DEF Proceed
    <3> QED
      BY <1>t, <2>1, <2>3, <2>4, <3>1, ProgressKept DEF Progress
  <2>6. CASE Skip(p)
    <3>1. /\ next'[p] = next[p] + 1 /\ UNCHANGED pc
          /\ skipped'[p] = skipped[p] \cup ({Path(p)} \cap Methods)
      BY <1>t, <2>6 DEF Skip, TypeOK
    <3>2. \A i \in 1 .. Len(PathsOf[p]) : i # next[p] => PathsOf[p][i] # Path(p)
      BY <2>4, PathsFact DEF Path
    <3>3. Me(p)' = Me(p) /\ (Alive(p)' <=> Alive(p))
      BY <2>1, <3>1 DEF Me, Alive
    <3>4. ASSUME Path(p) \in Methods, Me(p) \in sessions, p \notin lost'
          PROVE  owner[Path(p)] \in Sessions \ {Me(p)}
      <4>1. Present(Path(p))
        <5>1. ~Proceed(p)
          BY <1>t, <3>1 DEF Proceed, TypeOK
        <5>2. p \notin lost \cup {p} => FALSE
          OBVIOUS
        <5> QED
          BY <1>2, <3>4, <5>1, <5>2 DEF Exists
      <4>2. owner[Path(p)] \in Sessions
        BY <1>t, <3>4, <4>1, ConstantsAssumption, SessionsFact DEF Present
      <4>3. owner[Path(p)] # Me(p)
        <5>1. SUFFICES ASSUME owner[Path(p)] = Me(p) PROVE FALSE
          OBVIOUS
        <5>2. Me(p)[1] = p /\ Me(p) \in Sessions
          BY <4>2, <5>1 DEF Me
        <5>3. PICK i \in 1 .. Len(PathsOf[p]) : i < next[p] /\ PathsOf[p][i] = Path(p)
          BY <1>t, <2>4, <3>4, <5>1, <5>2 DEF Ahead
        <5> QED
          BY <2>4, <3>2, <5>3
      <4> QED
        BY <4>2, <4>3
    <3>5. Published(p)'
      <4>1. SUFFICES ASSUME Me(p) \in sessions, NEW i \in 1 .. Len(PathsOf[p]), i < next[p] + 1,
                            PathsOf[p][i] \in Methods
                     PROVE  IF PathsOf[p][i] \notin skipped'[p] THEN owner[PathsOf[p][i]] = Me(p)
                            ELSE undisturbed[p] /\ p \notin lost' =>
                                    owner[PathsOf[p][i]] \in Sessions \ {Me(p)}
        BY <2>1, <3>1, <3>3 DEF Published
      <4>2. CASE i = next[p]
        BY <3>1, <3>4, <4>1, <4>2 DEF Path
      <4>3. CASE i # next[p]
        <5>1. i < next[p]
          BY <2>4, <4>1, <4>3
        <5>2. PathsOf[p][i] \in skipped'[p] <=> PathsOf[p][i] \in skipped[p]
          BY <3>1, <3>2, <4>3
        <5> QED
          BY <1>t, <2>1, <2>4, <4>1, <5>1, <5>2 DEF Published
      <4> QED
        BY <4>2, <4>3
    <3>6. Ahead(p)'
      <4>1. ASSUME NEW i \in 1 .. Len(PathsOf[p]), i >= next[p] + 1 PROVE PathsOf[p][i] \notin skipped'[p]
        <5>1. i >= next[p] /\ i # next[p]
          BY <2>4, <4>1
        <5> QED
          BY <1>t, <2>4, <3>1, <3>2, <4>1, <5>1 DEF Ahead
      <4>2. \A i \in 1 .. Len(PathsOf[p]) : i < next[p] => i < next[p] + 1
        BY <2>4
      <4> QED
        BY <1>t, <2>1, <3>1, <3>3, <4>1, <4>2 DEF Ahead
    <3> QED
      BY <2>3, <3>5, <3>6 DEF Progress
  <2> QED
    BY <1>2, <2>5, <2>6 DEF Exists
\* What zoo_create does: the node is p's, and nobody's before.
<1>a. ASSUME NEW p \in Providers, pc[p] = "create", CanCreate(p), Apply(p)
      PROVE  /\ next[p] \in 1 .. Len(PathsOf[p])
             /\ \A m \in Methods : owner'[m] = IF m = Path(p) THEN Me(p) ELSE owner[m]
             /\ Path(p) \in Methods => owner[Path(p)] = NoSession
             /\ Me(p) \in Sessions /\ Me(p)[1] = p
  <2>1. next[p] \in 1 .. Len(PathsOf[p])
    BY <1>t, <1>a, PathsFact DEF TypeOK, Place
  <2>2. Path(p) \in Methods => owner[Path(p)] = NoSession
    BY <1>a, ConstantsAssumption DEF CanCreate, Present
  <2>3. Me(p) \in Sessions /\ Me(p)[1] = p
    BY <1>t, <1>a DEF CanCreate, TypeOK, Me
  <2> QED
    BY <1>a, <2>1, <2>2, <2>3 DEF Apply
<1>b. ASSUME NEW p \in Providers, pc[p] = "create", CanCreate(p), Apply(p), NEW q \in Providers,
             q # p \/ ~Alive(q)'
      PROVE  /\ \A m \in Methods : owner[m] \in Sessions => owner'[m] = owner[m]
             /\ \A m \in Methods : \A s \in Sessions : owner'[m] = s /\ s[1] = q =>
                   owner[m] = s \/ (s = Me(q) /\ ~Alive(q)')
  <2>1. /\ \A m \in Methods : owner'[m] = IF m = Path(p) THEN Me(p) ELSE owner[m]
        /\ Path(p) \in Methods => owner[Path(p)] = NoSession
        /\ Me(p)[1] = p
    BY <1>a, <1>b
  <2>2. NoSession \notin Sessions
    BY ConstantsAssumption
  <2>3. ASSUME NEW m \in Methods, owner[m] \in Sessions PROVE owner'[m] = owner[m]
    BY <2>1, <2>2, <2>3
  <2>4. ASSUME NEW m \in Methods, NEW s \in Sessions, owner'[m] = s, s[1] = q
        PROVE  owner[m] = s \/ (s = Me(q) /\ ~Alive(q)')
    <3>1. CASE m = Path(p)
      <4>1. s = Me(p) /\ q = p
        BY <2>1, <2>4, <3>1
      <4> QED
        BY <1>b, <4>1
    <3>2. CASE m # Path(p)
      BY <2>1, <2>4, <3>2
    <3> QED
      BY <3>1, <3>2
  <2> QED
    BY <2>3, <2>4
<1>3. ASSUME NEW p \in Providers, CreateOk(p) PROVE Progress'
  <2>1. /\ UNCHANGED <<sessions, run, skipped, undisturbed, lost>>
        /\ pc[p] = "create" /\ CanCreate(p) /\ Apply(p)
    BY <1>3 DEF CreateOk, history
  <2>2. ASSUME NEW q \in Providers, q # p PROVE UNCHANGED <<pc[q], next[q]>>
    BY <1>t, <1>3, <2>2 DEF CreateOk, Goto, TypeOK
  <2>3. ASSUME NEW q \in Providers, q # p PROVE Published(q)' /\ Ahead(q)'
    <3>1. /\ \A m \in Methods : owner[m] \in Sessions => owner'[m] = owner[m]
          /\ \A m \in Methods : \A s \in Sessions : owner'[m] = s /\ s[1] = q =>
                owner[m] = s \/ (s = Me(q) /\ ~Alive(q)')
      BY <1>b, <2>1, <2>3
    <3>2. Me(q) \in sessions => Me(q) \in Sessions
      BY <1>t DEF TypeOK
    <3> QED
      BY <1>t, <2>1, <2>2, <2>3, <3>1, <3>2, ProgressKept DEF Alive
  <2>4. next'[p] = next[p] + 1 /\ Me(p)' = Me(p) /\ Alive(p)
    BY <1>t, <1>3, <2>1 DEF CreateOk, TypeOK, Me, Alive
  <2>5. /\ next[p] \in 1 .. Len(PathsOf[p])
        /\ \A m \in Methods : owner'[m] = IF m = Path(p) THEN Me(p) ELSE owner[m]
        /\ \A i \in 1 .. Len(PathsOf[p]) : i # next[p] => PathsOf[p][i] # Path(p)
    BY <1>a, <2>1, PathsFact DEF Path
  <2>6. Published(p)'
    <3>1. SUFFICES ASSUME Me(p) \in sessions, NEW i \in 1 .. Len(PathsOf[p]), i < next[p] + 1,
                          PathsOf[p][i] \in Methods
                   PROVE  IF PathsOf[p][i] \notin skipped[p] THEN owner'[PathsOf[p][i]] = Me(p)
                          ELSE undisturbed[p] /\ p \notin lost =>
                                  owner'[PathsOf[p][i]] \in Sessions \ {Me(p)}
      BY <2>1, <2>4 DEF Published
    <3>2. CASE i = next[p]
      <4>1. PathsOf[p][i] = Path(p) /\ PathsOf[p][i] \notin skipped[p]
        BY <1>t, <2>4, <2>5, <3>2 DEF Path, Ahead
      <4> QED
        BY <2>5, <3>1, <4>1
    <3>3. CASE i # next[p]
      <4>1. i < next[p] /\ owner'[PathsOf[p][i]] = owner[PathsOf[p][i]]
        BY <2>5, <3>1, <3>3
      <4> QED
        BY <1>t, <2>4, <3>1, <4>1 DEF Published
    <3> QED
      BY <3>2, <3>3
  <2>7. Ahead(p)'
    <3>1. ASSUME NEW m \in Methods, NEW s \in Sessions, owner'[m] = s, s[1] = p
          PROVE  /\ s[2] <= run[p]
                 /\ s = Me(p) => \E i \in 1 .. Len(PathsOf[p]) : i < next[p] + 1 /\ PathsOf[p][i] = m
      <4>1. CASE m = Path(p)
        <5>1. s = Me(p) /\ s[2] = run[p] /\ run[p] \in Nat
          BY <1>t, <2>5, <3>1, <4>1 DEF Me, TypeOK
        <5> QED
          BY <2>5, <4>1, <5>1 DEF Path
      <4>2. CASE m # Path(p)
        <5>1. owner[m] = s
          BY <2>5, <3>1, <4>2
        <5>2. /\ s[2] <= run[p]
              /\ s = Me(p) => \E i \in 1 .. Len(PathsOf[p]) : i < next[p] /\ PathsOf[p][i] = m
          BY <1>t, <2>4, <3>1, <5>1 DEF Ahead
        <5>3. \A i \in 1 .. Len(PathsOf[p]) : i < next[p] => i < next[p] + 1
          BY <2>5
        <5> QED
          BY <5>2, <5>3
      <4> QED
        BY <4>1, <4>2
    <3>2. \A i \in 1 .. Len(PathsOf[p]) : i >= next[p] + 1 => PathsOf[p][i] \notin skipped[p]
      BY <1>t, <2>4, <2>5 DEF Ahead
    <3> QED
      BY <2>1, <2>4, <3>1, <3>2 DEF Ahead
  <2> QED
    BY <2>3, <2>6, <2>7 DEF Progress
<1>4. ASSUME NEW p \in Providers, CreateFail(p) PROVE Progress'
  <2>1. UNCHANGED <<sessions, run, next, skipped, undisturbed>> /\ lost \subseteq lost'
    BY <1>4 DEF CreateFail, server
  <2>2. ASSUME NEW q \in Providers PROVE (Alive(q)' => Alive(q)) /\ (q # p \/ ~Alive(q)')
    BY <1>t, <1>4 DEF CreateFail, Goto, TypeOK, Alive
  <2>3. UNCHANGED owner \/ (pc[p] = "create" /\ CanCreate(p) /\ Apply(p))
    BY <1>4 DEF CreateFail, server
  <2>4. ASSUME NEW q \in Providers PROVE Published(q)' /\ Ahead(q)'
    <3>1. /\ \A m \in Methods : owner[m] \in Sessions => owner'[m] = owner[m]
          /\ \A m \in Methods : \A s \in Sessions : owner'[m] = s /\ s[1] = q =>
                owner[m] = s \/ (s = Me(q) /\ ~Alive(q)')
      BY <1>b, <2>2, <2>3
    <3>2. Me(q) \in sessions => Me(q) \in Sessions
      BY <1>t DEF TypeOK
    <3> QED
      BY <1>t, <2>1, <2>2, <3>1, <3>2, ProgressKept
  <2> QED
    BY <2>4 DEF Progress
<1>5. ASSUME NEW p \in Providers, Serve(p) \/ Crash(p) PROVE Progress'
  <2>1. UNCHANGED <<sessions, owner, run, next, skipped, undisturbed, lost>>
    BY <1>5 DEF Serve, Crash, server, history
  <2>2. ASSUME NEW q \in Providers PROVE Alive(q)' => Alive(q)
    BY <1>t, <1>5 DEF Serve, Crash, Goto, TypeOK, Alive
  <2> QED
    BY <1>t, <2>1, <2>2, ProgressKept DEF Progress
<1>6. ASSUME NEW s \in Sessions, Expire(s) PROVE Progress'
  <2>1. /\ UNCHANGED <<pc, run, next, skipped, lost>> /\ sessions' = sessions \ {s}
        /\ \A m \in Methods : owner'[m] = IF owner[m] = s THEN NoSession ELSE owner[m]
        /\ \A q \in Providers : undisturbed'[q] = FALSE
    BY <1>6 DEF Expire
  <2>2. ASSUME NEW q \in Providers PROVE Published(q)' /\ Ahead(q)'
    BY <1>t, <2>1, ConstantsAssumption, ProgressKept DEF Alive
  <2> QED
    BY <2>2 DEF Progress
<1>7. CASE UNCHANGED vars
  BY <1>t, <1>7 DEF vars, server, history, Progress, Published, Ahead, Alive, Me
<1> QED
  BY <1>1, <1>2, <1>3, <1>4, <1>5, <1>6, <1>7 DEF Next, Run

THEOREM InvHolds == Spec => []Inv
<1>1. Inv /\ [Next]_vars => Inv'
  BY NextTypeOK, NextPlace, NextProgress DEF Inv
<1> QED
  BY <1>1, InitInv, PTL DEF Spec

\* A provider that serves has published itself under all its methods but those
\* whose nodes it found, and these are another session's: whatever other
\* providers do, how often it was restarted, in whichever order its nodes come.
THEOREM ServingMeansPublished == Spec => []ServingIsPublished
<1>1. Inv => ServingIsPublished
  <2>1. SUFFICES ASSUME Inv, NEW p \in Providers, pc[p] = "serving", Me(p) \in sessions,
                        NEW m \in MethodsOf(p)
                 PROVE  IF m \notin skipped[p] THEN owner[m] = Me(p)
                        ELSE undisturbed[p] /\ p \notin lost => owner[m] \in Sessions \ {Me(p)}
    BY DEF ServingIsPublished
  <2>2. PICK i \in 1 .. Len(PathsOf[p]) : m = PathsOf[p][i] /\ m \in Methods
    BY DEF MethodsOf
  <2>3. i < next[p] /\ Alive(p)
    BY <2>1, PathsFact DEF Inv, TypeOK, Place, Alive
  <2> QED
    BY <2>1, <2>2, <2>3 DEF Inv, Progress, Published
<1> QED
  BY <1>1, InvHolds, PTL

(***************************************************************************)
(* Why a registration may fail.  While a provider is between its exists and *)
(* its create nobody creates nodes in its name, and the services it has    *)
(* passed are there for as long as its session: they are never removed.    *)
(***************************************************************************)

Mine(p, m) == \E s \in Sessions : owner[m] = s /\ s[1] = p

Clear(p) == pc[p] = "create" /\ Path(p) \in Methods => ~Mine(p, Path(p))

Passed(p) ==
    Alive(p) /\ p \notin lost /\ Me(p) \in sessions =>
        \A i \in 1 .. Len(PathsOf[p]) :
            i < next[p] /\ PathsOf[p][i] \in Services => PathsOf[p][i] \in persistent

Unhindered == \A p \in Providers : Clear(p) /\ Passed(p)

\* Steps that leave q between its exists and its create.
LEMMA ClearKept ==
    ASSUME NEW q \in Providers, Clear(q), pc'[q] = "create" => pc[q] = "create",
           UNCHANGED next[q],
           \A m \in Methods : Mine(q, m)' => Mine(q, m)
    PROVE  Clear(q)'
BY DEF Clear, Path

\* Steps in which q passes no node, or one that is there.
LEMMA PassedKept ==
    ASSUME TypeOK, NEW q \in Providers, Passed(q), Alive(q)' => Alive(q), q \in lost => q \in lost',
           Me(q)' \in sessions' => Me(q) \in sessions,
           persistent \subseteq persistent',
           \/ next'[q] = next[q]
           \/ /\ next'[q] = next[q] + 1
              /\ q \notin lost' /\ Me(q)' \in sessions' =>
                    (Path(q) \in Services => Path(q) \in persistent')
    PROVE  Passed(q)'
<1>1. SUFFICES ASSUME Alive(q), q \notin lost, q \notin lost', Me(q) \in sessions, Me(q)' \in sessions',
                      NEW i \in 1 .. Len(PathsOf[q]), i < next'[q], PathsOf[q][i] \in Services
               PROVE  PathsOf[q][i] \in persistent'
  BY DEF Passed
<1>2. CASE i < next[q]
  BY <1>1, <1>2 DEF Passed
<1>3. CASE ~(i < next[q])
  <2>1. i \in Nat /\ next[q] \in Nat
    BY PathsFact DEF TypeOK
  <2>2. i = next[q] /\ next'[q] = next[q] + 1
    BY <1>1, <1>3, <2>1
  <2> QED
    BY <1>1, <2>1, <2>2 DEF Path
<1> QED
  BY <1>2, <1>3

LEMMA NextUnhindered ==
    ASSUME Inv, Unhindered, [Next]_vars
    PROVE  Unhindered'
<1>t. TypeOK /\ Place
  BY DEF Inv
<1>u. \A q \in Providers : Clear(q) /\ Passed(q)
  BY DEF Unhindered
<1>o. ASSUME owner' = owner PROVE \A q \in Providers : \A m \in Methods : Mine(q, m)' <=> Mine(q, m)
  BY <1>o DEF Mine
<1>1. ASSUME NEW p \in Providers, Start(p) PROVE Unhindered'
  <2>1. ASSUME NEW q \in Providers, q # p
        PROVE  /\ UNCHANGED <<pc[q], run[q], next[q]>>
               /\ q \in lost => q \in lost'
               /\ Me(q)' \in sessions' => Me(q) \in sessions
    BY <1>t, <1>1, <2>1 DEF Start, Goto, TypeOK, Me
  <2>2. UNCHANGED <<persistent, owner>> /\ pc'[p] = "exists" /\ next'[p] = 1
    BY <1>t, <1>1 DEF Start, Goto, TypeOK
  <2>3. Clear(p)' /\ Passed(p)'
    BY <2>2, PathsFact DEF Clear, Passed
  <2>4. ASSUME NEW q \in Providers, q # p PROVE Clear(q)' /\ Passed(q)'
    <3>1. UNCHANGED <<pc[q], next[q], persistent, owner>> /\ (q \in lost => q \in lost')
      BY <2>1, <2>2, <2>4
    <3>2. Me(q)' \in sessions' => Me(q) \in sessions
      BY <2>1, <2>4
    <3>3. Clear(q)'
      BY <1>u, <1>o, <3>1, ClearKept
    <3>4. Passed(q)'
      BY <1>t, <1>u, <3>1, <3>2, PassedKept DEF Alive
    <3> QED
      BY <3>3, <3>4
  <2> QED
    BY <2>3, <2>4 DEF Unhindered
<1>2. ASSUME NEW p \in Providers, Exists(p) PROVE Unhindered'
  <2>1. UNCHANGED <<sessions, persistent, owner, run>> /\ lost \subseteq lost' /\ lost' \subseteq lost \cup {p}
    BY <1>2 DEF Exists, server
  <2>2. ASSUME NEW q \in Providers, q # p PROVE UNCHANGED <<pc[q], next[q]>>
    BY <1>t, <1>2, <2>2 DEF Exists, Skip, Proceed, Goto, TypeOK
  <2>3. ASSUME NEW q \in Providers PROVE (Alive(q)' => Alive(q)) /\ UNCHANGED Me(q)
    BY <1>t, <1>2, <2>1 DEF Exists, Skip, Proceed, Goto, TypeOK, Alive, Me
  <2>4. CASE Skip(p)
    <3>1. UNCHANGED pc /\ next'[p] = next[p] + 1 /\ pc[p] = "exists"
      BY <1>t, <1>2, <2>4 DEF Skip, Exists, TypeOK
    <3>2. p \notin lost' /\ Me(p)' \in sessions' => (Path(p) \in Services => Path(p) \in persistent')
      <4>1. ~Proceed(p)
        BY <1>t, <3>1 DEF Proceed, Goto, TypeOK
      <4> QED
        BY <1>2, <2>1, <2>3, <4>1 DEF Exists, Present
    <3>3. Clear(p)' /\ Passed(p)'
      BY <1>t, <1>u, <2>1, <2>3, <3>1, <3>2, PassedKept DEF Clear
    <3>4. ASSUME NEW q \in Providers, q # p PROVE Clear(q)' /\ Passed(q)'
      BY <1>t, <1>u, <1>o, <2>1, <2>2, <2>3, <3>4, ClearKept, PassedKept
    <3> QED
      BY <3>3, <3>4 DEF Unhindered
  <2>5. CASE ~Skip(p)
    <3>1. Proceed(p) /\ ~Present(Path(p))
      BY <1>2, <2>5 DEF Exists
    <3>2. UNCHANGED next /\ next[p] \in Nat
      BY <1>t, <3>1 DEF Proceed, TypeOK
    <3>3. Clear(p)'
      <4>1. ASSUME Path(p) \in Methods PROVE owner[Path(p)] = NoSession
        BY <3>1, <4>1, ConstantsAssumption DEF Present
      <4> QED
        BY <2>1, <3>2, <4>1, ConstantsAssumption DEF Clear, Path, Mine
    <3>4. Passed(p)'
      BY <1>t, <1>u, <2>1, <2>3, <3>2, PassedKept
    <3>5. ASSUME NEW q \in Providers, q # p PROVE Clear(q)' /\ Passed(q)'
      BY <1>t, <1>u, <1>o, <2>1, <2>2, <2>3, <3>5, ClearKept, PassedKept
    <3> QED
      BY <3>3, <3>4, <3>5 DEF Unhindered
  <2> QED
    BY <2>4, <2>5
\* What p creates belongs to nobody else.
<1>a. ASSUME NEW p \in Providers, CanCreate(p), Apply(p)
      PROVE  /\ persistent \subseteq persistent'
             /\ Path(p) \in Services => Path(p) \in persistent'
             /\ \A q \in Providers \ {p} : \A m \in Methods : Mine(q, m)' => Mine(q, m)
  <2>1. \A m \in Methods : owner'[m] = IF m = Path(p) THEN Me(p) ELSE owner[m]
    BY <1>a DEF Apply
  <2>2. Me(p)[1] = p
    BY DEF Me
  <2> QED
    BY <1>a, <2>1, <2>2 DEF Apply, Mine
<1>3. ASSUME NEW p \in Providers, CreateOk(p) PROVE Unhindered'
  <2>1. /\ UNCHANGED <<sessions, run, lost>> /\ CanCreate(p) /\ Apply(p)
        /\ pc'[p] = "exists" /\ pc[p] = "create" /\ next'[p] = next[p] + 1
    BY <1>t, <1>3 DEF CreateOk, history, Goto, TypeOK
  <2>2. ASSUME NEW q \in Providers, q # p PROVE UNCHANGED <<pc[q], next[q]>>
    BY <1>t, <1>3, <2>2 DEF CreateOk, Goto, TypeOK
  <2>3. Clear(p)'
    BY <2>1 DEF Clear
  <2>4. Passed(p)'
    BY <1>t, <1>u, <1>a, <2>1, PassedKept DEF Alive, Me
  <2>5. ASSUME NEW q \in Providers, q # p PROVE Clear(q)' /\ Passed(q)'
    BY <1>t, <1>u, <1>a, <2>1, <2>2, <2>5, ClearKept, PassedKept DEF Alive, Me
  <2> QED
    BY <2>3, <2>4, <2>5 DEF Unhindered
<1>4. ASSUME NEW p \in Providers, CreateFail(p) PROVE Unhindered'
  <2>1. /\ UNCHANGED <<sessions, run, next>> /\ lost \subseteq lost' /\ pc'[p] = "exited"
        /\ UNCHANGED <<persistent, owner>> \/ (CanCreate(p) /\ Apply(p))
    BY <1>t, <1>4 DEF CreateFail, server, Goto, TypeOK
  <2>2. ASSUME NEW q \in Providers, q # p PROVE UNCHANGED pc[q]
    BY <1>t, <1>4, <2>2 DEF CreateFail, Goto, TypeOK
  <2>3. Clear(p)' /\ Passed(p)'
    BY <2>1 DEF Clear, Passed, Alive
  <2>4. ASSUME NEW q \in Providers, q # p PROVE Clear(q)' /\ Passed(q)'
    BY <1>t, <1>u, <1>a, <1>o, <2>1, <2>2, <2>4, ClearKept, PassedKept DEF Alive, Me
  <2> QED
    BY <2>3, <2>4 DEF Unhindered
<1>5. ASSUME NEW p \in Providers, Serve(p) \/ Crash(p) PROVE Unhindered'
  <2>1. UNCHANGED <<sessions, persistent, owner, run, next, lost>>
    BY <1>5 DEF Serve, Crash, server, history
  <2>2. ASSUME NEW q \in Providers PROVE (pc'[q] = "create" => pc[q] = "create") /\ (Alive(q)' => Alive(q))
    BY <1>t, <1>5 DEF Serve, Crash, Goto, TypeOK, Alive
  <2>3. ASSUME NEW q \in Providers PROVE Clear(q)' /\ Passed(q)'
    BY <1>t, <1>u, <1>o, <2>1, <2>2, ClearKept, PassedKept DEF Me
  <2> QED
    BY <2>3 DEF Unhindered
<1>6. ASSUME NEW s \in Sessions, Expire(s) PROVE Unhindered'
  <2>1. /\ UNCHANGED <<persistent, pc, run, next, lost>> /\ sessions' \subseteq sessions
        /\ \A m \in Methods : owner'[m] \in {owner[m], NoSession}
    BY <1>6 DEF Expire
  <2>2. \A q \in Providers : \A m \in Methods : Mine(q, m)' => Mine(q, m)
    BY <2>1, ConstantsAssumption DEF Mine
  <2>3. ASSUME NEW q \in Providers PROVE Clear(q)' /\ Passed(q)'
    BY <1>t, <1>u, <2>1, <2>2, ClearKept, PassedKept DEF Me, Alive
  <2> QED
    BY <2>3 DEF Unhindered
<1>7. CASE UNCHANGED vars
  BY <1>7, <1>u DEF vars, server, history, Unhindered, Clear, Passed, Mine, Alive, Me, Path
<1> QED
  BY <1>1, <1>2, <1>3, <1>4, <1>5, <1>6, <1>7 DEF Next, Run

LEMMA FailureIsExplained ==
    ASSUME Inv, Unhindered, Next, NEW p \in Providers, pc[p] = "create", pc'[p] = "exited"
    PROVE  \/ Me(p) \notin sessions \/ p \in lost'
           \/ Path(p) \in persistent
           \/ \E s \in Sessions : s[1] # p /\ Path(p) \in Methods /\ owner[Path(p)] = s
<1>t. TypeOK /\ Place /\ Clear(p) /\ Passed(p)
  BY DEF Inv, Unhindered
<1>1. CreateFail(p)
  <2>1. ASSUME NEW q \in Providers, Start(q) \/ Run(q) \/ Crash(q), q # p PROVE FALSE
    BY <1>t, <2>1 DEF Start, Run, Exists, Skip, Proceed, CreateOk, CreateFail, Serve, Crash, Goto, TypeOK
  <2>2. ASSUME NEW s \in Sessions, Expire(s) PROVE FALSE
    BY <2>2 DEF Expire
  <2>3. ~Start(p) /\ ~Exists(p) /\ ~CreateOk(p) /\ ~Serve(p) /\ ~Crash(p)
    BY <1>t DEF Start, Exists, CreateOk, Serve, Crash, Goto, TypeOK
  <2> QED
    BY <2>1, <2>2, <2>3 DEF Next, Run
<1>2. SUFFICES ASSUME Me(p) \in sessions, p \notin lost', ~CanCreate(p), p \notin lost
               PROVE  \/ Path(p) \in persistent
                      \/ \E s \in Sessions : s[1] # p /\ Path(p) \in Methods /\ owner[Path(p)] = s
  BY <1>1 DEF CreateFail
<1>3. next[p] \in 1 .. Len(PathsOf[p]) /\ Path(p) \in Services \cup Methods
  <2>1. next[p] \in 1 .. Len(PathsOf[p])
    BY <1>t, PathsFact DEF TypeOK, Place
  <2> QED
    BY <2>1, PathsFact DEF Path
<1>4. ParentPresent(Path(p))
  <2>1. SUFFICES ASSUME Path(p) \in Methods PROVE ServiceOf[Path(p)] \in persistent
    BY DEF ParentPresent
  <2>2. PICK i \in 1 .. next[p] - 1 : PathsOf[p][i] = ServiceOf[Path(p)]
    BY <1>3, <2>1, OrderAssumption DEF Path
  <2>3. i \in 1 .. Len(PathsOf[p]) /\ i < next[p]
    BY <1>3, <2>2, PathsFact
  <2>4. ServiceOf[Path(p)] \in Services
    BY <2>1, ConstantsAssumption
  <2> QED
    BY <1>t, <1>2, <2>2, <2>3, <2>4 DEF Passed, Alive
<1>5. Present(Path(p))
  BY <1>2, <1>4 DEF CanCreate
<1>6. CASE Path(p) \in Services
  BY <1>5, <1>6 DEF Present
<1>7. CASE Path(p) \in Methods
  <2>1. owner[Path(p)] \in Sessions
    BY <1>t, <1>5, <1>7, ConstantsAssumption DEF Present, TypeOK
  <2> QED
    BY <1>t, <1>7, <2>1 DEF Clear, Mine
<1> QED
  BY <1>3, <1>6, <1>7

\* A provider gives up during its registration only when another one was faster
\* or ZooKeeper failed it: it finds no parent missing and none of its own nodes
\* in the way, however it was restarted (ZkClient::Create, exit(EXIT_FAILURE)).
THEOREM FailureMeansRace == Spec => ExitMeansRace
<1>1. Init => Unhindered
  BY DEF Init, Unhindered, Clear, Passed, Alive
<1>2. Inv /\ Unhindered /\ [Next]_vars => Unhindered'
  BY NextUnhindered
<1>3. Inv /\ Unhindered /\ [Next]_vars
        => [\A p \in Providers : pc[p] = "create" /\ pc'[p] = "exited" =>
               \/ Me(p) \notin sessions \/ p \in lost'
               \/ Path(p) \in persistent
               \/ \E s \in Sessions : s[1] # p /\ Path(p) \in Methods /\ owner[Path(p)] = s]_vars
  BY FailureIsExplained
<1> QED
  BY <1>1, <1>2, <1>3, InvHolds, PTL DEF Spec, ExitMeansRace

(***************************************************************************)
(* Waiting for a session, for any number of threads and calls: nobody is   *)
(* left asleep on the condition variable that all handles share.           *)
(***************************************************************************)

StartTypeOK ==
    /\ is_connected \in BOOLEAN
    /\ tpc \in [Threads -> {"idle", "lock", "test", "sleep", "asleep", "get", "blocked"}]
    /\ watcher \in [Threads -> {"idle", "set", "notify"}]

\* cv_mutex is held from the predicate's test to the sleep, and who goes to
\* sleep has found the flag FALSE, as nobody sets it meanwhile.
Waiting == \A t \in Threads :
    /\ tpc[t] \in {"test", "sleep"} => cv_mutex = t
    /\ tpc[t] = "sleep" => ~is_connected

StartInv == StartTypeOK /\ Waiting /\ NoLostWakeup

LEMMA StartInitInv == StartInit => StartInv
BY DEF StartInit, StartInv, StartTypeOK, Waiting, NoLostWakeup

LEMMA StartNextTypeOK ==
    ASSUME StartTypeOK, [StartNext]_startVars
    PROVE  StartTypeOK'
<1> USE DEF StartTypeOK, StepTo
<1>1. ASSUME NEW t \in Threads, Begin(t) \/ Step(t) PROVE StartTypeOK'
  <2>1. CASE Begin(t)
    BY <2>1 DEF Begin
  <2>2. CASE Lock(t) \/ Sleep(t) \/ GetData(t) \/ GetDataDone(t)
    BY <2>2 DEF Lock, Sleep, GetData, GetDataDone
  <2>3. CASE Test(t)
    BY <2>3 DEF Test
  <2> QED
    BY <1>1, <2>1, <2>2, <2>3 DEF Step
<1>2. ASSUME NEW t \in Threads, Connect(t) \/ Disconnect(t) \/ SetConnected(t) PROVE StartTypeOK'
  BY <1>2 DEF Connect, Disconnect, SetConnected
<1>3. ASSUME NEW t \in Threads, NotifyAll(t) PROVE StartTypeOK'
  BY <1>3 DEF NotifyAll
<1>4. CASE UNCHANGED startVars
  BY <1>4 DEF startVars
<1> QED
  BY <1>1, <1>2, <1>3, <1>4 DEF StartNext, Watch

LEMMA StartNextInv ==
    ASSUME StartInv, [StartNext]_startVars
    PROVE  StartInv'
<1>1. StartTypeOK'
  BY StartNextTypeOK DEF StartInv
<1> USE StartAssumption DEF StartInv, StartTypeOK, Waiting, NoLostWakeup, StepTo
\* The threads: only Sleep adds a sleeper, and it does so with the flag FALSE.
<1>2. ASSUME NEW t \in Threads, Begin(t) PROVE Waiting' /\ NoLostWakeup'
  BY <1>2 DEF Begin
<1>3. ASSUME NEW t \in Threads, Lock(t) PROVE Waiting' /\ NoLostWakeup'
  BY <1>3 DEF Lock
<1>4. ASSUME NEW t \in Threads, Test(t) PROVE Waiting' /\ NoLostWakeup'
  BY <1>4 DEF Test
<1>5. ASSUME NEW t \in Threads, Sleep(t) PROVE Waiting' /\ NoLostWakeup'
  BY <1>5 DEF Sleep
<1>6. ASSUME NEW t \in Threads, GetData(t) PROVE Waiting' /\ NoLostWakeup'
  BY <1>6 DEF GetData
<1>7. ASSUME NEW t \in Threads, GetDataDone(t) PROVE Waiting' /\ NoLostWakeup'
  BY <1>7 DEF GetDataDone
\* The handles: SetConnected is followed by a notification of its own.
<1>8. ASSUME NEW t \in Threads, Connect(t) PROVE Waiting' /\ NoLostWakeup'
  BY <1>8 DEF Connect
<1>9. ASSUME NEW t \in Threads, Disconnect(t) PROVE Waiting' /\ NoLostWakeup'
  BY <1>9 DEF Disconnect
<1>10. ASSUME NEW t \in Threads, SetConnected(t) PROVE Waiting' /\ NoLostWakeup'
  BY <1>10 DEF SetConnected
<1>11. ASSUME NEW t \in Threads, NotifyAll(t) PROVE Waiting' /\ NoLostWakeup'
  BY <1>11 DEF NotifyAll
<1>12. CASE UNCHANGED startVars
  BY <1>12 DEF startVars
<1> QED
  BY <1>1, <1>2, <1>3, <1>4, <1>5, <1>6, <1>7, <1>8, <1>9, <1>10, <1>11, <1>12
  DEF StartNext, Step, Watch

\* Once some handle has connected, a thread sleeps only while a notification is
\* on its way: none is lost between the test of the flag and the sleep.
THEOREM NobodyIsLeftAsleep == StartSpec => []NoLostWakeup
<1>1. StartInv => NoLostWakeup
  BY DEF StartInv
<1> QED
  BY StartInitInv, StartNextInv, <1>1, PTL DEF StartSpec
=============================================================================
