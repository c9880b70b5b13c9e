------------------------ MODULE CacheServiceProofs ------------------------
(***************************************************************************)
(* The cache for every set of keys, values, times to live and batches:     *)
(* it implements the map of TtlMap, a reader's entry stays, and every      *)
(* lookup is counted once.                                                 *)
(***************************************************************************)
EXTENDS CacheService, FiniteSetTheorems, TLAPS

\* The types of what the requests and the cleanup hand on.
Types ==
    /\ clock \in Int
    /\ cache_store_ \in [Keys -> Entries \cup {Absent}]
    /\ pc \in [Clients -> {"idle", "lookup", "count", "total", "stats"}]
    /\ todo \in [Clients -> Seq(Keys)]
    /\ got \in [Clients -> Seq(Keys \X (Values \cup {Absent}))]

\* The shared_mutex: the cleanup scans while nobody reads, so that what it has
\* not passed is still there; a request that is over has left nothing behind.
Locks ==
    /\ cleaner = "scan" => Readers = {}
    /\ unscanned \subseteq Stored /\ (cleaner # "scan" => unscanned = {})
    /\ \A c \in Clients : pc[c] \in {"idle", "stats"} => got[c] = <<>>
    /\ \A c \in Clients : pc[c] = "count" => got[c] # <<>>

Inv == Types /\ Locks /\ ReaderEntryStays

-----------------------------------------------------------------------------
(* Entries.                                                                *)

LEMMA EntryFact ==
    ASSUME NEW e \in Entries
    PROVE  e # Absent /\ e.value \in Values /\ e.value # Absent /\ e.expire_time \in Int
           /\ e.never_expire \in BOOLEAN
BY ConstantsAssumption DEF Entries

LEMMA NewEntryFact ==
    ASSUME clock \in Int, NEW v \in Values, NEW ttl \in Ttls
    PROVE  /\ NewEntry(v, ttl) \in Entries
           /\ NewEntry(v, ttl).value = v /\ NewEntry(v, ttl).expire_time = clock + ttl
           /\ NewEntry(v, ttl).never_expire <=> ttl = 0
<1>1. ASSUME NEW b \in BOOLEAN, NEW n \in Int
      PROVE  LET e == [value |-> v, never_expire |-> b, expire_time |-> n] IN
             e \in Entries /\ e.value = v /\ e.expire_time = n /\ e.never_expire = b
  BY DEF Entries
<1>2. (ttl = 0) \in BOOLEAN /\ clock + ttl \in Int
  BY ConstantsAssumption
<1> QED
  BY <1>1, <1>2 DEF NewEntry

\* What a lookup finds is the live map's answer.
LEMMA FindFact ==
    ASSUME Types, NEW k \in Keys
    PROVE  /\ Find(k) \in Values \cup {Absent}
           /\ Find(k) = IF LiveAt(clock)[k] = Absent THEN Absent ELSE LiveAt(clock)[k].value
           /\ Find(k) # Absent => k \in Stored /\ cache_store_[k].value = Find(k)
<1>1. LiveAt(clock)[k] = Live(cache_store_[k], clock)
  BY DEF LiveAt
<1>2. CASE cache_store_[k] = Absent
  BY <1>1, <1>2 DEF Find, Stored, Live
<1>3. CASE cache_store_[k] \in Entries
  <2>1. CASE IsExpired(cache_store_[k])
    BY <1>1, <1>3, <2>1, EntryFact DEF Find, Live, IsExpired, Types
  <2>2. CASE ~IsExpired(cache_store_[k])
    <3>1. Find(k) = cache_store_[k].value /\ k \in Stored
      BY <1>3, <2>2, EntryFact DEF Find, Stored
    <3>2. Live(cache_store_[k], clock) =
             [value |-> cache_store_[k].value,
              deadline |-> IF cache_store_[k].never_expire THEN Absent
                           ELSE cache_store_[k].expire_time]
      BY <1>3, <2>2, EntryFact DEF Live, IsExpired, Types
    <3>3. Live(cache_store_[k], clock) \in [value : Values, deadline : Int \cup {Absent}]
      BY <1>3, <3>2, EntryFact
    <3>4. Live(cache_store_[k], clock) # Absent
      BY <3>3, ConstantsAssumption
    <3> QED
      BY <1>1, <1>3, <3>1, <3>2, <3>4, EntryFact
  <2> QED
    BY <2>1, <2>2
<1> QED
  BY <1>2, <1>3 DEF Types

-----------------------------------------------------------------------------
(* The invariant.                                                          *)

LEMMA InitInv == Init => Inv
BY DEF Init, Inv, Types, Locks, ReaderEntryStays, Readers, Stored

LEMMA NextTypes ==
    ASSUME Inv, [Next]_vars
    PROVE  Types'
<1> USE DEF Types, Goto, Begin, counters, reader, cleanup
<1>1. ASSUME NEW c \in Clients, NEW k \in Keys, NEW v \in Values, NEW ttl \in Ttls, Set(c, k, v, ttl)
      PROVE  Types'
  BY <1>1, NewEntryFact DEF Set, Inv
<1>2. ASSUME NEW c \in Clients, NEW k \in Keys, Delete(c, k) PROVE Types'
  BY <1>2 DEF Delete, Inv
<1>3. ASSUME NEW c \in Clients, NEW keys \in Seq(Keys), BatchGet(c, keys) PROVE Types'
  BY <1>3 DEF BatchGet, Inv
<1>4. ASSUME NEW c \in Clients, NEW k \in Keys, Exists(c, k) PROVE Types'
  <2>1. <<<<k, Find(k)>>>> \in Seq(Keys \X (Values \cup {Absent}))
    BY FindFact DEF Inv
  <2> QED
    BY <1>4, <2>1 DEF Exists, Inv
<1>5. ASSUME NEW c \in Clients, Lookup(c) PROVE Types'
  <2>1. todo[c] \in Seq(Keys) /\ todo[c] # <<>> /\ Head(todo[c]) \in Keys /\ Tail(todo[c]) \in Seq(Keys)
    BY <1>5 DEF Lookup, Inv
  <2>2. <<Head(todo[c]), Find(Head(todo[c]))>> \in Keys \X (Values \cup {Absent})
    BY <2>1, FindFact DEF Inv
  <2> QED
    BY <1>5, <2>1, <2>2 DEF Lookup, Inv
<1>6. ASSUME NEW c \in Clients, Count(c) PROVE Types'
  BY <1>6 DEF Count, Inv
<1>7. ASSUME NEW c \in Clients, ReadDone(c) \/ GetStats(c) PROVE Types'
  BY <1>7 DEF ReadDone, GetStats, Inv
<1>8. ASSUME NEW c \in Clients, CountOperation(c) PROVE Types'
  <2>1. <<>> \in Seq(Keys \X (Values \cup {Absent}))
    OBVIOUS
  <2> QED
    BY <1>8, <2>1 DEF CountOperation, Inv
<1>9. ASSUME NEW c \in Clients, StatsLoad(c) \/ StatsDone(c) PROVE Types'
  BY <1>9 DEF StatsLoad, StatsDone, Inv
<1>10. ASSUME NEW k \in Keys, CleanupEntry(k) PROVE Types'
  BY <1>10 DEF CleanupEntry, Inv
<1>11. ASSUME Tick \/ CleanupTest \/ CleanupLock \/ CleanupUnlock \/ Destroy \/ UNCHANGED vars
       PROVE  Types'
  BY <1>11 DEF Tick, CleanupTest, CleanupLock, CleanupUnlock, Destroy, vars, Inv
<1>12. ASSUME NEW k \in Keys PROVE <<k>> \in Seq(Keys)
  OBVIOUS
<1> QED
  BY <1>1, <1>2, <1>3, <1>4, <1>5, <1>6, <1>7, <1>8, <1>9, <1>10, <1>11, <1>12, ConstantsAssumption
  DEF Next, Request, Continue, Cleanup, Get

\* A thread that goes on leaves the others where they are.
LEMMA GotoFact ==
    ASSUME Types, NEW c \in Clients, NEW l, Goto(c, l)
    PROVE  /\ pc'[c] = l
           /\ \A d \in Clients : d # c => pc'[d] = pc[d]
           /\ Readers' = IF l \in {"lookup", "count", "stats"}
                         THEN Readers \cup {c} ELSE Readers \ {c}
BY DEF Types, Goto, Readers

LEMMA NextLocks ==
    ASSUME Inv, [Next]_vars
    PROVE  Locks'
<1> USE DEF Types, Locks, Begin, counters, reader, cleanup, CanShare, CanOwn
<1>1. ASSUME NEW c \in Clients, NEW k \in Keys, NEW v \in Values, NEW ttl \in Ttls, Set(c, k, v, ttl)
      PROVE  Locks'
  BY <1>1, GotoFact DEF Set, Inv, Stored
<1>2. ASSUME NEW c \in Clients, NEW k \in Keys, Delete(c, k) PROVE Locks'
  BY <1>2, GotoFact DEF Delete, Inv, Stored
<1>3. ASSUME NEW c \in Clients, NEW keys \in Seq(Keys), BatchGet(c, keys) PROVE Locks'
  BY <1>3, GotoFact DEF BatchGet, Inv, Stored
<1>4. ASSUME NEW c \in Clients, NEW k \in Keys, Exists(c, k) PROVE Locks'
  BY <1>4, GotoFact DEF Exists, Inv, Stored
<1>5. ASSUME NEW c \in Clients, Lookup(c) PROVE Locks'
  <2>1. got'[c] # <<>>
    <3>1. \A s \in Seq(Keys \X (Values \cup {Absent})) : \A x : Append(s, x) # <<>>
      OBVIOUS
    <3> QED
      BY <1>5, <3>1 DEF Lookup, Inv
  <2>2. c \in Readers
    BY <1>5 DEF Lookup, Readers
  <2> QED
    BY <1>5, <2>1, <2>2, GotoFact DEF Lookup, Inv, Stored
<1>6. ASSUME NEW c \in Clients, Count(c) PROVE Locks'
  <2>1. c \in Readers
    BY <1>6 DEF Count, Readers
  <2> QED
    BY <1>6, <2>1, GotoFact DEF Count, Inv, Stored
<1>7. ASSUME NEW c \in Clients, ReadDone(c) PROVE Locks'
  <2>1. /\ pc[c] = "lookup" /\ Goto(c, "total")
        /\ got' = got /\ cleaner' = cleaner /\ unscanned' = unscanned /\ Stored' = Stored
    BY <1>7 DEF ReadDone, Stored, cleanup
  <2>2. Readers' \subseteq Readers
    BY <2>1, GotoFact DEF Inv
  <2>3. (cleaner' = "scan" => Readers' = {}) /\ unscanned' \subseteq Stored' /\ (cleaner' # "scan" => unscanned' = {})
    BY <2>1, <2>2 DEF Inv
  <2>4. \A d \in Clients : /\ pc'[d] \in {"idle", "stats"} => got'[d] = <<>>
                           /\ pc'[d] = "count" => got'[d] # <<>>
    BY <2>1, GotoFact DEF Inv
  <2> QED
    BY <2>3, <2>4
<1>8. ASSUME NEW c \in Clients, CountOperation(c) PROVE Locks'
  <2>1. /\ pc[c] = "total" /\ Goto(c, "idle") /\ got' = [got EXCEPT ![c] = <<>>]
        /\ cleaner' = cleaner /\ unscanned' = unscanned /\ Stored' = Stored
    BY <1>8 DEF CountOperation, Stored, cleanup
  <2>2. Readers' \subseteq Readers
    BY <2>1, GotoFact DEF Inv
  <2>3. (cleaner' = "scan" => Readers' = {}) /\ unscanned' \subseteq Stored' /\ (cleaner' # "scan" => unscanned' = {})
    BY <2>1, <2>2 DEF Inv
  <2>4. \A d \in Clients : /\ pc'[d] \in {"idle", "stats"} => got'[d] = <<>>
                           /\ pc'[d] = "count" => got'[d] # <<>>
    BY <2>1, GotoFact DEF Inv, Types
  <2> QED
    BY <2>3, <2>4
<1>9. ASSUME NEW c \in Clients, GetStats(c) PROVE Locks'
  BY <1>9, GotoFact DEF GetStats, Inv, Stored
<1>10. ASSUME NEW c \in Clients, StatsLoad(c) PROVE Locks'
  BY <1>10 DEF StatsLoad, Inv, Stored, Readers
<1>11. ASSUME NEW c \in Clients, StatsDone(c) PROVE Locks'
  <2>1. Readers' \subseteq Readers
    <3>1. Goto(c, "idle") /\ Types
      BY <1>11 DEF StatsDone, Inv
    <3>2. Readers' = Readers \ {c}
      BY <3>1, GotoFact
    <3> QED
      BY <3>2
  <2>2. \A d \in Clients : pc'[d] \in {"idle", "stats"} => pc[d] \in {"idle", "stats"}
    BY <1>11, GotoFact DEF StatsDone, Inv
  <2>3. \A d \in Clients : pc'[d] = "count" => pc[d] = "count"
    BY <1>11, GotoFact DEF StatsDone, Inv
  <2> QED
    BY <1>11, <2>1, <2>2, <2>3 DEF StatsDone, Inv, Stored
<1>12. ASSUME NEW k \in Keys, CleanupEntry(k) PROVE Locks'
  BY <1>12 DEF CleanupEntry, Inv, Stored, Readers
<1>13. ASSUME Tick \/ CleanupTest \/ CleanupLock \/ CleanupUnlock \/ Destroy \/ UNCHANGED vars
       PROVE  Locks'
  BY <1>13 DEF Tick, CleanupTest, CleanupLock, CleanupUnlock, Destroy, vars, Inv, Stored, Readers
<1>14. ASSUME NEW k \in Keys PROVE <<k>> \in Seq(Keys)
  OBVIOUS
<1> QED
  BY <1>1, <1>2, <1>3, <1>4, <1>5, <1>6, <1>7, <1>8, <1>9, <1>10, <1>11, <1>12, <1>13, <1>14,
     ConstantsAssumption
  DEF Next, Request, Continue, Cleanup, Get

LEMMA NextReaderEntryStays ==
    ASSUME Inv, [Next]_vars
    PROVE  ReaderEntryStays'
<1> DEFINE Holds(d) == LET last == got[d][Len(got[d])] IN
        last[2] # Absent => last[1] \in Stored /\ cache_store_[last[1]].value = last[2]
<1>1. \A d \in Clients : pc[d] = "count" => Holds(d)
  BY DEF Inv, ReaderEntryStays
<1>2. SUFFICES ASSUME NEW d \in Clients, pc'[d] = "count"
               PROVE  Holds(d)'
  BY DEF ReaderEntryStays
\* A thread between its lookup and its count is left alone with its entry.
<1>3. ASSUME pc[d] = "count", cache_store_' = cache_store_, got'[d] = got[d]
      PROVE  Holds(d)'
  BY <1>1, <1>3 DEF Stored
<1> HIDE DEF Holds
<1> USE DEF Begin, counters, reader, cleanup, CanShare, CanOwn
<1>4. ASSUME NEW c \in Clients, NEW k \in Keys, NEW v \in Values, NEW ttl \in Ttls, Set(c, k, v, ttl)
      PROVE  Holds(d)'
  BY <1>2, <1>4, GotoFact DEF Set, Inv, Readers
<1>5. ASSUME NEW c \in Clients, NEW k \in Keys, Delete(c, k) PROVE Holds(d)'
  BY <1>2, <1>5, GotoFact DEF Delete, Inv, Readers
<1>6. ASSUME NEW c \in Clients, NEW keys \in Seq(Keys), BatchGet(c, keys) PROVE Holds(d)'
  BY <1>2, <1>3, <1>6, GotoFact DEF BatchGet, Inv
<1>7. ASSUME NEW c \in Clients, NEW k \in Keys, Exists(c, k) PROVE Holds(d)'
  <2>1. d # c /\ pc[d] = "count"
    BY <1>2, <1>7, GotoFact DEF Exists, Inv
  <2> QED
    BY <1>3, <1>7, <2>1 DEF Exists, Inv, Types
<1>8. ASSUME NEW c \in Clients, Lookup(c) PROVE Holds(d)'
  <2>1. CASE d # c
    BY <1>2, <1>3, <1>8, <2>1, GotoFact DEF Lookup, Inv, Types
  <2>2. CASE d = c
    <3> DEFINE k == Head(todo[c])
               x == <<k, Find(k)>>
    <3>1. k \in Keys
      BY <1>8 DEF Lookup, Inv, Types
    <3>2. x \in Keys \X (Values \cup {Absent})
      BY <3>1, FindFact DEF Inv
    <3>3. got'[c] = Append(got[c], x) /\ got[c] \in Seq(Keys \X (Values \cup {Absent}))
      BY <1>8 DEF Lookup, Inv, Types
    <3>4. got'[c][Len(got'[c])] = x
      BY <3>2, <3>3
    <3>5. cache_store_' = cache_store_
      BY <1>8 DEF Lookup
    <3>6. Find(k) # Absent => k \in Stored /\ cache_store_[k].value = Find(k)
      BY <3>1, FindFact DEF Inv
    <3>7. x[1] = k /\ x[2] = Find(k)
      OBVIOUS
    <3> QED
      BY <2>2, <3>4, <3>5, <3>6, <3>7 DEF Holds, Stored
  <2> QED
    BY <2>1, <2>2
<1>9. ASSUME NEW c \in Clients, Count(c) \/ ReadDone(c) \/ GetStats(c) PROVE Holds(d)'
  BY <1>2, <1>3, <1>9, GotoFact DEF Count, ReadDone, GetStats, Inv
<1>10. ASSUME NEW c \in Clients, CountOperation(c) PROVE Holds(d)'
  <2>1. d # c /\ pc[d] = "count"
    BY <1>2, <1>10, GotoFact DEF CountOperation, Inv
  <2> QED
    BY <1>3, <1>10, <2>1 DEF CountOperation, Inv, Types
<1>11. ASSUME NEW c \in Clients, StatsLoad(c) \/ StatsDone(c) PROVE Holds(d)'
  BY <1>2, <1>3, <1>11, GotoFact DEF StatsLoad, StatsDone, Inv
<1>12. ASSUME NEW k \in Keys, CleanupEntry(k) PROVE Holds(d)'
  BY <1>2, <1>12 DEF CleanupEntry, Inv, Locks, Readers
<1>13. ASSUME Tick \/ CleanupTest \/ CleanupLock \/ CleanupUnlock \/ Destroy \/ UNCHANGED vars
       PROVE  Holds(d)'
  BY <1>2, <1>3, <1>13 DEF Tick, CleanupTest, CleanupLock, CleanupUnlock, Destroy, vars
<1>14. ASSUME NEW k \in Keys PROVE <<k>> \in Seq(Keys)
  OBVIOUS
<1> QED
  BY <1>4, <1>5, <1>6, <1>7, <1>8, <1>9, <1>10, <1>11, <1>12, <1>13, <1>14, ConstantsAssumption
  DEF Next, Request, Continue, Cleanup, Get

LEMMA InvHolds == Spec => []Inv
<1>1. Inv /\ [Next]_vars => Inv'
  BY NextTypes, NextLocks, NextReaderEntryStays DEF Inv
<1> QED
  BY InitInv, <1>1, PTL DEF Spec

\* A reader that has found an entry still has it when it copies the value, for
\* any number of threads: CacheService.cc, Get and BatchGet under the lock.
THEOREM EntryStays == Spec => []ReaderEntryStays
<1>1. Inv => ReaderEntryStays
  BY DEF Inv
<1> QED
  BY InvHolds, <1>1, PTL

-----------------------------------------------------------------------------
(* Hits and misses.                                                        *)

Counting == {c \in Clients : pc[c] = "count"}

Counted ==
    /\ hit_count_ \in Nat /\ miss_count_ \in Nat /\ lookups \in Nat
    /\ hit_count_ + miss_count_ + Cardinality(Counting) = lookups

LEMMA NextCounted ==
    ASSUME IsFiniteSet(Clients), Inv, Counted, [Next]_vars
    PROVE  Counted'
<1>1. IsFiniteSet(Counting) /\ Cardinality(Counting) \in Nat
  BY FS_Subset, FS_CardinalityType DEF Counting
\* Steps that do not look up and do not count.
<1>2. ASSUME UNCHANGED <<hit_count_, miss_count_, lookups>>,
             \A d \in Clients : pc'[d] = "count" <=> pc[d] = "count"
      PROVE  Counted'
  <2>1. Counting' = Counting
    BY <1>2 DEF Counting
  <2> QED
    BY <1>2, <2>1 DEF Counted
<1>3. ASSUME NEW c \in Clients, NEW l \in {"idle", "lookup", "total", "stats"},
             Goto(c, l), pc[c] # "count", UNCHANGED <<hit_count_, miss_count_, lookups>>
      PROVE  Counted'
  BY <1>2, <1>3, GotoFact DEF Inv
<1> USE DEF Begin, counters, reader, cleanup
<1>4. ASSUME NEW c \in Clients, NEW k \in Keys, NEW v \in Values, NEW ttl \in Ttls, Set(c, k, v, ttl)
      PROVE  Counted'
  BY <1>3, <1>4 DEF Set
<1>5. ASSUME NEW c \in Clients, NEW k \in Keys, Delete(c, k) \/ Exists(c, k) PROVE Counted'
  BY <1>3, <1>5 DEF Delete, Exists
<1>6. ASSUME NEW c \in Clients, NEW keys \in Seq(Keys), BatchGet(c, keys) PROVE Counted'
  BY <1>3, <1>6 DEF BatchGet
<1>7. ASSUME NEW c \in Clients, Lookup(c) PROVE Counted'
  <2>1. c \notin Counting
    BY <1>7 DEF Lookup, Counting
  <2>2. Counting' = Counting \cup {c}
    BY <1>7, GotoFact DEF Lookup, Counting, Inv
  <2>3. Cardinality(Counting') = Cardinality(Counting) + 1
    BY <1>1, <2>1, <2>2, FS_AddElement
  <2>4. Counted' <=> /\ hit_count_' \in Nat /\ miss_count_' \in Nat /\ lookups' \in Nat
                    /\ hit_count_' + miss_count_' + Cardinality(Counting') = lookups'
    BY DEF Counted
  <2>5. hit_count_' = hit_count_ /\ miss_count_' = miss_count_ /\ lookups' = lookups + 1
    BY <1>7 DEF Lookup
  <2> QED
    BY <1>1, <2>3, <2>4, <2>5 DEF Counted
<1>8. ASSUME NEW c \in Clients, Count(c) PROVE Counted'
  <2>1. c \in Counting
    BY <1>8 DEF Count, Counting
  <2>2. Counting' = Counting \ {c}
    BY <1>8, GotoFact DEF Count, Counting, Inv
  <2>3. Cardinality(Counting') = Cardinality(Counting) - 1
    BY <1>1, <2>1, <2>2, FS_RemoveElement
  <2>4. Counted' <=> /\ hit_count_' \in Nat /\ miss_count_' \in Nat /\ lookups' \in Nat
                    /\ hit_count_' + miss_count_' + Cardinality(Counting') = lookups'
    BY DEF Counted
  <2>5. /\ lookups' = lookups
        /\ \/ hit_count_' = hit_count_ + 1 /\ miss_count_' = miss_count_
           \/ hit_count_' = hit_count_ /\ miss_count_' = miss_count_ + 1
    BY <1>8 DEF Count
  <2> QED
    BY <1>1, <2>3, <2>4, <2>5 DEF Counted
<1>9. ASSUME NEW c \in Clients, ReadDone(c) \/ GetStats(c) \/ CountOperation(c) \/ StatsDone(c)
      PROVE  Counted'
  BY <1>3, <1>9 DEF ReadDone, GetStats, CountOperation, StatsDone
<1>10. ASSUME NEW c \in Clients, StatsLoad(c) PROVE Counted'
  BY <1>2, <1>10 DEF StatsLoad
<1>11. ASSUME NEW k \in Keys, CleanupEntry(k) PROVE Counted'
  BY <1>2, <1>11 DEF CleanupEntry
<1>12. ASSUME Tick \/ CleanupTest \/ CleanupLock \/ CleanupUnlock \/ Destroy \/ UNCHANGED vars
       PROVE  Counted'
  BY <1>2, <1>12 DEF Tick, CleanupTest, CleanupLock, CleanupUnlock, Destroy, vars
<1>13. ASSUME NEW k \in Keys PROVE <<k>> \in Seq(Keys)
  OBVIOUS
<1> QED
  BY <1>4, <1>5, <1>6, <1>7, <1>8, <1>9, <1>10, <1>11, <1>12, <1>13, ConstantsAssumption
  DEF Next, Request, Continue, Cleanup, Get

\* No lookup is lost from the hits and misses and none is counted twice,
\* whatever the interleaving of any finite number of threads.
THEOREM EveryLookupCounted ==
    ASSUME IsFiniteSet(Clients)
    PROVE  Spec => []LookupsCounted
<1>1. Init => Counted
  <2>1. Init => Counting = {} /\ hit_count_ = 0 /\ miss_count_ = 0 /\ lookups = 0
    BY DEF Init, Counting
  <2>2. Cardinality({}) = 0
    BY FS_EmptySet
  <2> QED
    BY <2>1, <2>2 DEF Counted
<1>2. Inv /\ Counted /\ [Next]_vars => Counted'
  BY NextCounted
<1>3. Counted => LookupsCounted
  BY DEF Counted, Counting, LookupsCounted
<1> QED
  BY InvHolds, <1>1, <1>2, <1>3, PTL DEF Spec

-----------------------------------------------------------------------------
(* The service implements the map.                                         *)

\* The live map is kept by a step that leaves clock and table alone.
LEMMA LiveKept ==
    ASSUME UNCHANGED <<clock, cache_store_>>
    PROVE  LiveAt(clock)' = LiveAt(clock)
BY DEF LiveAt, Live

LEMMA LiveFact ==
    ASSUME NEW e \in Entries \cup {Absent}, NEW time \in Int
    PROVE  LET shown == [value |-> e.value,
                         deadline |-> IF e.never_expire THEN Absent ELSE e.expire_time] IN
           /\ Live(Absent, time) = Absent
           /\ e # Absent /\ (e.never_expire \/ time <= e.expire_time)
                => Live(e, time) = shown /\ shown # Absent
           /\ ~(e # Absent /\ (e.never_expire \/ time <= e.expire_time))
                => Live(e, time) = Absent
<1>1. CASE e = Absent
  BY <1>1 DEF Live
<1>2. CASE e \in Entries
  <2>1. [value |-> e.value, deadline |-> IF e.never_expire THEN Absent ELSE e.expire_time]
          \in [value : Values, deadline : Int \cup {Absent}]
    BY <1>2, EntryFact
  <2>2. [value |-> e.value, deadline |-> IF e.never_expire THEN Absent ELSE e.expire_time] # Absent
    BY <2>1, ConstantsAssumption
  <2> QED
    BY <1>2, <2>2, EntryFact DEF Live
<1> QED
  BY <1>1, <1>2

LEMMA SetPuts ==
    ASSUME Inv, NEW c \in Clients, NEW k \in Keys, NEW v \in Values, NEW ttl \in Ttls,
           Set(c, k, v, ttl)
    PROVE  Map!Put(k, v, ttl)
<1> DEFINE e == NewEntry(v, ttl)
           shown == Map!Entry(v, ttl)
<1>1. UNCHANGED <<clock, got>> /\ cache_store_' = [cache_store_ EXCEPT ![k] = e]
  BY DEF Set
<1>2. /\ e \in Entries /\ e.value = v /\ e.expire_time = clock + ttl
      /\ e.never_expire <=> ttl = 0
  BY NewEntryFact DEF Inv, Types
<1> HIDE DEF e
<1>3. clock \in Int /\ ttl \in Int /\ clock + ttl \in Int
  BY ConstantsAssumption DEF Inv, Types
<1>4. shown = [value |-> v, deadline |-> IF ttl = 0 THEN Absent ELSE clock + ttl]
  BY DEF Map!Entry
<1>5. Live(e, clock) = IF Map!Over(shown, clock) THEN Absent ELSE shown
  <2>1. clock + ttl # Absent
    BY <1>3, ConstantsAssumption
  <2>2. Map!Over(shown, clock) <=> ttl # 0 /\ clock + ttl < clock
    BY <1>3, <1>4, <2>1 DEF Map!Over
  <2>3. CASE ttl = 0
    <3>1. Live(e, clock) = [value |-> e.value, deadline |-> Absent]
      BY <1>2, <2>3, EntryFact DEF Live
    <3>2. shown = [value |-> v, deadline |-> Absent] /\ ~Map!Over(shown, clock)
      BY <1>4, <2>2, <2>3
    <3> QED
      BY <1>2, <3>1, <3>2
  <2>4. CASE ttl # 0 /\ clock <= clock + ttl
    <3>1. Live(e, clock) = [value |-> e.value, deadline |-> e.expire_time]
      BY <1>2, <2>4, EntryFact DEF Live
    <3>2. shown = [value |-> v, deadline |-> clock + ttl]
      BY <1>4, <2>4
    <3>3. ~Map!Over(shown, clock)
      BY <1>3, <2>2, <2>4
    <3> QED
      BY <1>2, <3>1, <3>2, <3>3
  <2>5. CASE ttl # 0 /\ ~(clock <= clock + ttl)
    <3>1. Live(e, clock) = Absent
      BY <1>2, <2>5 DEF Live
    <3>2. Map!Over(shown, clock)
      BY <1>3, <2>2, <2>5
    <3> QED
      BY <3>1, <3>2
  <2> QED
    BY <2>3, <2>4, <2>5
<1> HIDE DEF shown
<1>6. LiveAt(clock)' = [LiveAt(clock) EXCEPT ![k] = Live(e, clock)]
  BY <1>1 DEF LiveAt, Inv, Types, Live
<1> QED
  BY <1>1, <1>5, <1>6 DEF Map!Put, shown

LEMMA DeleteRemoves ==
    ASSUME Inv, NEW c \in Clients, NEW k \in Keys, Delete(c, k)
    PROVE  Map!Remove(k)
<1>1. UNCHANGED <<clock, got>> /\ cache_store_' = [cache_store_ EXCEPT ![k] = Absent]
  BY DEF Delete
<1>2. Live(Absent, clock) = Absent
  BY DEF Live
<1>3. LiveAt(clock)' = [LiveAt(clock) EXCEPT ![k] = Live(Absent, clock)]
  BY <1>1 DEF LiveAt, Inv, Types, Live
<1> QED
  BY <1>1, <1>2, <1>3 DEF Map!Remove

LEMMA LookupReads ==
    ASSUME Inv, NEW c \in Clients, Lookup(c)
    PROVE  Map!Read(c, Head(todo[c]))
<1>1. Head(todo[c]) \in Keys
  BY DEF Lookup, Inv, Types
<1>2. <<Head(todo[c]), Find(Head(todo[c]))>> = Map!Answer(Head(todo[c]))
  BY <1>1, FindFact DEF Map!Answer, Inv
<1>3. LiveAt(clock)' = LiveAt(clock)
  BY LiveKept DEF Lookup
<1> QED
  BY <1>2, <1>3 DEF Map!Read, Lookup

LEMMA ExistsReads ==
    ASSUME Inv, NEW c \in Clients, NEW k \in Keys, Exists(c, k)
    PROVE  Map!Read(c, k)
<1>1. got[c] = <<>>
  BY DEF Exists, Begin, Inv, Locks
<1>2. <<<<k, Find(k)>>>> = Append(got[c], Map!Answer(k))
  BY <1>1, FindFact DEF Map!Answer, Inv
<1>3. LiveAt(clock)' = LiveAt(clock)
  BY LiveKept DEF Exists
<1> QED
  BY <1>2, <1>3 DEF Map!Read, Exists

LEMMA TickAdvances ==
    ASSUME Inv, Tick
    PROVE  Map!Advance
<1>1. clock < MaxClock /\ clock' = clock + 1 /\ UNCHANGED <<cache_store_, got>>
  BY DEF Tick, reader
<1>2. ASSUME NEW e \in Entries \cup {Absent}
      PROVE  Live(e, clock + 1) = IF Live(e, clock) # Absent /\ Map!Over(Live(e, clock), clock + 1)
                                  THEN Absent ELSE Live(e, clock)
  <2>1. clock \in Int /\ clock + 1 \in Int
    BY DEF Inv, Types
  <2>2. CASE e = Absent
    BY <2>2 DEF Live
  <2>3. CASE e \in Entries /\ e.never_expire
    <3>1. Live(e, clock) = [value |-> e.value, deadline |-> Absent] /\ Live(e, clock) # Absent
      BY <2>1, <2>3, LiveFact, EntryFact
    <3>2. Live(e, clock + 1) = Live(e, clock)
      BY <2>3, <3>1, EntryFact DEF Live
    <3> QED
      BY <3>1, <3>2 DEF Map!Over
  <2>4. CASE e \in Entries /\ ~e.never_expire /\ clock <= e.expire_time
    <3>1. Live(e, clock) = [value |-> e.value, deadline |-> e.expire_time] /\ Live(e, clock) # Absent
      BY <2>1, <2>4, LiveFact, EntryFact
    <3>2. e.expire_time # Absent /\ e.expire_time \in Int
      BY <2>4, EntryFact, ConstantsAssumption
    <3>3. Map!Over(Live(e, clock), clock + 1) <=> e.expire_time < clock + 1
      BY <3>1, <3>2 DEF Map!Over
    <3> QED
      BY <2>1, <2>4, <3>1, <3>2, <3>3, EntryFact DEF Live
  <2>5. CASE e \in Entries /\ ~e.never_expire /\ ~(clock <= e.expire_time)
    <3>1. e.expire_time \in Int /\ ~(clock + 1 <= e.expire_time)
      BY <2>1, <2>5, EntryFact
    <3> QED
      BY <2>1, <2>5, <3>1, LiveFact
  <2> QED
    BY <2>2, <2>3, <2>4, <2>5
<1>3. \A k \in Keys : cache_store_[k] \in Entries \cup {Absent}
  BY DEF Inv, Types
<1>4. LiveAt(clock)' = [k \in Keys |-> Live(cache_store_[k], clock + 1)]
  BY <1>1 DEF LiveAt, Live
<1>5. \A k \in Keys : LiveAt(clock)[k] = Live(cache_store_[k], clock)
  BY DEF LiveAt
<1>6. LiveAt(clock)' = [k \in Keys |->
        IF LiveAt(clock)[k] # Absent /\ Map!Over(LiveAt(clock)[k], clock')
        THEN Absent ELSE LiveAt(clock)[k]]
  BY <1>1, <1>2, <1>3, <1>4, <1>5
<1> QED
  BY <1>1, <1>6 DEF Map!Advance

\* An entry that the cleanup removes was not there for the callers.
LEMMA CleanupStutters ==
    ASSUME Inv, NEW k \in Keys, CleanupEntry(k)
    PROVE  UNCHANGED Map!vars
<1>1. UNCHANGED <<clock, got>>
  BY DEF CleanupEntry, reader
<1>2. k \in Stored /\ cache_store_[k] \in Entries
  BY DEF CleanupEntry, Inv, Types, Locks, Stored
<1>3. CASE IsExpired(cache_store_[k])
  <2>1. cache_store_' = [cache_store_ EXCEPT ![k] = Absent]
    BY <1>3 DEF CleanupEntry
  <2>2. Live(cache_store_[k], clock) = Absent /\ Live(Absent, clock) = Absent
    BY <1>2, <1>3, LiveFact, EntryFact DEF IsExpired, Inv, Types
  <2>3. \A j \in Keys : Live(cache_store_'[j], clock) = Live(cache_store_[j], clock)
    BY <2>1, <2>2 DEF Inv, Types
  <2>4. LiveAt(clock)' = [j \in Keys |-> Live(cache_store_'[j], clock)]
    BY <1>1 DEF LiveAt, Live
  <2>5. LiveAt(clock)' = LiveAt(clock)
    BY <2>3, <2>4 DEF LiveAt
  <2> QED
    BY <1>1, <2>5 DEF Map!vars
<1>4. CASE ~IsExpired(cache_store_[k])
  <2>1. LiveAt(clock)' = LiveAt(clock)
    BY <1>1, <1>4, LiveKept DEF CleanupEntry
  <2> QED
    BY <1>1, <2>1 DEF Map!vars
<1> QED
  BY <1>3, <1>4

\* Every read of the service, also within a batch, is of the live map at that
\* instant, whatever is still waiting for the cleanup: Get, BatchGet, Exists,
\* Set, Delete and CleanupExpiredKeys of CacheService.cc.
THEOREM ServiceImplementsMap == Spec => ImplementsTtlMap
<1>1. Init => Map!Init
  BY DEF Init, Map!Init, LiveAt, Live
<1>2. ASSUME Inv, [Next]_vars PROVE [Map!Next]_(Map!vars)
  <2>1. ASSUME NEW c \in Clients, Request(c) PROVE [Map!Next]_(Map!vars)
    <3>1. ASSUME NEW k \in Keys, NEW v \in Values, NEW ttl \in Ttls, Set(c, k, v, ttl)
          PROVE  Map!Next
      BY <1>2, <3>1, SetPuts DEF Map!Next
    <3>2. ASSUME NEW k \in Keys, Delete(c, k) PROVE Map!Next
      BY <1>2, <3>2, DeleteRemoves DEF Map!Next
    <3>3. ASSUME NEW k \in Keys, Exists(c, k) PROVE Map!Next
      BY <1>2, <3>3, ExistsReads DEF Map!Next
    <3>4. ASSUME NEW keys, BatchGet(c, keys) PROVE UNCHANGED Map!vars
      BY <3>4, LiveKept DEF BatchGet, Map!vars
    <3>5. ASSUME GetStats(c) PROVE UNCHANGED Map!vars
      BY <3>5, LiveKept DEF GetStats, Map!vars
    <3> QED
      BY <2>1, <3>1, <3>2, <3>3, <3>4, <3>5 DEF Request, Get
  <2>2. ASSUME NEW c \in Clients, Continue(c) PROVE [Map!Next]_(Map!vars)
    <3>1. ASSUME Lookup(c) PROVE Map!Next
      <4>1. Head(todo[c]) \in Keys
        BY <1>2, <3>1 DEF Lookup, Inv, Types
      <4> QED
        BY <1>2, <3>1, <4>1, LookupReads DEF Map!Next
    <3>2. ASSUME CountOperation(c) PROVE Map!Next
      <4>1. Map!Finish(c)
        BY <3>2, LiveKept DEF CountOperation, Map!Finish
      <4> QED
        BY <4>1 DEF Map!Next
    <3>3. ASSUME Count(c) \/ ReadDone(c) PROVE UNCHANGED Map!vars
      BY <3>3, LiveKept DEF Count, ReadDone, Map!vars
    <3>4. ASSUME StatsLoad(c) \/ StatsDone(c) PROVE UNCHANGED Map!vars
      BY <3>4, LiveKept DEF StatsLoad, StatsDone, Map!vars
    <3> QED
      BY <2>2, <3>1, <3>2, <3>3, <3>4 DEF Continue
  <2>3. ASSUME Tick PROVE Map!Next
    BY <1>2, <2>3, TickAdvances DEF Map!Next
  <2>4. ASSUME Cleanup \/ Destroy \/ UNCHANGED vars PROVE UNCHANGED Map!vars
    <3>1. ASSUME CleanupTest \/ CleanupLock \/ CleanupUnlock \/ Destroy \/ UNCHANGED vars
          PROVE  UNCHANGED Map!vars
      BY <3>1, LiveKept DEF CleanupTest, CleanupLock, CleanupUnlock, Destroy, reader, vars, Map!vars
    <3> QED
      BY <1>2, <2>4, <3>1, CleanupStutters DEF Cleanup
  <2> QED
    BY <1>2, <2>1, <2>2, <2>3, <2>4 DEF Next
<1> QED
  BY <1>1, <1>2, InvHolds, PTL DEF Spec, ImplementsTtlMap, Map!Spec

=============================================================================
