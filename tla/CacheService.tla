---------------------------- MODULE CacheService ----------------------------
(***************************************************************************)
(* CacheService: a table under a shared_mutex, requests served by the IO   *)
(* threads of the provider, counters that are atomic one by one, and a     *)
(* thread that removes the entries that have expired.                      *)
(*                                                                         *)
(* Holding the lock in shared mode keeps the table still, not the clock or *)
(* the counters: requests that read go step by step.  Those that write run *)
(* under the exclusive lock as one step.  Memory usage is not modelled.    *)
(***************************************************************************)
EXTENDS Integers, Sequences, FiniteSets

CONSTANTS
    Clients,   \* threads that serve requests, each one at a time
    Keys, Values,
    Ttls,      \* values of expire_seconds; 0 stands for never, negatives are legal
    Batches,   \* key lists of the BatchGet requests
    Absent,    \* not a value, not an entry
    MaxClock,  \* bound on the clock
    MaxOps     \* bound on the number of requests

ASSUME ConstantsAssumption ==
    /\ Ttls \subseteq Int
    /\ Batches \subseteq Seq(Keys)
    /\ Absent \notin Values \cup Int
    /\ Absent \notin [value : Values, never_expire : BOOLEAN, expire_time : Int]
    /\ Absent \notin [value : Values, deadline : Int \cup {Absent}]
    /\ MaxClock \in Nat /\ MaxOps \in Nat

VARIABLES
    clock,                    \* steady_clock
    cache_store_,             \* key -> entry, or Absent
    hit_count_, miss_count_, total_operations_,
    pc,                       \* pc[c]: what client c's thread does next
    todo,                     \* todo[c]: keys its request has still to read
    got,                      \* got[c]: what it has read, <<key, value>>
    began,                    \* began[c]: history, when it took the lock
    loads,                    \* loads[c]: the counters GetStats has loaded
    cleaner,                  \* CleanupExpiredKeys: "test", "sleep", "scan", "done"
    unscanned,                \* the keys its iterator has not passed
    should_stop_cleanup_,     \* set by the destructor
    ops,                      \* requests so far
    lookups                   \* history: keys looked up by Get and BatchGet

counters == <<hit_count_, miss_count_, total_operations_>>
reader == <<pc, todo, got, began, loads>>
cleanup == <<cleaner, unscanned>>
vars == <<clock, cache_store_, counters, reader, cleanup, should_stop_cleanup_, ops, lookups>>

Init ==
    /\ clock = 0
    /\ cache_store_ = [k \in Keys |-> Absent]
    /\ hit_count_ = 0 /\ miss_count_ = 0 /\ total_operations_ = 0
    /\ pc = [c \in Clients |-> "idle"]
    /\ todo = [c \in Clients |-> <<>>]
    /\ got = [c \in Clients |-> <<>>]
    /\ began = [c \in Clients |-> 0]
    /\ loads = [c \in Clients |-> <<>>]
    /\ cleaner = "test" /\ unscanned = {}
    /\ should_stop_cleanup_ = FALSE
    /\ ops = 0 /\ lookups = 0

Stored == {k \in Keys : cache_store_[k] # Absent}

\* The shared_mutex: the threads that hold it in either mode.
Readers == {c \in Clients : pc[c] \in {"lookup", "count", "stats"}}
CanShare == cleaner # "scan"
CanOwn == CanShare /\ Readers = {}

\* CacheEntry
NewEntry(v, ttl) == [value |-> v, never_expire |-> ttl = 0, expire_time |-> clock + ttl]

\* Mutant: an entry is over at its deadline already.
IsExpiredAtDeadline(e) == ~e.never_expire /\ clock >= e.expire_time
IsExpired(e) == ~e.never_expire /\ clock > e.expire_time

Goto(c, l) == pc' = [pc EXCEPT ![c] = l]

\* A request arrives at thread c, which may take the lock as mode says.
Begin(c, mode) ==
    /\ pc[c] = "idle" /\ mode
    /\ ops < MaxOps /\ ~should_stop_cleanup_
    /\ ops' = ops + 1

Tick ==
    /\ clock < MaxClock
    /\ clock' = clock + 1
    /\ UNCHANGED <<cache_store_, counters, reader, cleanup, should_stop_cleanup_, ops, lookups>>

-----------------------------------------------------------------------------
(* Requests that write.                                                    *)

Set(c, k, v, ttl) ==
    /\ Begin(c, CanOwn)
    /\ cache_store_' = [cache_store_ EXCEPT ![k] = NewEntry(v, ttl)]
    /\ Goto(c, "total")
    /\ UNCHANGED <<clock, counters, todo, got, began, loads, cleanup, should_stop_cleanup_, lookups>>

Delete(c, k) ==
    /\ Begin(c, CanOwn)
    /\ cache_store_' = [cache_store_ EXCEPT ![k] = Absent]
    /\ Goto(c, "total")
    /\ UNCHANGED <<clock, counters, todo, got, began, loads, cleanup, should_stop_cleanup_, lookups>>

-----------------------------------------------------------------------------
(* Requests that read.                                                     *)

\* What a lookup of k finds: the value of an entry that has not expired.
Find(k) == IF k \in Stored /\ ~IsExpired(cache_store_[k]) THEN cache_store_[k].value ELSE Absent

\* Get is a batch of one key.
BatchGet(c, keys) ==
    /\ Begin(c, CanShare)
    /\ todo' = [todo EXCEPT ![c] = keys]
    /\ began' = [began EXCEPT ![c] = clock]
    /\ Goto(c, "lookup")
    /\ UNCHANGED <<clock, cache_store_, counters, got, loads, cleanup, should_stop_cleanup_, lookups>>
Get(c, k) == BatchGet(c, <<k>>)

Lookup(c) ==
    /\ pc[c] = "lookup" /\ todo[c] # <<>>
    /\ got' = [got EXCEPT ![c] = Append(@, <<Head(todo[c]), Find(Head(todo[c]))>>)]
    /\ todo' = [todo EXCEPT ![c] = Tail(@)]
    /\ lookups' = lookups + 1
    /\ Goto(c, "count")
    /\ UNCHANGED <<clock, cache_store_, counters, began, loads, cleanup, should_stop_cleanup_, ops>>

\* Mutant: a miss is counted only when the key is not in the table.
CountExpiredNot(c) ==
    /\ pc[c] = "count"
    /\ IF got[c][Len(got[c])][2] # Absent
       THEN hit_count_' = hit_count_ + 1 /\ UNCHANGED miss_count_
       ELSE /\ miss_count_' = IF got[c][Len(got[c])][1] \in Stored THEN miss_count_ ELSE miss_count_ + 1
            /\ UNCHANGED hit_count_
    /\ Goto(c, "lookup")
    /\ UNCHANGED <<clock, cache_store_, total_operations_, todo, got, began, loads, cleanup,
                   should_stop_cleanup_, ops, lookups>>

Count(c) ==
    /\ pc[c] = "count"
    /\ IF got[c][Len(got[c])][2] # Absent
       THEN hit_count_' = hit_count_ + 1 /\ UNCHANGED miss_count_
       ELSE miss_count_' = miss_count_ + 1 /\ UNCHANGED hit_count_
    /\ Goto(c, "lookup")
    /\ UNCHANGED <<clock, cache_store_, total_operations_, todo, got, began, loads, cleanup,
                   should_stop_cleanup_, ops, lookups>>

\* All keys read: the lock is released.
ReadDone(c) ==
    /\ pc[c] = "lookup" /\ todo[c] = <<>>
    /\ began' = [began EXCEPT ![c] = 0]
    /\ Goto(c, "total")
    /\ UNCHANGED <<clock, cache_store_, counters, todo, got, loads, cleanup,
                   should_stop_cleanup_, ops, lookups>>

\* Exists reads like Get, in one step, and leaves hits and misses alone.
Exists(c, k) ==
    /\ Begin(c, CanShare)
    /\ got' = [got EXCEPT ![c] = <<<<k, Find(k)>>>>]
    /\ Goto(c, "total")
    /\ UNCHANGED <<clock, cache_store_, counters, todo, began, loads, cleanup,
                   should_stop_cleanup_, lookups>>

\* total_operations_++, after the lock is released; the request is over.
CountOperation(c) ==
    /\ pc[c] = "total"
    /\ total_operations_' = total_operations_ + 1
    /\ got' = [got EXCEPT ![c] = <<>>]
    /\ Goto(c, "idle")
    /\ UNCHANGED <<clock, cache_store_, hit_count_, miss_count_, todo, began, loads, cleanup,
                   should_stop_cleanup_, ops, lookups>>

GetStats(c) ==
    /\ Begin(c, CanShare)
    /\ Goto(c, "stats")
    /\ UNCHANGED <<clock, cache_store_, counters, todo, got, began, loads, cleanup,
                   should_stop_cleanup_, lookups>>

\* hit_count and miss_count for the response, both again for total_requests;
\* hit_count_ is loaded once more for the rate, and the request is over.  The
\* addends are loaded in the order they are written in (C++ leaves it open).
StatsLoad(c) ==
    /\ pc[c] = "stats" /\ Len(loads[c]) < 4
    /\ loads' = [loads EXCEPT ![c] =
                    Append(@, IF Len(@) \in {0, 2} THEN hit_count_ ELSE miss_count_)]
    /\ UNCHANGED <<clock, cache_store_, counters, pc, todo, got, began, cleanup,
                   should_stop_cleanup_, ops, lookups>>
StatsDone(c) ==
    /\ pc[c] = "stats" /\ Len(loads[c]) = 4
    /\ loads' = [loads EXCEPT ![c] = <<>>]
    /\ Goto(c, "idle")
    /\ UNCHANGED <<clock, cache_store_, counters, todo, got, began, cleanup,
                   should_stop_cleanup_, ops, lookups>>

-----------------------------------------------------------------------------
(* CleanupExpiredKeys, and the destructor that stops it.                   *)

\* Mutant: the loop is left only by the end of the process.
CleanupTestIgnored ==
    /\ cleaner = "test"
    /\ cleaner' = "sleep"
    /\ UNCHANGED <<clock, cache_store_, counters, reader, unscanned, should_stop_cleanup_, ops, lookups>>

CleanupTest ==
    /\ cleaner = "test"
    /\ cleaner' = IF should_stop_cleanup_ THEN "done" ELSE "sleep"
    /\ UNCHANGED <<clock, cache_store_, counters, reader, unscanned, should_stop_cleanup_, ops, lookups>>

\* Mutant: no lock is taken.
CleanupLockNot ==
    /\ cleaner = "sleep"
    /\ cleaner' = "scan" /\ unscanned' = Stored
    /\ UNCHANGED <<clock, cache_store_, counters, reader, should_stop_cleanup_, ops, lookups>>

\* The sleep is over and the exclusive lock is taken.
CleanupLock ==
    /\ cleaner = "sleep" /\ Readers = {}
    /\ cleaner' = "scan" /\ unscanned' = Stored
    /\ UNCHANGED <<clock, cache_store_, counters, reader, should_stop_cleanup_, ops, lookups>>

\* Mutant: break instead of ++it at an entry that has not expired.
CleanupEntryBreaks(k) ==
    /\ cleaner = "scan" /\ k \in unscanned
    /\ unscanned' = IF IsExpired(cache_store_[k]) THEN unscanned \ {k} ELSE {}
    /\ cache_store_' = IF IsExpired(cache_store_[k])
                       THEN [cache_store_ EXCEPT ![k] = Absent] ELSE cache_store_
    /\ UNCHANGED <<clock, counters, reader, cleaner, should_stop_cleanup_, ops, lookups>>

CleanupEntry(k) ==
    /\ cleaner = "scan" /\ k \in unscanned
    /\ unscanned' = unscanned \ {k}
    /\ cache_store_' = IF IsExpired(cache_store_[k])
                       THEN [cache_store_ EXCEPT ![k] = Absent] ELSE cache_store_
    /\ UNCHANGED <<clock, counters, reader, cleaner, should_stop_cleanup_, ops, lookups>>

CleanupUnlock ==
    /\ cleaner = "scan" /\ unscanned = {}
    /\ cleaner' = "test"
    /\ UNCHANGED <<clock, cache_store_, counters, reader, unscanned, should_stop_cleanup_, ops, lookups>>

\* The destructor: legal when no request is being served.
Destroy ==
    /\ ~should_stop_cleanup_ /\ \A c \in Clients : pc[c] = "idle"
    /\ should_stop_cleanup_' = TRUE
    /\ UNCHANGED <<clock, cache_store_, counters, reader, cleanup, ops, lookups>>

Cleanup ==
    \/ CleanupTest \/ CleanupLock \/ CleanupUnlock
    \/ \E k \in Keys : CleanupEntry(k)

-----------------------------------------------------------------------------
Request(c) ==
    \/ \E k \in Keys :
          \/ \E v \in Values, ttl \in Ttls : Set(c, k, v, ttl)
          \/ Get(c, k) \/ Delete(c, k) \/ Exists(c, k)
    \/ \E keys \in Batches : BatchGet(c, keys)
    \/ GetStats(c)

Continue(c) ==
    Lookup(c) \/ Count(c) \/ ReadDone(c) \/ CountOperation(c) \/ StatsLoad(c) \/ StatsDone(c)

Next ==
    \/ Tick
    \/ \E c \in Clients : Request(c) \/ Continue(c)
    \/ Cleanup
    \/ Destroy

\* Requests that are being served go on; the cleanup thread wakes up and gets
\* its lock once no reader is in its way.
Fairness == (\A c \in Clients : WF_vars(Continue(c))) /\ WF_vars(Cleanup)

Spec == Init /\ [][Next]_vars
FairSpec == Spec /\ Fairness

-----------------------------------------------------------------------------
(* Properties.                                                             *)

\* The iterator of the cleanup has only entries of the table before it.
Entries == [value : Values, never_expire : BOOLEAN, expire_time : Int]

TypeOK ==
    /\ clock \in 0 .. MaxClock
    /\ cache_store_ \in [Keys -> Entries \cup {Absent}]
    /\ {hit_count_, miss_count_, total_operations_, lookups} \subseteq Nat
    /\ pc \in [Clients -> {"idle", "lookup", "count", "total", "stats"}]
    /\ todo \in [Clients -> Seq(Keys)]
    /\ got \in [Clients -> Seq(Keys \X (Values \cup {Absent}))]
    /\ began \in [Clients -> 0 .. MaxClock]
    /\ loads \in [Clients -> Seq(Nat)]
    /\ cleaner \in {"test", "sleep", "scan", "done"}
    /\ unscanned \subseteq Stored
    /\ should_stop_cleanup_ \in BOOLEAN
    /\ ops \in 0 .. MaxOps

\* What a caller is owed at a time: the table without the entries whose
\* deadline has passed, cleaned up or not.
Live(e, time) ==
    IF e # Absent /\ (e.never_expire \/ time <= e.expire_time)
    THEN [value |-> e.value, deadline |-> IF e.never_expire THEN Absent ELSE e.expire_time]
    ELSE Absent

LiveAt(time) == [k \in Keys |-> Live(cache_store_[k], time)]

Map == INSTANCE TtlMap WITH Forever <- 0, now <- clock, live <- LiveAt(clock), answers <- got

\* The service implements a map with times to live: every read, also within a
\* batch, is of the live map at that instant, and cleaning up is invisible.
ImplementsTtlMap == Map!Spec

\* A reader that has found an entry still has it when it copies the value: no
\* writer and no cleanup runs while the lock is held in shared mode.
ReaderEntryStays == \A c \in Clients :
    pc[c] = "count" =>
        LET last == got[c][Len(got[c])] IN
        last[2] # Absent => last[1] \in Stored /\ cache_store_[last[1]].value = last[2]

\* Every key looked up is counted, once, as a hit or as a miss.
LookupsCounted ==
    hit_count_ + miss_count_ + Cardinality({c \in Clients : pc[c] = "count"}) = lookups

\* An expired entry does not stay in the table for ever, read or not.
ExpiredIsPurged == \A k \in Keys :
    (k \in Stored /\ LiveAt(clock)[k] = Absent)
        ~> (k \notin Stored \/ LiveAt(clock)[k] # Absent \/ should_stop_cleanup_)

\* The destructor's join returns.
DestructorReturns == should_stop_cleanup_ ~> cleaner = "done"

\* A batch as documented ("atomic ... consistent"): its answers are those of
\* one instant between its lock and its unlock.
BatchIsAtomic == \A c \in Clients :
    pc[c] = "lookup" /\ todo[c] = <<>> =>
        \E time \in began[c] .. clock : \A i \in 1 .. Len(got[c]) :
            LET e == LiveAt(time)[got[c][i][1]] IN
            got[c][i][2] = IF e = Absent THEN Absent ELSE e.value
=============================================================================
