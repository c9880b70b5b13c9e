------------------------------- MODULE TtlMap -------------------------------
(***************************************************************************)
(* What the cache promises its callers: a map whose entries vanish when    *)
(* their time is over.  A read is of the present map; nobody sees an entry *)
(* that is over, or misses one that is not.  CacheService implements it    *)
(* with entries that stay in its table until a cleanup thread passes by.   *)
(***************************************************************************)
EXTENDS Integers, Sequences

CONSTANTS
    Clients, Keys, Values,
    Ttls,      \* times to live
    Forever,   \* the one that stands for "never expires"
    Absent,    \* no entry; no deadline
    MaxClock   \* bound on the clock

VARIABLES
    now,     \* the time
    live,    \* live[k]: the entry of key k, or Absent
    answers  \* answers[c]: what the request of client c has read so far

vars == <<now, live, answers>>

Init ==
    /\ now = 0
    /\ live = [k \in Keys |-> Absent]
    /\ answers = [c \in Clients |-> <<>>]

Entry(v, ttl) == [value |-> v, deadline |-> IF ttl = Forever THEN Absent ELSE now + ttl]
Over(e, time) == e.deadline # Absent /\ e.deadline < time

Put(k, v, ttl) ==
    /\ live' = [live EXCEPT ![k] = IF Over(Entry(v, ttl), now) THEN Absent ELSE Entry(v, ttl)]
    /\ UNCHANGED <<now, answers>>

Remove(k) ==
    /\ live' = [live EXCEPT ![k] = Absent]
    /\ UNCHANGED <<now, answers>>

Finish(c) ==
    /\ answers' = [answers EXCEPT ![c] = <<>>]
    /\ UNCHANGED <<now, live>>

Answer(k) == <<k, IF live[k] = Absent THEN Absent ELSE live[k].value>>

Read(c, k) ==
    /\ answers' = [answers EXCEPT ![c] = Append(@, Answer(k))]
    /\ UNCHANGED <<now, live>>

Advance ==
    /\ now < MaxClock
    /\ now' = now + 1
    /\ live' = [k \in Keys |-> IF live[k] # Absent /\ Over(live[k], now')
                               THEN Absent ELSE live[k]]
    /\ UNCHANGED answers

Next ==
    \/ \E k \in Keys :
          \/ \E v \in Values, ttl \in Ttls : Put(k, v, ttl)
          \/ Remove(k)
          \/ \E c \in Clients : Read(c, k)
    \/ \E c \in Clients : Finish(c)
    \/ Advance

Spec == Init /\ [][Next]_vars
=============================================================================
