---------------------------- MODULE ClientPrograms ----------------------------
(****************************************************************************)
(* The two client programs: the load generator (Zclient.cc), whose threads  *)
(* repeat send_request, test_cache_service or test_integrated_business, and *)
(* the main of IntegratedClient (integrated_client.cc).  What they make of  *)
(* the calls they issue on kept channels, through controllers, and of the   *)
(* values that the cache and the user service give them.                    *)
(*                                                                          *)
(* A call is seen from its caller (ZrpcChannel has the system calls).  The  *)
(* first call that connects uses its channel up; until then a call may fail *)
(* visibly, invisibly, or end the process.  Later the channel's number is   *)
(* closed, or stands for another socket of the process by now: what comes   *)
(* of that is the subject of ZrpcChannel, here the process is given up.     *)
(* After a reset the number is still open, and a send fails as on a closed  *)
(* one: that a process which does not ignore SIGPIPE dies is left out.      *)
(* Threads that run the same program are one process.  Of the user service  *)
(* there is its answer and the one cache call that its own channel can make *)
(* (UserService).  Nothing expires.                                         *)
(****************************************************************************)
EXTENDS Integers, Sequences, FiniteSets

CONSTANTS
    Threads,    \* client threads
    Programs,   \* which thread may run which program: functions on Threads
    Rounds,     \* BOUND: requests_per_thread, 20 in the code
    Faulty      \* whether lookups, connects and connections may fail

\* The names the programs use themselves are no thread's, and the main of
\* IntegratedClient is one thread.
ASSUME ConstantsAssumption ==
    /\ Programs \subseteq [Threads -> {"user", "cache", "integrated", "app", "idle"}]
    /\ \A p \in Programs : \A s, t \in Threads : p[s] = "app" /\ p[t] = "app" => s = t
    /\ "zhangsan" \notin Threads
    /\ Rounds \in Nat
    /\ Faulty \in BOOLEAN

VARIABLES
    program,    \* program[t]: "user", "cache", "integrated", "app" or "idle"
    step,       \* step[t]: the call t makes next or is in, or "done"
    round,      \* round[t]: the functions t has been through
    pc,         \* pc[t]: "call", or "sent": in recv
    channel,    \* channel[t]: user_channel and cache_channel
    controller, \* controller[t]: Failed() of the last controller t made
    profile,    \* profile[t]: the local profile_data
    count,      \* count[t]: what t added to success_count and fail_count
    results,    \* results[t]: what the functions of IntegratedClient returned
    reply,      \* reply[t]: the reply on its way to t, <<>> if none
    cache,      \* the cache service: key -> value
    service,    \* the user service's channel: "new", "used", "stored" (for a Set)
    ended,      \* how a process ended: program -> "no", "null" or "throw", or
                \* "mixed": it used a number that is another socket's by now
    seen,       \* history: seen[t], what has become of t's calls; "blank": a profile
                \* was asked for and nothing came, not even a failure
    loggedIn    \* history: the names the user service has logged in

local  == <<program, round, step, controller, profile, count, results>>
server == <<cache, service, loggedIn>>
vars   == <<local, pc, channel, reply, server, ended, seen>>

----------------------------------------------------------------------------
(* Keys, values and replies.                                                *)

Absent == <<"absent">>
Empty  == <<"empty">>
Yes    == <<"true">>
No     == <<"false">>

Name(t)    == IF program[t] \in {"user", "app"} THEN "zhangsan" ELSE t
Session(n) == <<"session", n>>
Profile(n) == <<"profile", n>>
ProfileOf(key) == <<"profile of", key[2]>>
Token(key)     == <<"token", key[2]>>

\* Every response: its result code, its second field if a bool (success,
\* exists) and its value.  Default is a response nothing was parsed into.
Reply(errcode, flag, value) == [errcode |-> errcode, flag |-> flag, value |-> value]
Default == Reply(0, FALSE, Empty)

----------------------------------------------------------------------------
(* The calls the programs make and what they do next.                       *)

To(service_name, method, key, value) ==
    [service |-> service_name, method |-> method, key |-> key, value |-> value]

Request(t) ==
    LET session == Session(Name(t))
    IN  CASE step[t] \in {"Login", "LoginUser"} -> To("user", "Login", session, Empty)
          [] step[t] \in {"Register", "RegisterUser"} ->
                 To("user", "Register", Profile("new"), Empty)
          [] step[t] = "GetUserProfile" -> To("user", "GetUserProfile", Profile(t), Empty)
          [] step[t] = "CheckUserSession" -> To("cache", "Exists", session, Empty)
          [] step[t] = "CacheUserSession" -> To("cache", "Set", session, Token(session))
          [] step[t] = "GetFromCache" -> To("cache", "Get", Profile(t), Empty)
          [] step[t] = "SetToCache" -> To("cache", "Set", Profile(t), profile[t])
          [] step[t] = "DeleteFromCache" -> To("cache", "Delete", Profile("new"), Empty)
          [] step[t] = "GetStats" -> To("cache", "GetStats", Profile("new"), Empty)
          [] step[t] = "Set" -> To("cache", "Set", <<"user", t>>, Token(<<"user", t>>))
          [] step[t] = "Get" -> To("cache", "Get", <<"user", t>>, Empty)
          [] step[t] = "Exists" -> To("cache", "Exists", <<"user", t>>, Empty)

\* Register is called with nullptr, and judged by the controller of Login.
Checked(t) == step[t] # "Register"

Then(success, fail, next) == [success |-> success, fail |-> fail, next |-> next, result |-> <<>>]
Result(value) == [success |-> 0, fail |-> 0, next |-> "end", result |-> <<value>>]
Count(good, next) == IF good THEN Then(1, 0, next) ELSE Then(0, 1, next)

send_request(at, failed, r) ==
    Count(~failed /\ r.errcode = 0, IF at = "Login" THEN "Register" ELSE "end")

test_cache_service(at, failed, r) ==
    CASE at = "Set" -> Count(~failed, "Get")
      [] at = "Get" -> Count(~failed /\ r.flag, "Exists")
      [] at = "Exists" -> Count(~failed, "end")

\* Mutant: login_response.success() is not looked at.
BusinessAnyLogin(at, failed, r) ==
    CASE at = "CheckUserSession" ->
           IF ~failed /\ r.flag THEN Then(1, 0, "GetFromCache") ELSE Then(0, 0, "LoginUser")
      [] at = "LoginUser" ->
           IF ~failed THEN Then(0, 0, "CacheUserSession") ELSE Then(0, 1, "GetFromCache")
      [] at = "CacheUserSession" ->
           IF ~failed THEN Then(2, 0, "GetFromCache") ELSE Then(1, 1, "GetFromCache")
      [] at = "GetFromCache" ->
           IF ~failed /\ r.flag THEN Then(1, 0, "end") ELSE Then(0, 0, "GetUserProfile")
      [] at = "GetUserProfile" ->
           IF ~failed /\ r.errcode = 0 THEN Then(0, 0, "SetToCache") ELSE Then(0, 1, "end")
      [] at = "SetToCache" -> IF ~failed THEN Then(2, 0, "end") ELSE Then(1, 1, "end")

test_integrated_business(at, failed, r) ==
    CASE at = "CheckUserSession" ->
           IF ~failed /\ r.flag THEN Then(1, 0, "GetFromCache") ELSE Then(0, 0, "LoginUser")
      [] at = "LoginUser" ->
           IF ~failed /\ r.flag THEN Then(0, 0, "CacheUserSession") ELSE Then(0, 1, "GetFromCache")
      [] at = "CacheUserSession" ->
           IF ~failed THEN Then(2, 0, "GetFromCache") ELSE Then(1, 1, "GetFromCache")
      [] at = "GetFromCache" ->
           IF ~failed /\ r.flag THEN Then(1, 0, "end") ELSE Then(0, 0, "GetUserProfile")
      [] at = "GetUserProfile" ->
           IF ~failed /\ r.errcode = 0 THEN Then(0, 0, "SetToCache") ELSE Then(0, 1, "end")
      [] at = "SetToCache" -> IF ~failed THEN Then(2, 0, "end") ELSE Then(1, 1, "end")

\* Mutant: controller.Failed() is not looked at.
ProfileUnchecked(at, failed, r, data) ==
    CASE at = "GetFromCache" ->
           IF ~failed /\ r.flag /\ r.value # Empty THEN Result(r.value)
           ELSE Then(0, 0, "GetUserProfile")
      [] at = "GetUserProfile" ->
           IF r.errcode = 0 THEN Then(0, 0, "SetToCache") ELSE Result(Empty)
      [] at = "SetToCache" -> Result(data)

\* LoginWithCache with CheckUserSession and CacheUserSession.
LoginWithCache(at, failed, r) ==
    CASE at = "CheckUserSession" -> IF ~failed /\ r.flag THEN Result(Yes) ELSE Then(0, 0, "LoginUser")
      [] at = "LoginUser" ->
           IF ~failed /\ r.errcode = 0 /\ r.flag THEN Then(0, 0, "CacheUserSession") ELSE Result(No)
      [] at = "CacheUserSession" -> Result(Yes)

\* GetUserProfileWithCache with GetFromCache and SetToCache; data is the
\* profile the user service gave.
GetUserProfileWithCache(at, failed, r, data) ==
    CASE at = "GetFromCache" ->
           IF ~failed /\ r.flag /\ r.value # Empty THEN Result(r.value)
           ELSE Then(0, 0, "GetUserProfile")
      [] at = "GetUserProfile" ->
           IF ~failed /\ r.errcode = 0 THEN Then(0, 0, "SetToCache") ELSE Result(Empty)
      [] at = "SetToCache" -> Result(data)

\* RegisterWithCacheInvalidation with DeleteFromCache.
RegisterWithCacheInvalidation(at, failed, r) ==
    IF at = "DeleteFromCache" THEN Result(Yes)
    ELSE IF ~failed /\ r.errcode = 0 /\ r.flag THEN Then(0, 0, "DeleteFromCache")
    ELSE Result(No)

ShowCacheStats(failed) == Result(IF failed THEN No ELSE Yes)

\* What main of IntegratedClient calls.
IntegratedClient(at, failed, r, data) ==
    CASE at \in {"CheckUserSession", "LoginUser", "CacheUserSession"} ->
             LoginWithCache(at, failed, r)
      [] at \in {"GetFromCache", "GetUserProfile", "SetToCache"} ->
             GetUserProfileWithCache(at, failed, r, data)
      [] at \in {"RegisterUser", "DeleteFromCache"} ->
             RegisterWithCacheInvalidation(at, failed, r)
      [] OTHER -> ShowCacheStats(failed)

After(t, failed, r) ==
    CASE program[t] = "user" -> send_request(step[t], failed, r)
      [] program[t] = "cache" -> test_cache_service(step[t], failed, r)
      [] program[t] = "integrated" -> test_integrated_business(step[t], failed, r)
      [] OTHER -> IntegratedClient(step[t], failed, r, profile[t])

\* The functions t goes through, by their first calls.
Script(t) ==
    CASE program[t] = "user"       -> [i \in 1 .. Rounds |-> "Login"]
      [] program[t] = "cache"      -> [i \in 1 .. Rounds |-> "Set"]
      [] program[t] = "integrated" -> [i \in 1 .. Rounds |-> "CheckUserSession"]
      [] program[t] = "app"        -> <<"CheckUserSession", "CheckUserSession", "GetFromCache",
                               "GetFromCache", "RegisterUser", "GetStats">>
      [] OTHER -> <<>>

----------------------------------------------------------------------------
(* A call.                                                                  *)

\* idx: m_idx was set by a lookup.
NewChannel  == [fd |-> "new", idx |-> FALSE]
NewChannels == [user |-> NewChannel, cache |-> NewChannel]

Channel(t) == channel[t][Request(t).service]
Calls(t)   == pc[t] = "call" /\ step[t] # "done" /\ ended[program[t]] = "no"
Looking(t) == Calls(t) /\ Channel(t).fd = "new"
InRecv(t)  == pc[t] = "sent" /\ ended[program[t]] = "no"

LookedUp(t, fd) ==
    [channel[t] EXCEPT ![Request(t).service] = [fd |-> fd, idx |-> TRUE]]

\* CallMethod returns with r in the response, and the caller goes on with the
\* channels chs; the load generator makes new ones for every function.
Return(t, fails, r, what, chs) ==
    LET failed == IF Checked(t) THEN fails ELSE controller[t]
        after  == After(t, failed, r)
        over   == after.next = "end"
        script == Script(t)
        n      == round[t] + 1
    IN  /\ controller' = [controller EXCEPT ![t] = failed]
        /\ profile' = [profile EXCEPT ![t] = IF over THEN Empty
                                            ELSE IF step[t] = "GetUserProfile" THEN r.value ELSE @]
        /\ count' = [count EXCEPT ![t] = [success |-> @.success + after.success,
                                          fail |-> @.fail + after.fail]]
        /\ results' = [results EXCEPT ![t] = @ \o after.result]
        /\ round' = IF over THEN [round EXCEPT ![t] = n] ELSE round
        /\ step' = [step EXCEPT ![t] = IF ~over THEN after.next
                                       ELSE IF n < Len(script) THEN script[n + 1] ELSE "done"]
        /\ channel' = [channel EXCEPT ![t] =
                          IF over /\ program[t] # "app" THEN NewChannels ELSE chs]
        /\ pc' = [pc EXCEPT ![t] = "call"]
        /\ reply' = [reply EXCEPT ![t] = <<>>]
        /\ seen' = [seen EXCEPT ![t] = @ \cup {what} \cup
                       (IF step[t] = "GetUserProfile" /\ ~failed /\ what # "answered"
                        THEN {"blank"} ELSE {})]
        /\ UNCHANGED program

\* The process is gone.
End(t, how) ==
    /\ ended' = [ended EXCEPT ![program[t]] = how]
    /\ UNCHANGED <<local, pc, channel, reply, server, seen>>

\* controller->SetFailed: through a null pointer if there is none.
Fail(t, what) ==
    IF Checked(t) THEN Return(t, TRUE, Default, what, channel[t]) /\ UNCHANGED <<server, ended>>
    ELSE End(t, "null")

\* Mutant: a name that is not found ends the process at once.
NotFoundThrows(t) ==
    /\ Faulty /\ Looking(t)
    /\ End(t, "throw")

\* No address: QueryServiceHost returns " ", which CallMethod cuts at m_idx.
\* Is that the index of an earlier lookup, substr throws; if not, it connects
\* to nowhere and returns as if nothing had happened.
NotFound(t) ==
    /\ Faulty /\ Looking(t)
    /\ IF Channel(t).idx THEN End(t, "throw")
       ELSE /\ Return(t, FALSE, Default, "unknown", channel[t])
            /\ UNCHANGED <<server, ended>>

\* The heartbeat gate refuses.
Refused(t) ==
    /\ Faulty /\ Looking(t)
    /\ Return(t, TRUE, Default, "refused", LookedUp(t, "new"))
    /\ UNCHANGED <<server, ended>>

\* newConnectWithTimeout fails: CallMethod returns, unfailed.
NoConnection(t) ==
    /\ Faulty /\ Looking(t)
    /\ Return(t, FALSE, Default, "silent", LookedUp(t, "new"))
    /\ UNCHANGED <<server, ended>>

\* Mutant: the channel can connect again.
ConnectAgain(t) ==
    /\ Looking(t)
    /\ channel' = [channel EXCEPT ![t] = LookedUp(t, "new")]
    /\ pc' = [pc EXCEPT ![t] = "sent"]
    /\ UNCHANGED <<local, reply, server, ended, seen>>

Connect(t) ==
    /\ Looking(t)
    /\ channel' = [channel EXCEPT ![t] = LookedUp(t, "used")]
    /\ pc' = [pc EXCEPT ![t] = "sent"]
    /\ UNCHANGED <<local, reply, server, ended, seen>>

\* The descriptor of a channel that was used is closed: EBADF.
SendFails(t) ==
    /\ Calls(t) /\ Channel(t).fd = "used"
    /\ Fail(t, "ebadf")

\* Or the number is that of another thread's call by now, or of a probe of
\* the heartbeat worker: the request goes out there.
Borrow(t) ==
    /\ Calls(t) /\ Channel(t).fd = "used"
    /\ End(t, "mixed")

Receive(t) ==
    /\ InRecv(t) /\ reply[t] # <<>>
    /\ Return(t, FALSE, reply[t][1], "answered", channel[t])
    /\ UNCHANGED <<server, ended>>

\* The connection ends, before or after the request was executed: end of file
\* parses, a reset and a reply that is cut badly are failures.
Ended(t) ==
    /\ InRecv(t) /\ Faulty
    /\ Return(t, FALSE, Default, "ended", channel[t])
    /\ UNCHANGED <<server, ended>>

Lost(t) ==
    /\ InRecv(t) /\ Faulty
    /\ Fail(t, "lost")

----------------------------------------------------------------------------
(* The provider.                                                            *)

Answer(t, r) == reply' = [reply EXCEPT ![t] = <<r>>]

ServeCache(t) ==
    LET q    == Request(t)
        name == q.method
        hit  == cache[q.key] # Absent
    IN  /\ InRecv(t) /\ q.service = "cache" /\ reply[t] = <<>>
        /\ cache' = CASE name = "Set" -> [cache EXCEPT ![q.key] = q.value]
                      [] name = "Delete" -> [cache EXCEPT ![q.key] = Absent]
                      [] OTHER -> cache
        /\ Answer(t, CASE name = "Get" -> IF hit THEN Reply(0, TRUE, cache[q.key])
                                          ELSE Reply(1, FALSE, Empty)
                       [] name = "Exists" -> Reply(0, hit, Empty)
                       [] name = "Delete" -> Reply(IF hit THEN 0 ELSE 1, FALSE, Empty)
                       [] OTHER -> Default)
        /\ UNCHANGED <<local, pc, channel, service, ended, seen, loggedIn>>

\* UserService.  Its channel serves one cache call: the lookup or deletion its
\* handlers start with, or, when that one did not get through, the Set they
\* end with.
ServeUser(t) ==
    LET q     == Request(t)
        local_value == IF q.method = "Login" THEN Token(q.key) ELSE ProfileOf(q.key)
        cached == cache[q.key] \notin {Absent, Empty}
    IN  /\ InRecv(t) /\ q.service = "user" /\ reply[t] = <<>>
        /\ loggedIn' = IF q.method = "Login" THEN loggedIn \cup {q.key[2]} ELSE loggedIn
        /\ \/ /\ service = "new" => Faulty
              /\ Answer(t, Reply(0, TRUE, local_value))
              /\ UNCHANGED <<cache, service>>
           \/ /\ service = "new" /\ service' = "used"
              /\ cache' = IF q.method = "Register"
                          THEN [cache EXCEPT ![q.key] = Absent] ELSE cache
              /\ Answer(t, Reply(0, TRUE, IF cached THEN cache[q.key] ELSE local_value))
           \/ /\ service = "new" /\ Faulty /\ q.method # "Register"
              /\ service' = "stored"
              /\ cache' = [cache EXCEPT ![q.key] = local_value]
              /\ Answer(t, Reply(0, TRUE, local_value))
        /\ UNCHANGED <<local, pc, channel, ended, seen>>

----------------------------------------------------------------------------
Keys == {Session(n) : n \in Threads \cup {"zhangsan"}}
          \cup {Profile(n) : n \in Threads \cup {"new"}} \cup {<<"user", t>> : t \in Threads}

Init == /\ program \in Programs
        /\ step = [t \in Threads |-> IF Script(t) = <<>> THEN "done" ELSE Script(t)[1]]
        /\ round = [t \in Threads |-> 0]
        /\ pc = [t \in Threads |-> "call"]
        /\ channel = [t \in Threads |-> NewChannels]
        /\ controller = [t \in Threads |-> FALSE]
        /\ profile = [t \in Threads |-> Empty]
        /\ count = [t \in Threads |-> [success |-> 0, fail |-> 0]]
        /\ results = [t \in Threads |-> <<>>]
        /\ reply = [t \in Threads |-> <<>>]
        /\ cache = [k \in Keys |-> Absent]
        /\ service = "new"
        /\ ended = [p \in {"user", "cache", "integrated", "app"} |-> "no"]
        /\ seen = [t \in Threads |-> {}]
        /\ loggedIn = {}

Next == \E t \in Threads :
    \/ NotFound(t) \/ Refused(t) \/ NoConnection(t) \/ Connect(t)
    \/ SendFails(t) \/ Borrow(t)
    \/ ServeCache(t) \/ ServeUser(t)
    \/ Receive(t) \/ Ended(t) \/ Lost(t)

Spec == Init /\ [][Next]_vars

----------------------------------------------------------------------------
(* Properties.                                                              *)

Between(t) == pc[t] = "call" /\ (step[t] = "done" \/ step[t] = Script(t)[round[t] + 1])
Prefix(s, whole) == s = SubSeq(whole, 1, Len(s))

\* What the counters say of a provider that answers whatever reaches it: one
\* call of each channel succeeds, what the functions do with the rest fails,
\* send_request ends the process, and IntegratedClient cannot log in twice.
LiveOutcome == \A t \in Threads :
    (Between(t) /\ seen[t] \subseteq {"answered", "ebadf"} /\ service # "stored") =>
        CASE program[t] = "user" -> round[t] = 0
          [] program[t] = "app" -> Prefix(results[t], <<Yes, No, Empty, Empty, No, No>>)
          [] OTHER -> count[t] = [success |-> round[t], fail |-> 2 * round[t]]

\* And of a provider that cannot be reached at all: more successes.
DeadOutcome == \A t \in Threads :
    (Between(t) /\ seen[t] \subseteq {"unknown", "silent", "blank"}) =>
        CASE program[t] = "user" -> count[t] = [success |-> 2 * round[t], fail |-> 0]
          [] program[t] = "app" -> Prefix(results[t], <<No, No, Empty, Empty, No, Yes>>)
          [] OTHER -> count[t] = [success |-> 2 * round[t], fail |-> round[t]]

\* The counters and results tell these two apart, and say nothing else.
OutcomeFollows == LiveOutcome /\ DeadOutcome

\* Whoever has a session in the cache has been logged in by the user service,
\* whichever calls failed without saying so.
SessionMeansLogin ==
    \A n \in Threads \cup {"zhangsan"} : cache[Session(n)] # Absent => n \in loggedIn

\* A profile in the cache is that of its user, or empty: and then a lookup in
\* the user service came back with nothing and was taken for an answer.
ProfileIsOwnOrEmpty == \A t \in Threads :
    \/ cache[Profile(t)] \in {Absent, ProfileOf(Profile(t))}
    \/ cache[Profile(t)] = Empty /\ "blank" \in seen[t]

\* How a process comes to an end in a call of t: in Register, which has no
\* controller, on a channel that was used; in a lookup, on a channel that still
\* has the index of an earlier one, when the gate or the connect had failed
\* after a lookup; on a number that an earlier call left behind.
EndsIn(t, how) ==
    /\ step[t] # "done"
    /\ \/ how = "null" /\ step[t] = "Register" /\ Channel(t).fd = "used"
       \/ /\ how = "throw" /\ Channel(t) = [fd |-> "new", idx |-> TRUE]
          /\ seen[t] \cap {"refused", "silent"} # {}
       \/ /\ how = "mixed" /\ Channel(t).fd = "used"
          /\ seen[t] \cap {"answered", "ended", "lost"} # {}

\* A client process that ends does so in one of these three ways.
EndIsExplained == \A p \in DOMAIN ended :
    ended[p] # "no" => \E t \in Threads : program[t] = p /\ EndsIn(t, ended[p])

=============================================================================
