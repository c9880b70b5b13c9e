------------------------ MODULE ClientProgramsProofs ------------------------
(****************************************************************************)
(* Proofs about the two client programs: for any number of threads that run *)
(* any mix of them, and any number of rounds.                               *)
(*                                                                          *)
(* The invariant has five parts, each proved with the help of those before. *)
(*   Types    the types; a thread is in a call of the function it has got   *)
(*            to, and a call under way has used its channel up.             *)
(*   Data     what the user service replies (Replied) and what the caller   *)
(*            may be about to store because of it: a session of a name that *)
(*            is logged in, a profile that is its own or a blank one.       *)
(*   Ends     why a process has ended; that a channel that is still new but *)
(*            has an index is one whose lookup led to nothing, and that a   *)
(*            call on a channel that was used comes after one that was not  *)
(*            refused.                                                      *)
(*   LiveInv  where a thread can be, and what it has counted or returned by *)
(*            then, if the provider has answered everything that reached    *)
(*            it; only the first three calls of a round find a new channel. *)
(*   DeadInv  the same if the provider was never reached.                   *)
(* LiveInv and DeadInv say of every step within a function what the outcome *)
(* properties say between two functions only.                               *)
(*                                                                          *)
(* A step is one of four: a call returns (Returning), a process ends        *)
(* (Ending), a call connects, or the provider serves one (Served).          *)
(****************************************************************************)
EXTENDS ClientPrograms, SequenceTheorems, TLAPS

Ids == {"user", "cache", "integrated", "app"}
Channels == [fd : {"new", "used"}, idx : BOOLEAN]
Vals == {Empty, Yes, No} \cup {Token(k) : k \in Keys} \cup {ProfileOf(k) : k \in Keys}
Replies == [errcode : {0, 1}, flag : BOOLEAN, value : Vals]

\* The calls of the function that is run in round n.
AppSteps(n) == CASE n \in {0, 1} -> {"CheckUserSession", "LoginUser", "CacheUserSession"}
                 [] n \in {2, 3} -> {"GetFromCache", "GetUserProfile", "SetToCache"}
                 [] n = 4 -> {"RegisterUser", "DeleteFromCache"}
                 [] n = 5 -> {"GetStats"}
                 [] OTHER -> {"done"}
Steps(p, n) ==
    IF p = "app" THEN AppSteps(n)
    ELSE IF p = "idle" \/ n = Rounds THEN {"done"}
    ELSE CASE p = "user" -> {"Login", "Register"}
           [] p = "cache" -> {"Set", "Get", "Exists"}
           [] p = "integrated" -> {"CheckUserSession", "LoginUser", "CacheUserSession",
                                   "GetFromCache", "GetUserProfile", "SetToCache"}
Last(p) == CASE p = "app" -> 6 [] p = "idle" -> 0 [] OTHER -> Rounds

ThreadTypes ==
    /\ program \in Programs
    /\ round \in [Threads -> Nat]
    /\ \A t \in Threads : round[t] <= Last(program[t]) /\ step[t] \in Steps(program[t], round[t])
    /\ DOMAIN step = Threads
    /\ pc \in [Threads -> {"call", "sent"}]
    /\ channel \in [Threads -> [user : Channels, cache : Channels]]
    /\ controller \in [Threads -> BOOLEAN]
    /\ profile \in [Threads -> Vals]
    /\ count \in [Threads -> [success : Nat, fail : Nat]]
    /\ results \in [Threads -> Seq(Vals)]
    /\ seen \in [Threads -> SUBSET {"answered", "ebadf", "ended", "lost", "unknown", "silent", "refused", "blank"}]

ServerTypes ==
    /\ reply \in [Threads -> {<<>>} \cup {<<r>> : r \in Replies}]
    /\ cache \in [Keys -> Vals \cup {Absent}]
    /\ service \in {"new", "used", "stored"}
    /\ ended \in [Ids -> {"no", "null", "throw", "mixed"}]

\* A call that is under way has used its channel up, and its reply is to it.
Calling == \A t \in Threads :
    /\ pc[t] = "sent" => step[t] # "done" /\ channel[t][Request(t).service].fd = "used"
    /\ reply[t] # <<>> => pc[t] = "sent"

Types == ThreadTypes /\ ServerTypes /\ Calling

Own(t) == ProfileOf(Profile(t))
Blank(t) == "blank" \in seen[t]

\* What the user service replies.
Replied == \A t \in Threads : reply[t] # <<>> =>
    /\ step[t] = "LoginUser" => Name(t) \in loggedIn /\ reply[t][1].flag /\ reply[t][1].errcode = 0
    /\ step[t] = "GetUserProfile" => reply[t][1].value = Own(t)

Sessions == /\ SessionMeansLogin
            /\ \A t \in Threads : step[t] = "CacheUserSession" => Name(t) \in loggedIn

Profiles == /\ ProfileIsOwnOrEmpty
            /\ \A t \in Threads : step[t] = "SetToCache" =>
                  profile[t] = Own(t) \/ (profile[t] = Empty /\ Blank(t))

\* What t has seen of its lookups that found an address, and of its connections.
Found(t) == seen[t] \cap {"refused", "silent"} # {}
Spoken(t) == seen[t] \cap {"answered", "ended", "lost"} # {}

Ends == /\ EndIsExplained
        /\ \A t \in Threads : \A s \in {"user", "cache"} :
              /\ channel[t][s].fd = "new" /\ channel[t][s].idx => Found(t)
              /\ pc[t] = "call" /\ channel[t][s].fd = "used" => Spoken(t)

-----------------------------------------------------------------------------
(* What a thread has counted or returned at each step of its function.     *)

LiveResults == <<Yes, No, Empty, Empty, No, No>>
DeadResults == <<No, No, Empty, Empty, No, Yes>>

Counted(t, s, f) == count[t] = [success |-> s, fail |-> f]
Unused(t, s) == channel[t][s].fd = "new"
Spent(t) == pc[t] = "call" /\ ~Unused(t, "user") /\ ~Unused(t, "cache")

\* The provider has answered everything of t's that reached it, and the user
\* service has stored nothing.
Live(t) == seen[t] \subseteq {"answered", "ebadf"} /\ service # "stored"

\* The two calls that still have a channel, and the others.
Checking(t) == /\ step[t] = "CheckUserSession" /\ Unused(t, "user")
               /\ pc[t] = "call" => Unused(t, "cache")
               /\ reply[t] # <<>> => ~reply[t][1].flag
LoggingIn(t) == /\ step[t] = "LoginUser" /\ ~Unused(t, "cache")
                /\ pc[t] = "call" => Unused(t, "user")

\* Where t can be then: n successes and 2 * n failures after n functions, and
\* the first call on a new channel is the one that succeeds.
LiveUser(t) == /\ round[t] = 0
               /\ \/ step[t] = "done"
                  \/ step[t] = "Login" /\ (pc[t] = "call" => Unused(t, "user"))
                  \/ step[t] = "Register" /\ pc[t] = "call" /\ ~Unused(t, "user")
LiveCache(t) == LET n == round[t] IN
    \/ step[t] \in {"Set", "done"} /\ Counted(t, n, 2 * n) /\ (pc[t] = "call" => Unused(t, "cache"))
    \/ step[t] = "Get" /\ pc[t] = "call" /\ ~Unused(t, "cache") /\ Counted(t, n + 1, 2 * n)
    \/ step[t] = "Exists" /\ pc[t] = "call" /\ ~Unused(t, "cache") /\ Counted(t, n + 1, 2 * n + 1)
LiveIntegrated(t) == LET n == round[t] IN
    /\ cache[Session(Name(t))] = Absent
    /\ \/ step[t] = "done" /\ Counted(t, n, 2 * n)
       \/ Checking(t) /\ Counted(t, n, 2 * n)
       \/ LoggingIn(t) /\ Counted(t, n, 2 * n)
       \/ step[t] = "CacheUserSession" /\ Spent(t) /\ Counted(t, n, 2 * n)
       \/ step[t] \in {"GetFromCache", "GetUserProfile"} /\ Spent(t) /\ Counted(t, n + 1, 2 * n + 1)
LiveApp(t) ==
    /\ cache[Session(Name(t))] = Absent
    /\ results[t] = SubSeq(LiveResults, 1, round[t])
    /\ \/ round[t] = 0 /\ (Checking(t) \/ LoggingIn(t) \/ (step[t] = "CacheUserSession" /\ Spent(t)))
       \/ round[t] > 0 /\ Spent(t) /\ step[t] \notin {"CacheUserSession", "SetToCache", "DeleteFromCache"}

LiveAt(t) ==
    CASE program[t] = "user" -> LiveUser(t)
      [] program[t] = "cache" -> LiveCache(t)
      [] program[t] = "integrated" -> LiveIntegrated(t)
      [] program[t] = "app" -> LiveApp(t)
      [] OTHER -> Counted(t, 0, 0)
LiveInv == \A t \in Threads : Live(t) => LiveAt(t)

\* Nothing of t's has ever reached the provider.
Dead(t) == pc[t] = "call" /\ seen[t] \subseteq {"unknown", "silent", "blank"}

\* Then what is not checked is taken for a success, and a hit for a miss.
DeadUser(t) == LET n == round[t] IN
    \/ step[t] \in {"Login", "done"} /\ Counted(t, 2 * n, 0)
    \/ step[t] = "Register" /\ ~controller[t] /\ Counted(t, 2 * n + 1, 0)
DeadCache(t) == LET n == round[t] IN
    \/ step[t] \in {"Set", "done"} /\ Counted(t, 2 * n, n)
    \/ step[t] = "Get" /\ Counted(t, 2 * n + 1, n)
    \/ step[t] = "Exists" /\ Counted(t, 2 * n + 1, n + 1)
DeadIntegrated(t) == LET n == round[t] IN
    \/ step[t] \in {"CheckUserSession", "LoginUser", "done"} /\ Counted(t, 2 * n, n)
    \/ step[t] \in {"GetFromCache", "GetUserProfile", "SetToCache"} /\ Counted(t, 2 * n, n + 1)
DeadApp(t) ==
    /\ results[t] = SubSeq(DeadResults, 1, round[t])
    /\ step[t] \notin {"CacheUserSession", "DeleteFromCache"}
    /\ step[t] = "SetToCache" => profile[t] = Empty

DeadAt(t) ==
    CASE program[t] = "user" -> DeadUser(t)
      [] program[t] = "cache" -> DeadCache(t)
      [] program[t] = "integrated" -> DeadIntegrated(t)
      [] program[t] = "app" -> DeadApp(t)
      [] OTHER -> Counted(t, 0, 0)
DeadInv == \A t \in Threads : Dead(t) => DeadAt(t)

-----------------------------------------------------------------------------
(* Requests, channels and what follows a call.                             *)

LEMMA ProgramFact ==
    ASSUME program \in Programs, NEW t \in Threads
    PROVE  /\ program[t] \in Ids \cup {"idle"}
           /\ Name(t) \in Threads \cup {"zhangsan"}
           /\ program[t] = "integrated" => Name(t) = t
           /\ program[t] = "app" => Name(t) = "zhangsan"
BY ConstantsAssumption DEF Ids, Name

LEMMA StepFact ==
    ASSUME ThreadTypes, NEW t \in Threads
    PROVE  /\ program[t] = "user" => step[t] \in {"Login", "Register", "done"}
           /\ program[t] = "cache" => step[t] \in {"Set", "Get", "Exists", "done"}
           /\ program[t] = "integrated" =>
                 step[t] \in {"CheckUserSession", "LoginUser", "CacheUserSession",
                              "GetFromCache", "GetUserProfile", "SetToCache", "done"}
           /\ program[t] = "app" => step[t] \in AppSteps(round[t])
           /\ program[t] = "idle" => step[t] = "done" /\ round[t] = 0
BY ProgramFact DEF ThreadTypes, Steps, Ids, Last

LEMMA AppFact ==
    ASSUME NEW n \in Nat, NEW s \in AppSteps(n), s # "done"
    PROVE  /\ n \in 0 .. 5
           /\ n \in {0, 1} <=> s \in {"CheckUserSession", "LoginUser", "CacheUserSession"}
           /\ n \in {2, 3} <=> s \in {"GetFromCache", "GetUserProfile", "SetToCache"}
           /\ n = 4 <=> s \in {"RegisterUser", "DeleteFromCache"}
           /\ n = 5 <=> s = "GetStats"
BY DEF AppSteps

CheckSteps == {"CheckUserSession", "LoginUser", "CacheUserSession"}
ProfileSteps == {"GetFromCache", "GetUserProfile", "SetToCache"}
BusinessCalls == CheckSteps \cup ProfileSteps
AllSteps == BusinessCalls \cup {"Login", "Register", "Set", "Get", "Exists", "RegisterUser", "DeleteFromCache", "GetStats"}

LEMMA AllStepsFact ==
    ASSUME ThreadTypes, NEW t \in Threads, step[t] # "done"
    PROVE  step[t] \in AllSteps /\ program[t] \in Ids
<1>1. program[t] = "app" => step[t] \in AllSteps
  BY StepFact, AppFact DEF AllSteps, BusinessCalls, CheckSteps, ProfileSteps, ThreadTypes
<1> QED
  BY <1>1, ProgramFact, StepFact DEF AllSteps, BusinessCalls, CheckSteps, ProfileSteps, ThreadTypes, Ids

LEMMA KeysFact ==
    /\ \A n \in Threads \cup {"zhangsan"} : Session(n) \in Keys
    /\ \A n \in Threads \cup {"new"} : Profile(n) \in Keys
    /\ \A t \in Threads : <<"user", t>> \in Keys
    /\ \A m, n : Session(m) # Profile(n) /\ Session(m) # <<"user", n>> /\ Profile(m) # <<"user", n>>
    /\ \A m, n : (Session(m) = Session(n) => m = n) /\ (Profile(m) = Profile(n) => m = n)
BY DEF Keys, Session, Profile

LEMMA ValFact ==
    /\ {Empty, Yes, No} \subseteq Vals
    /\ \A k \in Keys : Token(k) \in Vals /\ ProfileOf(k) \in Vals
    /\ \A k : Token(k) # Absent /\ ProfileOf(k) # Absent
    /\ Absent \notin Vals
BY DEF Vals, Token, ProfileOf, Absent, Empty, Yes, No

\* Where the calls go and what they are about.
LEMMA RequestFact ==
    ASSUME ThreadTypes, NEW t \in Threads, step[t] # "done"
    PROVE  /\ Request(t).service \in {"user", "cache"}
           /\ Request(t).service = "user" <=>
                 step[t] \in {"Login", "LoginUser", "Register", "RegisterUser", "GetUserProfile"}
           /\ Request(t).key \in Keys /\ Request(t).value \in Vals
           /\ Request(t).method = "Login" <=> step[t] \in {"Login", "LoginUser"}
           /\ Request(t).method = "Register" <=> step[t] \in {"Register", "RegisterUser"}
           /\ step[t] \in {"Login", "LoginUser", "CheckUserSession", "CacheUserSession"} =>
                 Request(t).key = Session(Name(t))
           /\ step[t] \in {"Register", "RegisterUser", "DeleteFromCache", "GetStats"} =>
                 Request(t).key = Profile("new")
           /\ step[t] \in ProfileSteps => Request(t).key = Profile(t)
           /\ step[t] \in {"Set", "Get", "Exists"} => Request(t).key = <<"user", t>>
           /\ Request(t).method = "Set" <=> step[t] \in {"Set", "CacheUserSession", "SetToCache"}
           /\ Request(t).method = "Exists" <=> step[t] \in {"CheckUserSession", "Exists"}
           /\ step[t] = "CacheUserSession" => Request(t).value = Token(Session(Name(t)))
           /\ step[t] = "SetToCache" => Request(t).value = profile[t]
<1> USE DEF AllSteps, BusinessCalls, CheckSteps, ProfileSteps
<1>1. step[t] \in AllSteps /\ Name(t) \in Threads \cup {"zhangsan"} /\ profile[t] \in Vals
  BY AllStepsFact, ProgramFact DEF ThreadTypes
<1>2. Request(t).service \in {"user", "cache"} /\
      (Request(t).service = "user" <=>
           step[t] \in {"Login", "LoginUser", "Register", "RegisterUser", "GetUserProfile"})
  BY <1>1 DEF Request, To
<1>3. /\ Request(t).method = "Login" <=> step[t] \in {"Login", "LoginUser"}
      /\ Request(t).method = "Register" <=> step[t] \in {"Register", "RegisterUser"}
      /\ Request(t).method = "Set" <=> step[t] \in {"Set", "CacheUserSession", "SetToCache"}
      /\ Request(t).method = "Exists" <=> step[t] \in {"CheckUserSession", "Exists"}
  BY <1>1 DEF Request, To
<1>4. /\ step[t] \in {"Login", "LoginUser", "CheckUserSession", "CacheUserSession"} =>
             Request(t).key = Session(Name(t))
      /\ step[t] \in {"Register", "RegisterUser", "DeleteFromCache", "GetStats"} =>
             Request(t).key = Profile("new")
      /\ step[t] \in ProfileSteps => Request(t).key = Profile(t)
      /\ step[t] \in {"Set", "Get", "Exists"} => Request(t).key = <<"user", t>>
  BY <1>1 DEF Request, To
<1>5. /\ step[t] = "CacheUserSession" => Request(t).value = Token(Session(Name(t)))
      /\ step[t] = "SetToCache" => Request(t).value = profile[t]
      /\ step[t] = "Set" => Request(t).value = Token(<<"user", t>>)
      /\ step[t] \notin {"CacheUserSession", "SetToCache", "Set"} => Request(t).value = Empty
  BY <1>1 DEF Request, To
<1>6. Request(t).key \in Keys
  <2>1. Session(Name(t)) \in Keys /\ Profile("new") \in Keys /\ Profile(t) \in Keys /\ <<"user", t>> \in Keys
    BY <1>1, KeysFact
  <2> QED
    BY <1>1, <1>4, <2>1
<1>7. Request(t).value \in Vals
  BY <1>1, <1>5, KeysFact, ValFact
<1> QED
  BY <1>2, <1>3, <1>4, <1>5, <1>6, <1>7

LEMMA ChannelFact ==
    ASSUME NEW x \in [user : Channels, cache : Channels], NEW s \in {"user", "cache"}, NEW c \in Channels
    PROVE  /\ [x EXCEPT ![s] = c] \in [user : Channels, cache : Channels]
           /\ [x EXCEPT ![s] = c][s] = c
           /\ \A o \in {"user", "cache"} \ {s} : [x EXCEPT ![s] = c][o] = x[o]
           /\ x[s] \in Channels
<1>1. CASE s = "user"
  BY <1>1
<1>2. CASE s = "cache"
  BY <1>2
<1> QED
  BY <1>1, <1>2

-----------------------------------------------------------------------------
(* What a function does after each of its calls.                           *)

LEMMA UserAfter ==
    ASSUME NEW t, program[t] = "user", step[t] \in {"Login", "Register"}, NEW failed \in BOOLEAN, NEW r
    PROVE  After(t, failed, r) = Count(~failed /\ r.errcode = 0, IF step[t] = "Login" THEN "Register" ELSE "end")
BY DEF After, send_request

LEMMA CacheAfter ==
    ASSUME NEW t, program[t] = "cache", step[t] \in {"Set", "Get", "Exists"}, NEW failed \in BOOLEAN, NEW r
    PROVE  /\ step[t] = "Set" => After(t, failed, r) = Count(~failed, "Get")
           /\ step[t] = "Get" => After(t, failed, r) = Count(~failed /\ r.flag, "Exists")
           /\ step[t] = "Exists" => After(t, failed, r) = Count(~failed, "end")
BY DEF After, test_cache_service

LEMMA IntegratedAfter ==
    ASSUME NEW t, program[t] = "integrated", step[t] \in BusinessCalls, NEW failed \in BOOLEAN, NEW r
    PROVE  /\ step[t] = "CheckUserSession" => After(t, failed, r) =
                 IF ~failed /\ r.flag THEN Then(1, 0, "GetFromCache") ELSE Then(0, 0, "LoginUser")
           /\ step[t] = "LoginUser" => After(t, failed, r) =
                 IF ~failed /\ r.flag THEN Then(0, 0, "CacheUserSession") ELSE Then(0, 1, "GetFromCache")
           /\ step[t] = "CacheUserSession" => After(t, failed, r) =
                 IF ~failed THEN Then(2, 0, "GetFromCache") ELSE Then(1, 1, "GetFromCache")
           /\ step[t] = "GetFromCache" => After(t, failed, r) =
                 IF ~failed /\ r.flag THEN Then(1, 0, "end") ELSE Then(0, 0, "GetUserProfile")
           /\ step[t] = "GetUserProfile" => After(t, failed, r) =
                 IF ~failed /\ r.errcode = 0 THEN Then(0, 0, "SetToCache") ELSE Then(0, 1, "end")
           /\ step[t] = "SetToCache" => After(t, failed, r) =
                 IF ~failed THEN Then(2, 0, "end") ELSE Then(1, 1, "end")
BY DEF After, test_integrated_business, BusinessCalls, CheckSteps, ProfileSteps

LEMMA AppAfter ==
    ASSUME NEW t, program[t] = "app", NEW n \in Nat, step[t] \in AppSteps(n), step[t] # "done",
           NEW failed \in BOOLEAN, NEW r
    PROVE  /\ step[t] = "CheckUserSession" => After(t, failed, r) =
                 IF ~failed /\ r.flag THEN Result(Yes) ELSE Then(0, 0, "LoginUser")
           /\ step[t] = "LoginUser" => After(t, failed, r) =
                 IF ~failed /\ r.errcode = 0 /\ r.flag THEN Then(0, 0, "CacheUserSession") ELSE Result(No)
           /\ step[t] = "CacheUserSession" => After(t, failed, r) = Result(Yes)
           /\ step[t] = "GetFromCache" => After(t, failed, r) =
                 IF ~failed /\ r.flag /\ r.value # Empty THEN Result(r.value) ELSE Then(0, 0, "GetUserProfile")
           /\ step[t] = "GetUserProfile" => After(t, failed, r) =
                 IF ~failed /\ r.errcode = 0 THEN Then(0, 0, "SetToCache") ELSE Result(Empty)
           /\ step[t] = "SetToCache" => After(t, failed, r) = Result(profile[t])
           /\ step[t] = "RegisterUser" => After(t, failed, r) =
                 IF ~failed /\ r.errcode = 0 /\ r.flag THEN Then(0, 0, "DeleteFromCache") ELSE Result(No)
           /\ step[t] = "DeleteFromCache" => After(t, failed, r) = Result(Yes)
           /\ step[t] = "GetStats" => After(t, failed, r) = Result(IF failed THEN No ELSE Yes)
<1>1. After(t, failed, r) = IntegratedClient(step[t], failed, r, profile[t])
  BY DEF After
<1>2. CASE step[t] \in CheckSteps
  BY <1>1, <1>2 DEF IntegratedClient, LoginWithCache, CheckSteps
<1>3. CASE step[t] \in ProfileSteps
  BY <1>1, <1>3 DEF IntegratedClient, GetUserProfileWithCache, ProfileSteps
<1>4. CASE step[t] \in {"RegisterUser", "DeleteFromCache"}
  BY <1>1, <1>4 DEF IntegratedClient, RegisterWithCacheInvalidation
<1>5. CASE step[t] = "GetStats"
  BY <1>1, <1>5 DEF IntegratedClient, ShowCacheStats
<1> QED
  BY <1>2, <1>3, <1>4, <1>5, AppFact DEF CheckSteps, ProfileSteps

\* What every function's outcome is, and the two steps that cache something.
LEMMA AfterFact ==
    ASSUME ThreadTypes, NEW t \in Threads, step[t] # "done", NEW failed \in BOOLEAN, NEW r \in Replies,
           NEW a, a = After(t, failed, r)
    PROVE  /\ a.success \in Nat /\ a.fail \in Nat
           /\ a.next # "end" => a.next \in Steps(program[t], round[t]) \ {"done"}
           /\ a.result = <<>> \/ \E v \in Vals : a.result = <<v>>
           /\ a.next = "CacheUserSession" => step[t] = "LoginUser" /\ ~failed /\ r.flag
           /\ a.next = "SetToCache" => step[t] = "GetUserProfile" /\ ~failed /\ r.errcode = 0
<1> DEFINE Goal == /\ a.success \in Nat /\ a.fail \in Nat
                   /\ a.next # "end" => a.next \in Steps(program[t], round[t]) \ {"done"}
                   /\ a.result = <<>> \/ \E v \in Vals : a.result = <<v>>
                   /\ a.next = "CacheUserSession" => step[t] = "LoginUser" /\ ~failed /\ r.flag
                   /\ a.next = "SetToCache" => step[t] = "GetUserProfile" /\ ~failed /\ r.errcode = 0
<1>0. step[t] \in Steps(program[t], round[t]) /\ round[t] \in Nat /\ profile[t] \in Vals
      /\ r.flag \in BOOLEAN /\ r.value \in Vals
  BY DEF ThreadTypes, Replies
<1>1. CASE program[t] = "user"
  <2>1. Steps(program[t], round[t]) = {"Login", "Register"} /\ step[t] \in {"Login", "Register"}
    BY <1>0, <1>1 DEF Steps
  <2> QED
    BY <1>1, <2>1, UserAfter DEF Then, Result, Count
<1>2. CASE program[t] = "cache"
  <2>1. Steps(program[t], round[t]) = {"Set", "Get", "Exists"} /\ step[t] \in {"Set", "Get", "Exists"}
    BY <1>0, <1>2 DEF Steps
  <2> QED
    BY <1>2, <2>1, CacheAfter, <1>0 DEF Then, Result, Count
<1>3. CASE program[t] = "integrated"
  <2>1. Steps(program[t], round[t]) = BusinessCalls /\ step[t] \in BusinessCalls
    BY <1>0, <1>3 DEF Steps, BusinessCalls, CheckSteps, ProfileSteps
  <2> QED
    BY <1>3, <2>1, IntegratedAfter, <1>0 DEF Then, Result, Count, BusinessCalls, CheckSteps, ProfileSteps
<1>4. CASE program[t] = "app"
  <2>1. Steps(program[t], round[t]) = AppSteps(round[t]) /\ step[t] \in AppSteps(round[t])
    BY <1>0, <1>4 DEF Steps
  <2>2. CASE step[t] \in CheckSteps
    <3>1. AppSteps(round[t]) = CheckSteps
      BY <1>0, <2>1, <2>2 DEF AppSteps, CheckSteps
    <3>2. CASE step[t] = "CheckUserSession"
      <4>1. a = IF ~failed /\ r.flag THEN Result(Yes) ELSE Then(0, 0, "LoginUser")
        BY <1>4, <2>1, <3>2, AppAfter, <1>0
      <4> QED
        BY <4>1, <1>4, <2>1, <3>1, <3>2, ValFact DEF Then, Result, CheckSteps
    <3>3. CASE step[t] = "LoginUser"
      <4>1. a = IF ~failed /\ r.errcode = 0 /\ r.flag THEN Then(0, 0, "CacheUserSession") ELSE Result(No)
        BY <1>4, <2>1, <3>3, AppAfter, <1>0
      <4> QED
        BY <4>1, <1>4, <2>1, <3>1, <3>3, ValFact DEF Then, Result, CheckSteps
    <3>4. CASE step[t] = "CacheUserSession"
      <4>1. a = Result(Yes)
        BY <1>4, <2>1, <3>4, AppAfter, <1>0
      <4> QED
        BY <4>1, ValFact DEF Result
    <3> QED
      BY <2>2, <3>2, <3>3, <3>4 DEF CheckSteps
  <2>3. CASE step[t] \in ProfileSteps
    <3>1. AppSteps(round[t]) = ProfileSteps
      BY <1>0, <2>1, <2>3 DEF AppSteps, ProfileSteps
    <3>2. CASE step[t] = "GetFromCache"
      BY <1>4, <2>1, <3>2, <3>1, AppAfter, <1>0 DEF Then, Result, ProfileSteps
    <3>3. CASE step[t] = "GetUserProfile"
      BY <1>4, <2>1, <3>3, <3>1, AppAfter, <1>0, ValFact DEF Then, Result, ProfileSteps
    <3>4. CASE step[t] = "SetToCache"
      <4>1. a = Result(profile[t])
        BY <1>4, <2>1, <3>4, AppAfter, <1>0
      <4> QED
        BY <4>1, <1>0 DEF Result
    <3> QED
      BY <2>3, <3>2, <3>3, <3>4 DEF ProfileSteps
  <2>4. CASE step[t] \in {"RegisterUser", "DeleteFromCache", "GetStats"}
    <3>1. step[t] \in {"RegisterUser", "DeleteFromCache"} => AppSteps(round[t]) = {"RegisterUser", "DeleteFromCache"}
      BY <1>0, <2>1, <2>4 DEF AppSteps
    <3>2. CASE step[t] = "RegisterUser"
      <4>1. a = IF ~failed /\ r.errcode = 0 /\ r.flag THEN Then(0, 0, "DeleteFromCache") ELSE Result(No)
        BY <1>4, <2>1, <3>2, AppAfter, <1>0
      <4> QED
        BY <4>1, <1>4, <2>1, <3>1, <3>2, ValFact DEF Then, Result
    <3>3. CASE step[t] = "DeleteFromCache"
      <4>1. a = Result(Yes)
        BY <1>4, <2>1, <3>3, AppAfter, <1>0
      <4> QED
        BY <4>1, ValFact DEF Result
    <3>4. CASE step[t] = "GetStats"
      <4>1. a = Result(IF failed THEN No ELSE Yes)
        BY <1>4, <2>1, <3>4, AppAfter, <1>0
      <4> QED
        BY <4>1, ValFact DEF Result
    <3> QED
      BY <2>4, <3>2, <3>3, <3>4
  <2> QED
    BY <1>0, <2>1, <2>2, <2>3, <2>4, AppFact DEF CheckSteps, ProfileSteps
<1> QED
  BY <1>1, <1>2, <1>3, <1>4, AllStepsFact DEF Ids

-----------------------------------------------------------------------------
(* What a step does.                                                       *)

Whats == {"answered", "ebadf", "ended", "lost", "unknown", "silent", "refused"}
ChannelPair == [user : Channels, cache : Channels]
AppScript == <<"CheckUserSession", "CheckUserSession", "GetFromCache", "GetFromCache",
               "RegisterUser", "GetStats">>

\* The first call of round n.
First(p, n) == IF n >= Last(p) THEN "done"
               ELSE IF p = "user" THEN "Login"
               ELSE IF p = "cache" THEN "Set"
               ELSE IF p = "integrated" THEN "CheckUserSession"
               ELSE AppScript[n + 1]

LEMMA ScriptFact ==
    ASSUME program \in Programs, NEW t \in Threads
    PROVE  /\ Len(Script(t)) = Last(program[t]) /\ Last(program[t]) \in Nat
           /\ \A n \in 0 .. Last(program[t]) - 1 : Script(t)[n + 1] = First(program[t], n)
           /\ Script(t) = <<>> <=> Last(program[t]) = 0
<1>1. program[t] \in Ids \cup {"idle"} /\ Rounds \in Nat
  BY ProgramFact, ConstantsAssumption
<1>2. CASE program[t] \in {"user", "cache", "integrated"}
  <2> DEFINE x == IF program[t] = "user" THEN "Login"
                  ELSE IF program[t] = "cache" THEN "Set" ELSE "CheckUserSession"
  <2>1. Script(t) = [i \in 1 .. Rounds |-> x]
    BY <1>2 DEF Script
  <2>0. \A n \in Nat : n < Rounds => First(program[t], n) = x
    BY <1>2, <1>1 DEF First, Last
  <2> HIDE DEF x
  <2>2. Last(program[t]) = Rounds
    BY <1>2 DEF Last
  <2>3. Len(Script(t)) = Rounds /\ (Script(t) = <<>> <=> Rounds = 0)
    BY <1>1, <2>1
  <2> QED
    BY <1>1, <2>0, <2>1, <2>2, <2>3
<1>3. CASE program[t] = "app"
  BY <1>3 DEF Script, First, Last, AppScript
<1>4. CASE program[t] = "idle"
  BY <1>4 DEF Script, Last
<1> QED
  BY <1>1, <1>2, <1>3, <1>4 DEF Ids

LEMMA FirstFact ==
    ASSUME program \in Programs, NEW t \in Threads, NEW n \in 0 .. Last(program[t])
    PROVE  First(program[t], n) \in Steps(program[t], n) \ {"CacheUserSession", "SetToCache"}
<1>1. program[t] \in Ids \cup {"idle"} /\ Rounds \in Nat
  BY ProgramFact, ConstantsAssumption
<1>2. CASE program[t] \in {"user", "cache", "integrated", "idle"}
  BY <1>1, <1>2 DEF First, Steps, Last
<1>3. CASE program[t] = "app"
  <2>1. n \in 0 .. 6
    BY <1>3 DEF Last
  <2>2. \/ n \in {0, 1} /\ First(program[t], n) = "CheckUserSession"
        \/ n \in {2, 3} /\ First(program[t], n) = "GetFromCache"
        \/ n = 4 /\ First(program[t], n) = "RegisterUser"
        \/ n = 5 /\ First(program[t], n) = "GetStats"
        \/ n = 6 /\ First(program[t], n) = "done"
    BY <1>3, <2>1 DEF First, Last, AppScript
  <2> QED
    BY <1>3, <2>2 DEF Steps, AppSteps
<1> QED
  BY <1>1, <1>2, <1>3 DEF Ids

\* A call returns: where it was, and with what.
Returning(t, fails, r, what, chs) ==
    /\ Return(t, fails, r, what, chs) /\ UNCHANGED <<server, ended>>
    /\ ended[program[t]] = "no" /\ step[t] # "done"
    /\ what \notin {"ebadf", "lost"} \/ Checked(t)
    /\ fails <=> what \in {"refused", "ebadf", "lost"}
    /\ what # "answered" => r = Default
    /\ what = "answered" => reply[t] # <<>> /\ r = reply[t][1]
    /\ pc[t] = "sent" <=> what \in {"answered", "ended", "lost"}
    /\ what \in {"unknown", "silent", "refused"} => Channel(t).fd = "new"
    /\ what = "ebadf" => Channel(t).fd = "used"
    /\ chs = channel[t] \/ (what \in {"silent", "refused"} /\ chs = LookedUp(t, "new"))

\* A process ends: in which call of which thread.
Ending(t, how) ==
    /\ End(t, how) /\ ended[program[t]] = "no" /\ step[t] # "done"
    /\ how \in {"null", "throw", "mixed"}
    /\ how = "null" => step[t] = "Register" /\ Channel(t).fd = "used"
    /\ how = "throw" => Channel(t).fd = "new" /\ Channel(t).idx
    /\ how = "mixed" => pc[t] = "call" /\ Channel(t).fd = "used"

Served(t) == /\ pc[t] = "sent" /\ reply[t] = <<>> /\ step[t] # "done"
             /\ (Request(t).service = "cache" /\ ServeCache(t)) \/ (Request(t).service = "user" /\ ServeUser(t))

LEMMA DefaultFact == Default \in Replies /\ ~Default.flag /\ Default.errcode = 0 /\ Default.value = Empty
BY ValFact DEF Default, Reply, Replies

LEMMA CheckedFact ==
    ASSUME Types, NEW t \in Threads, ~Checked(t)
    PROVE  step[t] = "Register" /\ Request(t).service = "user"
BY RequestFact DEF Checked, Types

LEMMA NextForms ==
    ASSUME Types, Next
    PROVE  \E t \in Threads :
              \/ \E fails \in BOOLEAN, r \in Replies, what \in Whats, chs \in ChannelPair :
                    Returning(t, fails, r, what, chs)
              \/ \E how : Ending(t, how)
              \/ Looking(t) /\ Connect(t)
              \/ Served(t)
<1> DEFINE Returns(t) == \E fails \in BOOLEAN, r \in Replies, what \in Whats, chs \in ChannelPair :
                            Returning(t, fails, r, what, chs)
           Ends1(t) == \E how : Ending(t, how)
<1>1. PICK t \in Threads :
          \/ NotFound(t) \/ Refused(t) \/ NoConnection(t) \/ Connect(t)
          \/ SendFails(t) \/ Borrow(t) \/ ServeCache(t) \/ ServeUser(t)
          \/ Receive(t) \/ Ended(t) \/ Lost(t)
  BY DEF Next
<1>2. channel[t] \in ChannelPair /\ pc[t] \in {"call", "sent"}
      /\ (pc[t] = "sent" => step[t] # "done" /\ channel[t][Request(t).service].fd = "used")
  BY DEF Types, ThreadTypes, Calling, ChannelPair
<1>3. step[t] # "done" => LookedUp(t, "new") \in ChannelPair
  BY <1>2, RequestFact, ChannelFact DEF LookedUp, ChannelPair, Channels, Types
<1>4. CASE NotFound(t)
  <2>1. CASE Channel(t).idx
    <3>1. Ending(t, "throw")
      BY <1>4, <2>1 DEF NotFound, Looking, Calls, Ending
    <3> QED
      BY <3>1
  <2>2. CASE ~Channel(t).idx
    <3>1. Returning(t, FALSE, Default, "unknown", channel[t])
      BY <1>2, <1>4, <2>2 DEF NotFound, Looking, Calls, Returning
    <3> QED
      BY <1>2, <3>1, DefaultFact DEF Whats
  <2> QED
    BY <2>1, <2>2
<1>5. CASE Refused(t)
  <2>1. Returning(t, TRUE, Default, "refused", LookedUp(t, "new")) /\ step[t] # "done"
    BY <1>2, <1>5 DEF Refused, Looking, Calls, Returning
  <2> QED
    BY <1>3, <2>1, DefaultFact DEF Whats
<1>6. CASE NoConnection(t)
  <2>1. Returning(t, FALSE, Default, "silent", LookedUp(t, "new")) /\ step[t] # "done"
    BY <1>2, <1>6 DEF NoConnection, Looking, Calls, Returning
  <2> QED
    BY <1>3, <2>1, DefaultFact DEF Whats
<1>7. CASE SendFails(t)
  <2>1. CASE Checked(t)
    <3>1. Returning(t, TRUE, Default, "ebadf", channel[t])
      BY <1>2, <1>7, <2>1 DEF SendFails, Fail, Calls, Returning
    <3> QED
      BY <1>2, <3>1, DefaultFact DEF Whats
  <2>2. CASE ~Checked(t)
    <3>2. Ending(t, "null")
      BY <1>7, <2>2, CheckedFact DEF SendFails, Fail, Calls, Ending
    <3> QED
      BY <3>2
  <2> QED
    BY <2>1, <2>2
<1>8. CASE Borrow(t)
  <2>1. Ending(t, "mixed")
    BY <1>8 DEF Borrow, Calls, Ending
  <2> QED
    BY <2>1
<1>9. CASE Receive(t)
  <2>1. Returning(t, FALSE, reply[t][1], "answered", channel[t])
    BY <1>2, <1>9 DEF Receive, InRecv, Returning
  <2>2. reply[t][1] \in Replies
    BY <1>9 DEF Receive, Types, ServerTypes
  <2> QED
    BY <1>2, <2>1, <2>2 DEF Whats
<1>10. CASE Ended(t)
  <2>1. Returning(t, FALSE, Default, "ended", channel[t])
    BY <1>2, <1>10 DEF Ended, InRecv, Returning
  <2> QED
    BY <1>2, <2>1, DefaultFact DEF Whats
<1>11. CASE Lost(t)
  <2>1. CASE Checked(t)
    <3>1. Returning(t, TRUE, Default, "lost", channel[t])
      BY <1>2, <1>11, <2>1 DEF Lost, Fail, InRecv, Returning
    <3> QED
      BY <1>2, <3>1, DefaultFact DEF Whats
  <2>2. CASE ~Checked(t)
    <3>1. Channel(t).fd = "used"
      BY <1>2, <1>11 DEF Lost, InRecv, Channel
    <3>2. Ending(t, "null")
      BY <1>2, <1>11, <2>2, <3>1, CheckedFact DEF Lost, Fail, InRecv, Ending
    <3> QED
      BY <3>2
  <2> QED
    BY <2>1, <2>2
<1>12. CASE ServeCache(t) \/ ServeUser(t)
  BY <1>2, <1>12 DEF ServeCache, ServeUser, InRecv, Served
<1>13. CASE Connect(t)
  BY <1>13 DEF Connect
<1> QED
  BY <1>1, <1>4, <1>5, <1>6, <1>7, <1>8, <1>9, <1>10, <1>11, <1>12, <1>13

Others(t) ==
    \A s \in Threads \ {t} : /\ step'[s] = step[s] /\ round'[s] = round[s] /\ pc'[s] = pc[s]
                             /\ channel'[s] = channel[s] /\ controller'[s] = controller[s]
                             /\ profile'[s] = profile[s] /\ count'[s] = count[s]
                             /\ results'[s] = results[s] /\ reply'[s] = reply[s]
                             /\ seen'[s] = seen[s]

\* What a call that returned leaves of its thread: it was judged failed or not,
\* and a is what its function goes on with.
Effect(t, failed, a, r, what, chs) ==
    /\ failed \in BOOLEAN /\ a = After(t, failed, r)
    /\ UNCHANGED <<program, cache, service, loggedIn, ended>>
    /\ Others(t)
    /\ pc'[t] = "call" /\ reply'[t] = <<>> /\ controller'[t] = failed
    /\ profile'[t] = IF a.next = "end" THEN Empty
                     ELSE IF step[t] = "GetUserProfile" THEN r.value ELSE profile[t]
    /\ count'[t] = [success |-> count[t].success + a.success, fail |-> count[t].fail + a.fail]
    /\ results'[t] = results[t] \o a.result
    /\ a.next # "end" => round'[t] = round[t] /\ step'[t] = a.next
    /\ a.next = "end" => round'[t] = round[t] + 1 /\ step'[t] = First(program[t], round[t] + 1)
    /\ channel'[t] = IF a.next = "end" /\ program[t] # "app" THEN NewChannels ELSE chs
    /\ seen'[t] = seen[t] \cup {what} \cup
            (IF step[t] = "GetUserProfile" /\ ~failed /\ what # "answered" THEN {"blank"} ELSE {})
    /\ step[t] # "done" /\ program[t] # "idle" /\ round[t] < Last(program[t])

LEMMA ReturnEffect ==
    ASSUME Types, NEW t \in Threads, NEW fails \in BOOLEAN, NEW r \in Replies, NEW what \in Whats,
           NEW chs \in ChannelPair, Returning(t, fails, r, what, chs)
    PROVE  \E failed, a : /\ Effect(t, failed, a, r, what, chs)
                          /\ failed = IF Checked(t) THEN fails ELSE controller[t]
<1> DEFINE failed == IF Checked(t) THEN fails ELSE controller[t]
           a == After(t, failed, r)
<1> USE DEF Types, ThreadTypes, ServerTypes
<1>1. Return(t, fails, r, what, chs) /\ UNCHANGED <<cache, service, loggedIn, ended>> /\ step[t] # "done"
  BY DEF Returning, server
<1>2. round[t] < Last(program[t]) /\ program[t] # "idle" /\ round[t] \in Nat /\ Last(program[t]) \in Nat
  <2>1. program[t] \in Ids /\ step[t] \in Steps(program[t], round[t]) /\ round[t] <= Last(program[t])
    BY <1>1, AllStepsFact
  <2>2. round[t] # Last(program[t])
    BY <1>1, <2>1 DEF Steps, Last, Ids, AppSteps
  <2> QED
    BY <2>1, <2>2, ScriptFact DEF Ids
<1>3. /\ UNCHANGED program
      /\ controller' = [controller EXCEPT ![t] = failed]
      /\ profile' = [profile EXCEPT ![t] = IF a.next = "end" THEN Empty
                          ELSE IF step[t] = "GetUserProfile" THEN r.value ELSE profile[t]]
      /\ count' = [count EXCEPT ![t] = [success |-> count[t].success + a.success,
                                        fail |-> count[t].fail + a.fail]]
      /\ results' = [results EXCEPT ![t] = results[t] \o a.result]
  BY <1>1 DEF Return
<1>4. /\ round' = IF a.next = "end" THEN [round EXCEPT ![t] = round[t] + 1] ELSE round
      /\ step' = [step EXCEPT ![t] = IF a.next # "end" THEN a.next
                       ELSE IF round[t] + 1 < Len(Script(t)) THEN Script(t)[round[t] + 2] ELSE "done"]
      /\ channel' = [channel EXCEPT ![t] =
                          IF a.next = "end" /\ program[t] # "app" THEN NewChannels ELSE chs]
  <2>1. round[t] + 1 + 1 = round[t] + 2
    BY <1>2
  <2> QED
    BY <1>1, <2>1 DEF Return
<1>5. /\ pc' = [pc EXCEPT ![t] = "call"]
      /\ reply' = [reply EXCEPT ![t] = <<>>]
      /\ seen' = [seen EXCEPT ![t] = seen[t] \cup {what} \cup
             (IF step[t] = "GetUserProfile" /\ ~failed /\ what # "answered" THEN {"blank"} ELSE {})]
  BY <1>1 DEF Return
<1>6. First(program[t], round[t] + 1) =
          IF round[t] + 1 < Len(Script(t)) THEN Script(t)[round[t] + 2] ELSE "done"
  <2>1. CASE round[t] + 1 < Last(program[t])
    <3>1. round[t] + 1 \in 0 .. Last(program[t]) - 1 /\ round[t] + 1 + 1 = round[t] + 2
      BY <1>2, <2>1
    <3> QED
      BY <2>1, <3>1, ScriptFact
  <2>2. CASE ~(round[t] + 1 < Last(program[t]))
    BY <1>2, <2>2, ScriptFact DEF First
  <2> QED
    BY <2>1, <2>2
<1>7. \A s \in Threads \ {t} : /\ step'[s] = step[s] /\ round'[s] = round[s] /\ pc'[s] = pc[s]
                               /\ channel'[s] = channel[s] /\ controller'[s] = controller[s]
                               /\ profile'[s] = profile[s] /\ count'[s] = count[s]
                               /\ results'[s] = results[s] /\ reply'[s] = reply[s]
                               /\ seen'[s] = seen[s]
  BY <1>3, <1>4, <1>5
<1>8. step'[t] = (IF a.next # "end" THEN a.next ELSE First(program[t], round[t] + 1))
  BY <1>4, <1>6
<1>9. round'[t] = (IF a.next = "end" THEN round[t] + 1 ELSE round[t])
  BY <1>4
<1>10. /\ pc'[t] = "call" /\ reply'[t] = <<>> /\ controller'[t] = failed
       /\ profile'[t] = IF a.next = "end" THEN Empty
                        ELSE IF step[t] = "GetUserProfile" THEN r.value ELSE profile[t]
       /\ count'[t] = [success |-> count[t].success + a.success, fail |-> count[t].fail + a.fail]
       /\ results'[t] = results[t] \o a.result
  BY <1>3, <1>5
<1>11. /\ channel'[t] = IF a.next = "end" /\ program[t] # "app" THEN NewChannels ELSE chs
       /\ seen'[t] = seen[t] \cup {what} \cup
               (IF step[t] = "GetUserProfile" /\ ~failed /\ what # "answered" THEN {"blank"} ELSE {})
  BY <1>4, <1>5
<1>12. failed \in BOOLEAN
  OBVIOUS
<1> HIDE DEF Types, ThreadTypes, ServerTypes, failed, a
<1>13. a = After(t, failed, r)
  BY DEF a
<1>14. Effect(t, failed, a, r, what, chs)
  BY <1>1, <1>2, <1>3, <1>7, <1>8, <1>9, <1>10, <1>11, <1>12, <1>13 DEF Effect, Others
<1> QED
  BY <1>14 DEF failed

-----------------------------------------------------------------------------
(* Types.                                                                  *)

LEMMA InitTypes == Init => Types
<1> SUFFICES ASSUME Init PROVE Types
  OBVIOUS
<1>1. program \in Programs
  BY DEF Init
<1>2. \A t \in Threads : 0 <= Last(program[t]) /\ step[t] \in Steps(program[t], 0)
  <2> TAKE t \in Threads
  <2>1. step[t] = IF Script(t) = <<>> THEN "done" ELSE Script(t)[1]
    BY DEF Init
  <2>2. step[t] = First(program[t], 0) /\ Last(program[t]) \in Nat
    <3>1. CASE Last(program[t]) = 0
      BY <1>1, <2>1, <3>1, ScriptFact DEF First
    <3>2. CASE Last(program[t]) # 0
      <4>1. 0 \in 0 .. Last(program[t]) - 1
        BY <1>1, <3>2, ScriptFact
      <4>2. Script(t)[0 + 1] = First(program[t], 0)
        BY <1>1, <4>1, ScriptFact
      <4> QED
        BY <1>1, <2>1, <3>2, <4>2, ScriptFact
    <3> QED
      BY <3>1, <3>2
  <2> QED
    BY <1>1, <2>2, FirstFact
<1>3. NewChannels \in [user : Channels, cache : Channels]
  BY DEF NewChannels, NewChannel, Channels
<1>4. ThreadTypes
  <2>1. <<>> \in Seq(Vals) /\ Empty \in Vals
    BY ValFact
  <2>2. program \in Programs /\ round = [t \in Threads |-> 0] /\ DOMAIN step = Threads
        /\ pc = [t \in Threads |-> "call"] /\ channel = [t \in Threads |-> NewChannels]
        /\ controller = [t \in Threads |-> FALSE] /\ profile = [t \in Threads |-> Empty]
        /\ count = [t \in Threads |-> [success |-> 0, fail |-> 0]]
        /\ results = [t \in Threads |-> <<>>] /\ seen = [t \in Threads |-> {}]
    BY DEF Init
  <2> HIDE DEF Init
  <2> QED
    BY <1>2, <1>3, <2>1, <2>2 DEF ThreadTypes
<1>5. ServerTypes /\ Calling
  BY DEF Init, ServerTypes, Calling, Ids
<1> QED
  BY <1>4, <1>5 DEF Types

LEMMA ReturnTypes ==
    ASSUME Types, NEW t \in Threads, NEW fails \in BOOLEAN, NEW r \in Replies, NEW what \in Whats,
           NEW chs \in ChannelPair, Returning(t, fails, r, what, chs)
    PROVE  Types'
<1>1. PICK failed, a : Effect(t, failed, a, r, what, chs)
  BY ReturnEffect
<1>2. step[t] # "done"
  BY DEF Returning
<1>3. /\ a.success \in Nat /\ a.fail \in Nat
      /\ a.next # "end" => a.next \in Steps(program[t], round[t]) \ {"done"}
      /\ a.result = <<>> \/ \E v \in Vals : a.result = <<v>>
  BY <1>1, <1>2, AfterFact DEF Types, Effect
<1>4. Return(t, fails, r, what, chs)
  BY DEF Returning
<1>5. Effect(t, failed, a, r, what, chs) /\ Others(t)
  BY <1>1 DEF Effect
<1> USE DEF Effect, Others
<1>6. ThreadTypes'
  <2>1. /\ DOMAIN step' = Threads /\ DOMAIN round' = Threads /\ DOMAIN pc' = Threads /\ DOMAIN channel' = Threads
        /\ DOMAIN controller' = Threads /\ DOMAIN profile' = Threads /\ DOMAIN count' = Threads
        /\ DOMAIN results' = Threads /\ DOMAIN seen' = Threads
        /\ step' = [s \in Threads |-> step'[s]] /\ round' = [s \in Threads |-> round'[s]]
        /\ pc' = [s \in Threads |-> pc'[s]] /\ channel' = [s \in Threads |-> channel'[s]]
        /\ controller' = [s \in Threads |-> controller'[s]] /\ profile' = [s \in Threads |-> profile'[s]]
        /\ count' = [s \in Threads |-> count'[s]] /\ results' = [s \in Threads |-> results'[s]]
        /\ seen' = [s \in Threads |-> seen'[s]]
    <3>1. /\ \E x : pc' = [pc EXCEPT ![t] = x]
          /\ \E x : channel' = [channel EXCEPT ![t] = x]
          /\ \E x : controller' = [controller EXCEPT ![t] = x]
          /\ \E x : profile' = [profile EXCEPT ![t] = x]
          /\ \E x : count' = [count EXCEPT ![t] = x]
          /\ \E x : results' = [results EXCEPT ![t] = x]
          /\ \E x : seen' = [seen EXCEPT ![t] = x]
          /\ \E x : step' = [step EXCEPT ![t] = x]
          /\ round' = round \/ \E x : round' = [round EXCEPT ![t] = x]
      BY <1>4 DEF Return
    <3> QED
      <4>1. /\ pc = [s \in Threads |-> pc[s]] /\ channel = [s \in Threads |-> channel[s]]
            /\ controller = [s \in Threads |-> controller[s]] /\ profile = [s \in Threads |-> profile[s]]
            /\ count = [s \in Threads |-> count[s]] /\ results = [s \in Threads |-> results[s]]
            /\ seen = [s \in Threads |-> seen[s]] /\ round = [s \in Threads |-> round[s]]
            /\ DOMAIN step = Threads
        BY DEF Types, ThreadTypes
      <4>2. DOMAIN step' = Threads /\ step' = [s \in Threads |-> step'[s]]
        BY <3>1, <4>1
      <4>3. DOMAIN pc' = Threads /\ pc' = [s \in Threads |-> pc'[s]]
        BY <3>1, <4>1
      <4>4. DOMAIN channel' = Threads /\ channel' = [s \in Threads |-> channel'[s]]
        BY <3>1, <4>1
      <4>5. DOMAIN controller' = Threads /\ controller' = [s \in Threads |-> controller'[s]]
        BY <3>1, <4>1
      <4>6. DOMAIN profile' = Threads /\ profile' = [s \in Threads |-> profile'[s]]
        BY <3>1, <4>1
      <4>7. DOMAIN count' = Threads /\ count' = [s \in Threads |-> count'[s]]
        BY <3>1, <4>1
      <4>8. DOMAIN results' = Threads /\ results' = [s \in Threads |-> results'[s]]
        BY <3>1, <4>1
      <4>9. DOMAIN seen' = Threads /\ seen' = [s \in Threads |-> seen'[s]]
        BY <3>1, <4>1
      <4>10. DOMAIN round' = Threads /\ round' = [s \in Threads |-> round'[s]]
        BY <3>1, <4>1
      <4> QED
        BY <4>2, <4>3, <4>4, <4>5, <4>6, <4>7, <4>8, <4>9, <4>10
  <2>2. \A s \in Threads : round'[s] \in Nat /\ round'[s] <= Last(program[s]) /\ step'[s] \in Steps(program[s], round'[s])
    <3>1. \A s \in Threads \ {t} : round'[s] \in Nat /\ round'[s] <= Last(program[s]) /\ step'[s] \in Steps(program[s], round'[s])
      BY <1>5 DEF Types, ThreadTypes
    <3>2. CASE a.next = "end"
      <4>1. round'[t] \in 0 .. Last(program[t]) /\ round'[t] = round[t] + 1
        BY <1>5, <3>2, ScriptFact DEF Types, ThreadTypes
      <4> QED
        BY <1>5, <3>1, <3>2, <4>1, FirstFact DEF Types, ThreadTypes
    <3>3. CASE a.next # "end"
      BY <1>3, <1>5, <3>1, <3>3 DEF Types, ThreadTypes
    <3> QED
      BY <3>2, <3>3
  <2>3. \A s \in Threads : /\ pc'[s] \in {"call", "sent"} /\ controller'[s] \in BOOLEAN
                           /\ seen'[s] \subseteq {"answered", "ebadf", "ended", "lost", "unknown", "silent", "refused", "blank"}
    <3>1. \A s \in Threads : /\ pc[s] \in {"call", "sent"} /\ controller[s] \in BOOLEAN
                             /\ seen[s] \subseteq {"answered", "ebadf", "ended", "lost", "unknown", "silent", "refused", "blank"}
      BY DEF Types, ThreadTypes
    <3>2. pc'[t] \in {"call", "sent"} /\ controller'[t] \in BOOLEAN
      BY <1>5, <3>1
    <3>3. seen'[t] \subseteq {"answered", "ebadf", "ended", "lost", "unknown", "silent", "refused", "blank"}
      BY <1>5, <3>1 DEF Whats
    <3> QED
      BY <1>5, <3>1, <3>2, <3>3
  <2>4. \A s \in Threads : channel'[s] \in ChannelPair
    <3>1. NewChannels \in ChannelPair
      BY DEF NewChannels, NewChannel, ChannelPair, Channels
    <3>2. \A s \in Threads : channel[s] \in ChannelPair
      BY DEF Types, ThreadTypes, ChannelPair
    <3>3. channel'[t] \in ChannelPair
      BY <1>5, <3>1, <3>2
    <3> QED
      BY <1>5, <3>2, <3>3
  <2>5. \A s \in Threads : profile'[s] \in Vals /\ count'[s] \in [success : Nat, fail : Nat] /\ results'[s] \in Seq(Vals)
    <3>1. profile'[t] \in Vals
      BY <1>5, ValFact DEF Types, ThreadTypes, Replies
    <3>2. count'[t] \in [success : Nat, fail : Nat]
      <4>1. count[t] \in [success : Nat, fail : Nat]
        BY DEF Types, ThreadTypes
      <4> QED
        BY <1>3, <1>5, <4>1
    <3>3. results'[t] \in Seq(Vals)
      <4>1. results[t] \in Seq(Vals) /\ a.result \in Seq(Vals)
        <5>1. <<>> \in Seq(Vals) /\ \A v \in Vals : <<v>> \in Seq(Vals)
          OBVIOUS
        <5>2. a.result \in Seq(Vals)
          BY <1>3, <5>1
        <5>3. results[t] \in Seq(Vals)
          BY DEF Types, ThreadTypes
        <5> QED
          BY <5>2, <5>3
      <4> QED
        BY <1>5, <4>1
    <3> QED
      BY <1>5, <3>1, <3>2, <3>3 DEF Types, ThreadTypes
  <2> QED
    BY <1>5, <2>1, <2>2, <2>3, <2>4, <2>5 DEF ThreadTypes, Types, ChannelPair
<1>7. ServerTypes'
  <2>1. reply' = [reply EXCEPT ![t] = <<>>]
    BY <1>4 DEF Return
  <2> QED
    BY <1>5, <2>1 DEF Types, ServerTypes
<1>8. Calling'
  <2> SUFFICES ASSUME NEW s \in Threads
               PROVE  /\ pc'[s] = "sent" => step'[s] # "done" /\ channel'[s][Request(s)'.service].fd = "used"
                      /\ reply'[s] # <<>> => pc'[s] = "sent"
    BY DEF Calling
  <2>1. CASE s = t
    BY <1>5, <2>1
  <2>2. CASE s # t
    <3>1. Request(s)'.service = Request(s).service
      BY <1>5, <2>2 DEF Request, To, Name
    <3> QED
      BY <1>5, <2>2, <3>1 DEF Types, Calling
  <2> QED
    BY <2>1, <2>2
<1> QED
  BY <1>6, <1>7, <1>8 DEF Types

\* What the provider does to the call it serves.
LEMMA ServedEffect ==
    ASSUME Types, NEW t \in Threads, Served(t)
    PROVE  /\ UNCHANGED <<program, step, round, pc, channel, controller, profile, count, results, ended, seen>>
           /\ pc[t] = "sent" /\ reply[t] = <<>> /\ step[t] # "done"
           /\ \E r \in Replies :
                 /\ reply' = [reply EXCEPT ![t] = <<r>>]
                 /\ step[t] = "LoginUser" => Name(t) \in loggedIn' /\ r.flag /\ r.errcode = 0
                 /\ step[t] = "GetUserProfile" =>
                       r.value = Own(t) \/ (cache[Profile(t)] \notin {Absent, Empty} /\ r.value = cache[Profile(t)])
                 /\ step[t] = "CheckUserSession" => (r.flag <=> cache[Session(Name(t))] # Absent)
           /\ loggedIn \subseteq loggedIn'
           /\ service' \in {"new", "used", "stored"} /\ (service = "stored" => service' = "stored")
           /\ cache' \in [Keys -> Vals \cup {Absent}]
           /\ \A k \in Keys : \/ cache'[k] = cache[k] \/ cache'[k] = Absent
                              \/ k = Session(Name(t)) /\ Name(t) \in loggedIn' /\ service' = "stored"
                              \/ k = Session(Name(t)) /\ step[t] = "CacheUserSession"
                              \/ k = Profile(t) /\ cache'[k] = Own(t) /\ step[t] = "GetUserProfile"
                              \/ k = Profile(t) /\ cache'[k] = profile[t] /\ step[t] = "SetToCache"
                              \/ k = <<"user", t>>
<1> DEFINE q == Request(t)
<1>1. /\ UNCHANGED <<program, step, round, pc, channel, controller, profile, count, results, ended, seen>>
      /\ pc[t] = "sent" /\ reply[t] = <<>> /\ step[t] # "done"
  BY DEF Served, ServeCache, ServeUser, local
<1>2. q.key \in Keys /\ q.value \in Vals /\ cache \in [Keys -> Vals \cup {Absent}] /\ service \in {"new", "used", "stored"}
      /\ cache[q.key] \in Vals \cup {Absent} /\ Empty \in Vals /\ step[t] \in AllSteps
  BY <1>1, RequestFact, ValFact, AllStepsFact DEF Types, ServerTypes
<1>3. CASE q.service = "cache" /\ ServeCache(t)
  <2> DEFINE hit == cache[q.key] # Absent
             r == CASE q.method = "Get" -> IF hit THEN Reply(0, TRUE, cache[q.key])
                                          ELSE Reply(1, FALSE, Empty)
                    [] q.method = "Exists" -> Reply(0, hit, Empty)
                    [] q.method = "Delete" -> Reply(IF hit THEN 0 ELSE 1, FALSE, Empty)
                    [] OTHER -> Default
  <2>1. /\ reply' = [reply EXCEPT ![t] = <<r>>] /\ UNCHANGED <<service, loggedIn>>
        /\ cache' = CASE q.method = "Set" -> [cache EXCEPT ![q.key] = q.value]
                      [] q.method = "Delete" -> [cache EXCEPT ![q.key] = Absent]
                      [] OTHER -> cache
    BY <1>3 DEF ServeCache, Answer
  <2>2. r \in Replies
    BY <1>2, DefaultFact DEF Reply, Replies
  <2>3. step[t] \notin {"LoginUser", "GetUserProfile"}
    BY <1>1, <1>3, RequestFact DEF Types
  <2>4. step[t] = "CheckUserSession" => (r.flag <=> cache[Session(Name(t))] # Absent)
    <3> SUFFICES ASSUME step[t] = "CheckUserSession" PROVE r.flag <=> cache[Session(Name(t))] # Absent
      OBVIOUS
    <3>1. q.method = "Exists" /\ q.key = Session(Name(t))
      BY <1>1, RequestFact DEF Types
    <3> QED
      BY <3>1 DEF Reply
  <2>5. \/ cache' = cache \/ cache' = [cache EXCEPT ![q.key] = Absent]
        \/ cache' = [cache EXCEPT ![q.key] = q.value] /\ step[t] \in {"Set", "CacheUserSession", "SetToCache"}
    BY <1>1, <2>1, RequestFact DEF Types
  <2>6. cache' \in [Keys -> Vals \cup {Absent}]
    BY <1>2, <2>5
  <2>7. \A k \in Keys : \/ cache'[k] = cache[k] \/ cache'[k] = Absent
                        \/ k = Session(Name(t)) /\ step[t] = "CacheUserSession"
                        \/ k = Profile(t) /\ cache'[k] = profile[t] /\ step[t] = "SetToCache"
                        \/ k = <<"user", t>>
    <3>1. /\ step[t] = "Set" => q.key = <<"user", t>>
          /\ step[t] = "CacheUserSession" => q.key = Session(Name(t))
          /\ step[t] = "SetToCache" => q.key = Profile(t) /\ q.value = profile[t]
      BY <1>1, RequestFact DEF Types, ProfileSteps
    <3> HIDE DEF q
    <3> QED
      BY <1>2, <2>5, <3>1
  <2> HIDE DEF r, q
  <2> QED
    BY <1>1, <1>2, <2>1, <2>2, <2>3, <2>4, <2>6, <2>7
<1>4. CASE q.service = "user" /\ ServeUser(t)
  <2> DEFINE given == IF q.method = "Login" THEN Token(q.key) ELSE ProfileOf(q.key)
  <2>1. /\ loggedIn' = IF q.method = "Login" THEN loggedIn \cup {q.key[2]} ELSE loggedIn
        /\ \/ reply' = [reply EXCEPT ![t] = <<Reply(0, TRUE, given)>>] /\ UNCHANGED <<cache, service>>
           \/ /\ service = "new" /\ service' = "used"
              /\ cache' = cache \/ cache' = [cache EXCEPT ![q.key] = Absent]
              /\ \/ reply' = [reply EXCEPT ![t] = <<Reply(0, TRUE, given)>>]
                 \/ /\ cache[q.key] \notin {Absent, Empty}
                    /\ reply' = [reply EXCEPT ![t] = <<Reply(0, TRUE, cache[q.key])>>]
           \/ /\ q.method # "Register" /\ service = "new" /\ service' = "stored"
              /\ cache' = [cache EXCEPT ![q.key] = given]
              /\ reply' = [reply EXCEPT ![t] = <<Reply(0, TRUE, given)>>]
    BY <1>4 DEF ServeUser, Answer
  <2>2. /\ q.method = "Login" => q.key = Session(Name(t))
        /\ q.method \notin {"Login", "Register"} => step[t] = "GetUserProfile"
        /\ step[t] = "GetUserProfile" => q.key = Profile(t) /\ q.method \notin {"Login", "Register"}
        /\ step[t] = "LoginUser" => q.method = "Login"
        /\ step[t] # "CheckUserSession"
    BY <1>1, <1>4, RequestFact DEF Types, ProfileSteps
  <2>3. Session(Name(t))[2] = Name(t)
    BY DEF Session
  <2>4. /\ given \in Vals
        /\ step[t] = "GetUserProfile" => given = Own(t)
    BY <1>2, <2>2, ValFact DEF Own
  <2> HIDE DEF q, given
  <2>5. PICK v \in Vals : /\ reply' = [reply EXCEPT ![t] = <<Reply(0, TRUE, v)>>]
                          /\ v = given \/ (cache[q.key] \notin {Absent, Empty} /\ v = cache[q.key])
    BY <1>2, <2>1, <2>4
  <2>6. Reply(0, TRUE, v) \in Replies /\ Reply(0, TRUE, v).flag /\ Reply(0, TRUE, v).errcode = 0
        /\ Reply(0, TRUE, v).value = v
    BY DEF Reply, Replies
  <2>7. \E r \in Replies :
           /\ reply' = [reply EXCEPT ![t] = <<r>>]
           /\ step[t] = "LoginUser" => Name(t) \in loggedIn' /\ r.flag /\ r.errcode = 0
           /\ step[t] = "GetUserProfile" =>
                 r.value = Own(t) \/ (cache[Profile(t)] \notin {Absent, Empty} /\ r.value = cache[Profile(t)])
           /\ step[t] = "CheckUserSession" => (r.flag <=> cache[Session(Name(t))] # Absent)
    BY <2>1, <2>2, <2>3, <2>4, <2>5, <2>6
  <2>8. /\ loggedIn \subseteq loggedIn' /\ service' \in {"new", "used", "stored"}
        /\ service = "stored" => service' = "stored"
    BY <1>2, <2>1
  <2>9. cache' \in [Keys -> Vals \cup {Absent}]
    BY <1>2, <2>1, <2>4
  <2>10. \A k \in Keys : \/ cache'[k] = cache[k] \/ cache'[k] = Absent
                         \/ k = Session(Name(t)) /\ Name(t) \in loggedIn' /\ service' = "stored"
                         \/ k = Profile(t) /\ cache'[k] = Own(t) /\ step[t] = "GetUserProfile"
    BY <1>2, <2>1, <2>2, <2>3, <2>4
  <2> QED
    BY <1>1, <2>7, <2>8, <2>9, <2>10
<1> QED
  BY <1>3, <1>4 DEF Served

LEMMA NextTypes ==
    ASSUME Types, [Next]_vars
    PROVE  Types'
<1>1. CASE UNCHANGED vars
  <2>1. ThreadTypes' /\ ServerTypes'
    BY <1>1 DEF vars, local, server, Types, ThreadTypes, ServerTypes
  <2>2. \A s \in Threads : Request(s)'.service = Request(s).service
    BY <1>1 DEF vars, local, server, Request, To, Name
  <2>3. Calling'
    BY <1>1, <2>2 DEF vars, local, server, Types, Calling
  <2> QED
    BY <2>1, <2>3 DEF Types
<1>2. ASSUME NEW t \in Threads, NEW fails \in BOOLEAN, NEW r \in Replies, NEW what \in Whats,
             NEW chs \in ChannelPair, Returning(t, fails, r, what, chs)
      PROVE  Types'
  BY <1>2, ReturnTypes
<1>3. ASSUME NEW t \in Threads, NEW how, Ending(t, how) PROVE Types'
  <2>1. UNCHANGED <<local, pc, channel, reply, server, seen>>
    BY <1>3 DEF Ending, End
  <2>2. ThreadTypes' /\ Calling'
    <3>1. ThreadTypes'
      BY <2>1 DEF local, Types, ThreadTypes
    <3>2. \A s \in Threads : Request(s)'.service = Request(s).service
      BY <2>1 DEF local, Request, To, Name
    <3>3. Calling'
      BY <2>1, <3>2 DEF local, Types, Calling
    <3> QED
      BY <3>1, <3>3
  <2>3. ServerTypes'
    <3>1. ended' = [ended EXCEPT ![program[t]] = how] /\ how \in {"null", "throw", "mixed"}
      BY <1>3 DEF Ending, End
    <3> QED
      BY <2>1, <3>1 DEF server, Types, ServerTypes
  <2> QED
    BY <2>2, <2>3 DEF Types
<1>4. ASSUME NEW t \in Threads, Looking(t), Connect(t) PROVE Types'
  <2>1. /\ UNCHANGED <<program, round, step, controller, profile, count, results, reply, cache, service, ended, seen>>
        /\ pc' = [pc EXCEPT ![t] = "sent"] /\ step[t] # "done"
        /\ channel' = [channel EXCEPT ![t] = LookedUp(t, "used")]
    BY <1>4 DEF Connect, Looking, Calls, local, server
  <2>2. LookedUp(t, "used") \in ChannelPair /\ LookedUp(t, "used")[Request(t).service].fd = "used"
    <3>1. channel[t] \in ChannelPair /\ Request(t).service \in {"user", "cache"}
      BY <2>1, RequestFact DEF Types, ThreadTypes, ChannelPair
    <3>2. [fd |-> "used", idx |-> TRUE] \in Channels
      BY DEF Channels
    <3> QED
      BY <3>1, <3>2, ChannelFact DEF LookedUp, ChannelPair
  <2>3. ThreadTypes' /\ ServerTypes'
    BY <2>1, <2>2 DEF Types, ThreadTypes, ServerTypes, ChannelPair
  <2>4. \A s \in Threads : Request(s)'.service = Request(s).service
    BY <2>1 DEF Request, To, Name
  <2>5. Calling'
    BY <2>1, <2>2, <2>4 DEF Calling, Types, ThreadTypes
  <2> QED
    BY <2>3, <2>5 DEF Types
<1>5. ASSUME NEW t \in Threads, Served(t) PROVE Types'
  <2>1. /\ UNCHANGED <<program, step, round, pc, channel, controller, profile, count, results, ended, seen>>
        /\ pc[t] = "sent" /\ \E r \in Replies : reply' = [reply EXCEPT ![t] = <<r>>]
        /\ service' \in {"new", "used", "stored"} /\ cache' \in [Keys -> Vals \cup {Absent}]
    BY <1>5, ServedEffect
  <2>2. ThreadTypes' /\ ServerTypes'
    BY <2>1 DEF Types, ThreadTypes, ServerTypes
  <2>3. \A s \in Threads : Request(s)'.service = Request(s).service
    BY <2>1 DEF Request, To, Name
  <2>4. Calling'
    BY <2>1, <2>3 DEF Calling, Types, ServerTypes
  <2> QED
    BY <2>2, <2>4 DEF Types
<1> QED
  BY <1>1, <1>2, <1>3, <1>4, <1>5, NextForms

-----------------------------------------------------------------------------
(* What the user service replies, sessions and profiles.                   *)

\* A step that neither returns nor serves touches none of what follows.
LEMMA NamesStay ==
    ASSUME UNCHANGED program
    PROVE  \A t \in Threads : Name(t)' = Name(t) /\ Own(t)' = Own(t)
BY DEF Name, Own, ProfileOf, Profile

Data == Replied /\ Sessions /\ Profiles

LEMMA InitData == Init => Data
<1> SUFFICES ASSUME Init PROVE Data
  OBVIOUS
<1>1. Types
  BY InitTypes
<1>2. Replied
  BY DEF Init, Replied
<1>3. \A t \in Threads : step[t] \notin {"CacheUserSession", "SetToCache"}
  <2> TAKE t \in Threads
  <2>1. step[t] = IF Script(t) = <<>> THEN "done" ELSE Script(t)[1]
    BY DEF Init
  <2>2. CASE Script(t) = <<>>
    BY <2>1, <2>2
  <2>3. CASE Script(t) # <<>>
    <3>1. 0 \in 0 .. Last(program[t]) - 1 /\ 0 \in 0 .. Last(program[t]) /\ program \in Programs
      BY <2>3, ScriptFact, <1>1 DEF Types, ThreadTypes
    <3>2. Script(t)[1] = First(program[t], 0)
      <4>1. Script(t)[0 + 1] = First(program[t], 0)
        BY <3>1, ScriptFact
      <4> QED
        BY <4>1
    <3>3. First(program[t], 0) \notin {"CacheUserSession", "SetToCache"}
      BY <3>1, FirstFact
    <3> QED
      BY <2>1, <2>3, <3>2, <3>3
  <2> QED
    BY <2>2, <2>3
<1>4. Sessions /\ Profiles
  BY <1>3, KeysFact DEF Init, Sessions, Profiles, SessionMeansLogin, ProfileIsOwnOrEmpty
<1> QED
  BY <1>2, <1>4 DEF Data

LEMMA ReturnData ==
    ASSUME Types, Data, NEW t \in Threads, NEW fails \in BOOLEAN, NEW r \in Replies, NEW what \in Whats,
           NEW chs \in ChannelPair, Returning(t, fails, r, what, chs)
    PROVE  Data'
<1>1. PICK failed, a : /\ Effect(t, failed, a, r, what, chs)
                       /\ failed = IF Checked(t) THEN fails ELSE controller[t]
  BY ReturnEffect
<1>2. /\ UNCHANGED <<program, cache, loggedIn>> /\ Others(t)
      /\ failed \in BOOLEAN /\ a = After(t, failed, r) /\ step[t] # "done"
      /\ reply'[t] = <<>>
      /\ a.next # "end" => step'[t] = a.next
      /\ a.next = "end" => step'[t] = First(program[t], round[t] + 1)
      /\ seen[t] \subseteq seen'[t]
  BY <1>1 DEF Effect
<1>3. a.next = "end" => step'[t] \notin {"CacheUserSession", "SetToCache"}
  <2>1. round[t] + 1 \in 0 .. Last(program[t])
    BY <1>1, ScriptFact DEF Effect, Types, ThreadTypes
  <2> QED
    BY <1>2, <2>1, FirstFact DEF Types, ThreadTypes
<1>4. /\ a.next = "CacheUserSession" => step[t] = "LoginUser" /\ ~failed /\ r.flag
      /\ a.next = "SetToCache" => step[t] = "GetUserProfile" /\ ~failed /\ r.errcode = 0
  BY <1>2, AfterFact DEF Types
<1>5. step[t] = "LoginUser" /\ r.flag => Name(t) \in loggedIn
  <2>1. step[t] = "LoginUser" /\ r.flag => reply[t] # <<>>
    BY DefaultFact DEF Returning
  <2> QED
    BY <2>1 DEF Data, Replied
<1>6. step[t] = "GetUserProfile" /\ ~failed => r.value = Own(t) \/ (r.value = Empty /\ "blank" \in seen'[t])
  <2> SUFFICES ASSUME step[t] = "GetUserProfile", ~failed
               PROVE  r.value = Own(t) \/ (r.value = Empty /\ "blank" \in seen'[t])
    OBVIOUS
  <2>1. CASE what = "answered"
    BY <2>1 DEF Returning, Data, Replied
  <2>2. CASE what # "answered"
    BY <1>1, <2>2, DefaultFact DEF Effect, Returning
  <2> QED
    BY <2>1, <2>2
<1>7. \A s \in Threads : Name(s)' = Name(s) /\ Own(s)' = Own(s)
  BY <1>2, NamesStay
<1>8. \A s \in Threads : seen[s] \subseteq seen'[s]
  BY <1>2 DEF Others
<1>9. Replied'
  BY <1>2, <1>7 DEF Others, Data, Replied
<1>10. Sessions'
  <2>1. SessionMeansLogin'
    BY <1>2 DEF Data, Sessions, SessionMeansLogin
  <2>2. ASSUME NEW s \in Threads, step'[s] = "CacheUserSession" PROVE Name(s) \in loggedIn
    BY <1>2, <1>3, <1>4, <1>5, <2>2 DEF Others, Data, Sessions
  <2> QED
    BY <1>2, <1>7, <2>1, <2>2 DEF Sessions
<1>11. Profiles'
  <2>1. ProfileIsOwnOrEmpty'
    BY <1>2, <1>8 DEF Data, Profiles, ProfileIsOwnOrEmpty
  <2>2. ASSUME NEW s \in Threads, step'[s] = "SetToCache"
        PROVE  profile'[s] = Own(s) \/ (profile'[s] = Empty /\ "blank" \in seen'[s])
    <3>1. CASE s = t
      <4>1. step[t] = "GetUserProfile" /\ ~failed /\ a.next # "end"
        BY <1>2, <1>3, <1>4, <2>2, <3>1
      <4>2. profile'[t] = r.value
        BY <1>1, <4>1 DEF Effect
      <4> QED
        BY <1>6, <3>1, <4>1, <4>2
    <3>2. CASE s # t
      BY <1>2, <2>2, <3>2 DEF Others, Data, Profiles, Blank
    <3> QED
      BY <3>1, <3>2
  <2> QED
    BY <1>7, <2>1, <2>2 DEF Profiles, Blank
<1> QED
  BY <1>9, <1>10, <1>11 DEF Data

LEMMA NextData ==
    ASSUME Types, Data, [Next]_vars
    PROVE  Data'
<1>1. CASE UNCHANGED <<program, step, profile, reply, cache, loggedIn, seen>>
  BY <1>1, NamesStay DEF Data, Replied, Sessions, SessionMeansLogin, Profiles, ProfileIsOwnOrEmpty, Blank
<1>2. ASSUME NEW t \in Threads, NEW fails \in BOOLEAN, NEW r \in Replies, NEW what \in Whats,
             NEW chs \in ChannelPair, Returning(t, fails, r, what, chs)
      PROVE  Data'
  BY <1>2, ReturnData
<1>3. ASSUME NEW t \in Threads, NEW how, Ending(t, how)
      PROVE  UNCHANGED <<program, step, profile, reply, cache, loggedIn, seen>>
  BY <1>3 DEF Ending, End, local, server
<1>4. ASSUME NEW t \in Threads, Looking(t), Connect(t)
      PROVE  UNCHANGED <<program, step, profile, reply, cache, loggedIn, seen>>
  BY <1>4 DEF Connect, local, server
<1>5. ASSUME NEW t \in Threads, Served(t) PROVE Data'
  <2>1. /\ UNCHANGED <<program, step, profile, seen>> /\ loggedIn \subseteq loggedIn'
        /\ \A s \in Threads : Name(s)' = Name(s) /\ Own(s)' = Own(s)
    BY <1>5, ServedEffect, NamesStay
  <2>2. PICK r \in Replies :
           /\ reply' = [reply EXCEPT ![t] = <<r>>]
           /\ step[t] = "LoginUser" => Name(t) \in loggedIn' /\ r.flag /\ r.errcode = 0
           /\ step[t] = "GetUserProfile" =>
                 r.value = Own(t) \/ (cache[Profile(t)] \notin {Absent, Empty} /\ r.value = cache[Profile(t)])
    BY <1>5, ServedEffect
  <2>3. step[t] = "GetUserProfile" => r.value = Own(t)
    BY <2>2 DEF Data, Profiles, ProfileIsOwnOrEmpty, Own
  <2>4. Replied'
    BY <2>1, <2>2, <2>3 DEF Data, Replied, Types, ServerTypes
  <2>5. \A k \in Keys : \/ cache'[k] = cache[k] \/ cache'[k] = Absent
                        \/ k = Session(Name(t)) /\ Name(t) \in loggedIn'
                        \/ k = Profile(t) /\ cache'[k] = Own(t)
                        \/ k = Profile(t) /\ cache'[k] = profile[t] /\ step[t] = "SetToCache"
                        \/ k = <<"user", t>>
    BY <1>5, <2>1, ServedEffect DEF Data, Sessions
  <2>6. SessionMeansLogin'
    <3> SUFFICES ASSUME NEW n \in Threads \cup {"zhangsan"}, cache'[Session(n)] # Absent PROVE n \in loggedIn'
      BY DEF SessionMeansLogin
    <3>1. Session(n) \in Keys
      BY KeysFact
    <3>2. cache'[Session(n)] = cache[Session(n)] \/ (Session(n) = Session(Name(t)) /\ Name(t) \in loggedIn')
      BY <2>5, <3>1, KeysFact
    <3> QED
      BY <2>1, <3>2, KeysFact DEF Data, Sessions, SessionMeansLogin
  <2>7. Sessions'
    BY <2>1, <2>6 DEF Data, Sessions
  <2>8. ProfileIsOwnOrEmpty'
    <3> SUFFICES ASSUME NEW s \in Threads
                 PROVE  \/ cache'[Profile(s)] \in {Absent, Own(s)}
                        \/ cache'[Profile(s)] = Empty /\ "blank" \in seen[s]
      BY <2>1 DEF ProfileIsOwnOrEmpty, Own
    <3>1. Profile(s) \in Keys
      BY KeysFact
    <3>2. \/ cache'[Profile(s)] = cache[Profile(s)] \/ cache'[Profile(s)] = Absent
          \/ s = t /\ cache'[Profile(s)] = Own(t)
          \/ s = t /\ cache'[Profile(s)] = profile[t] /\ step[t] = "SetToCache"
      BY <2>5, <3>1, KeysFact
    <3> QED
      BY <3>2 DEF Data, Profiles, ProfileIsOwnOrEmpty, Own, Blank
  <2>9. Profiles'
    BY <2>1, <2>8 DEF Data, Profiles, Blank
  <2> QED
    BY <2>4, <2>7, <2>9 DEF Data
<1>6. CASE UNCHANGED vars
  BY <1>1, <1>6 DEF vars, local, server
<1> QED
  BY <1>1, <1>2, <1>3, <1>4, <1>5, <1>6, NextForms

-----------------------------------------------------------------------------
(* How a process ends.                                                     *)

LEMMA InitEnds == Init => Ends
BY DEF Init, Ends, EndIsExplained, NewChannels, NewChannel

\* What explains an end goes on explaining it while the thread stands still.
LEMMA EndsInStays ==
    ASSUME Types, NEW s \in Threads, NEW how, EndsIn(s, how), step'[s] = step[s],
           channel'[s] = channel[s], seen[s] \subseteq seen'[s]
    PROVE  EndsIn(s, how)'
<1>1. Request(s)'.service = Request(s).service
  <2>1. step[s] \in AllSteps
    BY AllStepsFact DEF Types, ThreadTypes, EndsIn
  <2> QED
    BY <2>1 DEF Request, To, AllSteps, BusinessCalls, CheckSteps, ProfileSteps
<1>2. Channel(s)' = Channel(s)
  BY <1>1 DEF Channel
<1> QED
  BY <1>2 DEF EndsIn

\* While a process has not ended, its threads explain no end.
LEMMA EndStays ==
    ASSUME Types, Ends, NEW t \in Threads, ended[program[t]] = "no",
           UNCHANGED <<program, ended>>, \A s \in Threads : seen[s] \subseteq seen'[s],
           \A s \in Threads \ {t} : step'[s] = step[s] /\ channel'[s] = channel[s]
    PROVE  EndIsExplained'
<1> SUFFICES ASSUME NEW p \in DOMAIN ended, ended[p] # "no"
             PROVE  \E s \in Threads : program[s] = p /\ EndsIn(s, ended[p])'
  BY DEF EndIsExplained
<1>1. PICK s \in Threads : program[s] = p /\ EndsIn(s, ended[p])
  BY DEF Ends, EndIsExplained
<1>2. EndsIn(s, ended[p])'
  <2>1. \A how : EndsIn(s, how) => EndsIn(s, how)'
    BY <1>1, EndsInStays
  <2> QED
    BY <1>1, <2>1
<1> QED
  BY <1>1, <1>2

LEMMA NextEnds ==
    ASSUME Types, Ends, [Next]_vars
    PROVE  Ends'
<1> DEFINE Looked(s, c) == \A o \in {"user", "cache"} :
                              c[o].fd = "new" /\ c[o].idx => Found(s)'
           Used(s, c) == \A o \in {"user", "cache"} : c[o].fd = "used" => Spoken(s)'
<1>1. CASE UNCHANGED <<program, step, pc, channel, ended, seen>>
  <2>1. EndIsExplained'
    BY <1>1, EndsInStays DEF Ends, EndIsExplained
  <2> QED
    BY <1>1, <2>1 DEF Ends, Found, Spoken
<1>2. ASSUME NEW t \in Threads, NEW fails \in BOOLEAN, NEW r \in Replies, NEW what \in Whats,
             NEW chs \in ChannelPair, Returning(t, fails, r, what, chs)
      PROVE  Ends'
  <2>1. PICK failed, a : Effect(t, failed, a, r, what, chs)
    BY <1>2, ReturnEffect
  <2>2. /\ UNCHANGED <<program, ended>> /\ Others(t) /\ seen[t] \cup {what} \subseteq seen'[t]
        /\ channel'[t] = NewChannels \/ channel'[t] = chs
        /\ ended[program[t]] = "no" /\ step[t] # "done"
    BY <1>2, <2>1 DEF Effect, Returning
  <2>3. \A s \in Threads : /\ seen[s] \subseteq seen'[s]
                           /\ (Found(s) => Found(s)') /\ (Spoken(s) => Spoken(s)')
    BY <2>2 DEF Others, Found, Spoken
  <2>4. EndIsExplained'
    BY <2>2, <2>3, EndStays DEF Others
  <2>5. Looked(t, NewChannels) /\ Looked(t, channel[t])
    <3>1. Looked(t, NewChannels)
      BY DEF NewChannels, NewChannel
    <3>2. \A o \in {"user", "cache"} : channel[t][o].fd = "new" /\ channel[t][o].idx => Found(t)
      BY DEF Ends
    <3> QED
      BY <2>3, <3>1, <3>2
  <2>6. what \in {"refused", "silent"} => Looked(t, chs)
    BY <2>2 DEF Found
  <2>7. what \notin {"refused", "silent"} => chs = channel[t]
    BY <1>2 DEF Returning
  <2>8. Looked(t, channel'[t])
    BY <2>2, <2>5, <2>6, <2>7
  <2>9. Used(t, chs)
    <3>1. CASE what \in {"answered", "ended", "lost"}
      BY <2>2, <3>1 DEF Spoken
    <3>2. CASE what \notin {"answered", "ended", "lost"}
      <4>1. pc[t] = "call" /\ (chs = channel[t] \/ chs = LookedUp(t, "new"))
        BY <1>2, <3>2 DEF Returning, Types, ThreadTypes
      <4>2. Used(t, channel[t])
        <5>1. \A o \in {"user", "cache"} : channel[t][o].fd = "used" => Spoken(t)
          BY <4>1 DEF Ends
        <5> QED
          BY <2>3, <5>1
      <4>3. CASE chs = LookedUp(t, "new")
        <5>1. channel[t] \in ChannelPair /\ Request(t).service \in {"user", "cache"}
          BY <2>2, RequestFact DEF Types, ThreadTypes, ChannelPair
        <5>2. \A o \in {"user", "cache"} : chs[o] = channel[t][o] \/ chs[o].fd = "new"
          BY <4>3, <5>1, ChannelFact DEF LookedUp, ChannelPair, Channels
        <5> QED
          BY <4>2, <5>2
      <4> QED
        BY <4>1, <4>2, <4>3
    <3> QED
      BY <3>1, <3>2
  <2>10. Used(t, channel'[t])
    BY <2>2, <2>9 DEF NewChannels, NewChannel
  <2>11. \A s \in Threads : Looked(s, channel'[s]) /\ (pc'[s] = "call" => Used(s, channel'[s]))
    <3> SUFFICES ASSUME NEW s \in Threads
                 PROVE  Looked(s, channel'[s]) /\ (pc'[s] = "call" => Used(s, channel'[s]))
      OBVIOUS
    <3>1. CASE s = t
      BY <2>8, <2>10, <3>1
    <3>2. CASE s # t
      <4>1. pc'[s] = pc[s] /\ channel'[s] = channel[s]
        BY <2>2, <3>2 DEF Others
      <4>2. \A o \in {"user", "cache"} :
                /\ channel[s][o].fd = "new" /\ channel[s][o].idx => Found(s)
                /\ pc[s] = "call" /\ channel[s][o].fd = "used" => Spoken(s)
        BY DEF Ends
      <4>3. (Found(s) => Found(s)') /\ (Spoken(s) => Spoken(s)')
        BY <2>3
      <4> QED
        BY <4>1, <4>2, <4>3
    <3> QED
      BY <3>1, <3>2
  <2> QED
    BY <2>4, <2>11 DEF Ends
<1>3. ASSUME NEW t \in Threads, NEW how, Ending(t, how) PROVE Ends'
  <2>1. /\ UNCHANGED <<program, step, pc, channel, seen>> /\ step[t] # "done"
        /\ ended' = [ended EXCEPT ![program[t]] = how] /\ how \in {"null", "throw", "mixed"}
        /\ how = "null" => step[t] = "Register" /\ Channel(t).fd = "used"
        /\ how = "throw" => Channel(t).fd = "new" /\ Channel(t).idx
        /\ how = "mixed" => pc[t] = "call" /\ Channel(t).fd = "used"
    BY <1>3 DEF Ending, End, local
  <2>2. Request(t).service \in {"user", "cache"} /\ Channel(t) \in Channels
    <3>1. Request(t).service \in {"user", "cache"}
      BY <2>1, RequestFact DEF Types
    <3> QED
      BY <3>1 DEF Channel, Types, ThreadTypes
  <2>3. EndsIn(t, how)
    <3>1. how = "throw" => Found(t)
      BY <2>1, <2>2 DEF Channel, Ends
    <3>2. how = "mixed" => Spoken(t)
      BY <2>1, <2>2 DEF Channel, Ends
    <3>3. Channel(t).fd = "new" /\ Channel(t).idx => Channel(t) = [fd |-> "new", idx |-> TRUE]
      BY <2>2 DEF Channels
    <3> QED
      BY <2>1, <3>1, <3>2, <3>3 DEF EndsIn, Found, Spoken
  <2>4. EndIsExplained'
    <3> SUFFICES ASSUME NEW p \in DOMAIN ended, ended'[p] # "no"
                 PROVE  \E s \in Threads : program[s] = p /\ EndsIn(s, ended'[p])
      <4>1. \A s \in Threads : \A h : EndsIn(s, h) => EndsIn(s, h)'
        BY <2>1, EndsInStays
      <4> QED
        BY <2>1, <4>1 DEF EndIsExplained
    <3>1. CASE p = program[t]
      BY <2>1, <2>3, <3>1
    <3>2. CASE p # program[t]
      BY <2>1, <3>2 DEF Ends, EndIsExplained
    <3> QED
      BY <3>1, <3>2
  <2> QED
    BY <2>1, <2>4 DEF Ends, Found, Spoken
<1>4. ASSUME NEW t \in Threads, Looking(t), Connect(t) PROVE Ends'
  <2>1. /\ UNCHANGED <<program, step, seen, ended>> /\ ended[program[t]] = "no" /\ step[t] # "done"
        /\ channel' = [channel EXCEPT ![t] = LookedUp(t, "used")]
        /\ pc' = [pc EXCEPT ![t] = "sent"]
    BY <1>4 DEF Connect, Looking, Calls, local
  <2>2. /\ channel \in [Threads -> ChannelPair] /\ channel[t] \in ChannelPair
        /\ Request(t).service \in {"user", "cache"} /\ pc \in [Threads -> {"call", "sent"}]
    BY <2>1, RequestFact DEF Types, ThreadTypes, ChannelPair
  <2>3. EndIsExplained'
    BY <2>1, <2>2, EndStays
  <2>4. [fd |-> "used", idx |-> TRUE] \in Channels
    BY DEF Channels
  <2>5. \A o \in {"user", "cache"} : \/ LookedUp(t, "used")[o] = channel[t][o]
                                     \/ LookedUp(t, "used")[o].fd = "used"
    BY <2>2, <2>4, ChannelFact DEF LookedUp, ChannelPair
  <2>6. \A s \in Threads : (Found(s)' <=> Found(s)) /\ (Spoken(s)' <=> Spoken(s))
    BY <2>1 DEF Found, Spoken
  <2>7. \A s \in Threads : Looked(s, channel'[s])
    BY <2>1, <2>2, <2>5, <2>6 DEF Ends
  <2>8. \A s \in Threads : pc'[s] = "call" => s # t /\ pc[s] = "call" /\ Used(s, channel'[s])
    BY <2>1, <2>2, <2>6 DEF Ends
  <2> QED
    BY <2>3, <2>7, <2>8 DEF Ends
<1>5. ASSUME NEW t \in Threads, Served(t) PROVE UNCHANGED <<program, step, pc, channel, ended, seen>>
  BY <1>5, ServedEffect
<1>6. CASE UNCHANGED vars
  BY <1>1, <1>6 DEF vars, local
<1> QED
  BY <1>1, <1>2, <1>3, <1>4, <1>5, <1>6, NextForms

-----------------------------------------------------------------------------
(* What the counters and results say of a provider that is not reached.    *)

LEMMA FirstIs ==
    ASSUME NEW p, NEW n
    PROVE  /\ p = "user" => First(p, n) \in {"Login", "done"}
           /\ p = "cache" => First(p, n) \in {"Set", "done"}
           /\ p = "integrated" => First(p, n) \in {"CheckUserSession", "done"}
BY DEF First

LEMMA AppFirst ==
    ASSUME NEW n \in 1 .. 6
    PROVE  First("app", n) = IF n = 1 THEN "CheckUserSession" ELSE IF n \in {2, 3} THEN "GetFromCache"
                             ELSE IF n = 4 THEN "RegisterUser" ELSE IF n = 5 THEN "GetStats" ELSE "done"
BY DEF First, Last, AppScript

LEMMA AddResult ==
    ASSUME NEW X \in Seq(Vals), Len(X) = 6, NEW n \in 0 .. 5, NEW v, v = X[n + 1]
    PROVE  SubSeq(X, 1, n) \o <<v>> = SubSeq(X, 1, n + 1)
<1>1. \A m \in 0 .. 6 : /\ SubSeq(X, 1, m) \in Seq(Vals) /\ Len(SubSeq(X, 1, m)) = m
                        /\ \A i \in 1 .. m : SubSeq(X, 1, m)[i] = X[i]
  <2> TAKE m \in 0 .. 6
  <2>1. /\ SubSeq(X, 1, m) \in Seq(Vals)
        /\ Len(SubSeq(X, 1, m)) = IF 1 <= m THEN m - 1 + 1 ELSE 0
        /\ \A i \in 1 .. m - 1 + 1 : SubSeq(X, 1, m)[i] = X[1 + i - 1]
    <3>1. \A i \in 1 .. m : X[i] \in Vals
      <4>1. \A i \in 1 .. 6 : X[i] \in Vals
        BY ElementOfSeq
      <4> QED
        BY <4>1
    <3> QED
      BY <3>1, SubSeqProperties
  <2> QED
    BY <2>1
<1>2. v \in Vals /\ SubSeq(X, 1, n) \in Seq(Vals) /\ Len(SubSeq(X, 1, n)) = n
      /\ SubSeq(X, 1, n + 1) \in Seq(Vals) /\ Len(SubSeq(X, 1, n + 1)) = n + 1
  BY <1>1
<1> DEFINE whole == SubSeq(X, 1, n) \o <<v>>
<1>3. whole \in Seq(Vals) /\ Len(whole) = n + 1
      /\ \A i \in 1 .. n + 1 : whole[i] = IF i <= n THEN SubSeq(X, 1, n)[i] ELSE v
  <2> DEFINE head == SubSeq(X, 1, n)
  <2>1. head \in Seq(Vals) /\ Len(head) = n
    BY <1>2
  <2> HIDE DEF head
  <2>2. head \o <<v>> \in Seq(Vals) /\ Len(head \o <<v>>) = n + 1
    BY <1>2, <2>1
  <2>3. \A i \in 1 .. n + 1 : (head \o <<v>>)[i] = IF i <= n THEN head[i] ELSE v
    BY <1>2, <2>1
  <2> QED
    BY <2>2, <2>3 DEF head
<1>4. \A i \in 1 .. n + 1 : whole[i] = SubSeq(X, 1, n + 1)[i]
  <2>1. \A i \in 1 .. n + 1 : SubSeq(X, 1, n + 1)[i] = X[i]
    BY <1>1
  <2>2. \A i \in 1 .. n : SubSeq(X, 1, n)[i] = X[i]
    BY <1>1
  <2> HIDE DEF whole
  <2> QED
    BY <1>3, <2>1, <2>2
<1> HIDE DEF whole
<1>5. whole = SubSeq(X, 1, n + 1)
  BY <1>2, <1>3, <1>4, SeqEqual
<1> QED
  BY <1>5 DEF whole

LEMMA ResultsFact ==
    /\ DeadResults \in Seq(Vals) /\ Len(DeadResults) = 6
    /\ LiveResults \in Seq(Vals) /\ Len(LiveResults) = 6
    /\ DeadResults[1] = No /\ DeadResults[2] = No /\ DeadResults[3] = Empty
    /\ DeadResults[4] = Empty /\ DeadResults[5] = No /\ DeadResults[6] = Yes
    /\ LiveResults[1] = Yes /\ LiveResults[2] = No /\ LiveResults[3] = Empty
    /\ LiveResults[4] = Empty /\ LiveResults[5] = No /\ LiveResults[6] = No
BY ValFact DEF DeadResults, LiveResults

Still(s) == /\ step'[s] = step[s] /\ round'[s] = round[s] /\ pc'[s] = pc[s]
            /\ channel'[s] = channel[s] /\ controller'[s] = controller[s]
            /\ profile'[s] = profile[s] /\ count'[s] = count[s] /\ results'[s] = results[s]
            /\ reply'[s] = reply[s] /\ seen'[s] = seen[s]

LEMMA DeadStays ==
    ASSUME UNCHANGED program, NEW s \in Threads, Still(s), Dead(s) => DeadAt(s)
    PROVE  Dead(s)' => DeadAt(s)'
BY DEF Still, Dead, DeadAt, DeadUser, DeadCache, DeadIntegrated, DeadApp, Counted

LEMMA InitDead == Init => DeadInv
<1> SUFFICES ASSUME Init, NEW t \in Threads PROVE DeadAt(t)
  BY DEF DeadInv
<1>1. /\ program \in Programs /\ round[t] = 0 /\ count[t] = [success |-> 0, fail |-> 0]
      /\ results[t] = <<>> /\ step[t] = IF Script(t) = <<>> THEN "done" ELSE Script(t)[1]
  BY DEF Init
<1>2. Types
  BY InitTypes
<1>3. step[t] = First(program[t], 0)
  <2>1. CASE Script(t) = <<>>
    BY <1>1, <2>1, ScriptFact DEF First
  <2>2. CASE Script(t) # <<>>
    <3>1. 0 \in 0 .. Last(program[t]) - 1
      BY <1>1, <2>2, ScriptFact
    <3>2. Script(t)[0 + 1] = First(program[t], 0)
      BY <1>1, <3>1, ScriptFact
    <3> QED
      BY <1>1, <2>2, <3>2
  <2> QED
    BY <2>1, <2>2
<1>4. program[t] = "app" => step[t] = "CheckUserSession"
  BY <1>3 DEF First, Last, AppScript
<1>5. Counted(t, 0, 0)
  BY <1>1 DEF Counted
<1>6. program[t] = "app" => results[t] = SubSeq(DeadResults, 1, 0)
  BY <1>1 DEF DeadResults
<1> QED
  BY <1>1, <1>3, <1>4, <1>5, <1>6, FirstIs DEF DeadAt, DeadUser, DeadCache, DeadIntegrated, DeadApp

LEMMA ReturnDead ==
    ASSUME Types, NEW t \in Threads, NEW fails \in BOOLEAN, NEW r \in Replies, NEW what \in Whats,
           NEW chs \in ChannelPair, Returning(t, fails, r, what, chs), Dead(t) => DeadAt(t), Dead(t)'
    PROVE  DeadAt(t)'
<1>1. PICK failed, a : /\ Effect(t, failed, a, r, what, chs)
                       /\ failed = IF Checked(t) THEN fails ELSE controller[t]
  BY ReturnEffect
<1>n. PICK n \in Nat, s \in Nat, f \in Nat : n = round[t] /\ count[t] = [success |-> s, fail |-> f]
  <2>1. count[t] = [success |-> count[t].success, fail |-> count[t].fail] /\ count[t].success \in Nat /\ count[t].fail \in Nat
    BY DEF Types, ThreadTypes
  <2> QED
    BY <2>1 DEF Types, ThreadTypes
<1>2. /\ what \in {"unknown", "silent"} /\ seen[t] \subseteq {"unknown", "silent", "blank"}
  BY <1>1 DEF Dead, Effect, Whats
<1>3. r = Default /\ ~fails /\ pc[t] = "call"
  BY <1>2 DEF Returning, Types, ThreadTypes
<1>4. Dead(t) /\ DeadAt(t)
  BY <1>2, <1>3 DEF Dead
<1>5. /\ UNCHANGED program /\ step[t] # "done" /\ program[t] \in Ids
      /\ failed \in BOOLEAN
  BY <1>1, AllStepsFact DEF Effect, Types, ThreadTypes
<1>6. a = After(t, failed, r) /\ r.errcode = 0 /\ ~r.flag /\ r.value = Empty
  BY <1>1, <1>3, DefaultFact DEF Effect
<1>7. /\ count'[t] = [success |-> s + a.success, fail |-> f + a.fail]
      /\ a.next # "end" => round'[t] = n /\ step'[t] = a.next
      /\ a.next = "end" => round'[t] = n + 1 /\ step'[t] = First(program[t], n + 1)
      /\ controller'[t] = failed
      /\ results'[t] = results[t] \o a.result
      /\ step[t] = "GetUserProfile" /\ a.next # "end" => profile'[t] = r.value
      /\ n < Last(program[t])
  BY <1>1, <1>n DEF Effect
<1>8. step[t] # "Register" => ~failed
  BY <1>1, <1>3 DEF Checked
<1>9. \A u, v : Counted(t, u, v) => s = u /\ f = v
  BY <1>n DEF Counted
<1>11. CASE program[t] = "user"
  <2>1. DeadUser(t)
    BY <1>4, <1>11 DEF DeadAt
  <2>2. step[t] \in {"Login", "Register"} /\ ~failed
    BY <1>1, <1>5, <1>8, <1>3, <2>1 DEF DeadUser
  <2>3. a = Count(TRUE, IF step[t] = "Login" THEN "Register" ELSE "end")
    <3>1. a = Count(~failed /\ r.errcode = 0, IF step[t] = "Login" THEN "Register" ELSE "end")
      BY <1>5, <1>6, <1>11, <2>2, UserAfter
    <3> QED
      BY <1>6, <2>2, <3>1 DEF Count
  <2>4. a.success = 1 /\ a.fail = 0 /\ a.next = IF step[t] = "Login" THEN "Register" ELSE "end"
    BY <2>3 DEF Count, Then
  <2>5. CASE step[t] = "Login"
    <3>1. s = 2 * n /\ f = 0
      BY <1>5, <1>9, <2>1, <2>5, <1>n DEF DeadUser
    <3>2. count'[t] = [success |-> 2 * n + 1, fail |-> 0] /\ round'[t] = n /\ step'[t] = "Register" /\ ~controller'[t]
      BY <1>5, <1>7, <2>2, <2>4, <2>5, <3>1
    <3>3. DeadUser(t)'
      BY <3>2, <1>n DEF DeadUser, Counted
    <3> QED
      BY <1>5, <1>11, <3>3 DEF DeadAt
  <2>6. CASE step[t] = "Register"
    <3>1. s = 2 * n + 1 /\ f = 0
      BY <1>5, <1>9, <2>1, <2>6, <1>n DEF DeadUser
    <3>2. s + 1 = 2 * (n + 1) /\ f + 0 = 0
      BY <1>5, <3>1
    <3>3. count'[t] = [success |-> 2 * (n + 1), fail |-> 0] /\ round'[t] = n + 1 /\ step'[t] \in {"Login", "done"}
      BY <1>7, <1>11, <2>4, <2>6, <3>2, FirstIs
    <3>4. DeadUser(t)'
      BY <3>3, <1>n DEF DeadUser, Counted
    <3> QED
      BY <1>5, <1>11, <3>4 DEF DeadAt
  <2> QED
    BY <2>2, <2>5, <2>6
<1>12. CASE program[t] = "cache"
  <2>1. DeadCache(t)
    BY <1>4, <1>12 DEF DeadAt
  <2>2. step[t] \in {"Set", "Get", "Exists"} /\ ~failed
    BY <1>5, <1>8, <2>1 DEF DeadCache
  <2>3. CASE step[t] = "Set"
    <3>1. s = 2 * n /\ f = n
      BY <1>5, <1>9, <2>1, <2>3, <1>n DEF DeadCache
    <3>2. a.success = 1 /\ a.fail = 0 /\ a.next = "Get"
      BY <1>5, <1>6, <1>12, <2>2, <2>3, CacheAfter DEF Count, Then
    <3>3. count'[t] = [success |-> 2 * n + 1, fail |-> n] /\ round'[t] = n /\ step'[t] = "Get"
      BY <1>5, <1>7, <3>1, <3>2
    <3>4. DeadCache(t)'
      BY <3>3, <1>n DEF DeadCache, Counted
    <3> QED
      BY <1>5, <1>12, <3>4 DEF DeadAt
  <2>4. CASE step[t] = "Get"
    <3>1. s = 2 * n + 1 /\ f = n
      BY <1>5, <1>9, <2>1, <2>4, <1>n DEF DeadCache
    <3>2. a.success = 0 /\ a.fail = 1 /\ a.next = "Exists"
      BY <1>5, <1>6, <1>12, <2>2, <2>4, CacheAfter DEF Count, Then
    <3>3. count'[t] = [success |-> 2 * n + 1, fail |-> n + 1] /\ round'[t] = n /\ step'[t] = "Exists"
      BY <1>5, <1>7, <3>1, <3>2
    <3>4. DeadCache(t)'
      BY <3>3, <1>n DEF DeadCache, Counted
    <3> QED
      BY <1>5, <1>12, <3>4 DEF DeadAt
  <2>5. CASE step[t] = "Exists"
    <3>1. s = 2 * n + 1 /\ f = n + 1
      BY <1>5, <1>9, <2>1, <2>5, <1>n DEF DeadCache
    <3>2. a.success = 1 /\ a.fail = 0 /\ a.next = "end"
      BY <1>5, <1>6, <1>12, <2>2, <2>5, CacheAfter DEF Count, Then
    <3>3. s + 1 = 2 * (n + 1) /\ f + 0 = n + 1
      BY <1>5, <3>1
    <3>4. count'[t] = [success |-> 2 * (n + 1), fail |-> n + 1] /\ round'[t] = n + 1 /\ step'[t] \in {"Set", "done"}
      BY <1>7, <1>12, <3>2, <3>3, FirstIs
    <3>5. DeadCache(t)'
      BY <3>4, <1>n DEF DeadCache, Counted
    <3> QED
      BY <1>5, <1>12, <3>5 DEF DeadAt
  <2> QED
    BY <2>2, <2>3, <2>4, <2>5
<1>13. CASE program[t] = "integrated"
  <2>1. DeadIntegrated(t)
    BY <1>4, <1>13 DEF DeadAt
  <2>2. step[t] \in BusinessCalls \ {"CacheUserSession"} /\ ~failed
    BY <1>5, <1>8, <2>1 DEF DeadIntegrated, BusinessCalls, CheckSteps, ProfileSteps
  <2>3. CASE step[t] \in {"CheckUserSession", "LoginUser"}
    <3>1. s = 2 * n /\ f = n
      BY <1>5, <1>9, <2>1, <2>3, <1>n DEF DeadIntegrated
    <3>2. \/ a = Then(0, 0, "LoginUser") \/ a = Then(0, 1, "GetFromCache")
      BY <1>5, <1>6, <1>13, <2>2, <2>3, IntegratedAfter
    <3>3. \/ count'[t] = [success |-> 2 * n, fail |-> n] /\ round'[t] = n /\ step'[t] = "LoginUser"
          \/ count'[t] = [success |-> 2 * n, fail |-> n + 1] /\ round'[t] = n /\ step'[t] = "GetFromCache"
      BY <1>5, <1>7, <3>1, <3>2 DEF Then
    <3>4. DeadIntegrated(t)'
      BY <3>3, <1>n DEF DeadIntegrated, Counted
    <3> QED
      BY <1>5, <1>13, <3>4 DEF DeadAt
  <2>4. CASE step[t] \in {"GetFromCache", "GetUserProfile"}
    <3>1. s = 2 * n /\ f = n + 1
      BY <1>5, <1>9, <2>1, <2>4, <1>n DEF DeadIntegrated
    <3>2. \/ a = Then(0, 0, "GetUserProfile") \/ a = Then(0, 0, "SetToCache")
      BY <1>5, <1>6, <1>13, <2>2, <2>4, IntegratedAfter
    <3>3. count'[t] = [success |-> 2 * n, fail |-> n + 1] /\ round'[t] = n /\ step'[t] \in {"GetUserProfile", "SetToCache"}
      BY <1>5, <1>7, <3>1, <3>2 DEF Then
    <3>4. DeadIntegrated(t)'
      BY <3>3, <1>n DEF DeadIntegrated, Counted
    <3> QED
      BY <1>5, <1>13, <3>4 DEF DeadAt
  <2>5. CASE step[t] = "SetToCache"
    <3>1. s = 2 * n /\ f = n + 1
      BY <1>5, <1>9, <2>1, <2>5, <1>n DEF DeadIntegrated
    <3>2. a = Then(2, 0, "end")
      BY <1>5, <1>6, <1>13, <2>2, <2>5, IntegratedAfter
    <3>3. s + 2 = 2 * (n + 1) /\ f + 0 = n + 1
      BY <1>5, <3>1
    <3>4. count'[t] = [success |-> 2 * (n + 1), fail |-> n + 1] /\ round'[t] = n + 1 /\ step'[t] \in {"CheckUserSession", "done"}
      BY <1>7, <1>13, <3>2, <3>3, FirstIs DEF Then
    <3>5. DeadIntegrated(t)'
      BY <3>4, <1>n DEF DeadIntegrated, Counted
    <3> QED
      BY <1>5, <1>13, <3>5 DEF DeadAt
  <2> QED
    BY <2>2, <2>3, <2>4, <2>5 DEF BusinessCalls, CheckSteps, ProfileSteps
<1>14. CASE program[t] = "app"
  <2>1. DeadApp(t)
    BY <1>4, <1>14 DEF DeadAt
  <2>2. step[t] \in AppSteps(n) /\ step[t] # "done" /\ n \in 0 .. 5
    BY <1>5, <1>7, <1>14, StepFact, AppFact, <1>n DEF Types
  <2>3. ~failed
    BY <1>8, <2>2, AppFact
  <2>4. results[t] = SubSeq(DeadResults, 1, n) /\ step[t] \notin {"CacheUserSession", "DeleteFromCache"}
        /\ (step[t] = "SetToCache" => profile[t] = Empty)
    BY <2>1, <1>n DEF DeadApp
  <2>5. \/ a = Result(DeadResults[n + 1])
        \/ a \in {Then(0, 0, "LoginUser"), Then(0, 0, "GetUserProfile")}
        \/ a = Then(0, 0, "SetToCache") /\ step[t] = "GetUserProfile"
    <3>1. CASE step[t] \in CheckSteps
      <4>1. DeadResults[n + 1] = No
        BY <2>2, <3>1, AppFact, ResultsFact DEF CheckSteps
      <4> QED
        BY <1>5, <1>6, <1>14, <2>2, <2>3, <2>4, <3>1, <4>1, AppAfter DEF CheckSteps
    <3>2. CASE step[t] \in ProfileSteps
      <4>1. DeadResults[n + 1] = Empty
        BY <2>2, <3>2, AppFact, ResultsFact DEF ProfileSteps
      <4> QED
        BY <1>5, <1>6, <1>14, <2>2, <2>3, <2>4, <3>2, <4>1, AppAfter DEF ProfileSteps
    <3>3. CASE step[t] = "RegisterUser"
      <4>1. DeadResults[n + 1] = No
        BY <2>2, <3>3, AppFact, ResultsFact
      <4> QED
        BY <1>5, <1>6, <1>14, <2>2, <3>3, <4>1, AppAfter
    <3>4. CASE step[t] = "GetStats"
      <4>1. DeadResults[n + 1] = Yes
        BY <2>2, <3>4, AppFact, ResultsFact
      <4> QED
        BY <1>5, <1>6, <1>14, <2>2, <2>3, <3>4, <4>1, AppAfter
    <3> QED
      BY <2>2, <2>4, <3>1, <3>2, <3>3, <3>4, AppFact DEF CheckSteps, ProfileSteps
  <2>6. CASE a = Result(DeadResults[n + 1])
    <3>1. a.next = "end" /\ a.result = <<DeadResults[n + 1]>>
      BY <2>6 DEF Result
    <3>2. results'[t] = SubSeq(DeadResults, 1, n + 1) /\ round'[t] = n + 1
      <4>1. results'[t] = SubSeq(DeadResults, 1, n) \o <<DeadResults[n + 1]>> /\ round'[t] = n + 1
        BY <1>7, <2>2, <2>4, <3>1
      <4>2. SubSeq(DeadResults, 1, n) \o <<DeadResults[n + 1]>> = SubSeq(DeadResults, 1, n + 1)
        BY <2>2, AddResult, ResultsFact
      <4> QED
        BY <4>1, <4>2
    <3>3. step'[t] \notin {"CacheUserSession", "DeleteFromCache", "SetToCache"}
      <4>1. n + 1 \in 1 .. 6
        BY <2>2
      <4> QED
        BY <1>7, <1>14, <3>1, <4>1, AppFirst
    <3>4. DeadApp(t)'
      BY <3>2, <3>3 DEF DeadApp
    <3> QED
      BY <1>5, <1>14, <3>4 DEF DeadAt
  <2>7. CASE \/ a \in {Then(0, 0, "LoginUser"), Then(0, 0, "GetUserProfile")}
             \/ a = Then(0, 0, "SetToCache") /\ step[t] = "GetUserProfile"
    <3>1. /\ a.next \in {"LoginUser", "GetUserProfile", "SetToCache"} /\ a.result = <<>>
          /\ a.next = "SetToCache" => step[t] = "GetUserProfile"
      BY <2>7 DEF Then
    <3>2. results'[t] = results[t] /\ round'[t] = n /\ step'[t] = a.next
      BY <1>7, <3>1 DEF Types, ThreadTypes
    <3>3. step'[t] = "SetToCache" => profile'[t] = Empty
      BY <1>6, <1>7, <3>1, <3>2
    <3>4. DeadApp(t)'
      BY <2>4, <3>1, <3>2, <3>3 DEF DeadApp
    <3> QED
      BY <1>5, <1>14, <3>4 DEF DeadAt
  <2> QED
    BY <2>5, <2>6, <2>7
<1> QED
  BY <1>5, <1>11, <1>12, <1>13, <1>14 DEF Ids

LEMMA NextDead ==
    ASSUME Types, DeadInv, [Next]_vars
    PROVE  DeadInv'
<1> SUFFICES ASSUME NEW s \in Threads PROVE Dead(s)' => DeadAt(s)'
  BY DEF DeadInv
<1>1. Dead(s) => DeadAt(s)
  BY DEF DeadInv
<1>2. ASSUME NEW t \in Threads, NEW fails \in BOOLEAN, NEW r \in Replies, NEW what \in Whats,
             NEW chs \in ChannelPair, Returning(t, fails, r, what, chs)
      PROVE  Dead(s)' => DeadAt(s)'
  <2>1. UNCHANGED program /\ Others(t)
    <3>1. PICK failed, a : Effect(t, failed, a, r, what, chs)
      BY <1>2, ReturnEffect
    <3> QED
      BY <3>1 DEF Effect
  <2>2. CASE s = t
    <3>1. Dead(t) => DeadAt(t)
      BY <1>1, <2>2
    <3>2. Dead(t)' => DeadAt(t)'
      BY <1>2, <3>1, ReturnDead
    <3> QED
      BY <2>2, <3>2
  <2>3. CASE s # t
    <3>1. Still(s)
      BY <2>1, <2>3 DEF Others, Still
    <3> QED
      BY <1>1, <2>1, <3>1, DeadStays
  <2> QED
    BY <2>2, <2>3
<1>3. ASSUME NEW t \in Threads, NEW how, Ending(t, how) PROVE Dead(s)' => DeadAt(s)'
  BY <1>1, <1>3, DeadStays DEF Ending, End, local, Still
<1>4. ASSUME NEW t \in Threads, Looking(t), Connect(t) PROVE Dead(s)' => DeadAt(s)'
  <2>1. UNCHANGED <<local, reply, seen>> /\ pc' = [pc EXCEPT ![t] = "sent"]
        /\ channel' = [channel EXCEPT ![t] = LookedUp(t, "used")]
    BY <1>4 DEF Connect
  <2>2. CASE s = t
    BY <2>1, <2>2 DEF Types, ThreadTypes, Dead
  <2>3. CASE s # t
    <3>1. Still(s) /\ UNCHANGED program
      BY <2>1, <2>3 DEF Still, local
    <3> QED
      BY <1>1, <3>1, DeadStays
  <2> QED
    BY <2>2, <2>3
<1>5. ASSUME NEW t \in Threads, Served(t) PROVE Dead(s)' => DeadAt(s)'
  <2>1. /\ UNCHANGED <<program, step, round, pc, channel, controller, profile, count, results, seen>>
        /\ pc[t] = "sent" /\ \E r : reply' = [reply EXCEPT ![t] = <<r>>]
    BY <1>5, ServedEffect
  <2>2. CASE s = t
    BY <2>1, <2>2 DEF Dead
  <2>3. CASE s # t
    <3>1. Still(s)
      BY <2>1, <2>3 DEF Still
    <3> QED
      BY <1>1, <2>1, <3>1, DeadStays
  <2> QED
    BY <2>2, <2>3
<1>6. CASE UNCHANGED vars
  BY <1>1, <1>6, DeadStays DEF vars, local, Still
<1> QED
  BY <1>2, <1>3, <1>4, <1>5, <1>6, NextForms

-----------------------------------------------------------------------------
(* And of one that answers whatever reaches it.                            *)

\* A session has one thread that may set it.
LEMMA NameFact ==
    ASSUME program \in Programs, NEW s \in Threads, NEW t \in Threads,
           program[s] \in {"integrated", "app"}, program[t] \in {"integrated", "app"}, Name(s) = Name(t)
    PROVE  s = t
BY ProgramFact, ConstantsAssumption

LEMMA LiveStays ==
    ASSUME UNCHANGED program, NEW s \in Threads, Still(s), Live(s) => LiveAt(s),
           service = "stored" => service' = "stored",
           program[s] \in {"integrated", "app"} /\ service' # "stored" =>
              cache'[Session(Name(s))] \in {cache[Session(Name(s))], Absent}
    PROVE  Live(s)' => LiveAt(s)'
<1> SUFFICES ASSUME Live(s)' PROVE LiveAt(s)'
  OBVIOUS
<1>1. Live(s) /\ LiveAt(s) /\ service' # "stored"
  BY DEF Live, Still
<1>2. Name(s)' = Name(s)
  BY DEF Name
<1>3. CASE program[s] \in {"integrated", "app"}
  <2>1. cache[Session(Name(s))] = Absent
    BY <1>1, <1>3 DEF LiveAt, LiveIntegrated, LiveApp
  <2>2. cache'[Session(Name(s)')] = Absent
    BY <1>1, <1>2, <1>3, <2>1
  <2> QED
    BY <1>1, <1>3, <2>2 DEF Still, LiveAt, LiveIntegrated, LiveApp, Checking, LoggingIn, Spent, Unused, Counted, Session
<1>4. CASE program[s] \notin {"integrated", "app"}
  BY <1>1, <1>4 DEF Still, LiveAt, LiveUser, LiveCache, Unused, Counted
<1> QED
  BY <1>3, <1>4

LEMMA InitLive == Init => LiveInv
<1> SUFFICES ASSUME Init, NEW t \in Threads PROVE LiveAt(t)
  BY DEF LiveInv
<1>1. /\ program \in Programs /\ round[t] = 0 /\ count[t] = [success |-> 0, fail |-> 0]
      /\ results[t] = <<>> /\ step[t] = IF Script(t) = <<>> THEN "done" ELSE Script(t)[1]
      /\ pc[t] = "call" /\ reply[t] = <<>> /\ channel[t] = NewChannels
  BY DEF Init
<1>2. step[t] = First(program[t], 0)
  <2>1. CASE Script(t) = <<>>
    BY <1>1, <2>1, ScriptFact DEF First
  <2>2. CASE Script(t) # <<>>
    <3>1. 0 \in 0 .. Last(program[t]) - 1
      BY <1>1, <2>2, ScriptFact
    <3>2. Script(t)[0 + 1] = First(program[t], 0)
      BY <1>1, <3>1, ScriptFact
    <3> QED
      BY <1>1, <2>2, <3>2
  <2> QED
    BY <2>1, <2>2
<1>3. program[t] = "app" => step[t] = "CheckUserSession"
  BY <1>2 DEF First, Last, AppScript
<1>4. Counted(t, 0, 0) /\ Unused(t, "user") /\ Unused(t, "cache")
  BY <1>1 DEF Counted, Unused, NewChannels, NewChannel
<1>5. program[t] = "app" => results[t] = SubSeq(LiveResults, 1, 0)
  BY <1>1 DEF LiveResults
<1>6. cache[Session(Name(t))] = Absent
  <2>1. Session(Name(t)) \in Keys
    BY <1>1, ProgramFact, KeysFact
  <2> QED
    BY <2>1 DEF Init
<1> QED
  BY <1>1, <1>2, <1>3, <1>4, <1>5, <1>6, FirstIs
     DEF LiveAt, LiveUser, LiveCache, LiveIntegrated, LiveApp, Checking

LEMMA ReturnLive ==
    ASSUME Types, Data, NEW t \in Threads, NEW fails \in BOOLEAN, NEW r \in Replies, NEW what \in Whats,
           NEW chs \in ChannelPair, Returning(t, fails, r, what, chs), Live(t) => LiveAt(t), Live(t)'
    PROVE  LiveAt(t)'
<1>1. PICK failed, a : /\ Effect(t, failed, a, r, what, chs)
                       /\ failed = IF Checked(t) THEN fails ELSE controller[t]
  BY ReturnEffect
<1>n. PICK n \in Nat, s \in Nat, f \in Nat : n = round[t] /\ count[t] = [success |-> s, fail |-> f]
  <2>1. count[t] = [success |-> count[t].success, fail |-> count[t].fail] /\ count[t].success \in Nat /\ count[t].fail \in Nat
    BY DEF Types, ThreadTypes
  <2> QED
    BY <2>1 DEF Types, ThreadTypes
<1>2. /\ what \in {"answered", "ebadf"} /\ seen[t] \subseteq {"answered", "ebadf"}
      /\ service # "stored" /\ UNCHANGED service
  BY <1>1 DEF Live, Effect, Whats, Returning, server
<1>3. LiveAt(t) /\ chs = channel[t]
  BY <1>2 DEF Live, Returning
<1>4. /\ UNCHANGED program /\ step[t] # "done" /\ program[t] \in Ids
      /\ failed \in BOOLEAN /\ a = After(t, failed, r)
  BY <1>1, AllStepsFact DEF Effect, Types
<1>5. /\ count'[t] = [success |-> s + a.success, fail |-> f + a.fail]
      /\ a.next # "end" => round'[t] = n /\ step'[t] = a.next
      /\ a.next = "end" => round'[t] = n + 1 /\ step'[t] = First(program[t], n + 1)
      /\ results'[t] = results[t] \o a.result
      /\ pc'[t] = "call" /\ reply'[t] = <<>>
      /\ channel'[t] = IF a.next = "end" /\ program[t] # "app" THEN NewChannels ELSE channel[t]
      /\ n < Last(program[t])
  BY <1>1, <1>3, <1>n DEF Effect
<1>6. \A u, v : Counted(t, u, v) => s = u /\ f = v
  BY <1>n DEF Counted
<1>7. what = "answered" => ~fails /\ pc[t] = "sent" /\ reply[t] # <<>> /\ r = reply[t][1]
  BY DEF Returning
<1>8. what = "ebadf" => fails /\ pc[t] = "call" /\ Checked(t) /\ ~Unused(t, Request(t).service)
  BY <1>2 DEF Returning, Types, ThreadTypes, Unused, Channel
<1>9. pc[t] = "sent" => ~Unused(t, Request(t).service)
  BY DEF Types, Calling, Unused
<1>10. /\ step[t] \in {"Login", "LoginUser", "Register", "RegisterUser", "GetUserProfile"} =>
              Request(t).service = "user"
       /\ step[t] \notin {"Login", "LoginUser", "Register", "RegisterUser", "GetUserProfile"} =>
              Request(t).service = "cache"
  BY <1>4, RequestFact DEF Types
<1>11. \A o \in {"user", "cache"} : a.next # "end" \/ program[t] = "app" => (Unused(t, o)' <=> Unused(t, o))
  BY <1>5 DEF Unused
<1>12. a.next = "end" /\ program[t] # "app" => Unused(t, "user")' /\ Unused(t, "cache")'
  BY <1>5 DEF Unused, NewChannels, NewChannel
<1>13. Name(t)' = Name(t) /\ UNCHANGED cache
  BY <1>1 DEF Name, Effect
<1>14. /\ Spent(t) => what = "ebadf" /\ failed
       /\ pc[t] = "call" => what = "ebadf"
       /\ what = "answered" /\ step[t] # "Register" => ~failed
  BY <1>1, <1>2, <1>7, <1>8 DEF Spent, Checked
\* The two steps that CheckUserSession and LoginUser have in both programs.
<1>15. ASSUME Checking(t) PROVE ~failed /\ ~r.flag /\ Unused(t, "user") /\ ~Unused(t, "cache")
  BY <1>2, <1>7, <1>8, <1>9, <1>10, <1>14, <1>15 DEF Checking
<1>16. ASSUME LoggingIn(t)
       PROVE  ~failed /\ r.flag /\ r.errcode = 0 /\ ~Unused(t, "user") /\ ~Unused(t, "cache")
  BY <1>2, <1>7, <1>8, <1>9, <1>10, <1>14, <1>16 DEF LoggingIn, Data, Replied
<1>17. CASE program[t] = "user"
  <2>1. LiveUser(t)
    BY <1>3, <1>17 DEF LiveAt
  <2>2. step[t] = "Login" /\ n = 0 /\ ~Unused(t, "user")
    BY <1>2, <1>4, <1>7, <1>8, <1>9, <1>10, <1>n, <2>1 DEF LiveUser, Checked
  <2>3. a.next = "Register"
    BY <1>4, <1>17, <2>2, UserAfter DEF Count, Then
  <2>4. LiveUser(t)'
    BY <1>5, <1>11, <2>2, <2>3 DEF LiveUser
  <2> QED
    BY <1>4, <1>17, <2>4 DEF LiveAt
<1>18. CASE program[t] = "cache"
  <2>1. LiveCache(t)
    BY <1>3, <1>18 DEF LiveAt
  <2>2. step[t] \in {"Set", "Get", "Exists"} /\ ~Unused(t, "cache")
    BY <1>2, <1>4, <1>7, <1>8, <1>9, <1>10, <2>1 DEF LiveCache
  <2>3. CASE step[t] = "Set"
    <3>0. what = "answered" /\ ~failed
      <4>1. pc[t] # "call"
        BY <2>1, <2>2, <2>3 DEF LiveCache
      <4> QED
        BY <1>2, <1>8, <1>14, <2>3, <4>1
    <3>1. s = n /\ f = 2 * n /\ ~failed
      BY <1>6, <1>n, <2>1, <2>3, <3>0 DEF LiveCache
    <3>2. a.success = 1 /\ a.fail = 0 /\ a.next = "Get"
      BY <1>4, <1>18, <2>2, <2>3, <3>1, CacheAfter DEF Count, Then
    <3>3. count'[t] = [success |-> n + 1, fail |-> 2 * n] /\ round'[t] = n /\ step'[t] = "Get"
      BY <1>5, <3>1, <3>2
    <3>4. LiveCache(t)'
      BY <1>5, <1>11, <2>2, <3>2, <3>3 DEF LiveCache, Counted
    <3> QED
      BY <1>4, <1>18, <3>4 DEF LiveAt
  <2>4. CASE step[t] = "Get"
    <3>1. s = n + 1 /\ f = 2 * n /\ failed
      BY <1>1, <1>6, <1>7, <1>8, <1>2, <1>n, <2>1, <2>4 DEF LiveCache, Checked
    <3>2. a.success = 0 /\ a.fail = 1 /\ a.next = "Exists"
      <4>1. a = Count(~failed /\ r.flag, "Exists")
        BY <1>4, <1>18, <2>2, <2>4, CacheAfter
      <4> QED
        BY <3>1, <4>1 DEF Count, Then
    <3>3. count'[t] = [success |-> n + 1, fail |-> 2 * n + 1] /\ round'[t] = n /\ step'[t] = "Exists"
      BY <1>5, <3>1, <3>2
    <3>4. LiveCache(t)'
      BY <1>5, <1>11, <2>2, <3>2, <3>3 DEF LiveCache, Counted
    <3> QED
      BY <1>4, <1>18, <3>4 DEF LiveAt
  <2>5. CASE step[t] = "Exists"
    <3>1. s = n + 1 /\ f = 2 * n + 1 /\ failed
      BY <1>1, <1>6, <1>7, <1>8, <1>2, <1>n, <2>1, <2>5 DEF LiveCache, Checked
    <3>2. a.success = 0 /\ a.fail = 1 /\ a.next = "end"
      <4>1. a = Count(~failed, "end")
        BY <1>4, <1>18, <2>2, <2>5, CacheAfter
      <4> QED
        BY <3>1, <4>1 DEF Count, Then
    <3>3. s + 0 = n + 1 /\ f + 1 = 2 * (n + 1)
      BY <3>1
    <3>4. count'[t] = [success |-> n + 1, fail |-> 2 * (n + 1)] /\ round'[t] = n + 1 /\ step'[t] \in {"Set", "done"}
      BY <1>5, <1>18, <3>2, <3>3, FirstIs
    <3>5. LiveCache(t)'
      BY <1>12, <1>18, <3>2, <3>4 DEF LiveCache, Counted
    <3> QED
      BY <1>4, <1>18, <3>5 DEF LiveAt
  <2> QED
    BY <2>2, <2>3, <2>4, <2>5
<1>19. CASE program[t] = "integrated"
  <2>1. LiveIntegrated(t)
    BY <1>3, <1>19 DEF LiveAt
  <2>2. cache'[Session(Name(t)')] = Absent
    BY <1>13, <2>1 DEF LiveIntegrated
  <2>3. SUFFICES LiveIntegrated(t)'
    BY <1>4, <1>19 DEF LiveAt
  <2>4. CASE Checking(t) /\ Counted(t, n, 2 * n)
    <3>1. a = Then(0, 0, "LoginUser")
      BY <1>4, <1>15, <1>19, <2>4, IntegratedAfter DEF Checking, BusinessCalls, CheckSteps
    <3>2. count'[t] = [success |-> n, fail |-> 2 * n] /\ round'[t] = n /\ step'[t] = "LoginUser"
      BY <1>5, <1>6, <2>4, <3>1 DEF Then
    <3>3. LoggingIn(t)'
      BY <1>5, <1>11, <1>15, <2>4, <3>1, <3>2 DEF LoggingIn, Then
    <3> QED
      BY <2>2, <3>2, <3>3 DEF LiveIntegrated, Counted, Session
  <2>5. CASE LoggingIn(t) /\ Counted(t, n, 2 * n)
    <3>1. a = Then(0, 0, "CacheUserSession")
      BY <1>4, <1>16, <1>19, <2>5, IntegratedAfter DEF LoggingIn, BusinessCalls, CheckSteps
    <3>2. count'[t] = [success |-> n, fail |-> 2 * n] /\ round'[t] = n /\ step'[t] = "CacheUserSession"
      BY <1>5, <1>6, <2>5, <3>1 DEF Then
    <3>3. Spent(t)'
      BY <1>5, <1>11, <1>16, <2>5, <3>1 DEF Spent, Then
    <3> QED
      BY <2>2, <3>2, <3>3 DEF LiveIntegrated, Counted, Session
  <2>6. CASE step[t] = "CacheUserSession" /\ Spent(t) /\ Counted(t, n, 2 * n)
    <3>1. a = Then(1, 1, "GetFromCache")
      BY <1>4, <1>14, <1>19, <2>6, IntegratedAfter DEF BusinessCalls, CheckSteps
    <3>2. count'[t] = [success |-> n + 1, fail |-> 2 * n + 1] /\ round'[t] = n /\ step'[t] = "GetFromCache"
      BY <1>5, <1>6, <2>6, <3>1 DEF Then
    <3>3. Spent(t)'
      BY <1>5, <1>11, <2>6, <3>1 DEF Spent, Then
    <3> QED
      BY <2>2, <3>2, <3>3 DEF LiveIntegrated, Counted, Session
  <2>7. CASE step[t] = "GetFromCache" /\ Spent(t) /\ Counted(t, n + 1, 2 * n + 1)
    <3>1. a = Then(0, 0, "GetUserProfile")
      BY <1>4, <1>14, <1>19, <2>7, IntegratedAfter DEF BusinessCalls, ProfileSteps
    <3>2. s + 0 = n + 1 /\ f + 0 = 2 * n + 1
      BY <1>6, <2>7
    <3>3. count'[t] = [success |-> n + 1, fail |-> 2 * n + 1] /\ round'[t] = n /\ step'[t] = "GetUserProfile"
      BY <1>5, <3>1, <3>2 DEF Then
    <3>4. Spent(t)'
      BY <1>5, <1>11, <2>7, <3>1 DEF Spent, Then
    <3> QED
      BY <2>2, <3>3, <3>4 DEF LiveIntegrated, Counted, Session
  <2>8. CASE step[t] = "GetUserProfile" /\ Spent(t) /\ Counted(t, n + 1, 2 * n + 1)
    <3>1. a = Then(0, 1, "end")
      BY <1>4, <1>14, <1>19, <2>8, IntegratedAfter DEF BusinessCalls, ProfileSteps
    <3>2. s + 0 = n + 1 /\ f + 1 = 2 * (n + 1)
      BY <1>6, <2>8
    <3>3. count'[t] = [success |-> n + 1, fail |-> 2 * (n + 1)] /\ round'[t] = n + 1
          /\ step'[t] \in {"CheckUserSession", "done"}
      BY <1>5, <1>19, <3>1, <3>2, FirstIs DEF Then
    <3>4. Unused(t, "user")' /\ Unused(t, "cache")'
      BY <1>12, <1>19, <3>1 DEF Then
    <3> QED
      BY <1>5, <2>2, <3>3, <3>4 DEF LiveIntegrated, Checking, Counted, Session
  <2> QED
    BY <1>4, <1>n, <2>1, <2>4, <2>5, <2>6, <2>7, <2>8 DEF LiveIntegrated
<1>20. CASE program[t] = "app"
  <2>1. LiveApp(t)
    BY <1>3, <1>20 DEF LiveAt
  <2>2. cache'[Session(Name(t)')] = Absent
    BY <1>13, <2>1 DEF LiveApp
  <2>3. SUFFICES LiveApp(t)'
    BY <1>4, <1>20 DEF LiveAt
  <2>4. /\ step[t] \in AppSteps(n) /\ n \in 0 .. 5 /\ results[t] = SubSeq(LiveResults, 1, n)
        /\ results[t] \in Seq(Vals)
    BY <1>4, <1>20, <1>n, <2>1, StepFact, AppFact DEF Types, ThreadTypes, LiveApp
  <2>5. a = Result(LiveResults[n + 1]) /\ Spent(t) => LiveApp(t)'
    <3> SUFFICES ASSUME a = Result(LiveResults[n + 1]), Spent(t) PROVE LiveApp(t)'
      OBVIOUS
    <3>1. a.next = "end" /\ a.result = <<LiveResults[n + 1]>>
      BY DEF Result
    <3>2. results'[t] = SubSeq(LiveResults, 1, n + 1) /\ round'[t] = n + 1
      <4>1. results'[t] = SubSeq(LiveResults, 1, n) \o <<LiveResults[n + 1]>> /\ round'[t] = n + 1
        BY <1>5, <2>4, <3>1
      <4>2. SubSeq(LiveResults, 1, n) \o <<LiveResults[n + 1]>> = SubSeq(LiveResults, 1, n + 1)
        BY <2>4, AddResult, ResultsFact
      <4> QED
        BY <4>1, <4>2
    <3>3. step'[t] \notin {"CacheUserSession", "DeleteFromCache", "SetToCache"}
      <4>1. n + 1 \in 1 .. 6
        BY <2>4
      <4> QED
        BY <1>5, <1>20, <3>1, <4>1, AppFirst
    <3>4. Spent(t)' /\ n + 1 > 0
      BY <1>5, <1>11, <1>20 DEF Spent
    <3> QED
      BY <2>2, <3>2, <3>3, <3>4 DEF LiveApp, Session
  <2>6. ASSUME NEW next, a = Then(0, 0, next), next # "end"
        PROVE  /\ results'[t] = SubSeq(LiveResults, 1, n) /\ round'[t] = n /\ step'[t] = next
               /\ Unused(t, "user")' <=> Unused(t, "user")
               /\ Unused(t, "cache")' <=> Unused(t, "cache")
    <3>1. a.next = next /\ a.result = <<>>
      BY <2>6 DEF Then
    <3>2. results'[t] = results[t]
      BY <1>5, <2>4, <3>1, ConcatEmptySeq
    <3>3. round'[t] = n /\ step'[t] = next
      BY <1>5, <2>6, <3>1
    <3>4. /\ Unused(t, "user")' <=> Unused(t, "user")
          /\ Unused(t, "cache")' <=> Unused(t, "cache")
      BY <1>11, <1>20
    <3> QED
      BY <2>4, <3>2, <3>3, <3>4
  <2>7. CASE n = 0 /\ Checking(t)
    <3>1. a = Then(0, 0, "LoginUser")
      BY <1>4, <1>15, <1>20, <2>4, <2>7, AppAfter DEF Checking
    <3>2. LoggingIn(t)'
      BY <1>15, <2>6, <2>7, <3>1 DEF LoggingIn
    <3> QED
      BY <2>2, <2>6, <2>7, <3>1, <3>2 DEF LiveApp, Session
  <2>8. CASE n = 0 /\ LoggingIn(t)
    <3>1. a = Then(0, 0, "CacheUserSession")
      BY <1>4, <1>16, <1>20, <2>4, <2>8, AppAfter DEF LoggingIn
    <3>2. Spent(t)'
      BY <1>5, <1>16, <2>6, <2>8, <3>1 DEF Spent
    <3> QED
      BY <2>2, <2>6, <2>8, <3>1, <3>2 DEF LiveApp, Session
  <2>9. CASE n = 0 /\ step[t] = "CacheUserSession" /\ Spent(t)
    <3>1. a = Result(Yes)
      BY <1>4, <1>20, <2>4, <2>9, AppAfter
    <3> QED
      BY <2>5, <2>9, <3>1, ResultsFact
  <2>10. CASE n > 0 /\ Spent(t) /\ step[t] \notin {"CacheUserSession", "SetToCache", "DeleteFromCache"}
    <3>1. failed
      BY <1>14, <2>10
    <3>2. CASE step[t] \in {"CheckUserSession", "GetFromCache"}
      <4>1. a \in {Then(0, 0, "LoginUser"), Then(0, 0, "GetUserProfile")}
        BY <1>4, <1>20, <2>4, <3>1, <3>2, AppAfter
      <4>2. Spent(t)' /\ step'[t] \in {"LoginUser", "GetUserProfile"} /\ round'[t] = n
            /\ results'[t] = SubSeq(LiveResults, 1, n)
        BY <1>5, <2>6, <2>10, <4>1 DEF Spent
      <4> QED
        BY <2>2, <2>10, <4>2 DEF LiveApp, Session
    <3>3. CASE step[t] \in {"LoginUser", "GetUserProfile", "RegisterUser", "GetStats"}
      <4>1. step[t] \in {"LoginUser", "RegisterUser", "GetStats"} => LiveResults[n + 1] = No
        BY <2>4, <2>10, <3>3, AppFact, ResultsFact
      <4>2. step[t] = "GetUserProfile" => LiveResults[n + 1] = Empty
        BY <2>4, <2>10, <3>3, AppFact, ResultsFact
      <4>3. a = Result(LiveResults[n + 1])
        <5>1. CASE step[t] = "LoginUser"
          <6>1. a = Result(No)
            BY <1>4, <1>20, <2>4, <3>1, <5>1, AppAfter
          <6> QED
            BY <4>1, <5>1, <6>1
        <5>2. CASE step[t] = "GetUserProfile"
          <6>1. a = Result(Empty)
            BY <1>4, <1>20, <2>4, <3>1, <5>2, AppAfter
          <6> QED
            BY <4>2, <5>2, <6>1
        <5>3. CASE step[t] = "RegisterUser"
          <6>1. a = Result(No)
            BY <1>4, <1>20, <2>4, <3>1, <5>3, AppAfter
          <6> QED
            BY <4>1, <5>3, <6>1
        <5>4. CASE step[t] = "GetStats"
          <6>1. a = Result(No)
            BY <1>4, <1>20, <2>4, <3>1, <5>4, AppAfter
          <6> QED
            BY <4>1, <5>4, <6>1
        <5> QED
          BY <3>3, <5>1, <5>2, <5>3, <5>4
      <4> QED
        BY <2>5, <2>10, <4>3
    <3> QED
      BY <1>4, <2>4, <2>10, <3>2, <3>3, AppFact
  <2> QED
    BY <1>n, <2>1, <2>7, <2>8, <2>9, <2>10 DEF LiveApp
<1> QED
  BY <1>4, <1>17, <1>18, <1>19, <1>20 DEF Ids

LEMMA ConnectLive ==
    ASSUME Types, NEW t \in Threads, Looking(t), Connect(t), Live(t) => LiveAt(t), Live(t)'
    PROVE  LiveAt(t)'
<1>1. /\ UNCHANGED <<program, round, step, count, results, reply, cache, service, seen>>
      /\ pc[t] = "call" /\ step[t] # "done" /\ pc' = [pc EXCEPT ![t] = "sent"]
      /\ channel' = [channel EXCEPT ![t] = LookedUp(t, "used")] /\ Channel(t).fd = "new"
  BY DEF Connect, Looking, Calls, local, server
<1>2. LiveAt(t) /\ program[t] \in Ids /\ pc'[t] = "sent" /\ reply[t] = <<>> /\ Name(t)' = Name(t)
  BY <1>1, AllStepsFact DEF Live, Types, ThreadTypes, Calling, Name
<1>3. channel[t] \in ChannelPair /\ Request(t).service \in {"user", "cache"} /\ Unused(t, Request(t).service)
  BY <1>1, RequestFact DEF Types, ThreadTypes, ChannelPair, Channel, Unused
<1>4. \A o \in {"user", "cache"} : Unused(t, o)' <=> Unused(t, o) /\ o # Request(t).service
  <2>1. [fd |-> "used", idx |-> TRUE] \in Channels
    BY DEF Channels
  <2>2. /\ LookedUp(t, "used")[Request(t).service].fd = "used"
        /\ \A o \in {"user", "cache"} \ {Request(t).service} : LookedUp(t, "used")[o] = channel[t][o]
    BY <1>3, <2>1, ChannelFact DEF LookedUp, ChannelPair
  <2>3. channel'[t] = LookedUp(t, "used")
    BY <1>1 DEF Types, ThreadTypes
  <2> QED
    BY <1>3, <2>2, <2>3 DEF Unused
<1>5. /\ step[t] \in {"Login", "LoginUser", "Register"} => Request(t).service = "user"
      /\ step[t] \in {"CheckUserSession", "Set", "Get", "Exists"} => Request(t).service = "cache"
  BY <1>1, RequestFact DEF Types
<1>6. ~Spent(t)
  BY <1>3 DEF Spent
<1>7. Checking(t) => Checking(t)'
  BY <1>1, <1>2, <1>4, <1>5 DEF Checking
<1>8. LoggingIn(t) => LoggingIn(t)'
  BY <1>1, <1>2, <1>4, <1>5 DEF LoggingIn
<1>9. CASE program[t] = "user"
  BY <1>1, <1>2, <1>3, <1>5, <1>9 DEF LiveAt, LiveUser
<1>10. CASE program[t] = "cache"
  BY <1>1, <1>2, <1>3, <1>5, <1>10 DEF LiveAt, LiveCache, Counted
<1>11. CASE program[t] = "integrated"
  <2>1. LiveIntegrated(t)
    BY <1>2, <1>11 DEF LiveAt
  <2>2. LiveIntegrated(t)'
    BY <1>1, <1>2, <1>6, <1>7, <1>8, <2>1 DEF LiveIntegrated, Counted, Session
  <2> QED
    BY <1>1, <1>11, <2>2 DEF LiveAt
<1>12. CASE program[t] = "app"
  <2>1. LiveApp(t)
    BY <1>2, <1>12 DEF LiveAt
  <2>2. LiveApp(t)'
    BY <1>1, <1>2, <1>6, <1>7, <1>8, <2>1 DEF LiveApp, Session
  <2> QED
    BY <1>1, <1>12, <2>2 DEF LiveAt
<1> QED
  BY <1>2, <1>9, <1>10, <1>11, <1>12 DEF Ids

LEMMA ServedLive ==
    ASSUME Types, LiveInv, NEW t \in Threads, Served(t), NEW s \in Threads
    PROVE  Live(s)' => LiveAt(s)'
<1>1. /\ UNCHANGED <<program, step, round, pc, channel, controller, profile, count, results, seen>>
      /\ pc[t] = "sent" /\ step[t] # "done" /\ (service = "stored" => service' = "stored")
  BY ServedEffect
<1>2. PICK r : /\ reply' = [reply EXCEPT ![t] = <<r>>]
               /\ step[t] = "CheckUserSession" => (r.flag <=> cache[Session(Name(t))] # Absent)
  BY ServedEffect
<1>3. SUFFICES ASSUME Live(s)' PROVE LiveAt(s)'
  OBVIOUS
<1>4. Live(s) /\ LiveAt(s) /\ service' # "stored"
  BY <1>1, <1>3 DEF Live, LiveInv
<1>5. ASSUME program[s] \in {"integrated", "app"}
      PROVE  cache'[Session(Name(s))] \in {cache[Session(Name(s))], Absent}
  <2> DEFINE k == Session(Name(s))
  <2>1. k \in Keys /\ Name(s) \in Threads \cup {"zhangsan"}
    BY ProgramFact, KeysFact DEF Types, ThreadTypes
  <2>2. \/ cache'[k] = cache[k] \/ cache'[k] = Absent
        \/ k = Session(Name(t)) /\ step[t] = "CacheUserSession"
    BY <1>4, <2>1, ServedEffect, KeysFact
  <2>3. ASSUME k = Session(Name(t)), step[t] = "CacheUserSession" PROVE FALSE
    <3>1. program[t] \in {"integrated", "app"}
      BY <1>1, <2>3, StepFact, AllStepsFact DEF Types, Ids
    <3>2. s = t
      BY <1>5, <2>3, <3>1, KeysFact, NameFact DEF Types, ThreadTypes
    <3> QED
      BY <1>1, <1>4, <1>5, <2>3, <3>2 DEF LiveAt, LiveIntegrated, LiveApp, Checking, LoggingIn, Spent
  <2> QED
    BY <2>2, <2>3
<1>6. CASE s # t
  <2>1. Still(s)
    BY <1>1, <1>2, <1>6 DEF Still
  <2> QED
    BY <1>1, <1>3, <1>4, <1>5, <2>1, LiveStays
<1>7. CASE s = t
  <2>1. Name(t)' = Name(t) /\ reply'[t] = <<r>>
    BY <1>1, <1>2 DEF Name, Types, ServerTypes
  <2>2. CASE program[t] \in {"integrated", "app"}
    <3>1. cache[Session(Name(t))] = Absent
      BY <1>4, <1>7, <2>2 DEF LiveAt, LiveIntegrated, LiveApp
    <3>2. cache'[Session(Name(t)')] = Absent
      BY <1>5, <1>7, <2>1, <2>2, <3>1
    <3>3. Checking(t) => Checking(t)'
      BY <1>1, <1>2, <2>1, <3>1 DEF Checking, Unused
    <3>4. LoggingIn(t) => LoggingIn(t)'
      BY <1>1 DEF LoggingIn, Unused
    <3>5. Spent(t) => FALSE
      BY <1>1 DEF Spent
    <3> QED
      BY <1>1, <1>4, <1>7, <2>2, <3>2, <3>3, <3>4, <3>5 DEF LiveAt, LiveIntegrated, LiveApp, Counted, Session
  <2>3. CASE program[t] \notin {"integrated", "app"}
    BY <1>1, <1>4, <1>7, <2>3 DEF LiveAt, LiveUser, LiveCache, Counted, Unused
  <2> QED
    BY <2>2, <2>3
<1> QED
  BY <1>6, <1>7

LEMMA NextLive ==
    ASSUME Types, Data, LiveInv, [Next]_vars
    PROVE  LiveInv'
<1> SUFFICES ASSUME NEW s \in Threads PROVE Live(s)' => LiveAt(s)'
  BY DEF LiveInv
<1>1. Live(s) => LiveAt(s)
  BY DEF LiveInv
<1>2. ASSUME NEW t \in Threads, NEW fails \in BOOLEAN, NEW r \in Replies, NEW what \in Whats,
             NEW chs \in ChannelPair, Returning(t, fails, r, what, chs)
      PROVE  Live(s)' => LiveAt(s)'
  <2>1. UNCHANGED <<program, cache, service>> /\ Others(t)
    <3>1. PICK failed, a : Effect(t, failed, a, r, what, chs)
      BY <1>2, ReturnEffect
    <3> QED
      BY <3>1 DEF Effect
  <2>2. CASE s = t
    <3>1. Live(t) => LiveAt(t)
      BY <1>1, <2>2
    <3>2. Live(t)' => LiveAt(t)'
      BY <1>2, <3>1, ReturnLive
    <3> QED
      BY <2>2, <3>2
  <2>3. CASE s # t
    <3>1. Still(s)
      BY <2>1, <2>3 DEF Others, Still
    <3> QED
      BY <1>1, <2>1, <3>1, LiveStays
  <2> QED
    BY <2>2, <2>3
<1>3. ASSUME NEW t \in Threads, NEW how, Ending(t, how) PROVE Live(s)' => LiveAt(s)'
  <2>1. Still(s) /\ UNCHANGED <<program, cache, service>>
    BY <1>3 DEF Ending, End, local, server, Still
  <2> QED
    BY <1>1, <2>1, LiveStays
<1>4. ASSUME NEW t \in Threads, Looking(t), Connect(t) PROVE Live(s)' => LiveAt(s)'
  <2>1. UNCHANGED <<local, reply, server, seen>> /\ pc' = [pc EXCEPT ![t] = "sent"]
        /\ channel' = [channel EXCEPT ![t] = LookedUp(t, "used")]
    BY <1>4 DEF Connect
  <2>2. CASE s = t
    BY <1>1, <1>4, <2>2, ConnectLive
  <2>3. CASE s # t
    <3>1. Still(s) /\ UNCHANGED <<program, cache, service>>
      BY <2>1, <2>3 DEF Still, local, server
    <3> QED
      BY <1>1, <3>1, LiveStays
  <2> QED
    BY <2>2, <2>3
<1>5. ASSUME NEW t \in Threads, Served(t) PROVE Live(s)' => LiveAt(s)'
  BY <1>5, ServedLive
<1>6. CASE UNCHANGED vars
  <2>1. Still(s) /\ UNCHANGED <<program, cache, service>>
    BY <1>6 DEF vars, local, server, Still
  <2> QED
    BY <1>1, <2>1, LiveStays
<1> QED
  BY <1>2, <1>3, <1>4, <1>5, <1>6, NextForms

-----------------------------------------------------------------------------
(* The invariant and what follows from it.                                 *)

Inv == Types /\ Data /\ Ends /\ LiveInv /\ DeadInv

LEMMA Invariant == Spec => []Inv
<1>1. Init => Inv
  BY InitTypes, InitData, InitEnds, InitLive, InitDead DEF Inv
<1>2. Inv /\ [Next]_vars => Inv'
  <2>1. ASSUME Inv, Next PROVE Inv'
    BY <2>1, NextTypes, NextData, NextEnds, NextLive, NextDead DEF Inv
  <2>2. ASSUME Inv, UNCHANGED vars PROVE Inv'
    <3>1. Types'
      <4>1. ThreadTypes' /\ ServerTypes'
        BY <2>2 DEF Inv, Types, ThreadTypes, ServerTypes, vars, local, server
      <4>2. Calling'
        <5>1. \A s \in Threads : Request(s)'.service = Request(s).service
          BY <2>2 DEF Request, Name, To, vars, local, server
        <5> QED
          BY <2>2, <5>1 DEF Inv, Types, Calling, vars, local, server
      <4> QED
        BY <4>1, <4>2 DEF Types
    <3>5. Data'
      BY <2>2 DEF Inv, Data, Replied, Sessions, Profiles, SessionMeansLogin, ProfileIsOwnOrEmpty,
         Own, Blank, Name, vars, local, server
    <3>2. Ends'
      BY <2>2, NextEnds DEF Inv
    <3>3. LiveInv'
      <4> SUFFICES ASSUME NEW t \in Threads PROVE (Live(t) <=> Live(t)') /\ (LiveAt(t) <=> LiveAt(t)')
        BY <2>2 DEF Inv, LiveInv
      <4>1. Live(t) <=> Live(t)'
        BY <2>2 DEF Live, vars, local, server
      <4>2. (Checking(t) <=> Checking(t)') /\ (LoggingIn(t) <=> LoggingIn(t)') /\ (Spent(t) <=> Spent(t)')
        BY <2>2 DEF Checking, LoggingIn, Spent, Unused, vars, local, server
      <4>3. (LiveUser(t) <=> LiveUser(t)') /\ (LiveCache(t) <=> LiveCache(t)')
        BY <2>2 DEF LiveUser, LiveCache, Unused, Counted, vars, local, server
      <4>4. (LiveIntegrated(t) <=> LiveIntegrated(t)') /\ (LiveApp(t) <=> LiveApp(t)')
        BY <2>2, <4>2 DEF LiveIntegrated, LiveApp, Counted, Session, Name, vars, local, server
      <4>5. LiveAt(t) <=> LiveAt(t)'
        BY <2>2, <4>3, <4>4 DEF LiveAt, Counted, vars, local, server
      <4> QED
        BY <4>1, <4>5
    <3>4. DeadInv'
      BY <2>2 DEF Inv, DeadInv, Dead, DeadAt, DeadUser, DeadCache, DeadIntegrated, DeadApp, Counted,
         vars, local, server
    <3> QED
      BY <3>1, <3>2, <3>3, <3>4, <3>5 DEF Inv
  <2> QED
    BY <2>1, <2>2
<1> QED
  BY <1>1, <1>2, PTL DEF Spec

\* The variables of every thread keep their types, a thread is only ever in a
\* call of the function it has got to, and a call that waits for its reply has
\* used its channel up (Zclient.cc and integrated_client.cc).
THEOREM TypeCorrect == Spec => []Types
<1>1. Inv => Types
  BY DEF Inv
<1> QED
  BY <1>1, Invariant, PTL

\* Whichever calls fail, visibly or not, whoever has a session in the cache
\* has been logged in by the user service: LoginWithCache and
\* test_integrated_business store one only after a reply that says so.
THEOREM SessionsAreLoggedIn == Spec => []SessionMeansLogin
<1>1. Inv => SessionMeansLogin
  BY DEF Inv, Data, Sessions
<1> QED
  BY <1>1, Invariant, PTL

\* A profile in the cache is its user's, or it is the empty one that
\* test_integrated_business and GetUserProfileWithCache store after a call of
\* GetUserProfile that came back with nothing and did not say that it failed.
THEOREM ProfilesAreOwnOrEmpty == Spec => []ProfileIsOwnOrEmpty
<1>1. Inv => ProfileIsOwnOrEmpty
  BY DEF Inv, Data, Profiles
<1> QED
  BY <1>1, Invariant, PTL

\* A client process ends in one of three ways: through the null controller of
\* Register, on a channel that was used; in the substr of a lookup on a channel
\* that has the index of an earlier one and never connected, after the gate or
\* the connect had failed; or because it sends on the number that an earlier
\* call of the channel left behind, when another socket has that number.
THEOREM EndsAreExplained == Spec => []EndIsExplained
<1>1. Inv => EndIsExplained
  BY DEF Inv, Ends
<1> QED
  BY <1>1, Invariant, PTL

\* A thread between two functions is at the first call of the next one.
LEMMA BetweenFact ==
    ASSUME Types, NEW t \in Threads, Between(t)
    PROVE  pc[t] = "call" /\ (step[t] = "done" \/ step[t] = First(program[t], round[t]))
<1> SUFFICES ASSUME step[t] # "done" PROVE step[t] = First(program[t], round[t])
  BY DEF Between
<1>1. step[t] = Script(t)[round[t] + 1] /\ round[t] \in Nat /\ round[t] <= Last(program[t])
  BY DEF Between, Types, ThreadTypes
<1>2. round[t] # Last(program[t])
  <2>1. program[t] \in Ids
    BY AllStepsFact DEF Types
  <2>2. program[t] = "app" => round[t] \in 0 .. 5 /\ Last(program[t]) = 6
    BY <1>1, StepFact, AppFact DEF Types, Last
  <2>3. program[t] # "app" => round[t] # Rounds /\ Last(program[t]) = Rounds
    BY <2>1 DEF Types, ThreadTypes, Steps, Last, Ids
  <2> QED
    BY <2>2, <2>3
<1>3. round[t] \in 0 .. Last(program[t]) - 1
  BY <1>1, <1>2, ScriptFact DEF Types, ThreadTypes
<1> QED
  BY <1>1, <1>3, ScriptFact DEF Types, ThreadTypes

LEMMA BetweenSteps ==
    ASSUME Types, NEW t \in Threads, Between(t)
    PROVE  /\ program[t] = "user" => step[t] \in {"Login", "done"}
           /\ program[t] = "cache" => step[t] \in {"Set", "done"}
           /\ program[t] = "integrated" => step[t] \in {"CheckUserSession", "done"}
BY BetweenFact DEF First

LEMMA PrefixFact ==
    ASSUME Types, NEW t \in Threads, program[t] = "app", NEW whole \in {LiveResults, DeadResults},
           results[t] = SubSeq(whole, 1, round[t])
    PROVE  Prefix(results[t], whole)
<1>1. round[t] \in 0 .. 6
  <2>1. Last(program[t]) = 6
    BY DEF Last
  <2> QED
    BY <2>1 DEF Types, ThreadTypes
<1>2. Len(results[t]) = round[t]
  <2>1. LiveResults \in Seq(Vals) /\ DeadResults \in Seq(Vals)
    BY ValFact, ResultsFact
  <2>2. Len(whole) = 6 /\ whole \in Seq(Vals)
    BY <2>1, ResultsFact
  <2> QED
    BY <1>1, <2>2, SubSeqProperties
<1> QED
  BY <1>2 DEF Prefix

LEMMA LiveFollows == Inv => LiveOutcome
<1> SUFFICES ASSUME Inv, NEW t \in Threads, Between(t), Live(t)
             PROVE  CASE program[t] = "user" -> round[t] = 0
                      [] program[t] = "app" -> Prefix(results[t], LiveResults)
                      [] OTHER -> Counted(t, round[t], 2 * round[t])
  BY DEF LiveOutcome, Live, LiveResults, Counted
<1>1. LiveAt(t) /\ Types /\ program[t] \in Ids \cup {"idle"}
  BY ProgramFact DEF Inv, LiveInv, Types, ThreadTypes
<1>2. CASE program[t] = "user"
  BY <1>1, <1>2 DEF LiveAt, LiveUser
<1>3. CASE program[t] = "app"
  BY <1>1, <1>3, PrefixFact DEF LiveAt, LiveApp
<1>4. CASE program[t] = "cache"
  BY <1>1, <1>4, BetweenSteps DEF LiveAt, LiveCache
<1>5. CASE program[t] = "integrated"
  BY <1>1, <1>5, BetweenSteps DEF LiveAt, LiveIntegrated, Checking, LoggingIn
<1>6. CASE program[t] = "idle"
  <2>1. round[t] = 0 /\ Counted(t, 0, 0)
    BY <1>1, <1>6, StepFact DEF LiveAt, Types
  <2> QED
    BY <1>6, <2>1
<1> QED
  BY <1>1, <1>2, <1>3, <1>4, <1>5, <1>6 DEF Ids

LEMMA DeadFollows == Inv => DeadOutcome
<1> SUFFICES ASSUME Inv, NEW t \in Threads, Between(t), Dead(t)
             PROVE  CASE program[t] = "user" -> Counted(t, 2 * round[t], 0)
                      [] program[t] = "app" -> Prefix(results[t], DeadResults)
                      [] OTHER -> Counted(t, 2 * round[t], round[t])
  BY DEF DeadOutcome, Dead, DeadResults, Counted, Between
<1>1. DeadAt(t) /\ Types /\ program[t] \in Ids \cup {"idle"}
  BY ProgramFact DEF Inv, DeadInv, Types, ThreadTypes
<1>2. CASE program[t] = "user"
  BY <1>1, <1>2, BetweenSteps DEF DeadAt, DeadUser
<1>3. CASE program[t] = "app"
  BY <1>1, <1>3, PrefixFact DEF DeadAt, DeadApp
<1>4. CASE program[t] = "cache"
  BY <1>1, <1>4, BetweenSteps DEF DeadAt, DeadCache
<1>5. CASE program[t] = "integrated"
  BY <1>1, <1>5, BetweenSteps DEF DeadAt, DeadIntegrated
<1>6. CASE program[t] = "idle"
  <2>1. round[t] = 0 /\ Counted(t, 0, 0)
    BY <1>1, <1>6, StepFact DEF DeadAt, Types
  <2> QED
    BY <1>6, <2>1
<1> QED
  BY <1>1, <1>2, <1>3, <1>4, <1>5, <1>6 DEF Ids

\* What the counters of Zclient and the results of IntegratedClient say of a
\* provider that answers everything that reaches it and of one that cannot be
\* reached: the same for every number of threads and of rounds.
THEOREM OutcomesFollow == Spec => []OutcomeFollows
<1>1. Inv => OutcomeFollows
  BY LiveFollows, DeadFollows DEF OutcomeFollows
<1> QED
  BY <1>1, Invariant, PTL

=============================================================================
