------------------------------ MODULE MCFraming ------------------------------
(* Every method of both services, with arguments and replies that have      *)
(* defaults, negative and two-byte integers, empty and repeated elements.   *)
EXTENDS RpcFraming

MCNameOf == [UserServiceRpc |-> <<65>>, CacheServiceRpc |-> <<66>>,
             Login |-> <<67>>, Register |-> <<68>>, SumtoN |-> <<69>>,
             GetUserProfile |-> <<70>>, Set |-> <<71>>, Get |-> <<72>>,
             Delete |-> <<73>>, Exists |-> <<74>>, BatchGet |-> <<75>>,
             GetStats |-> <<76>>]

k == <<97>>
v == <<98>>

User(m, l, values)  == [service |-> "UserServiceRpc", method |-> m, request |-> With(l, values)]
Cache(m, l, values) == [service |-> "CacheServiceRpc", method |-> m, request |-> With(l, values)]

MCCalls == {
    User("Login", LoginRequest, <<k, v>>),
    User("Register", RegisterRequest, <<300, k, v>>),
    User("SumtoN", SumToNRequest, <<5>>),
    User("SumtoN", SumToNRequest, <<-1>>),
    User("GetUserProfile", GetUserProfileRequest, <<200>>),
    Cache("Set", CacheSetRequest, <<k, v, 60>>),
    Cache("Set", CacheSetRequest, <<k, <<>>, 0>>),
    Cache("Get", CacheGetRequest, <<k>>),
    Cache("Delete", CacheDeleteRequest, <<k>>),
    Cache("Exists", CacheExistsRequest, <<k>>),
    Cache("BatchGet", CacheBatchGetRequest, << <<k, <<>>, v>> >>),
    Cache("GetStats", CacheStatsRequest, <<>>) }

\* The result codes the handlers set: the cache service always gives a text,
\* the user service leaves it empty when it did the work itself.
empty == << With(ResultCode, <<0, <<>>>>) >>
good  == << With(ResultCode, <<0, v>>) >>
bad   == << With(ResultCode, <<-1, v>>) >>
miss  == << With(ResultCode, <<1, v>>) >>

MCReplies == [
    Login    |-> {With(LoginResponse, <<empty, 1>>), With(LoginResponse, <<good, 1>>)},
    Register |-> {With(RegisterResponse, <<empty, 1>>)},
    SumtoN   |-> {With(SumToNResponse, <<good, 15>>), With(SumToNResponse, <<empty, -2>>)},
    GetUserProfile |-> {With(GetUserProfileResponse, <<good, v, 1>>),
                        With(GetUserProfileResponse, <<empty, v, 0>>)},
    Set      |-> {good[1], bad[1]},
    Get      |-> {With(CacheGetResponse, <<good, v, 1, 3600>>),
                  With(CacheGetResponse, <<miss, <<>>, 0, 0>>)},
    Delete   |-> {good[1], miss[1]},
    Exists   |-> {With(CacheExistsResponse, <<good, 0>>)},
    BatchGet |-> {With(CacheBatchGetResponse,
                    <<good, <<With(CacheItem, <<k, v, 1>>), New(CacheItem)>> >>)},
    GetStats |-> {With(CacheStatsResponse,
                    <<good, 2, 128, 1, 1, <<0, 0, 0, 0, 0, 0, 224, 63>> >>)} ]
=============================================================================
