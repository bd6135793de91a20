------------------------------ MODULE MCManager -----------------------------
(***************************************************************************)
(* Manager for TLC: a manager like the one of README.md, with an exact     *)
(* route that a pattern matches too, and two without a default quota, with *)
(* routes that share a key: of one quota, and of different ones.           *)
(***************************************************************************)
EXTENDS Manager

INSTANCE QuotaBuilder
INSTANCE ManagerBuilder

Login  == <<"", "auth", "login">>
Slash  == <<"", "auth", "login", "">>
All    == <<"", "**">>

\* One request per ms, without or with a burst of two; one in two ms; two per ms,
\* a period of 0 milliseconds.
Strict == SimpleQuota(1)
Lax    == PeriodAndBurst(1, 2)
Slow   == PeriodAndBurst(2, 1)
Fast   == NewQuota(2, 1)

PerRoute ==
  WithRoute(WithRoutePattern(WithDefaultQuota(Builder, Strict),
                             All, RouteConfig(Strict)),
            Login, RouteConfig(Slow))

\* The route and a pattern share a key, by a suffix that reads like a path.
Suffixed(quota, pattern_quota) ==
  WithRoutePattern(WithRoute(Builder, Login, WithKeySuffix(RouteConfig(quota), Login)),
                   <<"", "auth", "*">>, WithKeySuffix(RouteConfig(pattern_quota), Login))

ThreeManagers == {PerRoute, Suffixed(Slow, Strict), Suffixed(Lax, Fast)}

\* The value "c1, proxy" of a forwarding header is the one with a comma.
FirstOf(value) == IF value = "c1, proxy" THEN "c1" ELSE value

\* By API key, or else by address.
ByApiKeyOrIp(r) == EitherKey(HeaderKey(r, "x-api-key"), IpKey(r, "x-forwarded-for"))

Get(ip, headers, path) == [ip |-> ip, headers |-> headers, path |-> path, method |-> "GET"]

Token     == [h \in {"x-api-key"} |-> "t1"]
Forwarded == [h \in {"x-forwarded-for"} |-> "c1, proxy"]
NoHeaders == [h \in {} |-> None]

\* A client with a key on two paths, and one the extractor finds no key for.
TwoClients == {Get("c1", Token, Login), Get("c1", Token, Slash), Get(None, NoHeaders, Login)}

StoredKeys ==
  {<<c, t>> : c \in {<<"header", "x-api-key", "t1">>, <<"unknown">>},
              t \in {Login, Slash, <<"*">>}}

\* The cases of the tests in src/key and tests/keys.rs.
ASSUME KeysAsTested ==
  LET r == Get("10.0.0.1", Forwarded, <<"", "api", "users", "123", "posts">>)
  IN  /\ IpKey(r, None) = <<"ip", "10.0.0.1">>
      /\ IpKey(r, "x-forwarded-for") = <<"ip", "c1">>
      /\ IpKey([r EXCEPT !.ip = None], "x-real-ip") = None
      /\ PathKey(r) = <<"path", r.path>>
      /\ PathPrefixKey(r, 2) = <<"path", <<"", "api", "users">>>>
      /\ PathPrefixKey(r, 0) = <<"path", <<"", "">>>>
      /\ HeaderKey(r, "x-forwarded-for") = <<"header", "x-forwarded-for", "c1, proxy">>
      /\ MethodKey([r EXCEPT !.method = "POST"]) = <<"method", "POST">>
      /\ RouteKey("/users/{id}") = <<"route", "/users/{id}">>
      /\ CompositeKey(StaticKey(<<"user", "123">>), StaticKey(<<"/api/data">>))
           = <<"user", "123", "/api/data">>
      /\ CompositeKey3(GlobalKey, HeaderKey(r, "x-api-key"), MethodKey(r)) = None
      /\ ByApiKeyOrIp(r) = <<"ip", "c1">>
      /\ EitherKey(<<"primary">>, <<"fallback">>) = <<"primary">>
      /\ OptionalKey(HeaderKey(r, "x-api-key"), <<"default">>) = <<"default">>

\* The cases of test_pattern_matches_exact, _single_wildcard, _double_wildcard.
ASSUME PatternsAsTested ==
  /\ PatternMatches(<<"", "api", "users">>, <<"", "api", "users">>)
  /\ ~PatternMatches(<<"", "api", "users">>, <<"", "api", "posts">>)
  /\ PatternMatches(<<"", "api", "*", "posts">>, <<"", "api", "users", "posts">>)
  /\ ~PatternMatches(<<"", "api", "*", "posts">>, <<"", "api", "users", "comments">>)
  /\ PatternMatches(<<"", "api", "**">>, <<"", "api", "users">>)
  /\ PatternMatches(<<"", "api", "**">>, <<"", "api", "users", "123", "posts">>)
  /\ ~PatternMatches(<<"", "api", "**">>, <<"", "v2", "api", "users">>)

\* The cases of the tests in src/quota.rs and tests/quota.rs.
ASSUME QuotasAsTested ==
  LET builder == [max_requests |-> 100, window |-> 60000, burst |-> 150, refill_rate |-> None]
  IN  /\ PerSecond(10) = [max_requests |-> 10, window |-> 1000, burst |-> None,
                          refill_rate |-> None]
      /\ WithBurst(DefaultQuota, 30).burst = 30
      /\ BuildQuota(builder) = WithBurst(PerMinute(100), 150)
      /\ BuildQuota([builder EXCEPT !.window = None]) = None
      /\ BuildQuota([builder EXCEPT !.max_requests = None]) = None
      /\ NewQuota(0, 60000) = None /\ NewQuota(100, 0) = None
      /\ PeriodOf(SimpleQuota(100)) = 100 /\ PeriodOf(PerSecond(10)) = 100
      /\ OffsetOf(PeriodAndBurst(100, 5)) = 400

\* A burst of 0, which nothing refuses, reaches as far ahead as there are numbers;
\* any other is what the rest of the models take it for.
ASSUME BurstsReach ==
  /\ PeriodsAhead(WithBurst(PerSecond(10), 0), 8) = 255
  /\ \A burst \in 1..256 : PeriodsAhead(WithBurst(PerSecond(10), burst), 8) = burst - 1

\* A path configured twice has its last configuration.
ASSUME LastRouteCounts ==
  WithRoute(WithRoute(Builder, Login, RouteConfig(Lax)), Login, RouteConfig(Strict))
    = WithRoute(Builder, Login, RouteConfig(Strict))
=============================================================================
