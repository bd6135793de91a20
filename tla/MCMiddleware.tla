---------------------------- MODULE MCMiddleware ----------------------------
(***************************************************************************)
(* Middleware for TLC: a client that comes through a proxy and without it. *)
(* The middleware calls no policy; Policies is checked here against the    *)
(* cases of its tests, and against what its policies are for.              *)
(***************************************************************************)
EXTENDS Middleware, Policies

Direct  == [path |-> "/a", forwarded |-> None, real_ip |-> None, peer |-> "c1"]
Proxied == [path |-> "/a", forwarded |-> "c1", real_ip |-> None, peer |-> "proxy"]

OneClient == {Direct, Proxied}

StoredKeys == {<<"axum", "/a">>, <<"ip", "c1">>}

\* The cases of the tests in src/policy.rs.
ASSUME PoliciesAsTested ==
  /\ [s \in {200, 404, 500} |-> PenaltyOnResponse(Penalty(3), s)]
       = [s \in {200, 404, 500} |-> IF s = 200 THEN 0 ELSE -2]
  /\ \A s \in {200, 204, 304} :
       CreditOnResponse(WithNoContent(Credit), s) = (IF s = 200 THEN 0 ELSE 1)
  /\ \A s \in {404, 304} :
       CompositeOnResponse(<<PenaltyOnResponse(Penalty(2), s), CreditOnResponse(Credit, s)>>)
         = (IF s = 404 THEN -1 ELSE 1)
  /\ CompositeCost(<<>>) = TokenCost /\ CompositeCost(<<TokenCost, 3, 2>>) = 3

\* An error never costs less than a success, unless its multiplier is 0: then
\* multiplier - 1 wraps, and the client gets a token back for each error.
ASSUME PenaltiesCharge ==
  /\ \A m \in 1..2^(Width - 1) : PenaltyOnResponse(Penalty(m), 404) = 1 - m
  /\ PenaltyOnResponse(Penalty(0), 404) = 1
=============================================================================
