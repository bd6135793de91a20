--------------------------- MODULE ManagerBuilder ---------------------------
(***************************************************************************)
(* RouteConfig and RateLimitManagerBuilder (src/manager.rs): how the       *)
(* manager of Manager comes to its routes, patterns and default quota.     *)
(* The key extractor is a parameter of Manager.                            *)
(***************************************************************************)
EXTENDS Sequences, TLC

CONSTANT None

RouteConfig(quota) == [quota |-> quota, key_suffix |-> None]

WithKeySuffix(config, suffix) == [config EXCEPT !.key_suffix = suffix]

Builder == [routes |-> <<>>, patterns |-> <<>>, default_quota |-> None]

WithDefaultQuota(builder, quota) == [builder EXCEPT !.default_quota = quota]

\* HashMap::insert: the last configuration of a path counts.
WithRoute(builder, path, config) == [builder EXCEPT !.routes = (path :> config) @@ @]

\* Vec::push: the first pattern that matches counts.
WithRoutePattern(builder, pattern, config) ==
  [builder EXCEPT !.patterns = Append(@, [pattern |-> pattern, config |-> config])]
=============================================================================
