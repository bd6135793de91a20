-------------------------------- MODULE Keys --------------------------------
(***************************************************************************)
(* The key extractors of src/key: what of a request says whose request it  *)
(* is.  A key is the sequence of the parts the code joins by colons, and   *)
(* None is a request the extractor finds no key for.  Extractors built     *)
(* from others are operators on what those extract; custom separators are  *)
(* left out.                                                               *)
(*                                                                         *)
(* A request is a record [ip, path, method, headers]: ip may be None,      *)
(* headers is a function from the names that are present, and a path is    *)
(* what the code's split('/') makes of it, a sequence of segments, empty   *)
(* ones included: "/a/" and "/a" differ, with the same Parts.              *)
(***************************************************************************)
EXTENDS Naturals, Sequences

CONSTANTS
  None,
  First(_)      \* of a header's value: up to the first comma, trimmed

Header(r, name) == IF name \in DOMAIN r.headers THEN r.headers[name] ELSE None

\* The segments of a path that are compared and counted.
Parts(path) == SelectSeq(path, LAMBDA s : s /= "")

\* The client's address as the header says, if one is configured, is present
\* and does not start with an empty entry, else that of the connection.
IpKey(r, real_ip_header) ==
  LET value == IF real_ip_header = None THEN None ELSE Header(r, real_ip_header)
  IN  CASE value /= None /\ First(value) /= "" -> <<"ip", First(value)>>
        [] value = None \/ First(value) = "" ->
             IF r.ip = None THEN None ELSE <<"ip", r.ip>>

HeaderKey(r, name) ==
  IF Header(r, name) = None THEN None ELSE <<"header", name, Header(r, name)>>

PathKey(r) == <<"path", r.path>>

PathPrefixKey(r, segments) ==
  LET parts == Parts(r.path)
      n == IF segments < Len(parts) THEN segments ELSE Len(parts)
  IN  <<"path", <<"">> \o IF n = 0 THEN <<"">> ELSE SubSeq(parts, 1, n)>>

MethodKey(r) == <<"method", r.method>>

RouteKey(route_pattern) == <<"route", route_pattern>>

GlobalKey == <<"global">>

StaticKey(key) == key

\* Both keys, or none.
CompositeKey(first, second) ==
  IF first = None \/ second = None THEN None ELSE first \o second

CompositeKey3(first, second, third) == CompositeKey(CompositeKey(first, second), third)

\* The first that is there.
EitherKey(primary, fallback) == IF primary /= None THEN primary ELSE fallback

\* Always a key.
OptionalKey(inner, default) == IF inner /= None THEN inner ELSE default
=============================================================================
