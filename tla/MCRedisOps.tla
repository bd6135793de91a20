----------------------------- MODULE MCRedisOps -----------------------------
(***************************************************************************)
(* RedisOps for TLC, on two connections.  One task alone calls every       *)
(* operation; or two race to increment, each on a connection of its own,   *)
(* one of them deletes as well; or three share the connections for         *)
(* operations that read, that write, and that do both.                     *)
(***************************************************************************)
EXTENDS RedisOps

CONSTANTS w1, w2, w3

Tasks == {w1, w2, w3}

Nobody == [w \in Tasks |-> {}]

Alone   == [Nobody EXCEPT ![w1] = Operations]
Racing  == [Nobody EXCEPT ![w1] = {"increment"}, ![w2] = {"increment", "delete"}]
Sharing == [Nobody EXCEPT ![w1] = {"execute_atomic"}, ![w2] = {"get", "delete"},
                          ![w3] = {"get", "execute_atomic"}]

AnyClients == {Alone, Racing, Sharing}
=============================================================================
