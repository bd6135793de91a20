---------------------------- MODULE MCMemoryOps ----------------------------
(***************************************************************************)
(* MemoryLifecycle for TLC.  Requests collect, and one worker calls every  *)
(* operation, get among them, which removes what it has let go of; or two  *)
(* race: one sets and increments, the other reads and writes back, deletes,*)
(* clears and collects.  Or the task collects, beside a worker that stores *)
(* and reads.                                                              *)
(***************************************************************************)
EXTENDS MemoryLifecycle

CONSTANTS w1, w2

TwoWorkers == {w1, w2}

Alone   == [w \in TwoWorkers |-> IF w = w1 THEN Operations ELSE {}]
Racing  == [w \in TwoWorkers |-> IF w = w1 THEN {"set", "increment"}
                                           ELSE {"execute_atomic", "delete", "run_gc", "clear"}]
Storing == [w \in TwoWorkers |-> IF w = w1 THEN {"set", "get"} ELSE {}]

AnyClients == {Alone, Racing, Storing}

ByRequestsOrTask == {<<"requests", Alone>>, <<"requests", Racing>>, <<"duration", Storing>>}

ByTask == {<<"duration", Storing>>}
=============================================================================
