---------------------------- MODULE RedisStorage ----------------------------
(***************************************************************************)
(* RedisStorage (src/storage/redis_cluster.rs): each operation takes a     *)
(* connection from the pool and sends one or two commands, each atomic at  *)
(* the server, with nothing that makes two of them one.                    *)
(*                                                                         *)
(* A task is an async task: it can be interleaved with others at every     *)
(* await, a command can fail there, before or after the server has carried *)
(* it out, and the caller can drop the future there, which leaves the same *)
(* state behind as a failure.  Values are the entries themselves: serde    *)
(* reads back what it wrote (an absent Option field is None).              *)
(***************************************************************************)
EXTENDS StorageEntry, FiniteSets

CONSTANTS
  Keys,
  Workers,        \* the tasks
  Connections,    \* connections of the pool, which is built from the URL alone
  MsPerSecond,    \* 1000; smaller in the instances, where expiry matters
  MaxClock        \* bound: the clock stops here

VARIABLES
  clock,          \* the one clock of the server and of the tasks
  store,          \* server: the entry of each key and when it expires, or None
  free,           \* connections in the pool
  call            \* per task: the operation it is in, and its locals

redisVars == <<clock, store, free, call>>

Operations == {"get", "set", "delete", "increment", "execute_atomic",
               "compare_and_swap"}

Phases == {"idle", "connect", "read", "write"}

Value == [entry : StorageEntry, expires_at : Nat]

Call == [phase : Phases, op : Operations \cup {None}, key : Keys \cup {None},
         ttl : Nat, current : StorageEntry \cup {None}]

ASSUME RedisAssumption ==
  /\ Connections \in Nat \ {0}
  /\ MsPerSecond \in Nat \ {0}
  /\ MaxClock \in Nat
  /\ None \notin Operations \cup Keys
  /\ None \notin StorageEntry /\ None \notin Value

NoCall == [phase |-> "idle", op |-> None, key |-> None, ttl |-> 0, current |-> None]

RedisTypeOK ==
  /\ clock \in Nat
  /\ store \in [Keys -> Value \cup {None}]
  /\ free \in 0..Connections
  /\ call \in [Workers -> Call]

RedisInit ==
  /\ clock = 0
  /\ store = [k \in Keys |-> None]
  /\ free = Connections
  /\ call = [w \in Workers |-> NoCall]

Busy(w) == call[w].phase /= "idle"

\* What GET finds at the server.
Live(k) == IF store[k] /= None /\ store[k].expires_at > clock THEN store[k].entry ELSE None

\* ttl.as_secs(), which truncates, back in milliseconds.
TtlMs(ttl) == (ttl \div MsPerSecond) * MsPerSecond

\* The tasks that hold a connection: one each, and the rest is in the pool.
Connected == {w \in Workers : call[w].phase \in {"read", "write"}}

PoolKept == IsFiniteSet(Connected) /\ free + Cardinality(Connected) = Connections

Begin(w, op, k, ttl) ==
  /\ ~Busy(w)
  /\ call' = [call EXCEPT ![w] = [NoCall EXCEPT !.phase = "connect", !.op = op,
                                                !.key = k, !.ttl = ttl]]
  /\ UNCHANGED <<clock, store, free>>

\* get_conn: waits, without a limit, until the pool has a connection.
Connect(w) ==
  /\ call[w].phase = "connect"
  /\ free > 0
  /\ free' = free - 1
  /\ call' = [call EXCEPT ![w].phase =
                IF call[w].op \in {"set", "delete"} THEN "write" ELSE "read"]
  /\ UNCHANGED <<clock, store>>

\* Mutant: a call that ends keeps its connection.
HangUpLeaking(w) ==
  /\ call' = [call EXCEPT ![w] = NoCall]
  /\ UNCHANGED free

\* Mutant: a call that gives up waiting returns a connection as well.
HangUpAlways(w) ==
  /\ call' = [call EXCEPT ![w] = NoCall]
  /\ free' = free + 1

\* The operation is over; its connection goes back to the pool.
HangUp(w) ==
  /\ call' = [call EXCEPT ![w] = NoCall]
  /\ free' = IF call[w].phase = "connect" THEN free ELSE free + 1

\* Mutant: a GET that fails is taken for a key that is not there.
ReadOrNothing(w) ==
  /\ call[w].phase = "read"
  /\ call[w].op /= "get"
  /\ \E found \in {Live(call[w].key), None} :
       call' = [call EXCEPT ![w] = [@ EXCEPT !.phase = "write", !.current = found]]
  /\ UNCHANGED <<clock, store, free>>

\* GET, for the operations that go on from what they read.
Read(w) ==
  /\ call[w].phase = "read"
  /\ call[w].op /= "get"
  /\ call' = [call EXCEPT ![w] = [@ EXCEPT !.phase = "write", !.current = Live(call[w].key)]]
  /\ UNCHANGED <<clock, store, free>>

\* GET, for get.
GetDone(w) ==
  /\ call[w].phase = "read"
  /\ call[w].op = "get"
  /\ HangUp(w)
  /\ UNCHANGED <<clock, store>>

\* SETEX refuses a time of zero seconds.
Refused(w) == TtlMs(call[w].ttl) = 0

Stored(w, entry) ==
  store' = [store EXCEPT ![call[w].key] =
              [entry |-> entry, expires_at |-> clock + TtlMs(call[w].ttl)]]

\* SETEX, and its answer.
SetAnswered(w, entry) ==
  /\ call[w].phase = "write"
  /\ call[w].op /= "delete"
  /\ IF Refused(w) THEN UNCHANGED store ELSE Stored(w, entry)
  /\ HangUp(w)
  /\ UNCHANGED clock

\* DEL, and the operation succeeds.
DeleteDone(w) ==
  /\ call[w].phase = "write"
  /\ call[w].op = "delete"
  /\ store' = [store EXCEPT ![call[w].key] = None]
  /\ HangUp(w)
  /\ UNCHANGED clock

CasMatches(current, expected) == expected = current

\* compare_and_swap finds something else, and returns false.
CasMismatch(w, expected) ==
  /\ call[w].phase = "write"
  /\ call[w].op = "compare_and_swap"
  /\ ~CasMatches(call[w].current, expected)
  /\ HangUp(w)
  /\ UNCHANGED <<clock, store>>

\* Mutant: the window of the old entry is not looked at.
IncrementedAcross(current, delta, window_start, now) ==
  [NewEntry(IF current /= None THEN current.count + delta ELSE delta, window_start)
     EXCEPT !.last_update = now]

\* The entry increment stores: of the old one it keeps the count, and that only
\* within the same window; prev_count is lost.
Incremented(current, delta, window_start, now) ==
  LET count == IF current /= None /\ current.window_start = window_start
                 THEN current.count + delta ELSE delta
  IN  [NewEntry(count, window_start) EXCEPT !.last_update = now]

\* An error, or a future dropped, before the server has done anything.
Fail(w) ==
  /\ Busy(w)
  /\ HangUp(w)
  /\ UNCHANGED <<clock, store>>

\* The server has carried out SETEX, but its answer does not arrive.
SetUnanswered(w, entry) ==
  /\ call[w].phase = "write"
  /\ call[w].op /= "delete"
  /\ ~Refused(w)
  /\ Stored(w, entry)
  /\ HangUp(w)
  /\ UNCHANGED clock

\* The server has carried out DEL, but its answer does not arrive.
DeleteUnanswered(w) == DeleteDone(w)

Tick ==
  /\ clock < MaxClock
  /\ clock' = clock + 1
  /\ UNCHANGED <<store, free, call>>
=============================================================================
