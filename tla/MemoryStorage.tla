--------------------------- MODULE MemoryStorage ----------------------------
(***************************************************************************)
(* MemoryStorage (src/storage/memory_gc.rs): the sharded map shared by all *)
(* worker threads, its expiry, and the garbage collection a request runs.  *)
(* One action per shared-memory access, for each operation of the Storage  *)
(* trait; a client module says who calls what, and with which arguments.   *)
(*                                                                         *)
(* A worker is an OS thread.  No operation awaits, so a worker runs a call *)
(* to its end before it starts another, while other workers, and the clock,*)
(* move between any two of its steps.  Each DashMap call is atomic: it     *)
(* holds the lock of the key's shard.                                      *)
(***************************************************************************)
EXTENDS StorageEntry

CONSTANTS
  Keys,          \* the keys in use
  Workers,       \* the threads serving requests
  GcThreshold,   \* GcInterval::Requests(n); 0 stands for Manual, which never fires
  MaxAge,        \* GcConfig.max_age, in milliseconds
  MaxClock       \* bound: the clock stops here

VARIABLES
  clock,         \* current_timestamp_ms(), assumed not to step back
  data,          \* DashMap: InternalEntry of each key, or None
  requests,      \* request_count, reduced modulo GcThreshold (see CountRequest)
  gcLock,        \* holder of gc_lock, or None
  call           \* per worker: the operation it is in, and its locals

storageVars == <<clock, data, requests, gcLock, call>>

InternalEntry == [entry : StorageEntry, expires_at : Nat]

Operations == {"get", "set", "delete", "increment", "execute_atomic",
               "compare_and_swap", "run_gc", "clear"}

ASSUME MemoryStorageAssumption ==
  /\ GcThreshold \in Nat
  /\ MaxAge \in Nat
  /\ MaxClock \in Nat
  /\ None \notin Keys \cup Workers \cup Operations
  /\ None \notin StorageEntry /\ None \notin InternalEntry

\* The operations on one key.
Keyed == Operations \ {"run_gc", "clear"}

Phases == {"idle", "enter", "try_lock", "gc", "sweep", "expires", "now",
           "load", "commit", "remove"}

Call == [phase   : Phases,
         op      : Operations \cup {None},
         key     : Keys \cup {None},
         ttl     : Nat,
         expires : Nat,                      \* local expires_at
         now     : Nat,                      \* local now
         current : StorageEntry \cup {None}, \* the entry read, when live
         gcNow   : Nat,                      \* now of run_gc_on_map
         sweep   : SUBSET Keys]              \* keys retain or clear has yet to visit

NoCall == [phase |-> "idle", op |-> None, key |-> None, ttl |-> 0,
           expires |-> 0, now |-> 0, current |-> None,
           gcNow |-> 0, sweep |-> {}]

StorageTypeOK ==
  /\ clock \in Nat
  /\ data \in [Keys -> InternalEntry \cup {None}]
  /\ requests \in 0..GcThreshold
  /\ gcLock \in Workers \cup {None}
  /\ call \in [Workers -> Call]

CallsKeyed == \A w \in Workers : call[w].op \in Keyed => call[w].key \in Keys

StorageInit ==
  /\ clock = 0
  /\ data = [k \in Keys |-> None]
  /\ requests = 0
  /\ gcLock = None
  /\ call = [w \in Workers |-> NoCall]

Busy(w) == call[w].phase /= "idle"

\* An entry the filter `internal.expires_at > now` lets through.
LiveAt(internal, now) == internal /= None /\ internal.expires_at > now

(***************************************************************************)
(* Steps common to the operations                                          *)
(***************************************************************************)
At(w, op, phase) == call[w].op = op /\ call[w].phase = phase

Goto(w, phase) == call' = [call EXCEPT ![w].phase = phase]

Return(w) == call' = [call EXCEPT ![w] = NoCall]

\* delete, run_gc and clear skip maybe_run_gc.
FirstPhase(op) == CASE op = "delete" -> "commit"
                    [] op = "run_gc" -> "gc"
                    [] op = "clear"  -> "sweep"
                    [] OTHER         -> "enter"

Begin(w, op, k, ttl) ==
  /\ ~Busy(w)
  /\ call' = [call EXCEPT ![w] =
                [NoCall EXCEPT !.phase = FirstPhase(op), !.op = op, !.key = k,
                               !.ttl = ttl,
                               !.sweep = IF op = "clear" THEN Keys ELSE {}]]
  /\ UNCHANGED <<clock, data, requests, gcLock>>

\* Where a call goes on once maybe_run_gc is over: get and run_gc have no
\* expiry to compute.  The locals of run_gc_on_map are gone.
AfterGc(w) == CASE call[w].op \in {"run_gc", "clear"} -> NoCall
                [] call[w].op = "get" -> [call[w] EXCEPT !.phase = "now", !.gcNow = 0]
                [] OTHER -> [call[w] EXCEPT !.phase = "expires", !.gcNow = 0]

\* maybe_run_gc: fetch_add.  The old value makes GC due when it is a positive
\* multiple of the threshold, so 0, 1, ..., GcThreshold, 1, ... is all of it.
CountRequest(w) ==
  /\ call[w].phase = "enter"
  /\ requests' = IF GcThreshold = 0 THEN 0 ELSE (requests % GcThreshold) + 1
  /\ call' = [call EXCEPT ![w] =
                IF requests > 0 /\ requests = GcThreshold
                  THEN [@ EXCEPT !.phase = "try_lock"]
                  ELSE AfterGc(w)]
  /\ UNCHANGED <<clock, data, gcLock>>

\* maybe_run_gc: try_lock, which never waits.
TryGcLock(w) ==
  /\ call[w].phase = "try_lock"
  /\ IF gcLock = None
       THEN gcLock' = w /\ Goto(w, "gc")
       ELSE gcLock' = gcLock /\ call' = [call EXCEPT ![w] = AfterGc(w)]
  /\ UNCHANGED <<clock, data, requests>>

\* run_gc_on_map reads the time once, before it visits the map.
StartSweep(w) ==
  /\ call[w].phase = "gc"
  /\ call' = [call EXCEPT ![w] =
                [@ EXCEPT !.phase = "sweep", !.gcNow = clock, !.sweep = Keys]]
  /\ UNCHANGED <<clock, data, requests, gcLock>>

\* Mutant: an entry must be unexpired and recent to be kept.
KeepUnexpiredAndRecent(internal, gcNow) ==
  /\ internal.expires_at > gcNow
  /\ internal.entry.last_update > (IF gcNow >= MaxAge THEN gcNow - MaxAge ELSE 0)

\* The closure given to retain, in run_gc_on_map.
Keep(internal, gcNow) ==
  \/ internal.expires_at > gcNow
  \/ internal.entry.last_update > (IF gcNow >= MaxAge THEN gcNow - MaxAge ELSE 0)

\* Mutant: retain comes back to a key it has visited.
SweepKeyAgain(w, k) ==
  /\ call[w].phase = "sweep"
  /\ call[w].op /= "clear"
  /\ k \in call[w].sweep
  /\ data' = IF data[k] /= None /\ ~Keep(data[k], call[w].gcNow)
               THEN [data EXCEPT ![k] = None]
               ELSE data
  /\ UNCHANGED <<clock, requests, gcLock, call>>

\* retain visits the keys in any order, each under its shard's lock.
SweepKey(w, k) ==
  /\ call[w].phase = "sweep"
  /\ call[w].op /= "clear"
  /\ k \in call[w].sweep
  /\ call' = [call EXCEPT ![w].sweep = @ \ {k}]
  /\ data' = IF data[k] /= None /\ ~Keep(data[k], call[w].gcNow)
               THEN [data EXCEPT ![k] = None]
               ELSE data
  /\ UNCHANGED <<clock, requests, gcLock>>

\* clear empties the map shard by shard.
ClearKey(w, k) ==
  /\ At(w, "clear", "sweep")
  /\ k \in call[w].sweep
  /\ call' = [call EXCEPT ![w].sweep = @ \ {k}]
  /\ data' = [data EXCEPT ![k] = None]
  /\ UNCHANGED <<clock, requests, gcLock>>

\* Mutant: gc_lock is not released.
EndSweepLocked(w) ==
  /\ call[w].phase = "sweep"
  /\ call[w].sweep = {}
  /\ call' = [call EXCEPT ![w] = AfterGc(w)]
  /\ UNCHANGED <<clock, data, requests, gcLock>>

\* The guard of gc_lock is dropped; run_gc and clear never took it.
EndSweep(w) ==
  /\ call[w].phase = "sweep"
  /\ call[w].sweep = {}
  /\ gcLock' = IF call[w].op \in {"run_gc", "clear"} THEN gcLock ELSE None
  /\ call' = [call EXCEPT ![w] = AfterGc(w)]
  /\ UNCHANGED <<clock, data, requests>>

\* let expires_at = current_timestamp_ms() + ttl
ComputeExpiry(w) ==
  /\ call[w].phase = "expires"
  /\ call' = [call EXCEPT ![w] =
                [@ EXCEPT !.expires = clock + call[w].ttl,
                          !.phase = IF call[w].op = "set" THEN "commit" ELSE "now"]]
  /\ UNCHANGED <<clock, data, requests, gcLock>>

\* let now = current_timestamp_ms()
ReadNow(w) ==
  /\ call[w].phase = "now"
  /\ call' = [call EXCEPT ![w] =
                [@ EXCEPT !.now = clock,
                          !.phase = IF call[w].op = "increment" THEN "commit" ELSE "load"]]
  /\ UNCHANGED <<clock, data, requests, gcLock>>

Common(w) ==
  \/ CountRequest(w)
  \/ TryGcLock(w)
  \/ StartSweep(w)
  \/ \E k \in Keys : SweepKey(w, k)
  \/ EndSweep(w)
  \/ ComputeExpiry(w)
  \/ ReadNow(w)

(***************************************************************************)
(* The steps where the operations differ                                   *)
(***************************************************************************)
\* data.insert
Insert(w, entry) ==
  /\ data' = [data EXCEPT ![call[w].key] =
                [entry |-> entry, expires_at |-> call[w].expires]]
  /\ Return(w)
  /\ UNCHANGED <<clock, requests, gcLock>>

\* get finds a live entry and returns it.
GetHit(w) ==
  /\ At(w, "get", "load")
  /\ LiveAt(data[call[w].key], call[w].now)
  /\ Return(w)
  /\ UNCHANGED <<clock, data, requests, gcLock>>

\* get finds nothing.
GetMiss(w) ==
  /\ At(w, "get", "load")
  /\ data[call[w].key] = None
  /\ Return(w)
  /\ UNCHANGED <<clock, data, requests, gcLock>>

\* get finds an expired entry and lets go of the shard's lock ...
GetExpired(w) ==
  /\ At(w, "get", "load")
  /\ data[call[w].key] /= None
  /\ ~LiveAt(data[call[w].key], call[w].now)
  /\ Goto(w, "remove")
  /\ UNCHANGED <<clock, data, requests, gcLock>>

\* ... then removes whatever the key holds by now, and returns nothing.
GetRemove(w) ==
  /\ At(w, "get", "remove")
  /\ data' = [data EXCEPT ![call[w].key] = None]
  /\ Return(w)
  /\ UNCHANGED <<clock, requests, gcLock>>

SetCommit(w, entry) == At(w, "set", "commit") /\ Insert(w, entry)

DeleteCommit(w) ==
  /\ At(w, "delete", "commit")
  /\ data' = [data EXCEPT ![call[w].key] = None]
  /\ Return(w)
  /\ UNCHANGED <<clock, requests, gcLock>>

\* The entry increment leaves behind: counted on in the same window, restarted
\* in any other; an expired entry is treated like a live one.
Incremented(internal, delta, window_start, now) ==
  IF internal = None
    THEN [NewEntry(delta, window_start) EXCEPT !.last_update = now]
  ELSE IF internal.entry.window_start = window_start
    THEN [internal.entry EXCEPT !.count = @ + delta, !.last_update = now]
    ELSE [internal.entry EXCEPT !.prev_count = internal.entry.count,
                                !.count = delta,
                                !.window_start = window_start,
                                !.last_update = now]

\* entry().and_modify().or_insert_with(), under one lock; returns the count.
IncrementCommit(w, delta, window_start) ==
  /\ At(w, "increment", "commit")
  /\ Insert(w, Incremented(data[call[w].key], delta, window_start, call[w].now))

\* execute_atomic and compare_and_swap: clone the entry if it is live, and let
\* go of the shard's lock.
Load(w) ==
  /\ call[w].op \in {"execute_atomic", "compare_and_swap"}
  /\ call[w].phase = "load"
  /\ LET held == data[call[w].key]
     IN  call' = [call EXCEPT ![w] =
                    [@ EXCEPT !.phase = "commit",
                              !.current = IF LiveAt(held, call[w].now)
                                            THEN held.entry ELSE None]]
  /\ UNCHANGED <<clock, data, requests, gcLock>>

\* execute_atomic: insert what `operation` made of `current`.
ExecuteCommit(w, new) == At(w, "execute_atomic", "commit") /\ Insert(w, new)

\* compare_and_swap returns true ...
CasSwap(w, expected, new) ==
  /\ At(w, "compare_and_swap", "commit")
  /\ expected = call[w].current
  /\ Insert(w, new)

\* ... or false, and stores nothing.
CasFail(w, expected) ==
  /\ At(w, "compare_and_swap", "commit")
  /\ expected /= call[w].current
  /\ Return(w)
  /\ UNCHANGED <<clock, data, requests, gcLock>>

Tick ==
  /\ clock < MaxClock
  /\ clock' = clock + 1
  /\ UNCHANGED <<data, requests, gcLock, call>>
=============================================================================
