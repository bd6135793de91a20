----------------------------- MODULE GcraMemory -----------------------------
(***************************************************************************)
(* GCRA on MemoryStorage: workers that serve check_and_record, check and   *)
(* reset (src/algorithm/gcra.rs, src/algorithm/mod.rs), and the caller of  *)
(* run_gc.  GCRA reads the clock before it calls the storage, which reads  *)
(* it again: `now` here is GCRA's, call[w].now the storage's.              *)
(***************************************************************************)
EXTENDS Gcra, MemoryStorage

CONSTANT MaxLatency   \* bound: longest time from a call's start to its end

ASSUME LatencyAssumption == MaxLatency \in Nat

VARIABLE now          \* per worker: when its current or last call started

vars == <<storageVars, now>>

TypeOK == StorageTypeOK /\ CallsKeyed /\ now \in [Workers -> Nat]

Init == StorageInit /\ now = [w \in Workers |-> 0]

Start(w, op, k, ttl) ==
  /\ Begin(w, op, k, ttl)
  /\ now' = [now EXCEPT ![w] = clock]

CheckAndRecord(w, k) == Start(w, "execute_atomic", k, Ttl)
Check(w, k)          == Start(w, "get", k, 0)
Reset(w, k)          == Start(w, "delete", k, 0)
RunGc(w)             == Start(w, "run_gc", None, 0)

Tat(entry) == IF entry = None THEN None ELSE entry.tat

\* The decision of w's check_and_record on the entry it read.
Outcome(w) == CalculateDecision(Tat(call[w].current), now[w])

\* The closure of check_and_record and the insertion of its entry.
Record(w) ==
  /\ ~DividesByZero(Outcome(w), now[w])
  /\ ExecuteCommit(w, WithTat(Outcome(w).tat))
  /\ UNCHANGED now

\* The closure panics in build_info: nothing is inserted, the caller's task
\* is gone, its thread goes on to the next.
Panic(w) ==
  /\ At(w, "execute_atomic", "commit")
  /\ DividesByZero(Outcome(w), now[w])
  /\ Return(w)
  /\ UNCHANGED <<clock, data, requests, gcLock, now>>

\* What check, on the entry of `get`, leads to.
PeekHit(w)  == GetHit(w) /\ UNCHANGED now
PeekMiss(w) == (GetMiss(w) \/ GetRemove(w)) /\ UNCHANGED now

Forget(w) == DeleteCommit(w) /\ UNCHANGED now

Internal(w) == (Common(w) \/ Load(w) \/ GetExpired(w)) /\ UNCHANGED now

\* No call lasts more than MaxLatency milliseconds.
Time ==
  /\ \A w \in Workers : Busy(w) => clock < now[w] + MaxLatency
  /\ Tick
  /\ UNCHANGED now

StartSome(w) ==
  \/ \E k \in Keys : CheckAndRecord(w, k) \/ Check(w, k) \/ Reset(w, k)
  \/ RunGc(w)

Finish(w) == Record(w) \/ Panic(w) \/ PeekHit(w) \/ PeekMiss(w) \/ Forget(w)

Next == Time \/ \E w \in Workers : StartSome(w) \/ Internal(w) \/ Finish(w)

Spec == Init /\ [][Next]_vars

\* The scheduler keeps running a thread that is inside a call: no step waits
\* for another thread for longer than that thread holds a shard's lock.
FairSpec == Spec /\ \A w \in Workers : WF_vars(Internal(w) \/ Finish(w))

-----------------------------------------------------------------------------
(***************************************************************************)
(* Properties                                                              *)
(***************************************************************************)
\* However many workers overwrite each other's entry, the stored TAT is at
\* most one burst ahead of the clock: a client is never locked out for longer
\* than its burst takes to drain, and never for good.
LockoutBounded ==
  \A k \in Keys :
    data[k] /= None => data[k].entry.tat <= clock + MaxTatOffset + Period

\* An entry outlives the debt it records: when storage may drop it, its TAT
\* is past, so that forgetting it forgives nothing.  Needs the second Period
\* in check_and_record's TTL, which pays for the time between its two clocks.
ExpiryCoversDebt ==
  \A k \in Keys : data[k] /= None => data[k].entry.tat <= data[k].expires_at

\* A collection by requests is exclusive: only the holder of gc_lock sweeps on
\* behalf of maybe_run_gc, and the lock is never left behind.
GcExclusive ==
  \A w \in Workers :
    gcLock = w <=> call[w].phase \in {"gc", "sweep"} /\ call[w].op /= "run_gc"

\* Every call ends, whatever the other workers do: try_lock does not wait and
\* a sweep visits each key once.
CallsEnd == \A w \in Workers : Busy(w) ~> ~Busy(w)

-----------------------------------------------------------------------------
(***************************************************************************)
(* Inductive invariants                                                    *)
(***************************************************************************)
\* The operations GCRA calls, and the phases run_gc goes through.
CallsMade ==
  \A w \in Workers :
    /\ call[w].op \in {None, "execute_atomic", "get", "delete", "run_gc"}
    /\ call[w].op = None => call[w].phase = "idle"
    /\ call[w].op = "run_gc" => call[w].phase \in {"gc", "sweep"}

WithinBurst(entry) ==
  entry.tat \in Nat /\ entry.tat <= clock + MaxTatOffset + Period

\* LockoutBounded, with the entries workers hold a copy of.
LockoutInv ==
  /\ \A k \in Keys : data[k] /= None => WithinBurst(data[k].entry)
  /\ \A w \in Workers : call[w].current /= None => WithinBurst(call[w].current)
  /\ \A w \in Workers : now[w] <= clock

\* What a worker under way has computed: its expiry is a Ttl past its start,
\* and covers the entry it may write back.
ExpiryPlanned(w) ==
  /\ Busy(w) => clock <= now[w] + MaxLatency
  /\ call[w].op = "execute_atomic" =>
       /\ call[w].ttl = Ttl
       /\ call[w].phase \in {"now", "load", "commit"} =>
            call[w].expires >= now[w] + Ttl
  /\ call[w].current /= None =>
       call[w].phase = "commit" /\ call[w].current.tat <= call[w].expires

ExpiryInv == ExpiryCoversDebt /\ \A w \in Workers : ExpiryPlanned(w)

MemoryInv == TypeOK /\ CallsMade /\ GcExclusive /\ LockoutInv /\ ExpiryInv
=============================================================================
