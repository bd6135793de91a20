------------------------ MODULE GcraAdmission_proofs ------------------------
(***************************************************************************)
(* Theorems of GcraMemory, for any keys, workers and quota: type           *)
(* correctness, the bound on a lockout, and that an entry outlives its     *)
(* debt.  And of GcraAdmission, for one worker: what GCRA admits conforms  *)
(* to its quota, and the limiter implements RateContract, so long as no    *)
(* call outlasts the time its entry is kept.                               *)
(***************************************************************************)
EXTENDS GcraAdmission, Gcra_proofs, MemoryStorage_proofs, TLAPS

(***************************************************************************)
(* Type correctness                                                        *)
(***************************************************************************)
\* The decision of a worker, from the facts about decisions.
LEMMA OutcomeFacts ==
  ASSUME TypeOK, NEW w \in Workers
  PROVE  /\ Outcome(w) \in Decision
         /\ Outcome(w).allowed =>
              /\ call[w].current /= None /\ call[w].current.tat \in Nat =>
                   Outcome(w).tat >= call[w].current.tat + Period
              /\ Outcome(w).tat >= now[w] + Period
              /\ Outcome(w).tat <= now[w] + MaxTatOffset + Period
         /\ ~Outcome(w).allowed =>
              /\ call[w].current /= None
              /\ call[w].current.tat \in Nat
              /\ Outcome(w).tat = call[w].current.tat
<1>1. now[w] \in Nat
  BY DEF TypeOK
<1>2. Tat(call[w].current) \in Nat \cup {None}
  BY DEF Tat, TypeOK, StorageTypeOK, Call, StorageEntry
<1>3. call[w].current /= None => Tat(call[w].current) = call[w].current.tat
  BY DEF Tat
<1>4. call[w].current = None => Tat(call[w].current) \notin Nat
  BY NoneAssumption DEF Tat
<1> QED
  BY <1>1, <1>2, <1>3, <1>4, DecisionFacts DEF Outcome

\* Which calls GCRA makes: with what operation, key and TTL.
LEMMA StartFacts ==
  ASSUME NEW w \in Workers, StartSome(w)
  PROVE  \E op \in Operations, k \in Keys \cup {None}, ttl \in Nat :
           /\ Begin(w, op, k, ttl)
           /\ now' = [now EXCEPT ![w] = clock]
           /\ op \in Keyed => k \in Keys
           /\ op \in {"execute_atomic", "get", "delete", "run_gc"}
           /\ op = "execute_atomic" => ttl = Ttl
<1> USE QuotaTypes DEF StartSome, Start, Operations, Keyed
<1>1. CASE \E k \in Keys : CheckAndRecord(w, k)
  BY <1>1 DEF CheckAndRecord
<1>2. CASE \E k \in Keys : Check(w, k)
  BY <1>2 DEF Check
<1>3. CASE \E k \in Keys : Reset(w, k)
  BY <1>3 DEF Reset
<1>4. CASE RunGc(w)
  BY <1>4 DEF RunGc
<1> QED
  BY <1>1, <1>2, <1>3, <1>4

\* A finished call leaves its worker idle, and the lock to whoever has it.
LEMMA FinishFrame ==
  ASSUME StorageTypeOK, NEW w \in Workers, Finish(w)
  PROVE  /\ call' = [call EXCEPT ![w] = NoCall]
         /\ UNCHANGED <<clock, gcLock, now>>
  BY DEF Finish, Record, Panic, PeekHit, PeekMiss, Forget, ExecuteCommit, Insert,
         GetHit, GetMiss, GetRemove, DeleteCommit, Return

\* Every call of an operation on a key has one.
LEMMA KeyedStep == TypeOK /\ [Next]_vars => CallsKeyed'
<1> SUFFICES ASSUME TypeOK, [Next]_vars, NEW v \in Workers, call'[v].op \in Keyed
             PROVE  call'[v].key \in Keys
  BY DEF CallsKeyed
<1> USE DEF TypeOK, CallsKeyed
<1>1. NoCall.op \notin Keyed
  BY MemoryStorageAssumption DEF NoCall, Keyed
<1>2. CASE UNCHANGED vars
  BY <1>2 DEF vars, storageVars
<1>3. CASE Time
  BY <1>3 DEF Time, Tick
<1>4. ASSUME NEW w \in Workers, StartSome(w)
      PROVE  call'[v].key \in Keys
  <2>1. PICK op \in Operations, k \in Keys \cup {None}, ttl \in Nat :
          Begin(w, op, k, ttl) /\ (op \in Keyed => k \in Keys)
    BY <1>4, StartFacts
  <2> QED
    BY <2>1 DEF Begin, NoCall, StorageTypeOK
<1>5. ASSUME NEW w \in Workers, Internal(w)
      PROVE  call'[v].key \in Keys
  <2>1. CASE Common(w)
    BY <1>1, <2>1, CommonFrame
  <2>2. CASE Load(w)
    BY <2>2 DEF Load, StorageTypeOK, Call
  <2>3. CASE GetExpired(w)
    BY <2>3 DEF GetExpired, Goto, StorageTypeOK, Call
  <2> QED
    BY <1>5, <2>1, <2>2, <2>3 DEF Internal
<1>6. ASSUME NEW w \in Workers, Finish(w)
      PROVE  call'[v].key \in Keys
  BY <1>1, <1>6, FinishFrame DEF StorageTypeOK
<1> QED
  BY <1>2, <1>3, <1>4, <1>5, <1>6 DEF Next

LEMMA TypeStep == TypeOK /\ [Next]_vars => TypeOK'
<1> SUFFICES ASSUME TypeOK, [Next]_vars
             PROVE  StorageTypeOK' /\ now' \in [Workers -> Nat]
  BY KeyedStep DEF TypeOK
<1> USE DEF TypeOK
<1>1. CASE UNCHANGED vars
  BY <1>1 DEF vars, storageVars, StorageTypeOK
<1>2. CASE Time
  BY <1>2 DEF Time, Tick, StorageTypeOK
<1>3. ASSUME NEW w \in Workers, StartSome(w)
      PROVE  StorageTypeOK' /\ now' \in [Workers -> Nat]
  <2>1. PICK op \in Operations, k \in Keys \cup {None}, ttl \in Nat :
          Begin(w, op, k, ttl) /\ now' = [now EXCEPT ![w] = clock]
    BY <1>3, StartFacts
  <2>2. StorageTypeOK'
    BY <2>1, BeginType
  <2> QED
    BY <2>1, <2>2 DEF StorageTypeOK
<1>4. ASSUME NEW w \in Workers, Internal(w)
      PROVE  StorageTypeOK' /\ now' \in [Workers -> Nat]
  BY <1>4, CommonType, ReadType DEF Internal
<1>5. ASSUME NEW w \in Workers, Finish(w)
      PROVE  StorageTypeOK' /\ now' \in [Workers -> Nat]
  <2>1. CASE Record(w)
    <3>1. WithTat(Outcome(w).tat) \in StorageEntry
      BY OutcomeFacts, WithTatType DEF Decision
    <3> QED
      BY <2>1, <3>1, WriteType DEF Record, ExecuteCommit
  <2>2. CASE Panic(w)
    BY <2>2, NoCallType DEF Panic, Return, StorageTypeOK
  <2>3. CASE PeekHit(w) \/ PeekMiss(w) \/ Forget(w)
    BY <2>3, ReadType, WriteType DEF PeekHit, PeekMiss, Forget
  <2> QED
    BY <1>5, <2>1, <2>2, <2>3 DEF Finish
<1> QED
  BY <1>1, <1>2, <1>3, <1>4, <1>5 DEF Next

LEMMA TypeInit == Init => TypeOK
<1> SUFFICES ASSUME Init PROVE TypeOK
  OBVIOUS
<1>1. StorageTypeOK
  BY NoCallType, MemoryStorageAssumption DEF Init, StorageInit, StorageTypeOK
<1>2. CallsKeyed
  BY MemoryStorageAssumption DEF Init, StorageInit, CallsKeyed, Keyed, NoCall
<1> QED
  BY <1>1, <1>2 DEF Init, TypeOK

\* Every reachable state has the types the code declares: in particular the
\* request counter stays within the threshold and gc_lock has one holder.
THEOREM TypeCorrect == Spec => []TypeOK
  BY TypeInit, TypeStep, PTL DEF Spec

(***************************************************************************)
(* What a step of each kind changes: who may write an entry, who may take  *)
(* a copy of one, whose start time moves.                                  *)
(***************************************************************************)
LEMMA StepFrame ==
  ASSUME TypeOK, [Next]_vars
  PROVE  /\ clock' \in Nat /\ clock <= clock'
         /\ \A k \in Keys :
              \/ data'[k] \in {data[k], None}
              \/ \E w \in Workers : Record(w) /\ k = call[w].key
         /\ \A v \in Workers :
              \/ call'[v].current \in {call[v].current, None}
              \/ Load(v) /\ UNCHANGED now
         /\ \A v \in Workers : now'[v] \in {now[v], clock}
<1> USE DEF TypeOK
<1>0. clock \in Nat /\ NoCall.current = None
  BY DEF StorageTypeOK, NoCall
<1>1. CASE UNCHANGED vars
  BY <1>0, <1>1 DEF vars, storageVars
<1>2. CASE Time
  BY <1>0, <1>2 DEF Time, Tick
<1>3. ASSUME NEW w \in Workers, StartSome(w)
      PROVE  /\ clock' = clock /\ data' = data
             /\ \A v \in Workers : call'[v].current \in {call[v].current, None}
             /\ \A v \in Workers : now'[v] \in {now[v], clock}
  <2>1. PICK op \in Operations, k \in Keys \cup {None}, ttl \in Nat :
          Begin(w, op, k, ttl) /\ now' = [now EXCEPT ![w] = clock]
    BY <1>3, StartFacts
  <2>2. \A v \in Workers \ {w} : call'[v] = call[v]
    BY <2>1 DEF Begin, StorageTypeOK
  <2>3. call'[w].current = None
    BY <2>1 DEF Begin, StorageTypeOK, NoCall
  <2> QED
    BY <2>1, <2>2, <2>3 DEF Begin
<1>4. ASSUME NEW w \in Workers, Internal(w)
      PROVE  /\ clock' = clock /\ now' = now
             /\ \A k \in Keys : data'[k] \in {data[k], None}
             /\ \A v \in Workers :
                  call'[v].current \in {call[v].current, None} \/ Load(v)
  <2>1. CASE Common(w)
    BY <1>0, <1>4, <2>1, CommonFrame DEF Internal
  <2>2. CASE Load(w)
    BY <1>4, <2>2 DEF Internal, Load, StorageTypeOK
  <2>3. CASE GetExpired(w)
    BY <1>4, <2>3 DEF Internal, GetExpired, Goto, StorageTypeOK, Call
  <2> QED
    BY <1>4, <2>1, <2>2, <2>3 DEF Internal
<1>5. ASSUME NEW w \in Workers, Finish(w)
      PROVE  /\ clock' = clock /\ now' = now
             /\ \A k \in Keys :
                  data'[k] \in {data[k], None} \/ (Record(w) /\ k = call[w].key)
             /\ \A v \in Workers : call'[v].current \in {call[v].current, None}
  <2>1. \A k \in Keys :
          data'[k] \in {data[k], None} \/ (Record(w) /\ k = call[w].key)
    <3>1. CASE Record(w)
      BY <3>1 DEF Record, ExecuteCommit, Insert, StorageTypeOK
    <3>2. CASE ~Record(w)
      BY <1>5, <3>2 DEF Finish, Panic, PeekHit, PeekMiss, Forget, GetHit, GetMiss,
                        GetRemove, DeleteCommit, StorageTypeOK
    <3> QED
      BY <3>1, <3>2
  <2> QED
    BY <1>0, <1>5, <2>1, FinishFrame DEF StorageTypeOK
<1> QED
  BY <1>0, <1>1, <1>2, <1>3, <1>4, <1>5 DEF Next, Internal

\* What Record stores, and what Load copies.
LEMMA RecordFacts ==
  ASSUME TypeOK, NEW w \in Workers, Record(w)
  PROVE  /\ call[w].op = "execute_atomic" /\ call[w].phase = "commit"
         /\ clock' = clock /\ now' = now
         /\ call[w].key \in Keys
         /\ data'[call[w].key].entry.tat = Outcome(w).tat
         /\ data'[call[w].key].expires_at = call[w].expires
         /\ \A k \in Keys \ {call[w].key} : data'[k] = data[k]
<1>1. call[w].op = "execute_atomic" /\ call[w].phase = "commit"
  BY DEF Record, ExecuteCommit, At
<1>2. call[w].key \in Keys
  BY <1>1 DEF TypeOK, CallsKeyed, Keyed, Operations
<1> QED
  BY <1>1, <1>2
  DEF Record, ExecuteCommit, Insert, WithTat, TypeOK, StorageTypeOK

LEMMA LoadFacts ==
  ASSUME TypeOK, NEW w \in Workers, Load(w), call'[w].current /= None
  PROVE  /\ call[w].key \in Keys
         /\ LiveAt(data[call[w].key], call[w].now)
         /\ call'[w].current = data[call[w].key].entry
         /\ clock' = clock
<1>1. call[w].key \in Keys
  BY DEF Load, TypeOK, CallsKeyed, Keyed, Operations
<1> QED
  BY <1>1 DEF Load, TypeOK, StorageTypeOK, Call

(***************************************************************************)
(* The lockout                                                             *)
(***************************************************************************)
LEMMA LockoutStep == TypeOK /\ LockoutInv /\ [Next]_vars => LockoutInv'
<1> SUFFICES ASSUME TypeOK, LockoutInv, [Next]_vars PROVE LockoutInv'
  OBVIOUS
<1>1. clock \in Nat /\ now \in [Workers -> Nat]
  BY DEF TypeOK, StorageTypeOK
<1>2. clock' \in Nat /\ clock <= clock'
  BY StepFrame
<1>3. \A e : WithinBurst(e) => /\ e.tat \in Nat
                              /\ e.tat <= clock' + MaxTatOffset + Period
  BY <1>1, <1>2, QuotaTypes DEF WithinBurst
<1>4. ASSUME NEW k \in Keys, data'[k] /= None
      PROVE  WithinBurst(data[k].entry)'
  <2>1. CASE data'[k] \in {data[k], None}
    BY <1>3, <1>4, <2>1 DEF LockoutInv, WithinBurst
  <2>2. ASSUME NEW w \in Workers, Record(w), k = call[w].key
        PROVE  WithinBurst(data[k].entry)'
    <3>1. data'[k].entry.tat = Outcome(w).tat /\ clock' = clock
      BY <2>2, RecordFacts
    <3>2. Outcome(w).tat \in Nat
      BY OutcomeFacts DEF Decision
    <3>3. CASE Outcome(w).allowed
      BY <1>1, <3>1, <3>2, <3>3, OutcomeFacts, QuotaTypes DEF WithinBurst, LockoutInv
    <3>4. CASE ~Outcome(w).allowed
      BY <1>1, <3>1, <3>2, <3>4, OutcomeFacts DEF WithinBurst, LockoutInv
    <3> QED
      BY <3>3, <3>4
  <2> QED
    BY <2>1, <2>2, StepFrame
<1>5. ASSUME NEW v \in Workers, call'[v].current /= None
      PROVE  WithinBurst(call[v].current)'
  <2>1. CASE call'[v].current \in {call[v].current, None}
    BY <1>3, <1>5, <2>1 DEF LockoutInv, WithinBurst
  <2>2. CASE Load(v)
    BY <1>3, <1>5, <2>2, LoadFacts DEF LockoutInv, LiveAt, WithinBurst
  <2> QED
    BY <2>1, <2>2, StepFrame
<1>6. \A v \in Workers : now'[v] <= clock'
  BY <1>1, <1>2, StepFrame DEF LockoutInv
<1> QED
  BY <1>4, <1>5, <1>6 DEF LockoutInv

LEMMA LockoutInit == Init => LockoutInv
  BY DEF Init, StorageInit, LockoutInv, NoCall

\* For any number of workers: whatever they overwrite, a key's TAT is at most
\* one burst and one period ahead of the clock.
THEOREM LockoutIsBounded == Spec => []LockoutBounded
<1>1. LockoutInv => LockoutBounded
  BY DEF LockoutInv, LockoutBounded, WithinBurst
<1> QED
  BY <1>1, TypeInit, TypeStep, LockoutInit, LockoutStep, PTL DEF Spec

(***************************************************************************)
(* The calls GCRA makes                                                    *)
(***************************************************************************)
LEMMA CallsMadeStep == TypeOK /\ CallsMade /\ [Next]_vars => CallsMade'
<1> SUFFICES ASSUME TypeOK, CallsMade, [Next]_vars, NEW v \in Workers
             PROVE  /\ call'[v].op \in {None, "execute_atomic", "get", "delete", "run_gc"}
                    /\ call'[v].op = None => call'[v].phase = "idle"
                    /\ call'[v].op = "run_gc" => call'[v].phase \in {"gc", "sweep"}
  BY DEF CallsMade
<1> USE DEF TypeOK, StorageTypeOK, CallsMade, Call
<1>0. None \notin Operations /\ NoCall.op = None /\ NoCall.phase = "idle"
  BY MemoryStorageAssumption DEF NoCall
<1>1. CASE call'[v] = call[v]
  BY <1>1
<1>2. ASSUME NEW w \in Workers, StartSome(w)
      PROVE  \/ call'[v] = call[v]
             \/ call'[v].op = "run_gc" /\ call'[v].phase = "gc"
             \/ call'[v].op \in {"execute_atomic", "get", "delete"}
  <2>1. PICK op \in Operations, k \in Keys \cup {None}, ttl \in Nat :
          /\ Begin(w, op, k, ttl)
          /\ op \in {"execute_atomic", "get", "delete", "run_gc"}
    BY <1>2, StartFacts
  <2> QED
    BY <2>1 DEF Begin, FirstPhase, NoCall
<1>3. ASSUME NEW w \in Workers, Common(w)
      PROVE  \/ call'[v] = call[v]
             \/ call'[v] = NoCall
             \/ /\ call'[v].op = call[v].op /\ call[v].op /= None
                /\ call[v].op = "run_gc" => call'[v].phase \in {"gc", "sweep"}
  <2>1. CASE CountRequest(w)
    BY <1>0, <2>1 DEF CountRequest, AfterGc
  <2>2. CASE TryGcLock(w)
    <3>1. call[w].op /= None /\ call[w].op /= "run_gc"
      BY <2>2 DEF TryGcLock
    <3>2. CASE gcLock = None
      BY <2>2, <3>1, <3>2 DEF TryGcLock, Goto
    <3>3. CASE gcLock /= None
      <4>1. call' = [call EXCEPT ![w] = AfterGc(w)]
        BY <2>2, <3>3 DEF TryGcLock
      <4>2. AfterGc(w) = NoCall \/ AfterGc(w).op = call[w].op
        BY DEF AfterGc
      <4> QED
        BY <3>1, <4>1, <4>2
    <3> QED
      BY <3>2, <3>3
  <2>3. CASE StartSweep(w)
    BY <1>0, <2>3 DEF StartSweep
  <2>4. CASE \E k \in Keys : SweepKey(w, k)
    BY <1>0, <2>4 DEF SweepKey
  <2>5. CASE EndSweep(w)
    BY <1>0, <2>5 DEF EndSweep, AfterGc
  <2>6. CASE ComputeExpiry(w)
    BY <1>0, <2>6 DEF ComputeExpiry
  <2>7. CASE ReadNow(w)
    BY <1>0, <2>7 DEF ReadNow
  <2> QED
    BY <1>3, <2>1, <2>2, <2>3, <2>4, <2>5, <2>6, <2>7 DEF Common
<1>4. ASSUME NEW w \in Workers, Load(w) \/ GetExpired(w)
      PROVE  \/ call'[v] = call[v]
             \/ /\ call'[v].op = call[v].op
                /\ call[v].op \in {"execute_atomic", "get"}
  BY ZenonT(60), <1>4 DEF Load, GetExpired, At, Goto
<1>5. ASSUME NEW w \in Workers, Finish(w)
      PROVE  call'[v] = call[v] \/ call'[v] = NoCall
  BY <1>5, FinishFrame
<1>6. CASE UNCHANGED vars \/ Time
  BY <1>1, <1>6 DEF vars, storageVars, Time, Tick
<1>7. CASE call'[v] = NoCall
  BY <1>0, <1>7 DEF Operations
<1>8. ASSUME NEW w \in Workers, Internal(w)
      PROVE  /\ call'[v].op \in {None, "execute_atomic", "get", "delete", "run_gc"}
             /\ call'[v].op = None => call'[v].phase = "idle"
             /\ call'[v].op = "run_gc" => call'[v].phase \in {"gc", "sweep"}
  <2>1. CASE Common(w)
    BY <1>1, <1>3, <1>7, <2>1
  <2>2. CASE Load(w) \/ GetExpired(w)
    BY <1>0, <1>1, <1>4, <2>2 DEF Operations
  <2> QED
    BY <1>8, <2>1, <2>2 DEF Internal
<1>9. ASSUME NEW w \in Workers, StartSome(w)
      PROVE  /\ call'[v].op \in {None, "execute_atomic", "get", "delete", "run_gc"}
             /\ call'[v].op = None => call'[v].phase = "idle"
             /\ call'[v].op = "run_gc" => call'[v].phase \in {"gc", "sweep"}
  BY <1>0, <1>1, <1>2, <1>9 DEF Operations
<1> QED
  BY <1>1, <1>5, <1>6, <1>7, <1>8, <1>9 DEF Next

(***************************************************************************)
(* Expiry                                                                  *)
(***************************************************************************)
\* A common step of a call keeps what it has planned, or plans it.
LEMMA CommonPlans ==
  ASSUME TypeOK, NEW w \in Workers, Common(w), now' = now, ExpiryPlanned(w),
         now[w] <= clock
  PROVE  ExpiryPlanned(w)'
<1> USE DEF TypeOK, StorageTypeOK, Call
<1>0. NoCall.phase = "idle" /\ NoCall.op = None /\ NoCall.current = None
      /\ None \notin Operations
  BY MemoryStorageAssumption DEF NoCall
<1>1. call[w].phase \notin {"idle", "commit"} /\ call[w].current = None
  BY DEF Common, CountRequest, TryGcLock, StartSweep, SweepKey, EndSweep,
         ComputeExpiry, ReadNow, ExpiryPlanned
<1>2. CASE call'[w] = NoCall
  BY <1>0, <1>2, CommonFrame DEF ExpiryPlanned, Busy, Operations
<1>3. CASE /\ call'[w].op = call[w].op
           /\ call'[w].ttl = call[w].ttl
           /\ call'[w].current = call[w].current
  <2>1. \/ call'[w].phase \notin {"now", "load", "commit"}
        \/ call[w].op /= "execute_atomic"
        \/ call[w].phase = "expires" /\ call'[w].expires = clock + call[w].ttl
        \/ call[w].phase = "now" /\ call'[w].expires = call[w].expires
    <3>1. CASE CountRequest(w)
      BY <3>1 DEF CountRequest, AfterGc
    <3>2. CASE TryGcLock(w)
      BY ZenonT(60), <3>2 DEF TryGcLock, AfterGc, Goto
    <3>3. CASE StartSweep(w)
      BY <3>3 DEF StartSweep
    <3>4. CASE \E k \in Keys : SweepKey(w, k)
      BY <3>4 DEF SweepKey
    <3>5. CASE EndSweep(w)
      BY <3>5 DEF EndSweep, AfterGc
    <3>6. CASE ComputeExpiry(w)
      BY <3>6 DEF ComputeExpiry
    <3>7. CASE ReadNow(w)
      BY <3>7 DEF ReadNow
    <3> QED
      BY <3>1, <3>2, <3>3, <3>4, <3>5, <3>6, <3>7 DEF Common
  <2>2. clock' = clock /\ Busy(w)
    BY <1>1, CommonFrame DEF Busy
  <2>3. call'[w].op = "execute_atomic" /\ call'[w].phase \in {"now", "load", "commit"} =>
          call'[w].expires >= now[w] + Ttl
    BY <1>3, <2>1, QuotaTypes DEF ExpiryPlanned
  <2> QED
    BY <1>1, <1>3, <2>2, <2>3 DEF ExpiryPlanned, Busy
<1> QED
  BY <1>2, <1>3, CommonFrame

LEMMA ExpiryStep ==
  ASSUME MaxLatency <= Period
  PROVE  TypeOK /\ CallsMade /\ LockoutInv /\ ExpiryInv /\ [Next]_vars => ExpiryInv'
<1> SUFFICES ASSUME TypeOK, CallsMade, LockoutInv, ExpiryInv, [Next]_vars
             PROVE  ExpiryInv'
  OBVIOUS
<1> USE DEF TypeOK
<1>1. clock \in Nat /\ now \in [Workers -> Nat] /\ call \in [Workers -> Call]
  BY DEF StorageTypeOK
<1>2. \A w \in Workers : now[w] <= clock
  BY DEF LockoutInv
<1>3. ASSUME NEW k \in Keys, data'[k] /= None
      PROVE  data'[k].entry.tat <= data'[k].expires_at
  <2>1. CASE data'[k] \in {data[k], None}
    BY <1>3, <2>1 DEF ExpiryInv, ExpiryCoversDebt
  <2>2. ASSUME NEW w \in Workers, Record(w), k = call[w].key
        PROVE  data'[k].entry.tat <= data'[k].expires_at
    <3>1. /\ data'[k].entry.tat = Outcome(w).tat
          /\ data'[k].expires_at = call[w].expires
          /\ call[w].op = "execute_atomic" /\ call[w].phase = "commit"
      BY <2>2, RecordFacts
    <3>2. Outcome(w).tat \in Nat /\ call[w].expires \in Nat
      BY <1>1, OutcomeFacts DEF Decision, Call
    <3>3. CASE Outcome(w).allowed
      <4>1. Outcome(w).tat <= now[w] + MaxTatOffset + Period
        BY <3>3, OutcomeFacts
      <4>2. call[w].expires >= now[w] + MaxTatOffset + 2 * Period
        BY <3>1, QuotaTypes DEF ExpiryInv, ExpiryPlanned, Ttl
      <4> QED
        BY <1>1, <3>1, <3>2, <4>1, <4>2, QuotaTypes
    <3>4. CASE ~Outcome(w).allowed
      BY <3>1, <3>4, OutcomeFacts DEF ExpiryInv, ExpiryPlanned
    <3> QED
      BY <3>3, <3>4
  <2> QED
    BY <2>1, <2>2, StepFrame
<1>4. ASSUME NEW v \in Workers
      PROVE  ExpiryPlanned(v)'
  <2>0. ExpiryPlanned(v)
    BY DEF ExpiryInv
  <2>1. CASE call'[v] = call[v] /\ now' = now /\ clock' = clock
    BY <2>0, <2>1 DEF ExpiryPlanned, Busy
  <2>2. CASE call'[v] = NoCall
    BY <2>2, MemoryStorageAssumption DEF ExpiryPlanned, Busy, NoCall, Operations
  <2>3. CASE Time
    BY <1>1, <2>0, <2>3, LatencyAssumption DEF Time, Tick, ExpiryPlanned, Busy
  <2>4. ASSUME NEW w \in Workers, StartSome(w)
        PROVE  ExpiryPlanned(v)'
    <3>1. PICK op \in Operations, k \in Keys \cup {None}, ttl \in Nat :
            /\ Begin(w, op, k, ttl)
            /\ now' = [now EXCEPT ![w] = clock]
            /\ op \in {"execute_atomic", "get", "delete", "run_gc"}
            /\ op = "execute_atomic" => ttl = Ttl
      BY <2>4, StartFacts
    <3>2. CASE v = w
      <4>1. /\ call'[w].op = op /\ call'[w].ttl = ttl /\ call'[w].current = None
            /\ call'[w].phase = FirstPhase(op)
        BY <1>1, <3>1 DEF Begin, NoCall
      <4>2. now'[w] = clock /\ clock' = clock
        BY <1>1, <3>1 DEF Begin
      <4>3. op = "execute_atomic" => FirstPhase(op) = "enter"
        BY DEF FirstPhase
      <4>4. clock <= clock + MaxLatency
        BY <1>1, LatencyAssumption
      <4> QED
        BY <3>1, <3>2, <4>1, <4>2, <4>3, <4>4 DEF ExpiryPlanned, Busy
    <3>3. CASE v /= w
      <4>1. call'[v] = call[v] /\ now'[v] = now[v] /\ clock' = clock
        BY <1>1, <3>1, <3>3 DEF Begin
      <4> QED
        BY <2>0, <4>1 DEF ExpiryPlanned, Busy
    <3> QED
      BY <3>2, <3>3
  <2>5. ASSUME NEW w \in Workers, Internal(w)
        PROVE  ExpiryPlanned(v)'
    <3>1. CASE Common(w)
      <4>1. v = w => ExpiryPlanned(v)'
        BY <1>2, <2>0, <2>5, <3>1, CommonPlans DEF Internal
      <4>2. v /= w => call'[v] = call[v] /\ now' = now /\ clock' = clock
        BY <2>5, <3>1, CommonFrame DEF Internal
      <4> QED
        BY <2>1, <4>1, <4>2
    <3>2. CASE Load(w)
      <4>1. now' = now /\ clock' = clock
        BY <2>5, <3>2 DEF Internal, Load
      <4>2. CASE v /= w
        BY <1>1, <2>1, <3>2, <4>1, <4>2 DEF Load
      <4>3. CASE v = w
        <5>1. call[v].op = "execute_atomic" /\ call[v].phase = "load"
          BY <3>2, <4>3 DEF Load, CallsMade
        <5>2. /\ call'[v].op = call[v].op /\ call'[v].ttl = call[v].ttl
              /\ call'[v].phase = "commit" /\ call'[v].expires = call[v].expires
          BY <1>1, <3>2, <4>3 DEF Load, Call
        <5>3. call[v].expires >= now[v] + MaxTatOffset + 2 * Period
          BY <2>0, <5>1, QuotaTypes DEF ExpiryPlanned, Ttl
        <5>4. clock <= now[v] + Period
          BY <1>1, <2>0, <5>1, LatencyAssumption, QuotaTypes DEF ExpiryPlanned, Busy
        <5>5. ASSUME call'[v].current /= None
              PROVE  call'[v].current.tat <= call[v].expires
          <6>1. WithinBurst(call'[v].current)
            BY <3>2, <4>3, <5>5, LoadFacts DEF LockoutInv, LiveAt
          <6>2. call[v].expires \in Nat
            BY <1>1 DEF Call
          <6> QED
            BY <1>1, <5>3, <5>4, <6>1, <6>2, QuotaTypes DEF WithinBurst
        <5> QED
          BY <2>0, <4>1, <5>1, <5>2, <5>5 DEF ExpiryPlanned, Busy
      <4> QED
        BY <4>2, <4>3
    <3>3. CASE GetExpired(w)
      <4>1. now' = now /\ clock' = clock /\ (v /= w => call'[v] = call[v])
        BY <1>1, <2>5, <3>3 DEF Internal, GetExpired, Goto
      <4>2. call[w].op = "get" /\ call[w].phase = "load"
        BY <3>3 DEF GetExpired, At
      <4>3. /\ call'[w].op = call[w].op /\ call'[w].phase = "remove"
            /\ call'[w].current = call[w].current
        BY <1>1, <3>3 DEF GetExpired, Goto, Call
      <4> QED
        BY <2>0, <2>1, <4>1, <4>2, <4>3 DEF ExpiryPlanned, Busy
    <3> QED
      BY <2>5, <3>1, <3>2, <3>3 DEF Internal
  <2>6. ASSUME NEW w \in Workers, Finish(w)
        PROVE  ExpiryPlanned(v)'
    BY <1>1, <2>1, <2>2, <2>6, FinishFrame
  <2>7. CASE UNCHANGED vars
    BY <2>1, <2>7 DEF vars, storageVars
  <2> QED
    BY <2>3, <2>4, <2>5, <2>6, <2>7 DEF Next
<1> QED
  BY <1>3, <1>4 DEF ExpiryInv, ExpiryCoversDebt

LEMMA CallsMadeInit == Init => CallsMade
  BY MemoryStorageAssumption DEF Init, StorageInit, CallsMade, NoCall, Operations

LEMMA ExpiryInit == Init => ExpiryInv
  BY MemoryStorageAssumption
  DEF Init, StorageInit, ExpiryInv, ExpiryCoversDebt, ExpiryPlanned, Busy, NoCall,
      Operations

\* For any number of workers, when no call lasts longer than one period: an
\* entry expires only when its TAT is past, so that dropping it, by collection
\* or by a read, forgives nobody's debt.
THEOREM ExpiryIsSafe ==
  ASSUME MaxLatency <= Period
  PROVE  Spec => []ExpiryCoversDebt
<1>1. TypeOK /\ CallsMade /\ LockoutInv /\ ExpiryInv /\ [Next]_vars => ExpiryInv'
  BY ExpiryStep
<1>2. ExpiryInv => ExpiryCoversDebt
  BY DEF ExpiryInv
<1> QED
  BY <1>1, <1>2, TypeInit, TypeStep, CallsMadeInit, CallsMadeStep, LockoutInit,
     LockoutStep, ExpiryInit, PTL DEF Spec

(***************************************************************************)
(* The collection lock                                                     *)
(***************************************************************************)
LEMMA GcExclusiveStep == TypeOK /\ CallsMade /\ GcExclusive /\ [Next]_vars => GcExclusive'
<1> SUFFICES ASSUME TypeOK, CallsMade, GcExclusive, [Next]_vars, NEW v \in Workers
             PROVE  gcLock' = v <=> /\ call'[v].phase \in {"gc", "sweep"}
                                    /\ call'[v].op /= "run_gc"
  BY DEF GcExclusive
<1> DEFINE Sweeps(c) == c.phase \in {"gc", "sweep"} /\ c.op /= "run_gc"
<1> USE DEF TypeOK, StorageTypeOK
<1>0. ~Sweeps(NoCall) /\ None \notin Workers
  BY MemoryStorageAssumption DEF NoCall
<1>1. \A u \in Workers : gcLock = u <=> Sweeps(call[u])
  BY DEF GcExclusive
<1>2. ASSUME gcLock' = gcLock, Sweeps(call'[v]) <=> Sweeps(call[v])
      PROVE  gcLock' = v <=> Sweeps(call'[v])
  BY <1>1, <1>2
<1>3. CASE UNCHANGED vars \/ Time
  BY <1>2, <1>3 DEF vars, storageVars, Time, Tick
<1>4. ASSUME NEW w \in Workers, StartSome(w)
      PROVE  gcLock' = v <=> Sweeps(call'[v])
  <2>1. PICK op \in Operations, k \in Keys \cup {None}, ttl \in Nat :
          /\ Begin(w, op, k, ttl)
          /\ op \in {"execute_atomic", "get", "delete", "run_gc"}
    BY <1>4, StartFacts
  <2>2. ~Sweeps(call[w]) /\ ~Sweeps(call'[w])
    BY <2>1 DEF Begin, Busy, FirstPhase, NoCall
  <2> QED
    BY <1>2, <2>1, <2>2 DEF Begin
<1>5. ASSUME NEW w \in Workers, Common(w)
      PROVE  gcLock' = v <=> Sweeps(call'[v])
  <2>1. ASSUME Sweeps(call'[w]) <=> Sweeps(call[w]), gcLock' = gcLock
        PROVE  gcLock' = v <=> Sweeps(call'[v])
    BY <1>2, <1>5, <2>1, CommonFrame
  <2>2. call[w].op = "run_gc" \/ ~Sweeps(AfterGc(w))
    BY <1>0 DEF AfterGc, Call
  <2>3. CASE CountRequest(w)
    <3>1. ~Sweeps(call[w]) /\ call[w].op /= "run_gc"
      BY <2>3 DEF CountRequest, CallsMade
    <3> QED
      BY <2>1, <2>2, <2>3, <3>1 DEF CountRequest, Call
  <2>4. CASE TryGcLock(w)
    <3>1. ~Sweeps(call[w]) /\ call[w].op /= "run_gc"
      BY <2>4 DEF TryGcLock, CallsMade
    <3>2. CASE gcLock = None
      <4>1. gcLock' = w /\ Sweeps(call'[w])
        BY <2>4, <3>1, <3>2 DEF TryGcLock, Goto, Call
      <4>2. v /= w => ~Sweeps(call'[v])
        BY <1>0, <1>1, <1>5, <3>2, CommonFrame
      <4> QED
        BY <4>1, <4>2
    <3>3. CASE gcLock /= None
      BY <2>1, <2>2, <2>4, <3>1, <3>3 DEF TryGcLock
    <3> QED
      BY <3>2, <3>3
  <2>5. CASE StartSweep(w)
    BY <2>1, <2>5 DEF StartSweep, Call
  <2>6. CASE \E k \in Keys : SweepKey(w, k)
    BY <2>1, <2>6 DEF SweepKey, Call
  <2>7. CASE EndSweep(w)
    <3>1. CASE call[w].op = "run_gc"
      BY <1>0, <2>1, <2>7, <3>1 DEF EndSweep, AfterGc
    <3>2. CASE call[w].op /= "run_gc"
      <4>1. gcLock = w /\ gcLock' = None /\ ~Sweeps(call'[w])
        BY <1>1, <2>2, <2>7, <3>2 DEF EndSweep, CallsMade
      <4>2. v /= w => ~Sweeps(call'[v])
        BY <1>1, <1>5, <4>1, CommonFrame
      <4> QED
        BY <1>0, <4>1, <4>2
    <3> QED
      BY <3>1, <3>2
  <2>8. CASE ComputeExpiry(w)
    BY <2>1, <2>8 DEF ComputeExpiry, Call
  <2>9. CASE ReadNow(w)
    BY <2>1, <2>9 DEF ReadNow, Call
  <2> QED
    BY <1>5, <2>3, <2>4, <2>5, <2>6, <2>7, <2>8, <2>9 DEF Common
<1>6. ASSUME NEW w \in Workers, Load(w) \/ GetExpired(w)
      PROVE  gcLock' = v <=> Sweeps(call'[v])
  BY ZenonT(60), <1>2, <1>6 DEF Load, GetExpired, At, Goto, Call
<1>7. ASSUME NEW w \in Workers, Finish(w)
      PROVE  gcLock' = v <=> Sweeps(call'[v])
  <2>1. ~Sweeps(call[w])
    BY <1>7 DEF Finish, Record, Panic, PeekHit, PeekMiss, Forget, ExecuteCommit,
                GetHit, GetMiss, GetRemove, DeleteCommit, At
  <2> QED
    BY <1>0, <1>2, <1>7, <2>1, FinishFrame
<1> QED
  BY <1>3, <1>4, <1>5, <1>6, <1>7 DEF Next, Internal

\* Two requests never collect at once, and the lock is held exactly during a
\* request's collection, so that a later request can always collect again.
THEOREM CollectionIsExclusive == Spec => []GcExclusive
<1>1. Init => GcExclusive
  BY MemoryStorageAssumption DEF Init, StorageInit, GcExclusive, NoCall
<1> QED
  BY <1>1, TypeInit, TypeStep, CallsMadeInit, CallsMadeStep, GcExclusiveStep, PTL DEF Spec

\* The whole of what the workers rely on together, which the runs check on a
\* small instance: types, the calls made, the lock, the lockout and the expiry,
\* for any number of workers, when no call lasts longer than one period.
THEOREM MemoryIsConsistent ==
  ASSUME MaxLatency <= Period
  PROVE  Spec => []MemoryInv
<1>1. Init => MemoryInv
  <2>1. Init => GcExclusive
    BY MemoryStorageAssumption DEF Init, StorageInit, GcExclusive, NoCall
  <2> QED
    BY <2>1, TypeInit, CallsMadeInit, LockoutInit, ExpiryInit DEF MemoryInv
<1>2. MemoryInv /\ [Next]_vars => MemoryInv'
  BY TypeStep, CallsMadeStep, GcExclusiveStep, LockoutStep, ExpiryStep DEF MemoryInv
<1> QED
  BY <1>1, <1>2, PTL DEF Spec

-----------------------------------------------------------------------------

(***************************************************************************)
(* Logs and their debt                                                     *)
(***************************************************************************)
LEMMA AppendConforms ==
  ASSUME NEW log \in Seq(Nat), NEW a \in Nat, DebtBy(log, a + MaxTatOffset),
         Contract!ConformingLog(log)
  PROVE  Contract!ConformingLog(Append(log, a))
<1> DEFINE new == Append(log, a)
<1>1. /\ Len(new) = Len(log) + 1
      /\ \A i \in 1..Len(log) : new[i] = log[i]
  OBVIOUS
<1> SUFFICES ASSUME NEW i \in 1..Len(new), NEW j \in 1..Len(new), i < j
             PROVE  Contract!Spaced(new, i, j)
  BY DEF Contract!ConformingLog
<1>2. i \in 1..Len(log)
  BY <1>1
<1>3. CASE j = Len(new)
  BY <1>2, <1>3, DebtSpaces DEF Contract!Spaced
<1>4. CASE j /= Len(new)
  <2>1. j \in 1..Len(log) /\ new[i] = log[i] /\ new[j] = log[j]
    BY <1>1, <1>2, <1>4
  <2>2. Contract!Spaced(log, i, j)
    BY <1>2, <2>1 DEF Contract!ConformingLog
  <2> QED
    BY <2>1, <2>2 DEF Contract!Spaced
<1> QED
  BY <1>3, <1>4

(***************************************************************************)
(* Every step of GcraAdmission is one of GcraMemory                        *)
(***************************************************************************)
LEMMA AdmissionIsMemory == [AdmissionNext]_allVars => [Next]_vars
  BY DEF AdmissionNext, allVars, callerVars, Next, Began, Recorded, Peeked, Forgot,
         Finish

\* The one worker, and the longest a call may last: the TTL of an entry less
\* the period it is kept beyond the burst.
Single(w) == Workers = {w} /\ MaxLatency <= MaxTatOffset + Period

(***************************************************************************)
(* The replies, for any number of workers                                  *)
(***************************************************************************)
RepliesOK ==
  /\ DOMAIN reply = Workers
  /\ \A v \in Workers : reply[v] /= None => reply[v] \in Answers

\* A new reply is about a TAT the worker has just found stored, or about none.
Found(v, tat) ==
  \/ Recorded(v) /\ tat = Tat(call[v].current)
  \/ PeekHit(v) /\ tat = data[call[v].key].entry.tat
  \/ PeekMiss(v) /\ tat = None

LEMMA NewReply ==
  ASSUME TypeOK, RepliesOK, [AdmissionNext]_allVars, NEW v \in Workers,
         reply'[v] /= reply[v], reply'[v] /= None
  PROVE  \E tat \in Nat \cup {None} :
           LET d == CalculateDecision(tat, now[v])
           IN  /\ ~DividesByZero(d, now[v])
               /\ reply'[v] = [key      |-> call[v].key,
                               now      |-> now[v],
                               decision |-> Reply(d, now[v])]
               /\ Found(v, tat)
<1> USE DEF RepliesOK
<1>1. PICK w \in Workers : Recorded(w) \/ Peeked(w)
  BY DEF AdmissionNext, allVars, callerVars, Began, Forgot
<1>2. CASE Recorded(w)
  <2>1. v = w
    BY <1>2 DEF Recorded, Answer
  <2> DEFINE tat == Tat(call[v].current)
  <2>2. tat \in Nat \cup {None}
    BY DEF Tat, TypeOK, StorageTypeOK, Call, StorageEntry
  <2>3. Outcome(v) = CalculateDecision(tat, now[v])
    BY DEF Outcome
  <2>4. ~DividesByZero(Outcome(v), now[v])
    BY <1>2, <2>1 DEF Recorded, Record
  <2>5. reply'[v] = [key |-> call[v].key, now |-> now[v],
                     decision |-> Reply(Outcome(v), now[v])]
    BY <1>2, <2>1 DEF Recorded, Answer
  <2>6. Found(v, tat)
    BY <1>2, <2>1 DEF Found
  <2> HIDE DEF tat
  <2> QED
    BY <2>2, <2>3, <2>4, <2>5, <2>6
<1>3. ASSUME NEW entry, PeekAnswer(w, entry), Tat(entry) \in Nat \cup {None},
             Found(w, Tat(entry))
      PROVE  \E tat \in Nat \cup {None} :
               LET d == CalculateDecision(tat, now[v])
               IN  /\ ~DividesByZero(d, now[v])
                   /\ reply'[v] = [key      |-> call[v].key,
                                   now      |-> now[v],
                                   decision |-> Reply(d, now[v])]
                   /\ Found(v, tat)
  <2> DEFINE d == CalculateDecision(Tat(entry), now[w])
  <2>1. ~DividesByZero(d, now[w]) /\ Answer(w, d)
    BY <1>3 DEF PeekAnswer
  <2> HIDE DEF d
  <2>2. v = w
    BY <2>1 DEF Answer
  <2>3. reply'[v] = [key |-> call[v].key, now |-> now[v], decision |-> Reply(d, now[v])]
    BY <2>1, <2>2 DEF Answer
  <2> QED
    BY <1>3, <2>1, <2>2, <2>3 DEF d
<1>4. CASE PeekHit(w) /\ PeekAnswer(w, data[call[w].key].entry)
  <2> DEFINE entry == data[call[w].key].entry
  <2>1. /\ data[call[w].key] /= None /\ call[w].key \in Keys
    BY <1>4 DEF PeekHit, GetHit, LiveAt, At, TypeOK, CallsKeyed, Keyed, Operations
  <2>2. entry \in StorageEntry
    BY <2>1 DEF TypeOK, StorageTypeOK, InternalEntry
  <2>3. entry /= None /\ entry.tat \in Nat \cup {None}
    BY <2>2, MemoryStorageAssumption DEF StorageEntry
  <2>4. Tat(entry) = entry.tat
    BY <2>3 DEF Tat
  <2>5. Found(w, Tat(entry))
    BY <1>4, <2>4 DEF Found
  <2> QED
    BY <1>3, <1>4, <2>3, <2>4, <2>5
<1>5. CASE PeekMiss(w) /\ PeekAnswer(w, None)
  <2>1. Tat(None) = None
    BY DEF Tat
  <2>2. Found(w, Tat(None))
    BY <1>5, <2>1 DEF Found
  <2> QED
    BY <1>3, <1>5, <2>1, <2>2
<1> QED
  BY <1>1, <1>2, <1>4, <1>5 DEF Peeked

LEMMA FoundKeyed ==
  ASSUME TypeOK, NEW v \in Workers, NEW tat, Found(v, tat)
  PROVE  call[v].key \in Keys /\ now[v] \in Nat
<1>1. call[v].op \in Keyed
  BY DEF Found, Recorded, Record, ExecuteCommit, PeekHit, PeekMiss, GetHit, GetMiss,
         GetRemove, At, Keyed, Operations
<1> QED
  BY <1>1 DEF TypeOK, CallsKeyed

\* A step changes a reply to None, or to a new one.
LEMMA RepliesStep ==
  ASSUME TypeOK, RepliesOK, [AdmissionNext]_allVars
  PROVE  RepliesOK'
<1>1. DOMAIN reply' = Workers
  BY DEF RepliesOK, AdmissionNext, allVars, callerVars, Began, Recorded, Peeked,
         PeekAnswer, Forgot, Answer
<1>2. ASSUME NEW v \in Workers, reply'[v] /= None
      PROVE  reply'[v] \in Answers
  <2>1. CASE reply'[v] = reply[v]
    BY <1>2, <2>1 DEF RepliesOK
  <2>2. CASE reply'[v] /= reply[v]
    <3>1. PICK tat \in Nat \cup {None} :
            LET d == CalculateDecision(tat, now[v])
            IN  /\ ~DividesByZero(d, now[v])
                /\ reply'[v] = [key      |-> call[v].key,
                                now      |-> now[v],
                                decision |-> Reply(d, now[v])]
                /\ Found(v, tat)
      BY <1>2, <2>2, NewReply
    <3> DEFINE d == CalculateDecision(tat, now[v])
    <3>2. call[v].key \in Keys /\ now[v] \in Nat
      BY <3>1, FoundKeyed
    <3>3. d \in Decision
      BY <3>2, DecisionFacts
    <3>4. Reply(d, now[v]) \in DecisionInfo
      BY <3>1, <3>2, <3>3, ReplyType
    <3>5. reply'[v] = [key |-> call[v].key, now |-> now[v], decision |-> Reply(d, now[v])]
      BY <3>1
    <3> HIDE DEF d
    <3> QED
      BY <3>2, <3>4, <3>5 DEF Answers
  <2> QED
    BY <2>1, <2>2
<1> QED
  BY <1>1, <1>2 DEF RepliesOK

LEMMA RemainingStep ==
  ASSUME Period /= 0, TypeOK, RepliesOK, RemainingIsSafe, [AdmissionNext]_allVars
  PROVE  RemainingIsSafe'
<1> SUFFICES ASSUME NEW v \in Workers, reply'[v] /= None, reply'[v].decision.allowed
             PROVE  reply'[v].decision.remaining <= Capacity(reply'[v])
  BY DEF RemainingIsSafe, Capacity
<1>1. CASE reply'[v] = reply[v]
  BY <1>1 DEF RemainingIsSafe
<1>2. CASE reply'[v] /= reply[v]
  <2>1. PICK tat \in Nat \cup {None} :
          LET d == CalculateDecision(tat, now[v])
          IN  /\ ~DividesByZero(d, now[v])
              /\ reply'[v] = [key      |-> call[v].key,
                              now      |-> now[v],
                              decision |-> Reply(d, now[v])]
              /\ Found(v, tat)
    BY <1>2, NewReply
  <2> DEFINE d == CalculateDecision(tat, now[v])
             t == now[v]
             r == reply'[v]
  <2>2. t \in Nat
    BY <2>1, FoundKeyed
  <2>3. r.now = t /\ r.decision = Reply(d, t)
    BY <2>1
  <2>4. /\ r.decision.allowed = d.allowed
        /\ r.decision.remaining = Remaining(d.tat, t)
        /\ r.decision.reset_at = Later(d.tat, t)
    <3> HIDE DEF d, t, r
    <3> QED
      BY <2>3 DEF Reply
  <2>5. d.tat \in Nat /\ d.tat >= t + Period /\ d.tat <= t + MaxTatOffset + Period
    <3>1. d.allowed
      BY <2>4
    <3>2. /\ d \in Decision
          /\ d.allowed => d.tat >= t + Period /\ d.tat <= t + MaxTatOffset + Period
      BY <2>2, DecisionFacts
    <3> HIDE DEF d
    <3> QED
      BY <3>1, <3>2 DEF Decision
  <2> HIDE DEF d, t, r
  <2>6. Later(d.tat, t) = d.tat
    BY <2>2, <2>5, QuotaTypes DEF Later
  <2>7. Remaining(d.tat, t) <= (t + MaxTatOffset + Period - d.tat) \div Period
    BY <2>2, <2>5, RemainingFits
  <2>8. Capacity(r) = (t + MaxTatOffset + Period - d.tat) \div Period
    BY <2>3, <2>4, <2>6 DEF Capacity
  <2> QED
    BY <2>4, <2>7, <2>8 DEF r
<1> QED
  BY <1>1, <1>2

\* For any number of workers, however they race: what a reply says remains is
\* no more than there is room for behind the TAT it leaves.  A period of less
\* than a millisecond has no room to count in, hence the hypothesis.
THEOREM RemainingIsNoPromiseTooMuch ==
  ASSUME Period /= 0
  PROVE  AdmissionSpec => []RemainingIsSafe
<1>1. AdmissionInit => TypeOK /\ RepliesOK /\ RemainingIsSafe
  <2>1. AdmissionInit => RepliesOK /\ RemainingIsSafe
    BY DEF AdmissionInit, RepliesOK, RemainingIsSafe
  <2> QED
    BY <2>1, TypeInit DEF AdmissionInit
<1>2. TypeOK /\ RepliesOK /\ RemainingIsSafe /\ [AdmissionNext]_allVars
        => TypeOK' /\ RepliesOK' /\ RemainingIsSafe'
  BY AdmissionIsMemory, TypeStep, RepliesStep, RemainingStep
<1> QED
  BY <1>1, <1>2, PTL DEF AdmissionSpec

(***************************************************************************)
(* Time moves forward, and with it what the next arrival can be            *)
(***************************************************************************)
LEMMA BaseType ==
  ASSUME TypeOK, NEW w \in Workers
  PROVE  Base(w) \in Nat
  BY DEF Base, TypeOK, StorageTypeOK

LEMMA BaseMoves ==
  ASSUME AdmissionInv, NEW w \in Workers, Workers = {w}, [Next]_vars
  PROVE  /\ Base(w) \in Nat /\ Base(w)' \in Nat /\ Base(w) <= Base(w)'
         /\ clock \in Nat /\ clock' \in Nat /\ clock <= clock'
<1>1. TypeOK /\ TypeOK'
  BY TypeStep DEF AdmissionInv
<1>2. clock \in Nat /\ clock' \in Nat /\ clock <= clock' /\ now[w] \in Nat
  BY <1>1, StepFrame DEF TypeOK, StorageTypeOK
<1>3. Base(w) <= clock
  BY <1>2 DEF Base, AdmissionInv, CallInv
<1>4. Base(w) <= Base(w)'
  <2>1. CASE ~Busy(w)'
    BY <1>1, <1>2, <1>3, <2>1, BaseType DEF Base
  <2>2. CASE UNCHANGED <<call, now>>
    BY <1>2, <2>2 DEF Base, Busy
  <2>3. CASE StartSome(w)
    <3>1. PICK op \in Operations, k \in Keys \cup {None}, ttl \in Nat :
            Begin(w, op, k, ttl) /\ now' = [now EXCEPT ![w] = clock]
      BY <2>3, StartFacts
    <3>2. clock' = clock /\ now'[w] = clock
      BY <1>1, <3>1 DEF Begin, TypeOK
    <3> QED
      BY <1>2, <1>3, <3>2 DEF Base
  <2>4. CASE Internal(w)
    <3>1. Busy(w) /\ now' = now /\ clock' = clock
      BY <2>4 DEF Internal, Common, CountRequest, TryGcLock, StartSweep, SweepKey,
                  EndSweep, ComputeExpiry, ReadNow, Load, GetExpired, At, Busy
    <3> QED
      BY <1>2, <1>3, <3>1 DEF Base
  <2>5. CASE Finish(w)
    BY <1>1, <2>1, <2>5, FinishFrame DEF TypeOK, StorageTypeOK, Busy, NoCall
  <2> QED
    BY <2>1, <2>2, <2>3, <2>4, <2>5
    DEF Next, Time, Tick, vars, storageVars
<1>5. Base(w)' \in Nat
  BY <1>1 DEF Base, TypeOK, StorageTypeOK
<1> QED
  BY <1>1, <1>2, <1>4, <1>5, BaseType

\* Settled debt stays settled.
LEMMA SettledStays ==
  ASSUME NEW w \in Workers, NEW k \in Keys, admitted[k] \in Seq(Nat),
         retryAt[k] \in Nat \cup {None},
         admitted'[k] = admitted[k], retryAt'[k] = retryAt[k], Settled(w, k),
         Base(w) \in Nat, Base(w)' \in Nat, Base(w) <= Base(w)',
         clock \in Nat, clock' \in Nat, clock <= clock'
  PROVE  Settled(w, k)'
<1> DEFINE b  == Base(w)
           b1 == Base(w)'
<1>1. DebtBy(admitted[k], b1 + MaxTatOffset)
  <2>1. DebtBy(admitted[k], b + MaxTatOffset)
    BY DEF Settled
  <2>2. /\ b + MaxTatOffset \in Int /\ b1 + MaxTatOffset \in Int
        /\ b + MaxTatOffset <= b1 + MaxTatOffset
    BY QuotaTypes, Shifted
  <2> QED
    BY <2>1, <2>2, DebtMonotone, Zenon
<1>4. retryAt[k] /= None => retryAt[k] <= b1
  <2>1. retryAt[k] /= None => retryAt[k] <= b
    BY DEF Settled
  <2>2. b \in Nat /\ b1 \in Nat /\ b <= b1
    OBVIOUS
  <2> HIDE DEF b, b1
  <2> QED
    BY <2>1, <2>2
<1>2. CASE DebtBy(admitted[k], Base(w))
  <2>1. DebtBy(admitted[k], Base(w)')
    BY <1>2, DebtMonotone
  <2> QED
    BY <1>1, <1>4, <2>1 DEF Settled
<1>3. CASE DebtBy(admitted[k], clock - Period)
  <2>1. /\ clock - Period \in Int /\ clock' - Period \in Int
        /\ clock - Period <= clock' - Period
    BY QuotaTypes, Shifted
  <2>2. DebtBy(admitted[k], clock' - Period)
    BY <1>3, <2>1, DebtMonotone, Zenon
  <2>3. DebtBy(admitted[k], clock - Period)'
    BY <2>2
  <2> QED
    BY <1>1, <1>4, <2>3 DEF Settled
<1> QED
  BY <1>2, <1>3 DEF Settled

\* A key no step writes keeps its invariant, and so does one whose settled
\* entry is dropped.
LEMMA KeyStays ==
  ASSUME NEW w \in Workers, NEW k \in Keys, KeyInv(w, k),
         retryAt[k] \in Nat \cup {None},
         admitted'[k] = admitted[k], retryAt'[k] = retryAt[k],
         \/ data'[k] = data[k]
         \/ data'[k] = None /\ Settled(w, k),
         Base(w) \in Nat, Base(w)' \in Nat, Base(w) <= Base(w)',
         clock \in Nat, clock' \in Nat, clock <= clock'
  PROVE  KeyInv(w, k)'
<1>1. /\ admitted[k] \in Seq(Nat)
      /\ \A i \in 1..Len(admitted[k]) : admitted[k][i] <= Base(w)'
  BY DEF KeyInv
<1>2. CASE data'[k] = None
  BY <1>1, <1>2, SettledStays DEF KeyInv
<1>3. CASE data'[k] /= None
  <2>1. data'[k] = data[k] /\ Remembered(w, k)
    BY <1>3 DEF KeyInv
  <2> DEFINE tat == data[k].entry.tat
  <2>2. tat \in Nat /\ DebtBy(admitted[k], Later(tat, Base(w)))
    BY <2>1 DEF Remembered
  <2>3. DebtBy(admitted[k], Later(tat, Base(w)'))
    BY <1>1, <2>2, DebtMonotone DEF Later
  <2>4. tat <= Base(w)' + MaxTatOffset + Period
    BY <2>1, <2>2, QuotaTypes DEF Remembered
  <2> QED
    BY <1>1, <1>3, <2>1, <2>2, <2>3, <2>4 DEF KeyInv, Remembered
<1> QED
  BY <1>2, <1>3

\* An entry that expired during a call has nothing left to remember.
LEMMA ExpiredSettled ==
  ASSUME AdmissionInv, NEW w \in Workers, Single(w), NEW k \in Keys, Busy(w),
         data[k] /= None, data[k].expires_at <= clock
  PROVE  Settled(w, k)
<1> DEFINE tat == data[k].entry.tat
           b == Base(w)
<1>1. clock \in Nat /\ b \in Nat /\ clock <= b + MaxLatency
  BY BaseType DEF AdmissionInv, CallInv, Base, TypeOK, StorageTypeOK
<1>2. /\ tat \in Nat /\ admitted[k] \in Seq(Nat)
      /\ DebtBy(admitted[k], Later(tat, b))
      /\ tat + Period <= data[k].expires_at
      /\ data[k].expires_at \in Nat
      /\ retryAt[k] \in Nat \cup {None}
      /\ retryAt[k] /= None => retryAt[k] + MaxTatOffset = tat
  BY DEF AdmissionInv, AdmissionTypes, KeyInv, Remembered, TypeOK, StorageTypeOK,
         InternalEntry
<1> HIDE DEF b, tat
<1>5. tat + Period <= b + MaxTatOffset + Period
  BY <1>1, <1>2, QuotaTypes, LatencyAssumption DEF Single
<1>6. retryAt[k] /= None => retryAt[k] <= b
  BY <1>1, <1>2, <1>5, QuotaTypes
<1>3. CASE tat <= b
  <2>1. DebtBy(admitted[k], b)
    BY <1>1, <1>2, <1>3 DEF Later
  <2>2. DebtBy(admitted[k], b + MaxTatOffset)
    BY <1>1, <1>2, <2>1, DebtMonotone, QuotaTypes
  <2> QED
    BY <1>6, <2>1, <2>2 DEF Settled, b
<1>4. CASE tat > b
  <2>1. DebtBy(admitted[k], tat)
    BY <1>1, <1>2, <1>4 DEF Later
  <2>2. tat <= clock - Period
    BY <1>1, <1>2, QuotaTypes
  <2>3. clock - Period <= b + MaxTatOffset
    BY <1>1, QuotaTypes, LatencyAssumption DEF Single
  <2>4. DebtBy(admitted[k], clock - Period)
    BY <1>1, <1>2, <2>1, <2>2, DebtMonotone, QuotaTypes
  <2>5. DebtBy(admitted[k], b + MaxTatOffset)
    BY <1>1, <1>2, <2>3, <2>4, DebtMonotone, QuotaTypes
  <2> QED
    BY <1>6, <2>4, <2>5 DEF Settled, b
<1> QED
  BY <1>1, <1>2, <1>3, <1>4

(***************************************************************************)
(* The steps of a call                                                     *)
(***************************************************************************)
\* A worker between calls has computed nothing.
LEMMA IdleCall ==
  ASSUME NEW w \in Workers, call'[w] = NoCall, clock' \in Nat
  PROVE  CallInv(w)'
<1>1. None \notin Operations
  BY MemoryStorageAssumption
<1> QED
  BY <1>1 DEF CallInv, Busy, NoCall, Operations

\* What the common steps of the one worker do to a key: nothing, or drop an
\* entry that has expired.
LEMMA CommonKeys ==
  ASSUME AdmissionInv, NEW w \in Workers, Single(w), Common(w), NEW k \in Keys
  PROVE  data'[k] = data[k] \/ (data'[k] = None /\ Settled(w, k))
<1> USE DEF AdmissionInv, TypeOK, StorageTypeOK
<1>1. CASE \E j \in Keys : SweepKey(w, j)
  <2>1. PICK j \in Keys : SweepKey(w, j)
    BY <1>1
  <2>2. CASE data'[k] /= data[k]
    <3>1. /\ data[k] /= None /\ data'[k] = None
          /\ ~Keep(data[k], call[w].gcNow) /\ Busy(w)
      BY <2>1, <2>2 DEF SweepKey, Busy
    <3>2. call[w].gcNow <= clock /\ call[w].gcNow \in Nat
      BY DEF CallInv, Call
    <3>3. data[k].expires_at \in Nat /\ ~(data[k].expires_at > call[w].gcNow)
      BY <3>1 DEF Keep, InternalEntry
    <3>4. data[k].expires_at <= clock
      BY <3>2, <3>3
    <3> QED
      BY <3>1, <3>4, ExpiredSettled
  <2> QED
    BY <2>2
<1>2. CASE ~\E j \in Keys : SweepKey(w, j)
  BY <1>2 DEF Common, CountRequest, TryGcLock, StartSweep, EndSweep, ComputeExpiry,
              ReadNow
<1> QED
  BY <1>1, <1>2

\* The common steps keep what the call has computed true.
LEMMA CommonCall ==
  ASSUME AdmissionInv, NEW w \in Workers, Common(w), now' = now
  PROVE  CallInv(w)'
<1> USE DEF AdmissionInv, TypeOK, StorageTypeOK
<1>1. CASE call'[w] = NoCall
  BY <1>1, IdleCall, CommonFrame
<1>2. CASE call'[w] /= NoCall
  <2>0. call[w] \in Call /\ clock \in Nat /\ now[w] \in Nat
    OBVIOUS
  <2>1. /\ clock' = clock /\ call'[w].op = call[w].op /\ call'[w].key = call[w].key
        /\ call'[w].ttl = call[w].ttl /\ call'[w].current = call[w].current
    BY <1>2, CommonFrame
  <2>2. /\ Busy(w)
        /\ call'[w].now \in {call[w].now, clock}
        /\ call'[w].gcNow \in {call[w].gcNow, clock, 0}
        /\ call[w].op \in {"execute_atomic", "get"} =>
              call'[w].phase \notin {"commit", "remove"}
        /\ \/ call'[w].phase \notin {"now", "load", "commit"}
           \/ call[w].op /= "execute_atomic"
           \/ call[w].phase = "expires" /\ call'[w].expires = clock + call[w].ttl
           \/ call[w].phase = "now" /\ call'[w].expires = call[w].expires
    <3> USE DEF Call, Busy
    <3>1. CASE CountRequest(w)
      BY <1>2, <3>1 DEF CountRequest, AfterGc
    <3>2. CASE TryGcLock(w)
      <4>1. CASE gcLock = None
        BY <3>2, <4>1 DEF TryGcLock, Goto
      <4>2. CASE gcLock /= None
        <5>1. call'[w] = AfterGc(w) /\ Busy(w)
          BY <3>2, <4>2 DEF TryGcLock
        <5>2. /\ AfterGc(w).now = call[w].now /\ AfterGc(w).gcNow = 0
              /\ \/ AfterGc(w).phase = "expires"
                 \/ AfterGc(w).phase = "now" /\ call[w].op = "get"
          BY <1>2, <5>1 DEF AfterGc
        <5> QED
          BY <5>1, <5>2
      <4> QED
        BY <4>1, <4>2
    <3>3. CASE StartSweep(w)
      BY <3>3 DEF StartSweep
    <3>4. CASE \E k \in Keys : SweepKey(w, k)
      BY <3>4 DEF SweepKey
    <3>5. CASE EndSweep(w)
      BY <1>2, <3>5 DEF EndSweep, AfterGc
    <3>6. CASE ComputeExpiry(w)
      BY <3>6 DEF ComputeExpiry
    <3>7. CASE ReadNow(w)
      BY <3>7 DEF ReadNow
    <3> QED
      BY <3>1, <3>2, <3>3, <3>4, <3>5, <3>6, <3>7 DEF Common
  <2>3. now[w] <= clock /\ clock <= now[w] + MaxLatency
    BY <2>2 DEF CallInv
  <2>4. call'[w].now <= clock /\ call'[w].gcNow <= clock
    BY <2>0, <2>2 DEF CallInv
  <2>5. call[w].op = "execute_atomic" =>
          /\ call[w].ttl = Ttl
          /\ call'[w].phase \in {"now", "load", "commit"} =>
               call'[w].expires >= now[w] + Ttl
    BY <2>0, <2>2, <2>3, QuotaTypes DEF CallInv
  <2> QED
    BY <2>1, <2>2, <2>3, <2>4, <2>5 DEF CallInv
<1> QED
  BY <1>1, <1>2

(***************************************************************************)
(* The steps on the history                                                *)
(***************************************************************************)
\* What check_and_record finds and leaves when it stores its decision.
LEMMA CommitFacts ==
  ASSUME AdmissionInv, NEW w \in Workers, Record(w), NEW k \in Keys, k = call[w].key
  PROVE  /\ clock' = clock /\ now' = now
         /\ call[w].op = "execute_atomic" /\ call[w].phase = "commit"
         /\ data'[k].entry.tat = Outcome(w).tat /\ data'[k].expires_at = call[w].expires
         /\ data'[k] /= None
         /\ call'[w] = NoCall
         /\ now[w] \in Nat /\ clock \in Nat /\ now[w] <= clock
         /\ Base(w) = now[w] /\ Base(w)' = clock
         /\ admitted[k] \in Seq(Nat) /\ Outcome(w).tat \in Nat
         /\ call[w].expires \in Nat
         /\ call[w].expires >= now[w] + MaxTatOffset + Period + Period
<1> DEFINE tat == Outcome(w).tat
<1>1. /\ clock' = clock /\ now' = now
      /\ call[w].op = "execute_atomic" /\ call[w].phase = "commit"
      /\ data'[k].entry.tat = tat /\ data'[k].expires_at = call[w].expires
      /\ data'[k] /= None
  <2>2. data'[k] = [entry |-> WithTat(tat), expires_at |-> call[w].expires]
    BY RecordFacts
    DEF Record, ExecuteCommit, Insert, AdmissionInv, TypeOK, StorageTypeOK
  <2>3. data'[k] /= None
    <3>1. WithTat(tat) \in StorageEntry /\ call[w].expires \in Nat
      BY OutcomeFacts, WithTatType DEF AdmissionInv, TypeOK, StorageTypeOK, Call, Decision
    <3>2. data'[k] \in InternalEntry
      BY <2>2, <3>1 DEF InternalEntry
    <3> QED
      BY <3>2, MemoryStorageAssumption
  <2> QED
    BY <2>3, RecordFacts DEF AdmissionInv
<1>2. call'[w] = NoCall
  BY <1>1, FinishFrame DEF Finish, AdmissionInv, TypeOK, StorageTypeOK
<1>3. /\ now[w] \in Nat /\ clock \in Nat /\ now[w] <= clock
      /\ Base(w) = now[w] /\ Base(w)' = clock
      /\ admitted[k] \in Seq(Nat) /\ tat \in Nat /\ call[w].expires \in Nat
      /\ call[w].expires >= now[w] + Ttl
  BY <1>1, <1>2, OutcomeFacts
  DEF AdmissionInv, TypeOK, StorageTypeOK, KeyInv, CallInv, Base, Busy, NoCall, Decision, Call
<1>4. now[w] + Ttl = now[w] + MaxTatOffset + Period + Period
  <2>1. 2 * Period = Period + Period
    BY QuotaTypes
  <2> QED
    BY <1>3, <2>1, QuotaTypes DEF Ttl
<1> QED
  BY <1>1, <1>2, <1>3, <1>4

\* A request is let through: what it adds to the log fits the quota, and the
\* entry it leaves remembers the log's debt.
LEMMA AllowedKey ==
  ASSUME AdmissionInv, NEW w \in Workers, Single(w), Recorded(w), Outcome(w).allowed,
         NEW k \in Keys, k = call[w].key
  PROVE  /\ DebtBy(admitted[k], now[w] + MaxTatOffset)
         /\ KeyInv(w, k)'
         /\ admitted' = [admitted EXCEPT ![k] = Append(@, now[w])]
<1> DEFINE log == admitted[k]
           a   == now[w]
           tat == Outcome(w).tat
<1>1. /\ data'[k].entry.tat = tat /\ data'[k].expires_at = call[w].expires
      /\ data'[k] /= None
      /\ call[w].op = "execute_atomic" /\ call[w].phase = "commit"
  BY CommitFacts DEF Recorded
<1>3. /\ a \in Nat /\ clock \in Nat /\ a <= clock /\ Base(w) = a /\ Base(w)' = clock
      /\ clock' = clock
      /\ log \in Seq(Nat) /\ tat \in Nat /\ call[w].expires \in Nat
      /\ call[w].expires >= a + MaxTatOffset + Period + Period
  BY CommitFacts DEF Recorded
<1>4. /\ tat >= a + Period
      /\ tat <= a + MaxTatOffset + Period
  BY OutcomeFacts DEF AdmissionInv
<1>5. DebtBy(log, a + MaxTatOffset) /\ DebtBy(Append(log, a), Later(tat, clock))
  <2>1. CASE call[w].current = None
    <3>1. Settled(w, k)
      BY <1>1, <2>1 DEF AdmissionInv, CallInv
    <3>2. DebtBy(log, a + MaxTatOffset)
      BY <1>3, <3>1 DEF Settled
    <3>3. CASE DebtBy(log, a)
      BY <1>3, <1>4, <3>2, <3>3, AppendDebt, QuotaTypes DEF Later
    <3>4. CASE DebtBy(log, clock - Period)
      <4>1. (clock - Period) + Period <= Later(tat, clock)
        BY <1>3, QuotaTypes DEF Later
      <4>2. a + Period <= Later(tat, clock) /\ Later(tat, clock) \in Int
        BY <1>3, <1>4, QuotaTypes DEF Later
      <4> QED
        BY SMTT(30), <1>3, <3>2, <3>4, <4>1, <4>2, AppendDebt, QuotaTypes
    <3> QED
      BY <1>3, <3>1, <3>3, <3>4 DEF Settled
  <2>2. CASE call[w].current /= None
    <3>1. data[k] /= None /\ call[w].current = data[k].entry
      BY <1>1, <2>2 DEF AdmissionInv, CallInv
    <3>2. DebtBy(log, Later(data[k].entry.tat, a)) /\ data[k].entry.tat \in Nat
      BY <1>1, <1>3, <3>1 DEF AdmissionInv, KeyInv, Remembered
    <3>3. tat >= data[k].entry.tat + Period
      BY <2>2, <3>1, <3>2, OutcomeFacts DEF AdmissionInv
    <3>4. Later(data[k].entry.tat, a) + Period <= tat /\ Later(data[k].entry.tat, a) \in Nat
      BY <1>3, <1>4, <3>2, <3>3, QuotaTypes DEF Later
    <3> DEFINE s == Later(data[k].entry.tat, a)
    <3>5. DebtBy(log, a + MaxTatOffset)
      <4>1. a \in Nat /\ tat \in Nat /\ tat <= a + MaxTatOffset + Period
        BY <1>3, <1>4
      <4>2. s \in Nat /\ s + Period <= tat
        BY <3>4
      <4>3. DebtBy(log, s) /\ log \in Seq(Nat)
        BY <1>3, <3>2
      <4> HIDE DEF s, log, a, tat
      <4>4. s \in Int /\ s <= a + MaxTatOffset /\ a + MaxTatOffset \in Int
        BY <4>1, <4>2, QuotaTypes
      <4> QED
        BY <4>3, <4>4, DebtMonotone
    <3>6. tat <= Later(tat, clock) /\ Later(tat, clock) \in Int
      BY <1>3 DEF Later
    <3>7. Later(data[k].entry.tat, a) + Period <= Later(tat, clock)
          /\ a + Period <= Later(tat, clock)
      <4> DEFINE u == Later(tat, clock)
      <4>1. a \in Nat /\ tat \in Nat /\ a + Period <= tat /\ s \in Nat /\ s + Period <= tat
        BY <1>3, <1>4, <3>4
      <4>2. tat <= u /\ u \in Int
        BY <3>6
      <4> HIDE DEF s, u, a, tat
      <4>3. s + Period <= u /\ a + Period <= u
        BY <4>1, <4>2, QuotaTypes
      <4> QED
        BY <4>3 DEF s, u, a, tat
    <3> QED
      BY <1>3, <3>2, <3>4, <3>5, <3>6, <3>7, AppendDebt
  <2> QED
    BY <2>1, <2>2
<1>6. admitted' = [admitted EXCEPT ![k] = Append(@, a)] /\ admitted'[k] = Append(log, a)
  BY <1>1 DEF Recorded, AdmissionInv, KeyInv, AdmissionTypes
<1>7. \A i \in 1..Len(Append(log, a)) : Append(log, a)[i] <= clock
  <2>1. \A i \in 1..Len(log) : log[i] <= a
    BY <1>1, <1>3 DEF AdmissionInv, KeyInv
  <2>2. log \in Seq(Nat) /\ a \in Nat /\ a <= clock /\ clock \in Nat
    BY <1>3
  <2> HIDE DEF log, a, tat
  <2> QED
    BY <2>1, <2>2
<1>8. tat + Period <= call[w].expires
  BY SMTT(30), <1>3, <1>4, QuotaTypes
<1>9. tat <= clock + MaxTatOffset + Period
  BY <1>3, <1>4, QuotaTypes
<1>10. Append(log, a) \in Seq(Nat)
  BY <1>3
<1>11. Remembered(w, k)'
  <2>2. retryAt'[k] = None
    BY <1>1 DEF Recorded, AdmissionInv, AdmissionTypes
  <2>1. tat \in Nat /\ DebtBy(admitted'[k], Later(tat, Base(w)'))
    BY <1>3, <1>5, <1>6
  <2> QED
    BY <1>1, <1>3, <1>8, <1>9, <2>1, <2>2 DEF Remembered
<1>12. KeyInv(w, k)'
  BY <1>1, <1>3, <1>6, <1>7, <1>10, <1>11 DEF KeyInv
<1> QED
  BY <1>5, <1>6, <1>12

\* A denied request found a TAT that is further ahead than the tolerance.
LEMMA DeniedBeyond ==
  ASSUME TypeOK, NEW w \in Workers, ~Outcome(w).allowed
  PROVE  Outcome(w).tat > now[w] + MaxTatOffset
<1>1. /\ call[w].current /= None /\ call[w].current.tat \in Nat
      /\ Outcome(w).tat = call[w].current.tat
  BY OutcomeFacts
<1>2. now[w] \in Nat
  BY DEF TypeOK
<1>3. Tat(call[w].current) = call[w].current.tat
  BY <1>1 DEF Tat
<1>4. ~(call[w].current.tat <= now[w] + MaxTatOffset)
  BY <1>1, <1>2, <1>3, DecisionRule DEF Outcome
<1> QED
  BY <1>1, <1>2, <1>4, QuotaTypes

\* A denied request rewrites the entry with the TAT it read and a later expiry.
LEMMA DeniedKey ==
  ASSUME AdmissionInv, NEW w \in Workers, Recorded(w), ~Outcome(w).allowed,
         NEW k \in Keys, k = call[w].key
  PROVE  KeyInv(w, k)' /\ retryAt'[k] \in Nat
<1> DEFINE log == admitted[k]
           a   == now[w]
           tat == Outcome(w).tat
<1>0. Record(w) /\ admitted' = admitted
  BY DEF Recorded
<1>1. /\ data'[k].entry.tat = tat /\ data'[k].expires_at = call[w].expires
      /\ data'[k] /= None
      /\ call[w].op = "execute_atomic" /\ call[w].phase = "commit"
  BY <1>0, CommitFacts
<1>2. /\ a \in Nat /\ clock \in Nat /\ a <= clock /\ Base(w) = a /\ Base(w)' = clock
      /\ log \in Seq(Nat) /\ tat \in Nat /\ call[w].expires \in Nat
      /\ call[w].expires >= a + MaxTatOffset + Period + Period
  BY <1>0, CommitFacts
<1>3. call[w].current /= None /\ tat = call[w].current.tat
  BY OutcomeFacts DEF AdmissionInv
<1>4. data[k] /= None /\ tat = data[k].entry.tat
  BY <1>1, <1>3 DEF AdmissionInv, CallInv
<1>5. /\ DebtBy(log, Later(tat, a)) /\ tat <= a + MaxTatOffset + Period
      /\ \A i \in 1..Len(log) : log[i] <= a
  BY <1>2, <1>4 DEF AdmissionInv, KeyInv, Remembered
<1>6. DebtBy(log, Later(tat, clock))
  <2>1. /\ Later(tat, a) \in Int /\ Later(tat, clock) \in Int
        /\ Later(tat, a) <= Later(tat, clock)
    BY <1>2 DEF Later
  <2> QED
    BY <1>2, <1>5, <2>1, DebtMonotone
<1>7. /\ tat + Period <= call[w].expires
      /\ tat <= clock + MaxTatOffset + Period
  BY SMTT(30), <1>2, <1>5, QuotaTypes
<1>8. \A i \in 1..Len(log) : log[i] <= clock
  BY <1>2, <1>5
<1>10. retryAt'[k] \in Nat /\ retryAt'[k] + MaxTatOffset = tat
  <2>1. tat > a + MaxTatOffset
    BY <1>2, DeniedBeyond DEF AdmissionInv
  <2>2. retryAt'[k] = a + RetryAfter(Outcome(w), a)
    BY DEF Recorded, AdmissionInv, AdmissionTypes
  <2> QED
    BY <1>2, <2>1, <2>2, DeniedWait
<1>9. Remembered(w, k)'
  BY <1>0, <1>1, <1>2, <1>6, <1>7, <1>10 DEF Remembered
<1> QED
  BY <1>0, <1>1, <1>2, <1>8, <1>9, <1>10 DEF KeyInv

(***************************************************************************)
(* The other steps, and the invariant                                      *)
(***************************************************************************)
\* The steps that neither admit nor forget leave the log alone, and drop an
\* entry only when its debt is settled.
LEMMA QuietLog ==
  ASSUME NEW w \in Workers, Single(w), [AdmissionNext]_allVars, ~Recorded(w), ~Forgot(w)
  PROVE  admitted' = admitted /\ retryAt' = retryAt
  BY DEF AdmissionNext, Single, Began, Peeked, PeekAnswer, callerVars, allVars

LEMMA QuietStep ==
  ASSUME AdmissionInv, NEW w \in Workers, Single(w), NEW k \in Keys,
         [AdmissionNext]_allVars, ~Recorded(w), ~Forgot(w)
  PROVE  /\ admitted' = admitted /\ retryAt' = retryAt
         /\ data'[k] = data[k] \/ (data'[k] = None /\ Settled(w, k))
<1> USE DEF AdmissionInv, TypeOK, StorageTypeOK
<1>1. CASE UNCHANGED allVars
  BY <1>1 DEF allVars, callerVars, vars, storageVars
<1>2. CASE Time /\ UNCHANGED callerVars
  BY <1>2 DEF Time, Tick, callerVars
<1>3. CASE Began(w)
  BY <1>3, StartFacts DEF Began, Begin
<1>4. CASE Internal(w) /\ UNCHANGED callerVars
  <2>1. CASE Common(w)
    BY <1>4, <2>1, CommonKeys DEF callerVars
  <2>2. CASE Load(w) \/ GetExpired(w)
    BY <1>4, <2>2 DEF callerVars, Load, GetExpired
  <2> QED
    BY <1>4, <2>1, <2>2 DEF Internal
<1>5. CASE Panic(w) /\ UNCHANGED callerVars
  BY <1>5 DEF Panic, callerVars
<1>6. CASE Peeked(w)
  <2>1. admitted' = admitted /\ retryAt' = retryAt
    BY <1>6 DEF Peeked, PeekAnswer
  <2>2. CASE GetHit(w) \/ GetMiss(w)
    BY <2>1, <2>2 DEF GetHit, GetMiss
  <2>3. CASE GetRemove(w)
    <3>1. call[w].op = "get" /\ call[w].phase = "remove"
          /\ data' = [data EXCEPT ![call[w].key] = None]
      BY <2>3 DEF GetRemove, At
    <3>2. Settled(w, call[w].key)
      BY <3>1 DEF CallInv
    <3> QED
      BY <2>1, <3>1, <3>2
  <2> QED
    BY <1>6, <2>2, <2>3 DEF Peeked, PeekHit, PeekMiss
<1> QED
  BY <1>1, <1>2, <1>3, <1>4, <1>5, <1>6 DEF AdmissionNext, Single

\* A reset forgets the log with the entry.
LEMMA ForgottenKey ==
  ASSUME AdmissionInv, NEW w \in Workers, Forgot(w), NEW k \in Keys, k = call[w].key
  PROVE  /\ admitted' = [admitted EXCEPT ![k] = <<>>] /\ admitted'[k] = <<>>
         /\ retryAt'[k] = None
         /\ KeyInv(w, k)'
<1>1. /\ admitted' = [admitted EXCEPT ![k] = <<>>] /\ admitted'[k] = <<>> /\ data'[k] = None
      /\ retryAt'[k] = None
  BY DEF Forgot, Forget, DeleteCommit, AdmissionInv, AdmissionTypes, TypeOK, StorageTypeOK
<1>2. \A t : DebtBy(<<>>, t)
  BY EmptyLog DEF DebtBy
<1>3. Settled(w, k)'
  BY <1>1, <1>2 DEF Settled
<1>4. /\ admitted'[k] \in Seq(Nat)
      /\ \A i \in 1..Len(admitted'[k]) : admitted'[k][i] <= Base(w)'
  BY <1>1, EmptyLog
<1>5. KeyInv(w, k)'
  BY <1>1, <1>3, <1>4 DEF KeyInv
<1> QED
  BY <1>1, <1>5

LEMMA KeysStep ==
  ASSUME AdmissionInv, NEW w \in Workers, Single(w), NEW k \in Keys,
         [AdmissionNext]_allVars
  PROVE  KeyInv(w, k)'
<1>1. /\ Base(w) \in Nat /\ Base(w)' \in Nat /\ Base(w) <= Base(w)'
      /\ clock \in Nat /\ clock' \in Nat /\ clock <= clock'
  BY AdmissionIsMemory, BaseMoves DEF Single
<1>2. KeyInv(w, k) /\ retryAt[k] \in Nat \cup {None}
  BY DEF AdmissionInv, AdmissionTypes
<1>3. CASE Recorded(w)
  <2>0. Record(w) /\ call[w].key \in Keys
    BY <1>3, RecordFacts DEF Recorded, AdmissionInv
  <2>1. CASE k = call[w].key /\ Outcome(w).allowed
    BY <1>3, <2>1, AllowedKey
  <2>2. CASE k = call[w].key /\ ~Outcome(w).allowed
    BY <1>3, <2>2, DeniedKey
  <2>3. CASE k /= call[w].key
    <3>1. data'[k] = data[k]
      BY <2>0, <2>3, RecordFacts DEF AdmissionInv
    <3>2. admitted'[k] = admitted[k] /\ retryAt'[k] = retryAt[k]
      BY <1>3, <2>3 DEF Recorded, AdmissionInv, AdmissionTypes
    <3> QED
      BY <1>1, <1>2, <3>1, <3>2, KeyStays
  <2> QED
    BY <2>1, <2>2, <2>3
<1>4. CASE Forgot(w)
  <2>1. CASE k = call[w].key
    BY <1>4, <2>1, ForgottenKey
  <2>2. CASE k /= call[w].key
    <3>1. /\ data'[k] = data[k] /\ admitted'[k] = admitted[k]
          /\ retryAt'[k] = retryAt[k]
      BY <1>4, <2>2
      DEF Forgot, Forget, DeleteCommit, AdmissionInv, AdmissionTypes, TypeOK, StorageTypeOK
    <3> QED
      BY <1>1, <1>2, <3>1, KeyStays
  <2> QED
    BY <2>1, <2>2
<1>5. CASE ~Recorded(w) /\ ~Forgot(w)
  <2>1. /\ admitted'[k] = admitted[k] /\ retryAt'[k] = retryAt[k]
        /\ (data'[k] = data[k] \/ (data'[k] = None /\ Settled(w, k)))
    BY <1>5, QuietStep
  <2> QED
    BY <1>1, <1>2, <2>1, KeyStays
<1> QED
  BY <1>3, <1>4, <1>5

LEMMA CallStep ==
  ASSUME AdmissionInv, NEW w \in Workers, Single(w),
         [AdmissionNext]_allVars
  PROVE  CallInv(w)'
<1> USE DEF AdmissionInv, TypeOK, StorageTypeOK
<1>0. /\ Base(w) \in Nat /\ Base(w)' \in Nat /\ Base(w) <= Base(w)'
      /\ clock \in Nat /\ clock' \in Nat /\ clock <= clock'
  BY AdmissionIsMemory, BaseMoves DEF Single
<1>1. CASE UNCHANGED allVars
  BY <1>1 DEF allVars, callerVars, vars, storageVars, CallInv, Settled, Base, Busy
<1>2. CASE Time /\ UNCHANGED callerVars
  <2>1. /\ call' = call /\ data' = data /\ now' = now
        /\ admitted' = admitted /\ retryAt' = retryAt
        /\ clock' = clock + 1 /\ (Busy(w) => clock < now[w] + MaxLatency)
    BY <1>2 DEF Time, Tick, callerVars
  <2>2. ASSUME NEW k \in Keys, Settled(w, k) PROVE Settled(w, k)'
    <3>1. /\ admitted[k] \in Seq(Nat) /\ admitted'[k] = admitted[k]
          /\ retryAt[k] \in Nat \cup {None} /\ retryAt'[k] = retryAt[k]
      BY <2>1 DEF KeyInv, AdmissionTypes
    <3> QED
      BY <1>0, <2>2, <3>1, SettledStays
  <2>3. /\ Busy(w) => now[w] <= clock + 1 /\ clock + 1 <= now[w] + MaxLatency
        /\ call[w].now <= clock + 1 /\ call[w].gcNow <= clock + 1
    BY <1>0, <2>1, LatencyAssumption DEF CallInv, Call
  <2>4. call[w].op \in {"execute_atomic", "get"} => call[w].key \in Keys
    BY DEF CallsKeyed, Keyed, Operations
  <2> QED
    BY <2>1, <2>2, <2>3, <2>4 DEF CallInv, Busy
<1>3. CASE Began(w)
  <2>1. PICK op \in Operations, k \in Keys \cup {None}, ttl \in Nat :
          /\ Begin(w, op, k, ttl)
          /\ now' = [now EXCEPT ![w] = clock]
          /\ op \in {"execute_atomic", "get", "delete", "run_gc"}
          /\ op = "execute_atomic" => ttl = Ttl
    BY <1>3, StartFacts DEF Began
  <2>2. /\ now'[w] = clock /\ clock' = clock
        /\ call'[w].op = op /\ call'[w].ttl = ttl
        /\ call'[w].phase = FirstPhase(op)
        /\ call'[w].now = 0 /\ call'[w].gcNow = 0
    BY <2>1 DEF Begin, NoCall
  <2>3. op \in {"execute_atomic", "get"} => FirstPhase(op) = "enter"
    BY DEF FirstPhase
  <2> QED
    BY <1>0, <2>1, <2>2, <2>3, LatencyAssumption DEF CallInv
<1>4. CASE Internal(w) /\ UNCHANGED callerVars
  <2>1. CASE Common(w)
    BY <1>4, <2>1, CommonCall DEF Internal
  <2>2. CASE Load(w)
    <3>1. /\ call[w].op = "execute_atomic" /\ call[w].phase = "load"
          /\ call[w].key \in Keys /\ Busy(w)
          /\ clock' = clock /\ now' = now /\ data' = data
          /\ admitted' = admitted /\ retryAt' = retryAt
      BY <1>4, <2>2 DEF Load, CallsMade, CallsKeyed, Keyed, Operations, Internal, callerVars, Busy
    <3> DEFINE k == call[w].key
               held == data[k]
    <3>2. call'[w] = [call[w] EXCEPT !.phase = "commit",
                        !.current = IF LiveAt(held, call[w].now) THEN held.entry ELSE None]
      BY <2>2 DEF Load
    <3>3. call[w] \in Call
      OBVIOUS
    <3>4. /\ call'[w].phase = "commit" /\ call'[w].op = "execute_atomic"
          /\ call'[w].key = k /\ call'[w].ttl = call[w].ttl
          /\ call'[w].expires = call[w].expires /\ call'[w].now = call[w].now
          /\ call'[w].gcNow = call[w].gcNow
          /\ call'[w].current = IF LiveAt(held, call[w].now) THEN held.entry ELSE None
      BY <3>1, <3>2, <3>3 DEF Call
    <3>5. CASE LiveAt(held, call[w].now)
      <4>1. held \in InternalEntry /\ held.entry \in StorageEntry
        BY <3>1, <3>5 DEF LiveAt, InternalEntry
      <4>2. held /= None /\ call'[w].current = held.entry /\ held.entry /= None
        BY <3>4, <3>5, <4>1, MemoryStorageAssumption DEF LiveAt
      <4> QED
        BY <3>1, <3>4, <4>2 DEF CallInv, Busy
    <3>6. CASE ~LiveAt(held, call[w].now)
      <4>1. Settled(w, k)
        <5>1. CASE held = None
          BY <3>1, <5>1 DEF KeyInv
        <5>2. CASE held /= None
          <6>1. held.expires_at \in Nat /\ call[w].now \in Nat /\ call[w].now <= clock
            BY <3>1, <3>3, <5>2 DEF CallInv, Call, InternalEntry
          <6>2. held.expires_at <= clock
            BY <1>0, <3>6, <5>2, <6>1 DEF LiveAt
          <6> QED
            BY <3>1, <5>2, <6>2, ExpiredSettled
        <5> QED
          BY <5>1, <5>2
      <4>2. \A j \in Keys : Settled(w, j) => Settled(w, j)'
        <5>1. ASSUME NEW j \in Keys
              PROVE  /\ admitted[j] \in Seq(Nat) /\ admitted'[j] = admitted[j]
                     /\ retryAt[j] \in Nat \cup {None} /\ retryAt'[j] = retryAt[j]
          BY <3>1 DEF KeyInv, AdmissionTypes
        <5> QED
          BY <1>0, <5>1, SettledStays
      <4>3. call'[w].current = None
        BY <3>4, <3>6
      <4>4. k \in Keys /\ call'[w].key = k
        BY <3>1, <3>4
      <4> HIDE DEF k
      <4>5. \A j \in Keys : j = k => Settled(w, j)'
        BY <4>1, <4>2, <4>4
      <4> QED
        BY <3>1, <3>4, <4>3, <4>4, <4>5 DEF CallInv, Busy
    <3> QED
      BY <3>5, <3>6
  <2>3. CASE GetExpired(w)
    <3>1. /\ call[w].op = "get" /\ call[w].phase = "load"
          /\ call[w].key \in Keys /\ Busy(w)
          /\ clock' = clock /\ now' = now /\ data' = data
          /\ admitted' = admitted /\ retryAt' = retryAt
          /\ call' = [call EXCEPT ![w].phase = "remove"]
          /\ data[call[w].key] /= None /\ ~LiveAt(data[call[w].key], call[w].now)
      BY <1>4, <2>3 DEF GetExpired, At, Goto, CallsKeyed, Keyed, Operations, Internal,
                        callerVars, Busy
    <3>2. data[call[w].key].expires_at \in Nat /\ call[w].now \in Nat /\ call[w].now <= clock
      BY <3>1 DEF CallInv, Call, InternalEntry
    <3>3. Settled(w, call[w].key)
      BY <1>0, <3>1, <3>2, ExpiredSettled DEF LiveAt
    <3>4. \A j \in Keys : Settled(w, j) => Settled(w, j)'
      <4>1. ASSUME NEW j \in Keys
            PROVE  /\ admitted[j] \in Seq(Nat) /\ admitted'[j] = admitted[j]
                   /\ retryAt[j] \in Nat \cup {None} /\ retryAt'[j] = retryAt[j]
        BY <3>1 DEF KeyInv, AdmissionTypes
      <4> QED
        BY <1>0, <4>1, SettledStays
    <3>5. /\ call'[w].op = "get" /\ call'[w].phase = "remove" /\ call'[w].key = call[w].key
          /\ call'[w].now = call[w].now /\ call'[w].gcNow = call[w].gcNow
      BY <3>1 DEF Call
    <3>6. \A j \in Keys : j = call[w].key => Settled(w, j)'
      BY <3>3, <3>4
    <3> QED
      BY <3>1, <3>5, <3>6 DEF CallInv, Busy
  <2> QED
    BY <1>4, <2>1, <2>2, <2>3 DEF Internal
<1>5. CASE Finish(w)
  <2>1. call'[w] = NoCall
    BY <1>5, FinishFrame
  <2> QED
    BY <1>0, <2>1, IdleCall
<1> QED
  BY <1>1, <1>2, <1>3, <1>4, <1>5
  DEF AdmissionNext, Single, Finish, Recorded, Peeked, Forgot

LogTypes ==
  /\ admitted \in [Keys -> Seq(Nat)]
  /\ retryAt \in [Keys -> Nat \cup {None}]

LEMMA ConformsStep ==
  ASSUME AdmissionInv, NEW w \in Workers, Single(w), [AdmissionNext]_allVars
  PROVE  LogTypes' /\ Conforms'
<1> USE DEF AdmissionInv, AdmissionTypes, LogTypes
<1>0. \A k \in Keys : Contract!ConformingLog(admitted[k])
  BY DEF Conforms
<1>1. CASE Recorded(w)
  <2>1. Record(w) /\ call[w].key \in Keys /\ now[w] \in Nat
    BY <1>1, RecordFacts DEF Recorded, TypeOK
  <2>2. CASE Outcome(w).allowed
    <3> DEFINE k == call[w].key
    <3>1. /\ DebtBy(admitted[k], now[w] + MaxTatOffset)
          /\ admitted' = [admitted EXCEPT ![k] = Append(@, now[w])]
      BY <1>1, <2>1, <2>2, AllowedKey
    <3>2. Contract!ConformingLog(Append(admitted[k], now[w]))
      BY <1>0, <2>1, <3>1, AppendConforms
    <3>3. LogTypes'
      <4>1. admitted' \in [Keys -> Seq(Nat)]
        BY <2>1, <3>1
      <4>2. retryAt' = [retryAt EXCEPT ![k] = None]
        BY <1>1, <2>2 DEF Recorded
      <4> QED
        BY <4>1, <4>2
    <3>4. \A j \in Keys : Contract!ConformingLog(admitted'[j])
      BY <1>0, <2>1, <3>1, <3>2
    <3> QED
      BY <3>3, <3>4 DEF Conforms, Contract!ConformingLog, Contract!Spaced
  <2>3. CASE ~Outcome(w).allowed
    <3>1. retryAt'[call[w].key] \in Nat
      BY <1>1, <2>1, <2>3, DeniedKey
    <3>2. LogTypes'
      BY <1>1, <2>1, <2>3, <3>1 DEF Recorded
    <3> QED
      BY <1>1, <2>3, <3>2
      DEF Recorded, Conforms, Contract!ConformingLog, Contract!Spaced
  <2> QED
    BY <2>2, <2>3
<1>2. CASE Forgot(w)
  <2>1. admitted' = [admitted EXCEPT ![call[w].key] = <<>>]
    BY <1>2 DEF Forgot
  <2>2. Contract!ConformingLog(<<>>)
    BY EmptyLog DEF Contract!ConformingLog
  <2>3. LogTypes'
    BY <1>2, <2>1, EmptyLog DEF Forgot
  <2>4. \A j \in Keys : Contract!ConformingLog(admitted'[j])
    BY <1>0, <2>1, <2>2
  <2> QED
    BY <2>3, <2>4 DEF Conforms, Contract!ConformingLog, Contract!Spaced
<1>3. CASE ~Recorded(w) /\ ~Forgot(w)
  <2>1. admitted' = admitted /\ retryAt' = retryAt
    BY <1>3, QuietLog
  <2> QED
    BY <1>0, <2>1 DEF Conforms, Contract!ConformingLog, Contract!Spaced
<1> QED
  BY <1>1, <1>2, <1>3

LEMMA AdmissionInvInit ==
  ASSUME NEW w \in Workers, Single(w), AdmissionInit
  PROVE  AdmissionInv
<1>1. TypeOK /\ CallsMade
  BY TypeInit, CallsMadeInit DEF AdmissionInit
<1>2. AdmissionTypes
  BY DEF AdmissionInit, AdmissionTypes
<1>3. /\ call[w] = NoCall /\ clock = 0 /\ now[w] = 0
      /\ \A k \in Keys : admitted[k] = <<>> /\ data[k] = None /\ retryAt[k] = None
  BY DEF AdmissionInit, Init, StorageInit
<1>4. CallInv(w)
  BY <1>3, MemoryStorageAssumption DEF CallInv, Busy, NoCall, Operations
<1>5. \A k \in Keys : KeyInv(w, k)
  BY <1>3, EmptyLog DEF KeyInv, Settled, DebtBy
<1>6. Conforms
  BY <1>3, EmptyLog DEF Conforms, Contract!ConformingLog
<1> QED
  BY <1>1, <1>2, <1>4, <1>5, <1>6 DEF AdmissionInv, Single

LEMMA AdmissionInvStep ==
  ASSUME AdmissionInv, NEW w \in Workers, Single(w), [AdmissionNext]_allVars
  PROVE  AdmissionInv'
<1>1. TypeOK' /\ CallsMade'
  BY AdmissionIsMemory, TypeStep, CallsMadeStep DEF AdmissionInv
<1>2. CallInv(w)' /\ \A k \in Keys : KeyInv(w, k)'
  BY CallStep, KeysStep
<1>3. Workers = {w}
  BY DEF Single
<1>4. AdmissionTypes'
  <2>1. RepliesOK'
    BY RepliesStep DEF AdmissionInv, AdmissionTypes, RepliesOK
  <2> QED
    BY <2>1, ConformsStep DEF AdmissionTypes, RepliesOK, LogTypes
<1> QED
  BY <1>1, <1>2, <1>3, <1>4, ConformsStep DEF AdmissionInv

\* For one worker, between any two steps: the entry of a key remembers all the
\* debt its log has left, what a call has read is still so, and who was denied
\* has been told the truth.
THEOREM AdmissionInvariant ==
  ASSUME NEW w \in Workers, Single(w)
  PROVE  AdmissionSpec => []AdmissionInv
<1>1. AdmissionInit => AdmissionInv
  BY AdmissionInvInit
<1>2. AdmissionInv /\ [AdmissionNext]_allVars => AdmissionInv'
  BY AdmissionInvStep
<1> QED
  BY <1>1, <1>2, PTL DEF AdmissionSpec

\* What one worker admits conforms to the quota, for every quota, key set,
\* collection setting and number of calls: the log of each key keeps its
\* spacing although entries expire, are collected and are deleted meanwhile.
THEOREM AdmissionConforms ==
  ASSUME NEW w \in Workers, Single(w)
  PROVE  AdmissionSpec => []Conforms
<1>1. AdmissionInv => Conforms
  BY DEF AdmissionInv
<1> QED
  BY <1>1, AdmissionInvariant, PTL

(***************************************************************************)
(* The refinement of RateContract                                          *)
(***************************************************************************)
LEMMA ContractInit == ASSUME AdmissionInit PROVE Contract!Init
  BY DEF AdmissionInit, Init, StorageInit, Contract!Init

\* Every step is one the contract allows, or leaves its variables alone.
LEMMA ContractStep ==
  ASSUME AdmissionInv, NEW w \in Workers, Single(w), [AdmissionNext]_allVars
  PROVE  [Contract!Next]_(Contract!contractVars)
<1> USE DEF AdmissionInv, AdmissionTypes
<1>1. CASE Time /\ UNCHANGED callerVars
  <2>1. clock \in Nat /\ clock' = clock + 1 /\ admitted' = admitted
    BY <1>1 DEF Time, Tick, callerVars, TypeOK, StorageTypeOK
  <2> QED
    BY <2>1 DEF Contract!Next, Contract!Tick
<1>2. CASE Recorded(w) /\ Outcome(w).allowed
  <2> DEFINE k == call[w].key
             t == now[w]
  <2>1. Record(w) /\ k \in Keys
    BY <1>2, RecordFacts DEF Recorded
  <2>2. /\ DebtBy(admitted[k], t + MaxTatOffset)
        /\ admitted' = [admitted EXCEPT ![k] = Append(@, t)]
    BY <1>2, <2>1, AllowedKey
  <2>3. /\ clock' = clock /\ t \in Nat /\ clock \in Nat /\ t <= clock /\ Base(w) = t
        /\ admitted[k] \in Seq(Nat)
    BY <2>1, CommitFacts
  <2>4. \A i \in 1..Len(admitted[k]) : admitted[k][i] <= t
    BY <2>1, <2>3 DEF KeyInv
  <2>5. \A i \in 1..Len(admitted[k]) :
          Contract!Spaced(Append(admitted[k], t), i, Len(Append(admitted[k], t)))
    BY <2>2, <2>3, DebtSpaces DEF Contract!Spaced
  <2> HIDE DEF k, t
  <2>6. Contract!Admit(k, t)
    BY <2>2, <2>3, <2>4, <2>5 DEF Contract!Admit
  <2>7. t \in 0..clock
    BY <2>3
  <2> QED
    BY <2>1, <2>6, <2>7 DEF Contract!Next
<1>3. CASE Recorded(w) /\ ~Outcome(w).allowed
  <2>1. clock' = clock /\ admitted' = admitted
    BY <1>3, RecordFacts DEF Recorded
  <2> QED
    BY <2>1 DEF Contract!contractVars
<1>4. CASE Forgot(w)
  <2>1. call[w].key \in Keys
    BY <1>4 DEF Forgot, Forget, DeleteCommit, At, TypeOK, CallsKeyed, Keyed, Operations
  <2>2. Contract!Reset(call[w].key)
    BY <1>4 DEF Forgot, Forget, DeleteCommit, Contract!Reset
  <2> QED
    BY <2>1, <2>2 DEF Contract!Next
<1>5. CASE ~(Time /\ UNCHANGED callerVars) /\ ~Recorded(w) /\ ~Forgot(w)
  <2>1. clock' = clock
    <3>1. CASE Common(w)
      BY <3>1, CommonFrame DEF TypeOK
    <3>2. CASE ~Common(w)
      BY <1>5, <3>2
      DEF AdmissionNext, Single, Began, Internal, Load, GetExpired, Panic, Peeked,
          PeekHit, PeekMiss, GetHit, GetMiss, GetRemove, StartSome, CheckAndRecord, Check,
          Reset, RunGc, Start, Begin, allVars, vars, storageVars
    <3> QED
      BY <3>1, <3>2
  <2>2. admitted' = admitted
    BY <1>5, QuietLog
  <2> QED
    BY <2>1, <2>2 DEF Contract!contractVars
<1>6. CASE UNCHANGED allVars
  BY <1>6 DEF allVars, callerVars, vars, storageVars, Contract!contractVars
<1>7. CASE AdmissionNext
  BY <1>1, <1>2, <1>3, <1>4, <1>5, <1>7
<1> QED
  BY <1>6, <1>7

\* The limiter with one worker implements the abstract promise: it admits in
\* order of arrival, never more than RateContract would, and forgets a log
\* only on reset.
THEOREM AdmissionRefines ==
  ASSUME NEW w \in Workers, Single(w)
  PROVE  AdmissionSpec => RefinesContract
<1>1. AdmissionInit => Contract!Init
  BY ContractInit
<1>2. AdmissionInv /\ [AdmissionNext]_allVars => [Contract!Next]_(Contract!contractVars)
  BY ContractStep
<1> QED
  BY <1>1, <1>2, AdmissionInvariant, PTL
  DEF AdmissionSpec, RefinesContract, Contract!Spec

(***************************************************************************)
(* What denied clients are told                                            *)
(***************************************************************************)
\* What one worker finds stored is what the last denial was about.
LEMMA FoundAsTold ==
  ASSUME AdmissionInv, NEW w \in Workers, Single(w), NEW tat, Found(w, tat),
         retryAt[call[w].key] /= None
  PROVE  \/ tat = None /\ retryAt[call[w].key] <= now[w]
         \/ tat \in Nat /\ retryAt[call[w].key] + MaxTatOffset = tat
<1> DEFINE k == call[w].key
<1>0. k \in Keys
  BY FoundKeyed DEF AdmissionInv
<1>1. KeyInv(w, k) /\ CallInv(w)
  BY <1>0 DEF AdmissionInv
<1>2. CASE Recorded(w) /\ tat = Tat(call[w].current)
  <2>1. call[w].op = "execute_atomic" /\ call[w].phase = "commit"
    BY <1>2 DEF Recorded, Record, ExecuteCommit, At
  <2>2. CASE call[w].current = None
    BY <1>1, <1>2, <2>1, <2>2 DEF CallInv, Settled, Base, Busy, Tat
  <2>3. CASE call[w].current /= None
    <3>1. data[k] /= None /\ call[w].current = data[k].entry
      BY <1>1, <2>1, <2>3 DEF CallInv
    <3>2. Remembered(w, k)
      BY <1>1, <3>1 DEF KeyInv
    <3> QED
      BY <1>2, <2>3, <3>1, <3>2 DEF Remembered, Tat
  <2> QED
    BY <2>2, <2>3
<1>3. CASE PeekHit(w) /\ tat = data[call[w].key].entry.tat
  BY <1>1, <1>3 DEF PeekHit, GetHit, LiveAt, KeyInv, Remembered
<1>4. CASE PeekMiss(w) /\ tat = None
  <2>1. Settled(w, k)
    BY <1>1, <1>4 DEF PeekMiss, GetMiss, GetRemove, At, KeyInv, CallInv
  <2>2. Busy(w)
    BY <1>4 DEF PeekMiss, GetMiss, GetRemove, At, Busy
  <2> QED
    BY <1>4, <2>1, <2>2 DEF Settled, Base
<1> QED
  BY <1>2, <1>3, <1>4 DEF Found

LEMMA AsToldStep ==
  ASSUME AdmissionInv, NEW w \in Workers, Single(w), [AdmissionNext]_allVars
  PROVE  AnswersAsTold
<1> DEFINE r == reply'[w]
<1>1. SUFFICES ASSUME r /= reply[w], r /= None, retryAt[r.key] /= None
               PROVE  r.decision.allowed <=> r.now >= retryAt[r.key]
  BY DEF AnswersAsTold, Single
<1>2. PICK tat \in Nat \cup {None} :
        LET d == CalculateDecision(tat, now[w])
        IN  /\ ~DividesByZero(d, now[w])
            /\ r = [key |-> call[w].key, now |-> now[w], decision |-> Reply(d, now[w])]
            /\ Found(w, tat)
  BY <1>1, NewReply DEF AdmissionInv, AdmissionTypes, RepliesOK
<1> DEFINE t == now[w]
           a == retryAt[call[w].key]
           d == CalculateDecision(tat, t)
<1>3. call[w].key \in Keys /\ t \in Nat
  BY <1>2, FoundKeyed DEF AdmissionInv
<1>4. r.key = call[w].key /\ r.now = t /\ r.decision.allowed = d.allowed
  BY <1>2 DEF Reply
<1>5. a \in Nat
  BY <1>1, <1>3, <1>4 DEF AdmissionInv, AdmissionTypes
<1>6. \/ tat = None /\ a <= t
      \/ tat \in Nat /\ a + MaxTatOffset = tat
  BY <1>1, <1>2, <1>4, FoundAsTold
<1>7. d.allowed <=> tat = None \/ tat <= t + MaxTatOffset
  BY <1>3, DecisionRule
<1> HIDE DEF a, t, d, r
<1>8. d.allowed <=> t >= a
  BY <1>3, <1>5, <1>6, <1>7, QuotaTypes, NoneAssumption
<1> QED
  BY <1>4, <1>8 DEF a

\* With one worker, retry_after is exact: a client that comes back sooner is
\* denied again, one that comes back then or later is let through, unless
\* another request of its key was let through meanwhile.
THEOREM RetryIsHonoured ==
  ASSUME NEW w \in Workers, Single(w)
  PROVE  AdmissionSpec => RetryHonoured
<1>1. AdmissionInv /\ [AdmissionNext]_allVars => [AnswersAsTold]_allVars
  BY AsToldStep
<1> QED
  BY <1>1, AdmissionInvariant, PTL DEF AdmissionSpec, RetryHonoured
=============================================================================
