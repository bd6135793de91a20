----------------------- MODULE MemoryLifecycle_proofs ------------------------
(***************************************************************************)
(* Theorems of MemoryLifecycle: with any callers, collecting by requests or*)
(* by the background task, the storage keeps its types, and loses nothing  *)
(* but what has expired.                                                   *)
(***************************************************************************)
EXTENDS MemoryLifecycle, MemoryStorage_proofs, TLAPS

(***************************************************************************)
(* Entries and arguments                                                   *)
(***************************************************************************)
LEMMA NewEntryType ==
  ASSUME NEW c \in Nat, NEW ws \in Nat
  PROVE  /\ NewEntry(c, ws) \in StorageEntry
         /\ \A t \in Nat : [NewEntry(c, ws) EXCEPT !.last_update = t] \in StorageEntry
  BY DEF NewEntry, StorageEntry

LEMMA FreshTyped == Fresh \subseteq StorageEntry
  BY NewEntryType, OpsAssumption DEF Fresh

LEMMA ArgumentsTyped ==
  ASSUME NEW op \in Operations, NEW a \in Arguments(op)
  PROVE  /\ op \in {"set", "compare_and_swap"} => a.new \in StorageEntry
         /\ op = "increment" => a.window_start \in Nat
<1>1. CASE op = "set"
  <2>1. PICK e \in Fresh : a = [NoArg EXCEPT !.new = e]
    BY <1>1 DEF Arguments
  <2> QED
    BY <1>1, <2>1, FreshTyped DEF NoArg
<1>2. CASE op = "increment"
  BY <1>2, OpsAssumption DEF Arguments, NoArg
<1>3. CASE op = "compare_and_swap"
  BY <1>3, FreshTyped DEF Arguments
<1> QED
  BY <1>1, <1>2, <1>3

LEMMA OperationTyped ==
  ASSUME NEW current \in StorageEntry \cup {None}
  PROVE  Operation(current) \in StorageEntry
<1>1. current /= None => current.count + 1 \in Nat
  BY DEF StorageEntry
<1> QED
  BY <1>1, NewEntryType DEF Operation

LEMMA IncrementedTyped ==
  ASSUME NEW held \in InternalEntry \cup {None}, NEW ws \in Nat, NEW t \in Nat
  PROVE  Incremented(held, 1, ws, t) \in StorageEntry
<1>1. CASE held = None
  BY <1>1, NewEntryType DEF Incremented
<1>2. CASE held /= None
  <2>1. held.entry \in StorageEntry
    BY <1>2 DEF InternalEntry
  <2>2. held.entry.count \in Nat /\ held.entry.count + 1 \in Nat
    BY <2>1 DEF StorageEntry
  <2>3. [held.entry EXCEPT !.count = @ + 1, !.last_update = t] \in StorageEntry
    BY <2>1, <2>2 DEF StorageEntry
  <2>4. [held.entry EXCEPT !.prev_count = held.entry.count, !.count = 1,
                           !.window_start = ws, !.last_update = t] \in StorageEntry
    BY <2>1, <2>2 DEF StorageEntry
  <2> QED
    BY <1>2, <2>3, <2>4 DEF Incremented
<1> QED
  BY <1>1, <1>2

(***************************************************************************)
(* Which steps there are                                                   *)
(***************************************************************************)
\* What the callers of a worker do: a step of its call, or a new call.
Stepping(w) == Step(w) /\ UNCHANGED lifeVars
Passing(w)  == PassGc(w) /\ UNCHANGED lifeVars
Starting(w, op, k) == Start(w, op, k) /\ UNCHANGED lifeVars

LEMMA NextCases ==
  ASSUME [LifeNext]_allVars
  PROVE  \/ Time
         \/ \E w \in Workers : Stepping(w) \/ Passing(w)
         \/ \E w \in Workers, k \in Keys : \E op \in ops[w] : Starting(w, op, k)
         \/ Drop
         \/ UNCHANGED vars /\ (Task \/ UNCHANGED lifeVars)
  BY DEF LifeNext, Use, Gone, Stepping, Passing, Starting, Wait, WakeUp, Sweep, Task,
         allVars

\* Nobody steps but inside a call.
LEMMA SteppingBusy ==
  ASSUME StorageTypeOK, NEW w \in Workers, Stepping(w) \/ Passing(w)
  PROVE  Busy(w)
<1>1. ~Common(w) => Busy(w)
  BY DEF Stepping, Passing, PassGc, Step, Write, ReadOnly, Clear, ClearKey, SetCommit,
         IncrementCommit, ExecuteCommit, CasSwap, CasFail, DeleteCommit, Load, GetHit,
         GetMiss, GetExpired, GetRemove, At, Busy
<1> QED
  BY <1>1, CommonLocals

\* A write puts a well-formed entry in the place of its key, or nothing.
LEMMA WriteFacts ==
  ASSUME LifeInv, NEW w \in Workers, Write(w)
  PROVE  /\ StorageTypeOK'
         /\ call' = [call EXCEPT ![w] = NoCall]
         /\ clock' = clock
         /\ call[w].key \in Keys
         /\ \A k \in Keys \ {call[w].key} : data'[k] = data[k]
         /\ call[w].phase = "commit" /\ gcLock' = gcLock
<1> USE DEF LifeInv, LifeTypeOK, TypeOK
<1>1. call[w].op \in Keyed /\ Busy(w) /\ call[w].phase = "commit"
  BY DEF Write, SetCommit, IncrementCommit, ExecuteCommit, CasSwap, DeleteCommit, At,
         Keyed, Operations, Busy
<1>2. call[w].key \in Keys /\ call[w] \in Call /\ data[call[w].key] \in InternalEntry \cup {None}
  BY <1>1 DEF CallsKeyed, StorageTypeOK
<1>3. CASE DeleteCommit(w)
  BY <1>1, <1>2, <1>3, WriteType DEF DeleteCommit, At, Return, StorageTypeOK
<1>4. ASSUME NEW new \in StorageEntry, Insert(w, new)
      PROVE  /\ StorageTypeOK' /\ clock' = clock /\ gcLock' = gcLock
             /\ call' = [call EXCEPT ![w] = NoCall]
             /\ \A k \in Keys \ {call[w].key} : data'[k] = data[k]
  BY <1>2, <1>4, WriteType DEF Insert, Return, StorageTypeOK
<1>5. CASE SetCommit(w, arg[w].new)
  <2>1. arg[w].new \in StorageEntry /\ Insert(w, arg[w].new) /\ call[w].op = "set"
    BY <1>5 DEF SetCommit, At, CallInv
  <2> QED
    BY <1>1, <1>2, <1>4, <2>1
<1>6. CASE IncrementCommit(w, 1, arg[w].window_start)
  <2> DEFINE new == Incremented(data[call[w].key], 1, arg[w].window_start, call[w].now)
  <2>1. Insert(w, new) /\ call[w].op = "increment"
    BY <1>6 DEF IncrementCommit, At
  <2>2. arg[w].window_start \in Nat /\ call[w].now \in Nat
    BY <1>2, <2>1 DEF CallInv, Call
  <2>3. new \in StorageEntry
    BY <1>2, <2>2, IncrementedTyped
  <2> QED
    BY <1>1, <1>2, <1>4, <2>1, <2>3
<1>7. CASE ExecuteCommit(w, Operation(call[w].current))
  <2>1. Operation(call[w].current) \in StorageEntry
    BY <1>2, OperationTyped DEF Call
  <2> QED
    BY <1>1, <1>2, <1>4, <1>7, <2>1 DEF ExecuteCommit
<1>8. CASE CasSwap(w, arg[w].expected, arg[w].new)
  <2>1. arg[w].new \in StorageEntry /\ Insert(w, arg[w].new)
    BY <1>8 DEF CasSwap, At, CallInv
  <2> QED
    BY <1>1, <1>2, <1>4, <2>1
<1> QED
  BY <1>3, <1>5, <1>6, <1>7, <1>8 DEF Write

LEMMA StartFacts ==
  ASSUME LifeInv, NEW w \in Workers, NEW k \in Keys, NEW op \in ops[w],
         Starting(w, op, k)
  PROVE  /\ op \in Operations /\ ~Busy(w)
         /\ \E ttl \in Nat : Begin(w, op, k, ttl)
         /\ \E a \in Arguments(op) : arg' = [arg EXCEPT ![w] = a]
         /\ ops' = ops /\ written' = written /\ data' = data /\ clock' = clock
  BY OpsAssumption
  DEF LifeInv, LifeTypeOK, TypeOK, Starting, Start, Begin

(***************************************************************************)
(* Types                                                                   *)
(***************************************************************************)
LEMMA StorageTypeStep ==
  ASSUME LifeInv, [LifeNext]_allVars
  PROVE  StorageTypeOK'
<1> USE DEF LifeInv, LifeTypeOK, TypeOK
<1>1. CASE Time
  BY <1>1, TickType DEF Time
<1>2. ASSUME NEW w \in Workers, Stepping(w)
      PROVE  StorageTypeOK'
  <2>1. CASE Write(w)
    BY <2>1, WriteFacts
  <2>2. CASE Common(w)
    BY <2>2, CommonType
  <2>3. CASE Load(w) \/ GetHit(w) \/ GetMiss(w) \/ GetExpired(w)
    BY <2>3, ReadType
  <2>4. CASE GetRemove(w)
    BY <2>4, WriteType
  <2>5. CASE CasFail(w, arg[w].expected)
    BY <2>5, NoCallType DEF CasFail, Return, StorageTypeOK
  <2>6. ASSUME NEW k \in Keys, Clear(w, k)
        PROVE  StorageTypeOK'
    BY <2>6, ClearType DEF Clear
  <2> QED
    BY <1>2, <2>1, <2>2, <2>3, <2>4, <2>5, <2>6 DEF Stepping, Step, ReadOnly
<1>3. ASSUME NEW w \in Workers, Passing(w)
      PROVE  StorageTypeOK'
  <2>1. AfterGc(w) \in Call
    BY AfterGcType
  <2> QED
    BY <1>3, <2>1 DEF Passing, PassGc, StorageTypeOK
<1>4. ASSUME NEW w \in Workers, NEW k \in Keys, NEW op \in ops[w], Starting(w, op, k)
      PROVE  StorageTypeOK'
  <2>1. PICK ttl \in Nat : Begin(w, op, k, ttl)
    BY <1>4, StartFacts
  <2> QED
    BY <1>4, <2>1, StartFacts, BeginType
<1>5. CASE Drop
  BY <1>5 DEF Drop, StorageTypeOK
<1>6. CASE UNCHANGED vars
  BY <1>6 DEF vars, storageVars, StorageTypeOK
<1> QED
  BY <1>1, <1>2, <1>3, <1>4, <1>5, <1>6, NextCases

\* The history of a key moves with its entry, or stays.
LEMMA WrittenStep ==
  ASSUME LifeInv, [LifeNext]_allVars
  PROVE  /\ written' \in [Keys -> InternalEntry \cup {None}]
         /\ ops' = ops
         /\ DOMAIN arg' = Workers
<1> USE DEF LifeInv, LifeTypeOK, TypeOK
<1>1. CASE Time
  BY <1>1 DEF Time
<1>2. ASSUME NEW w \in Workers, Stepping(w)
      PROVE  /\ written' \in [Keys -> InternalEntry \cup {None}]
             /\ ops' = ops /\ DOMAIN arg' = Workers
  <2>1. ops' = ops /\ DOMAIN arg' = Workers
    BY <1>2 DEF Stepping, Step
  <2>2. CASE Write(w)
    <3>1. call[w].key \in Keys /\ data'[call[w].key] \in InternalEntry \cup {None}
      BY <2>2, WriteFacts DEF StorageTypeOK
    <3> QED
      BY <2>1, <2>2, <3>1 DEF Write
  <2>3. CASE ReadOnly(w)
    BY <2>1, <2>3 DEF ReadOnly
  <2>4. ASSUME NEW k \in Keys, Clear(w, k)
        PROVE  written' \in [Keys -> InternalEntry \cup {None}]
    BY <2>4 DEF Clear
  <2> QED
    BY <1>2, <2>1, <2>2, <2>3, <2>4 DEF Stepping, Step
<1>3. ASSUME NEW w \in Workers, Passing(w)
      PROVE  /\ written' \in [Keys -> InternalEntry \cup {None}]
             /\ ops' = ops /\ DOMAIN arg' = Workers
  BY <1>3 DEF Passing, PassGc
<1>4. ASSUME NEW w \in Workers, NEW k \in Keys, NEW op \in ops[w], Starting(w, op, k)
      PROVE  /\ written' \in [Keys -> InternalEntry \cup {None}]
             /\ ops' = ops /\ DOMAIN arg' = Workers
  BY <1>4 DEF Starting, Start
<1>5. CASE Drop
  BY <1>5 DEF Drop
<1>6. CASE UNCHANGED vars
  BY <1>6 DEF vars
<1> QED
  BY <1>1, <1>2, <1>3, <1>4, <1>5, <1>6, NextCases

LEMMA TaskTypeStep ==
  ASSUME LifeInv, [LifeNext]_allVars
  PROVE  /\ interval' = interval
         /\ task' \in {"none", "loop", "select", "sweep", "ended"}
         /\ clone' \in [Keys -> InternalEntry \cup {None}]
         /\ wake' \in Nat
         /\ {dropped', notified', heard'} \subseteq BOOLEAN
<1> USE DEF LifeInv, LifeTypeOK, TypeOK
<1>1. CASE UNCHANGED lifeVars
  BY <1>1 DEF lifeVars
<1>2. CASE Drop
  BY <1>2 DEF Drop
<1>3. CASE Wait
  <2>1. wake' \in Nat
    BY <1>3, LifecycleAssumption, MemoryStorageAssumption
    DEF Wait, Sooner, StorageTypeOK
  <2> QED
    BY <1>3, <2>1 DEF Wait
<1>4. CASE WakeUp
  BY <1>4 DEF WakeUp
<1>5. CASE Sweep
  BY <1>5 DEF Sweep
<1> QED
  BY <1>1, <1>2, <1>3, <1>4, <1>5
  DEF LifeNext, Time, Use, Task, Gone, allVars

(***************************************************************************)
(* What calls rely on                                                      *)
(***************************************************************************)
LEMMA IdleCallInv ==
  ASSUME NEW w \in Workers, call[w] = NoCall, clock \in Nat
  PROVE  CallInv(w)
<1>1. None \notin Operations
  BY MemoryStorageAssumption
<1> QED
  BY <1>1 DEF CallInv, NoCall, Busy, At, Operations

LEMMA ReturnedCallInv ==
  ASSUME NEW w \in Workers, call'[w] = NoCall, clock' \in Nat
  PROVE  CallInv(w)'
<1>1. None \notin Operations
  BY MemoryStorageAssumption
<1>2. /\ call'[w].phase = "idle" /\ call'[w].op = None
      /\ call'[w].now = 0 /\ call'[w].gcNow = 0
  BY DEF NoCall
<1> QED
  BY <1>1, <1>2 DEF CallInv, Busy, At, Operations

\* The worker whose call it is.
LEMMA OwnStep ==
  ASSUME LifeInv, [LifeNext]_allVars, NEW w \in Workers, Stepping(w) \/ Passing(w),
         call'[w] /= NoCall
  PROVE  CallInv(w)'
<1> USE DEF LifeInv, LifeTypeOK, TypeOK, StorageTypeOK
<1>0. /\ Busy(w) /\ CallInv(w) /\ call[w].key \in Keys /\ call[w] \in Call
      /\ clock \in Nat
  BY SteppingBusy DEF CallInv
<1>1. /\ Busy(w)' => arg'[w] = arg[w]
      /\ ops' = ops
  BY WrittenStep DEF Stepping, Passing, PassGc, Step
<1>2. CASE Common(w) \/ Passing(w)
  <2>1. /\ clock' = clock
        /\ call'[w].op = call[w].op /\ call'[w].key = call[w].key
        /\ call'[w].phase \notin {"idle", "remove"}
        /\ call'[w].phase = "commit" => call[w].op \in {"set", "increment"}
        /\ call'[w].now \in {call[w].now, clock}
        /\ call'[w].gcNow \in {call[w].gcNow, clock, 0}
    <3>1. CASE Common(w)
      BY <3>1, CommonFrame, CommonLocals
    <3>2. CASE Passing(w)
      <4>1. call'[w] = AfterGc(w) /\ clock' = clock
        BY <3>2 DEF Passing, PassGc
      <4> QED
        BY <4>1, AfterGcType
    <3> QED
      BY <1>2, <3>1, <3>2
  <2>2. Busy(w)'
    BY <2>1 DEF Busy
  <2> QED
    BY <1>0, <1>1, <2>1, <2>2 DEF CallInv, At, Busy, Call
<1>3. CASE Load(w)
  <2> DEFINE k == call[w].key
             seen == IF LiveAt(data[k], call[w].now) THEN data[k].entry ELSE None
  <2>1. /\ call'[w] = [call[w] EXCEPT !.phase = "commit", !.current = seen]
        /\ data' = data /\ clock' = clock
    BY <1>3 DEF Load
  <2> HIDE DEF seen
  <2>2. /\ call'[w].phase = "commit" /\ call'[w].current = seen
        /\ call'[w].op = call[w].op /\ call'[w].key = k
        /\ call'[w].now = call[w].now /\ call'[w].gcNow = call[w].gcNow
    BY <1>0, <2>1 DEF Call
  <2>3. Busy(w)'
    BY <2>2 DEF Busy
  <2> QED
    BY <1>0, <1>1, <2>1, <2>2, <2>3 DEF CallInv, At, Busy, seen
<1>4. CASE GetExpired(w)
  <2> DEFINE k == call[w].key
  <2>1. /\ call'[w] = [call[w] EXCEPT !.phase = "remove"]
        /\ data' = data /\ clock' = clock
        /\ data[k] /= None /\ ~LiveAt(data[k], call[w].now)
    BY <1>4 DEF GetExpired, Goto
  <2>2. /\ call'[w].phase = "remove" /\ call'[w].op = call[w].op /\ call'[w].key = k
        /\ call'[w].now = call[w].now /\ call'[w].gcNow = call[w].gcNow
    BY <1>0, <2>1 DEF Call
  <2>3. ~LiveAt(data[k], clock)
    <3>1. call[w].now \in Nat /\ call[w].now <= clock /\ data[k].expires_at \in Nat
      BY <1>0, <2>1 DEF Call, CallInv, InternalEntry
    <3> QED
      BY <1>0, <2>1, <3>1 DEF LiveAt
  <2>4. Busy(w)'
    BY <2>2 DEF Busy
  <2> QED
    BY <1>0, <1>1, <2>1, <2>2, <2>3, <2>4 DEF CallInv, At, Busy
<1>5. ASSUME NEW k \in Keys, Clear(w, k)
      PROVE  CallInv(w)'
  <2>1. /\ clock' = clock /\ call[w].op = "clear"
        /\ call'[w] = [call[w] EXCEPT !.sweep = @ \ {k}]
    BY <1>5 DEF Clear, ClearKey, At
  <2>2. /\ call'[w].op = "clear" /\ call'[w].key = call[w].key
        /\ call'[w].phase = call[w].phase
        /\ call'[w].now = call[w].now /\ call'[w].gcNow = call[w].gcNow
    BY <1>0, <2>1 DEF Call
  <2>3. Busy(w)'
    BY <1>0, <2>2 DEF Busy
  <2> QED
    BY <1>0, <1>1, <2>1, <2>2, <2>3 DEF CallInv, At, Busy
<1>6. CASE Write(w)
  BY <1>6, WriteFacts
<1>7. CASE GetHit(w) \/ GetMiss(w) \/ GetRemove(w) \/ CasFail(w, arg[w].expected)
  BY <1>7 DEF GetHit, GetMiss, GetRemove, CasFail, Return
<1> QED
  BY <1>2, <1>3, <1>4, <1>5, <1>6, <1>7 DEF Stepping, Step, ReadOnly

\* A worker that is alone has nobody beside it inside a call.
LEMMA OthersIdle ==
  ASSUME LifeInv, NEW w \in Workers, OnlyCaller(w), NEW v \in Workers \ {w}
  PROVE  ~Busy(v) /\ ops[v] = {}
  BY DEF LifeInv, CallInv, OnlyCaller

\* What others do leaves a worker's call alone, and its key, if it is alone.
LEMMA OtherStep ==
  ASSUME LifeInv, NEW w \in Workers, NEW v \in Workers \ {w},
         call'[w] = call[w], arg'[w] = arg[w], ops' = ops, clock' = clock,
         Busy(v) \/ ops[v] /= {}
  PROVE  CallInv(w)'
<1>1. ~OnlyCaller(w) /\ CallInv(w)
  BY OthersIdle DEF LifeInv
<1> QED
  BY <1>1 DEF CallInv, OnlyCaller, Busy

\* A step of one worker's call is no step of another's.
LEMMA OthersUntouched ==
  ASSUME LifeInv, NEW w \in Workers, NEW v \in Workers \ {w},
         Stepping(v) \/ Passing(v)
  PROVE  call'[w] = call[w] /\ arg'[w] = arg[w] /\ clock' = clock
<1> USE DEF LifeInv, LifeTypeOK, TypeOK
<1>1. arg'[w] = arg[w]
  BY DEF Stepping, Passing, PassGc, Step
<1>2. call \in [Workers -> Call]
  BY DEF StorageTypeOK
<1>3. CASE Common(v)
  BY <1>1, <1>3, CommonFrame
<1>4. CASE Write(v)
  BY <1>1, <1>2, <1>4, WriteFacts
<1>5. CASE Load(v)
  BY <1>1, <1>2, <1>5 DEF Load
<1>6. CASE GetHit(v) \/ GetMiss(v) \/ GetRemove(v) \/ CasFail(v, arg[v].expected)
  BY <1>1, <1>2, <1>6 DEF GetHit, GetMiss, GetRemove, CasFail, Return
<1>7. CASE GetExpired(v)
  BY <1>1, <1>2, <1>7 DEF GetExpired, Goto
<1>8. CASE Passing(v)
  BY <1>1, <1>2, <1>8 DEF Passing, PassGc
<1>9. ASSUME NEW k \in Keys, Clear(v, k)
      PROVE  call'[w] = call[w] /\ clock' = clock
  BY <1>2, <1>9 DEF Clear, ClearKey
<1> QED
  BY <1>1, <1>3, <1>4, <1>5, <1>6, <1>7, <1>8, <1>9 DEF Stepping, Step, ReadOnly

LEMMA StartedCall ==
  ASSUME LifeInv, NEW w \in Workers, NEW k \in Keys, NEW op \in ops[w],
         Starting(w, op, k)
  PROVE  CallInv(w)'
<1> USE DEF LifeInv, LifeTypeOK, TypeOK, StorageTypeOK
<1>1. PICK ttl \in Nat : Begin(w, op, k, ttl)
  BY StartFacts
<1>2. PICK a \in Arguments(op) : arg' = [arg EXCEPT ![w] = a]
  BY StartFacts
<1>3. op \in Operations /\ ops' = ops /\ clock' = clock /\ clock \in Nat
  BY StartFacts
<1>4. /\ call'[w].op = op /\ call'[w].key = k /\ call'[w].phase = FirstPhase(op)
      /\ call'[w].now = 0 /\ call'[w].gcNow = 0
  BY <1>1 DEF Begin, NoCall
<1>5. FirstPhase(op) \in {"enter", "commit", "gc", "sweep"}
      /\ (FirstPhase(op) = "commit" => op = "delete")
  BY DEF FirstPhase
<1>6. /\ op \in {"set", "compare_and_swap"} => arg'[w].new \in StorageEntry
      /\ op = "increment" => arg'[w].window_start \in Nat
  BY <1>2, <1>3, ArgumentsTyped
<1> QED
  BY <1>3, <1>4, <1>5, <1>6 DEF CallInv, At, Busy

LEMMA CallInvStep ==
  ASSUME LifeInv, [LifeNext]_allVars, NEW w \in Workers
  PROVE  CallInv(w)'
<1> USE DEF LifeInv, LifeTypeOK, TypeOK
<1>0. CallInv(w) /\ clock \in Nat /\ clock' \in Nat /\ call[w] \in Call
  BY StorageTypeStep DEF StorageTypeOK
<1>1. CASE Time
  <2>1. /\ clock' = clock + 1 /\ call' = call /\ data' = data
        /\ ops' = ops /\ arg' = arg
    BY <1>1 DEF Time, Tick
  <2>2. OnlyCaller(w) /\ At(w, "get", "remove") => ~LiveAt(data[call[w].key], clock + 1)
    <3>1. SUFFICES ASSUME OnlyCaller(w), At(w, "get", "remove")
                   PROVE  ~LiveAt(data[call[w].key], clock + 1)
      OBVIOUS
    <3>2. call[w].key \in Keys /\ ~LiveAt(data[call[w].key], clock)
      BY <1>0, <3>1 DEF CallInv, At, Busy
    <3> QED
      BY <1>0, <3>2 DEF LiveAt, StorageTypeOK, InternalEntry
  <2>3. call[w].now <= clock + 1 /\ call[w].gcNow <= clock + 1
    BY <1>0 DEF CallInv, Call
  <2> QED
    BY <1>0, <2>1, <2>2, <2>3 DEF CallInv, At, Busy, OnlyCaller
<1>2. ASSUME NEW v \in Workers, Stepping(v) \/ Passing(v)
      PROVE  CallInv(w)'
  <2>1. CASE v = w /\ call'[w] /= NoCall
    BY <1>2, <2>1, OwnStep
  <2>2. CASE call'[w] = NoCall
    BY <1>0, <2>2, ReturnedCallInv
  <2>3. CASE v /= w
    <3>1. /\ Busy(v) /\ ops' = ops
      BY <1>2, SteppingBusy, WrittenStep
    <3>2. call'[w] = call[w] /\ arg'[w] = arg[w] /\ clock' = clock
      BY <1>2, <2>3, OthersUntouched
    <3> QED
      BY <2>3, <3>1, <3>2, OtherStep
  <2> QED
    BY <2>1, <2>2, <2>3
<1>3. ASSUME NEW v \in Workers, NEW k \in Keys, NEW op \in ops[v], Starting(v, op, k)
      PROVE  CallInv(w)'
  <2>1. CASE v = w
    BY <1>3, <2>1, StartedCall
  <2>2. CASE v /= w
    <3>1. PICK ttl \in Nat : Begin(v, op, k, ttl)
      BY <1>3, StartFacts
    <3>2. PICK a \in Arguments(op) : arg' = [arg EXCEPT ![v] = a]
      BY <1>3, StartFacts
    <3>3. call'[w] = call[w]
      BY <2>2, <3>1 DEF Begin, StorageTypeOK
    <3>4. arg'[w] = arg[w] /\ ops' = ops /\ clock' = clock
      BY <1>3, <2>2, <3>2, StartFacts
    <3> QED
      BY <1>3, <2>2, <3>3, <3>4, OtherStep
  <2> QED
    BY <2>1, <2>2
<1>4. CASE Drop
  <2>1. call'[w] = NoCall
    BY <1>0, <1>4 DEF Drop, CallInv
  <2> QED
    BY <1>0, <2>1, ReturnedCallInv
<1>5. CASE UNCHANGED vars
  BY <1>0, <1>5 DEF vars, storageVars, CallInv, At, Busy, OnlyCaller
<1> QED
  BY <1>1, <1>2, <1>3, <1>4, <1>5, NextCases

(***************************************************************************)
(* The collection lock                                                     *)
(***************************************************************************)
\* A call that collects for a request, and one of another operation than sweeps.
Collects(c) == c.phase \in {"gc", "sweep"} /\ c.op \notin {"run_gc", "clear"}
Ordinary(c) == c.op \in {"run_gc", "clear"} => c.phase \in {"gc", "sweep"}

\* Who has left the lock alone keeps it, and who is not at it as well.
LEMMA LockUntouched ==
  ASSUME LifeInv, NEW w \in Workers, gcLock' = gcLock,
         \A v \in Workers \ {w} : call'[v] = call[v],
         Collects(call'[w]) <=> Collects(call[w]), Ordinary(call'[w])
  PROVE  LockKept'
<1>1. ASSUME NEW v \in Workers
      PROVE  (gcLock' = v <=> Collects(call'[v])) /\ Ordinary(call'[v])
  BY <1>1 DEF LifeInv, LockKept, Collects, Ordinary
<1> QED
  BY <1>1 DEF LockKept, Collects, Ordinary

LEMMA CommonLock ==
  ASSUME LifeInv, NEW w \in Workers, Common(w)
  PROVE  LockKept'
<1> USE DEF LifeInv, LifeTypeOK, TypeOK, StorageTypeOK
<1>0. /\ call[w] \in Call /\ None \notin Workers
      /\ \A v \in Workers \ {w} : call'[v] = call[v]
      /\ \A v \in Workers : (gcLock = v <=> Collects(call[v])) /\ Ordinary(call[v])
  BY CommonFrame, MemoryStorageAssumption DEF LockKept, Collects, Ordinary
<1>1. ~Collects(NoCall) /\ Ordinary(NoCall)
  BY MemoryStorageAssumption DEF Collects, Ordinary, NoCall, Operations
<1>2. ~Collects(AfterGc(w)) /\ Ordinary(AfterGc(w))
  BY <1>0, <1>1 DEF AfterGc, Collects, Ordinary, Call
<1>3. CASE CountRequest(w)
  <2>1. /\ gcLock' = gcLock /\ ~Collects(call[w])
        /\ call[w].op \notin {"run_gc", "clear"}
        /\ call'[w] = AfterGc(w) \/ call'[w] = [call[w] EXCEPT !.phase = "try_lock"]
    BY <1>0, <1>3 DEF CountRequest, Collects, Ordinary
  <2>2. ~Collects(call'[w]) /\ Ordinary(call'[w])
    BY <1>0, <1>2, <2>1 DEF Collects, Ordinary, Call
  <2> QED
    BY <1>0, <2>1, <2>2, LockUntouched
<1>4. CASE TryGcLock(w)
  <2>1. ~Collects(call[w]) /\ call[w].op \notin {"run_gc", "clear"}
    BY <1>0, <1>4 DEF TryGcLock, Collects, Ordinary
  <2>2. CASE gcLock = None
    <3>1. gcLock' = w /\ call'[w] = [call[w] EXCEPT !.phase = "gc"]
      BY <1>4, <2>2 DEF TryGcLock, Goto
    <3>2. Collects(call'[w]) /\ Ordinary(call'[w])
      BY <1>0, <2>1, <3>1 DEF Collects, Ordinary, Call
    <3>3. ASSUME NEW v \in Workers
          PROVE  (gcLock' = v <=> Collects(call'[v])) /\ Ordinary(call'[v])
      BY <1>0, <2>2, <3>1, <3>2
    <3> QED
      BY <3>3 DEF LockKept, Collects, Ordinary
  <2>3. CASE gcLock /= None
    <3>1. gcLock' = gcLock /\ call'[w] = AfterGc(w)
      BY <1>4, <2>3 DEF TryGcLock
    <3> QED
      BY <1>0, <1>2, <2>1, <3>1, LockUntouched
  <2> QED
    BY <2>2, <2>3
<1>5. CASE StartSweep(w)
  <2>1. /\ gcLock' = gcLock /\ call[w].phase = "gc"
        /\ call'[w].phase = "sweep" /\ call'[w].op = call[w].op
    BY <1>0, <1>5 DEF StartSweep, Call
  <2> QED
    BY <1>0, <2>1, LockUntouched DEF Collects, Ordinary
<1>6. ASSUME NEW k \in Keys, SweepKey(w, k)
      PROVE  LockKept'
  <2>1. /\ gcLock' = gcLock
        /\ call'[w].phase = call[w].phase /\ call'[w].op = call[w].op
    BY <1>0, <1>6 DEF SweepKey, Call
  <2> QED
    BY <1>0, <2>1, LockUntouched DEF Collects, Ordinary
<1>7. CASE EndSweep(w)
  <2>1. call[w].phase = "sweep" /\ call'[w] = AfterGc(w)
    BY <1>7 DEF EndSweep
  <2>2. CASE call[w].op \in {"run_gc", "clear"}
    <3>1. gcLock' = gcLock /\ ~Collects(call[w])
      BY <1>7, <2>2 DEF EndSweep, Collects
    <3> QED
      BY <1>0, <1>2, <2>1, <3>1, LockUntouched
  <2>3. CASE call[w].op \notin {"run_gc", "clear"}
    <3>1. gcLock' = None /\ gcLock = w
      BY <1>0, <1>7, <2>1, <2>3 DEF EndSweep, Collects
    <3>2. ASSUME NEW v \in Workers
          PROVE  (gcLock' = v <=> Collects(call'[v])) /\ Ordinary(call'[v])
      BY <1>0, <1>2, <2>1, <3>1
    <3> QED
      BY <3>2 DEF LockKept, Collects, Ordinary
  <2> QED
    BY <2>2, <2>3
<1>8. CASE ComputeExpiry(w)
  <2>1. /\ gcLock' = gcLock /\ call[w].phase = "expires"
        /\ call'[w].phase \in {"commit", "now"} /\ call'[w].op = call[w].op
    BY <1>0, <1>8 DEF ComputeExpiry, Call
  <2> QED
    BY <1>0, <2>1, LockUntouched DEF Collects, Ordinary
<1>9. CASE ReadNow(w)
  <2>1. /\ gcLock' = gcLock /\ call[w].phase = "now"
        /\ call'[w].phase \in {"commit", "load"} /\ call'[w].op = call[w].op
    BY <1>0, <1>9 DEF ReadNow, Call
  <2> QED
    BY <1>0, <2>1, LockUntouched DEF Collects, Ordinary
<1> QED
  BY <1>3, <1>4, <1>5, <1>6, <1>7, <1>8, <1>9 DEF Common

LEMMA LockStep ==
  ASSUME LifeInv, [LifeNext]_allVars
  PROVE  LockKept'
<1> USE DEF LifeInv, LifeTypeOK, TypeOK, StorageTypeOK
<1>0. /\ call \in [Workers -> Call]
      /\ \A v \in Workers : Ordinary(call[v])
  BY DEF LockKept, Ordinary
<1>1. ~Collects(NoCall) /\ Ordinary(NoCall)
  BY MemoryStorageAssumption DEF Collects, Ordinary, NoCall, Operations
<1>2. CASE gcLock' = gcLock /\ call' = call
  BY <1>2 DEF LockKept
<1>3. CASE Time \/ Drop \/ UNCHANGED vars
  BY <1>2, <1>3 DEF Time, Tick, Drop, vars, storageVars
<1>4. ASSUME NEW w \in Workers, Passing(w)
      PROVE  LockKept'
  <2>1. /\ gcLock' = gcLock /\ call[w].phase = "enter" /\ call[w] \in Call
        /\ call' = [call EXCEPT ![w] = AfterGc(w)]
    BY <1>4 DEF Passing, PassGc
  <2>2. ~Collects(call[w]) /\ ~Collects(AfterGc(w)) /\ Ordinary(AfterGc(w))
    BY <1>1, <2>1 DEF AfterGc, Collects, Ordinary, Call
  <2> QED
    BY <1>0, <2>1, <2>2, LockUntouched
<1>5. ASSUME NEW w \in Workers, NEW k \in Keys, NEW op \in ops[w], Starting(w, op, k)
      PROVE  LockKept'
  <2>1. PICK ttl \in Nat : Begin(w, op, k, ttl)
    BY <1>5, StartFacts
  <2>2. /\ gcLock' = gcLock /\ ~Collects(call[w])
        /\ call'[w].op = op /\ call'[w].phase = FirstPhase(op)
        /\ \A v \in Workers \ {w} : call'[v] = call[v]
    BY <1>0, <2>1 DEF Begin, Busy, NoCall, Collects
  <2>3. ~Collects(call'[w]) /\ Ordinary(call'[w])
    BY <2>2 DEF FirstPhase, Collects, Ordinary
  <2> QED
    BY <2>2, <2>3, LockUntouched
<1>6. ASSUME NEW w \in Workers, Stepping(w)
      PROVE  LockKept'
  <2>1. ASSUME gcLock' = gcLock, ~Collects(call[w]),
               call' = [call EXCEPT ![w] = NoCall]
        PROVE  LockKept'
    BY <1>0, <1>1, <2>1, LockUntouched
  <2>2. CASE Write(w)
    BY <2>1, <2>2, WriteFacts DEF Collects
  <2>3. CASE Common(w)
    BY <2>3, CommonLock
  <2>4. CASE GetHit(w) \/ GetMiss(w) \/ GetRemove(w) \/ CasFail(w, arg[w].expected)
    BY <2>1, <2>4 DEF GetHit, GetMiss, GetRemove, CasFail, Return, At, Collects
  <2>5. CASE Load(w) \/ GetExpired(w)
    <3>1. /\ gcLock' = gcLock /\ call[w].phase = "load"
          /\ call'[w].phase \in {"commit", "remove"} /\ call'[w].op = call[w].op
          /\ \A v \in Workers \ {w} : call'[v] = call[v]
      <4>1. CASE Load(w)
        <5>1. PICK e : call' = [call EXCEPT ![w] =
                                  [@ EXCEPT !.phase = "commit", !.current = e]]
          BY <4>1 DEF Load
        <5> QED
          BY <1>0, <4>1, <5>1 DEF Load, Call
      <4>2. CASE GetExpired(w)
        BY <1>0, <4>2 DEF GetExpired, Goto, At, Call
      <4> QED
        BY <2>5, <4>1, <4>2
    <3> QED
      BY <1>0, <3>1, LockUntouched DEF Collects, Ordinary
  <2>6. ASSUME NEW k \in Keys, Clear(w, k)
        PROVE  LockKept'
    <3>1. /\ gcLock' = gcLock
          /\ call'[w].phase = call[w].phase /\ call'[w].op = call[w].op
          /\ \A v \in Workers \ {w} : call'[v] = call[v]
      BY <1>0, <2>6 DEF Clear, ClearKey, Call
    <3> QED
      BY <1>0, <3>1, LockUntouched DEF Collects, Ordinary
  <2> QED
    BY <1>6, <2>2, <2>3, <2>4, <2>5, <2>6 DEF Stepping, Step, ReadOnly
<1> QED
  BY <1>3, <1>4, <1>5, <1>6, NextCases

LEMMA LifeInvInit == LifeInit => LifeInv
<1> SUFFICES ASSUME LifeInit PROVE LifeInv
  OBVIOUS
<1> USE DEF LifeInit, Init, StorageInit
<1>1. StorageTypeOK
  BY NoCallType, MemoryStorageAssumption DEF StorageTypeOK
<1>2. \A w \in Workers : CallInv(w)
  BY <1>1, IdleCallInv DEF StorageTypeOK
<1>3. CallsKeyed
  BY MemoryStorageAssumption DEF CallsKeyed, Keyed, NoCall
<1>4. <<interval, ops>> \in Deployments
  <2>1. PICK d \in Deployments : interval = d[1] /\ ops = d[2]
    OBVIOUS
  <2>2. d \in {"requests", "duration"} \X Clients
    BY LifecycleAssumption
  <2>3. d = <<d[1], d[2]>>
    BY <2>2
  <2> QED
    BY <2>1, <2>3
<1>5. LifeTypeOK
  BY <1>1, <1>3, <1>4 DEF LifeTypeOK, TypeOK, StorageTypeOK
<1>6. LockKept
  BY MemoryStorageAssumption DEF LockKept, NoCall, Operations
<1> QED
  BY <1>2, <1>5, <1>6 DEF LifeInv

LEMMA LifeInvStep == LifeInv /\ [LifeNext]_allVars => LifeInv'
<1> SUFFICES ASSUME LifeInv, [LifeNext]_allVars PROVE LifeInv'
  OBVIOUS
<1>1. StorageTypeOK' /\ \A w \in Workers : CallInv(w)'
  BY StorageTypeStep, CallInvStep
<1>2. CallsKeyed'
  <2>1. NoCall.op \notin Keyed
    BY MemoryStorageAssumption DEF NoCall, Keyed
  <2> QED
    BY <1>1, <2>1 DEF CallsKeyed, CallInv
<1>3. ops' \in Clients /\ <<interval', ops'>> \in Deployments
  BY WrittenStep, TaskTypeStep DEF LifeInv, LifeTypeOK, TypeOK
<1>4. LifeTypeOK'
  BY <1>1, <1>2, <1>3, WrittenStep, TaskTypeStep DEF LifeTypeOK, TypeOK
<1> QED
  BY <1>1, <1>4, WrittenStep, LockStep DEF LifeInv

\* From the constructor to the drop, whoever calls what: the storage keeps its
\* types, one request at most collects, and holds the lock just then, and what a
\* call has read is as recent as the clock, and still true of a lone worker.
THEOREM StorageIsConsistent == LifeSpec => []LifeInv
  BY LifeInvInit, LifeInvStep, PTL DEF LifeSpec

(***************************************************************************)
(* What vanishes                                                           *)
(***************************************************************************)
\* An entry, as it was written or gone when it had expired.
Kept(k) ==
  \/ data[k] = written[k]
  \/ data[k] = None /\ ~LiveAt(written[k], clock)

\* A worker that reads with get, which removes what has expired since it looked,
\* has nobody beside it.
GettersAlone ==
  \A c \in Clients : \A w \in Workers :
    "get" \in c[w] => \A v \in Workers \ {w} : c[v] = {}

LEMMA KeptStep ==
  ASSUME GettersAlone, LifeInv, [LifeNext]_allVars, NEW k \in Keys, Kept(k)
  PROVE  Kept(k)'
<1> USE DEF LifeInv, LifeTypeOK, TypeOK
<1>0. /\ clock \in Nat /\ written[k] \in InternalEntry \cup {None}
      /\ data[k] \in InternalEntry \cup {None}
  BY DEF StorageTypeOK
<1>1. CASE Time
  BY <1>0, <1>1 DEF Time, Tick, Kept, LiveAt, InternalEntry
<1>2. ASSUME NEW w \in Workers, Stepping(w)
      PROVE  Kept(k)'
  <2>1. CASE Write(w)
    <3>1. /\ clock' = clock /\ call[w].key \in Keys
          /\ k /= call[w].key => data'[k] = data[k]
      BY <2>1, WriteFacts
    <3>2. written' = [written EXCEPT ![call[w].key] = data'[call[w].key]]
      BY <2>1 DEF Write
    <3> QED
      BY <3>1, <3>2 DEF Kept
  <2>2. CASE Common(w) /\ UNCHANGED written
    <3>1. clock' = clock
      BY <2>2, CommonFrame
    <3>2. CASE data'[k] = data[k]
      BY <2>2, <3>1, <3>2 DEF Kept
    <3>3. CASE data'[k] /= data[k]
      <4>1. data'[k] = None /\ data[k] /= None /\ ~LiveAt(data[k], call[w].gcNow)
        BY <2>2, <3>3, CommonDrops
      <4>2. call[w].gcNow <= clock /\ call[w].gcNow \in Nat
        BY DEF CallInv, StorageTypeOK, Call
      <4>3. ~LiveAt(data[k], clock)
        BY <1>0, <4>1, <4>2 DEF LiveAt, InternalEntry
      <4> QED
        BY <2>2, <3>1, <4>1, <4>3 DEF Kept
    <3> QED
      BY <3>2, <3>3
  <2>3. CASE /\ Load(w) \/ GetHit(w) \/ GetMiss(w) \/ GetExpired(w)
                \/ CasFail(w, arg[w].expected)
             /\ UNCHANGED written
    BY <2>3 DEF Load, GetHit, GetMiss, GetExpired, CasFail, Kept
  <2>4. CASE GetRemove(w) /\ UNCHANGED written
    <3>1. At(w, "get", "remove") /\ clock' = clock
          /\ data' = [data EXCEPT ![call[w].key] = None]
      BY <2>4 DEF GetRemove
    <3>2. OnlyCaller(w)
      BY <3>1 DEF CallInv, At, Busy, GettersAlone, OnlyCaller
    <3>3. ~LiveAt(data[call[w].key], clock)
      BY <3>1, <3>2 DEF CallInv
    <3> QED
      BY <2>4, <3>1, <3>3 DEF Kept, StorageTypeOK
  <2>5. ASSUME NEW j \in Keys, Clear(w, j)
        PROVE  Kept(k)'
    BY <2>5 DEF Clear, ClearKey, Kept, StorageTypeOK
  <2> QED
    BY <1>2, <2>1, <2>2, <2>3, <2>4, <2>5 DEF Stepping, Step, ReadOnly
<1>3. ASSUME NEW w \in Workers, Passing(w)
      PROVE  Kept(k)'
  BY <1>3 DEF Passing, PassGc, Kept
<1>4. ASSUME NEW w \in Workers, NEW j \in Keys, NEW op \in ops[w], Starting(w, op, j)
      PROVE  Kept(k)'
  BY <1>4, StartFacts DEF Kept
<1>5. CASE Drop
  BY <1>5 DEF Drop, Kept
<1>6. CASE UNCHANGED vars
  BY <1>6 DEF vars, storageVars, Kept
<1> QED
  BY <1>1, <1>2, <1>3, <1>4, <1>5, <1>6, NextCases

\* Whatever collects, clears, deletes and overwrites beside each other: what the
\* map holds of a key is what was last written, or nothing once that expired.
THEOREM NothingLiveVanishes ==
  ASSUME GettersAlone
  PROVE  LifeSpec => []OnlyExpiredVanish
<1>1. LifeInit => OnlyExpiredVanish
  BY DEF LifeInit, Init, StorageInit, OnlyExpiredVanish
<1>2. LifeInv /\ OnlyExpiredVanish /\ [LifeNext]_allVars => OnlyExpiredVanish'
  BY KeptStep DEF OnlyExpiredVanish, Kept
<1> QED
  BY <1>1, <1>2, LifeInvInit, LifeInvStep, PTL DEF LifeSpec
=============================================================================
