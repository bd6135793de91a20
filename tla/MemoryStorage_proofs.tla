------------------------- MODULE MemoryStorage_proofs ------------------------
(***************************************************************************)
(* Lemmas about the steps of MemoryStorage, for any caller: each keeps the *)
(* storage's types, and what each leaves alone.                            *)
(***************************************************************************)
EXTENDS MemoryStorage, WellFoundedInduction, TLAPS

\* A set of numbers has a least one: what CHOOSE finds, and what a proof by
\* induction over a recursive function needs, the least number for which a claim
\* fails.
LEMMA LeastElement ==
  ASSUME NEW S \in SUBSET Nat, S /= {}
  PROVE  \E n \in S : \A m \in S : ~(m < n)
<1> DEFINE R == {ss \in Nat \X Nat : ss[1] < ss[2]}
<1>1. IsWellFoundedOn(R, Nat)
  BY NatLessThanWellFounded DEF OpToRel
<1>2. \A m, n \in Nat : m < n => <<m, n>> \in R
  OBVIOUS
<1> HIDE DEF R
<1>3. \E n \in S : \A m \in S : <<m, n>> \notin R
  BY <1>1, WFMin
<1> QED
  BY <1>2, <1>3

LEMMA NoCallType == NoCall \in Call
  BY DEF NoCall, Call, Phases

\* A storage step keeps the storage's types.
LEMMA CommonType ==
  ASSUME StorageTypeOK, NEW w \in Workers, Common(w)
  PROVE  StorageTypeOK'
<1> USE DEF StorageTypeOK
<1>2. AfterGc(w) \in Call
  BY NoCallType DEF AfterGc, Call, Phases
<1>3. CASE CountRequest(w)
  <2>1. requests' \in 0..GcThreshold
    BY <1>3, MemoryStorageAssumption DEF CountRequest
  <2>2. call' \in [Workers -> Call]
    BY <1>2, <1>3 DEF CountRequest, Call, Phases
  <2> QED
    BY <1>3, <2>1, <2>2 DEF CountRequest
<1>4. CASE TryGcLock(w)
  BY SMTT(30), <1>2, <1>4 DEF TryGcLock, Goto, Call, Phases
<1>5. CASE StartSweep(w)
  <2>1. [call[w] EXCEPT !.phase = "sweep", !.gcNow = clock, !.sweep = Keys] \in Call
    BY ZenonT(60) DEF Call, Phases
  <2> QED
    BY <1>5, <2>1 DEF StartSweep
<1>6. CASE \E k \in Keys : SweepKey(w, k)
  BY <1>6 DEF SweepKey, Call
<1>7. CASE EndSweep(w)
  BY <1>2, <1>7 DEF EndSweep
<1>8. CASE ComputeExpiry(w)
  <2>1. \A t \in Nat, p \in Phases :
          [call[w] EXCEPT !.expires = t, !.phase = p] \in Call
    BY DEF Call
  <2>3. clock + call[w].ttl \in Nat
    BY DEF Call
  <2>2. (IF call[w].op = "set" THEN "commit" ELSE "now") \in Phases
    BY DEF Phases
  <2> QED
    BY <1>8, <2>1, <2>2, <2>3 DEF ComputeExpiry
<1>9. CASE ReadNow(w)
  <2>1. \A p \in Phases : [call[w] EXCEPT !.now = clock, !.phase = p] \in Call
    BY DEF Call
  <2>2. (IF call[w].op = "increment" THEN "commit" ELSE "load") \in Phases
    BY DEF Phases
  <2> QED
    BY <1>9, <2>1, <2>2 DEF ReadNow
<1> QED
  BY <1>3, <1>4, <1>5, <1>6, <1>7, <1>8, <1>9 DEF Common

\* What a common step leaves alone: the other workers, the call it belongs to
\* (unless it ends it) and every entry it does not remove.
LEMMA CommonFrame ==
  ASSUME StorageTypeOK, NEW w \in Workers, Common(w)
  PROVE  /\ clock' = clock
         /\ \A v \in Workers \ {w} : call'[v] = call[v]
         /\ \A k \in Keys : data'[k] \in {data[k], None}
         /\ \/ call'[w] = NoCall
            \/ /\ call'[w].op = call[w].op
               /\ call'[w].key = call[w].key
               /\ call'[w].ttl = call[w].ttl
               /\ call'[w].current = call[w].current
<1> USE DEF StorageTypeOK, Call
<1>0. \/ AfterGc(w) = NoCall
      \/ /\ AfterGc(w).op = call[w].op
         /\ AfterGc(w).key = call[w].key
         /\ AfterGc(w).ttl = call[w].ttl
         /\ AfterGc(w).current = call[w].current
  BY DEF AfterGc
<1>1. CASE CountRequest(w)
  BY <1>0, <1>1 DEF CountRequest
<1>2. CASE TryGcLock(w)
  <2>1. CASE gcLock = None
    BY <1>2, <2>1 DEF TryGcLock, Goto
  <2>2. CASE gcLock /= None
    BY <1>0, <1>2, <2>2 DEF TryGcLock
  <2> QED
    BY <2>1, <2>2
<1>3. CASE StartSweep(w)
  BY <1>3 DEF StartSweep
<1>4. CASE \E k \in Keys : SweepKey(w, k)
  BY <1>4 DEF SweepKey
<1>5. CASE EndSweep(w)
  BY <1>0, <1>5 DEF EndSweep
<1>6. CASE ComputeExpiry(w)
  BY <1>6 DEF ComputeExpiry
<1>7. CASE ReadNow(w)
  BY <1>7 DEF ReadNow
<1> QED
  BY <1>1, <1>2, <1>3, <1>4, <1>5, <1>6, <1>7 DEF Common

LEMMA BeginType ==
  ASSUME StorageTypeOK, NEW w \in Workers, NEW op \in Operations,
         NEW k \in Keys \cup {None}, NEW ttl \in Nat, Begin(w, op, k, ttl)
  PROVE  StorageTypeOK'
<1>1. FirstPhase(op) \in Phases
  BY DEF FirstPhase, Phases
<1>2. \A p \in Phases, ks \in SUBSET Keys :
        [NoCall EXCEPT !.phase = p, !.op = op, !.key = k, !.ttl = ttl, !.sweep = ks]
          \in Call
  BY NoCallType DEF Call
<1>3. call' \in [Workers -> Call]
  BY <1>1, <1>2 DEF Begin, StorageTypeOK
<1> QED
  BY <1>3 DEF Begin, StorageTypeOK

LEMMA ReadType ==
  ASSUME StorageTypeOK, CallsKeyed, NEW w \in Workers,
         Load(w) \/ GetExpired(w) \/ GetHit(w) \/ GetMiss(w)
  PROVE  StorageTypeOK'
<1> USE DEF StorageTypeOK
<1>1. CASE Load(w)
  <2>1. \A e \in StorageEntry \cup {None} :
          [call[w] EXCEPT !.phase = "commit", !.current = e] \in Call
    BY ZenonT(60) DEF Call, Phases
  <2>2. LiveAt(data[call[w].key], call[w].now) =>
          data[call[w].key].entry \in StorageEntry
    <3>1. SUFFICES ASSUME LiveAt(data[call[w].key], call[w].now)
                   PROVE  data[call[w].key].entry \in StorageEntry
      OBVIOUS
    <3>2. call[w].key \in Keys
      BY <1>1 DEF Load, CallsKeyed, Keyed, Operations
    <3> QED
      BY <3>1, <3>2 DEF LiveAt, InternalEntry
  <2> QED
    BY <1>1, <2>1, <2>2 DEF Load
<1>2. CASE GetExpired(w)
  BY <1>2 DEF GetExpired, Goto, Call, Phases
<1>3. CASE GetHit(w) \/ GetMiss(w)
  BY <1>3, NoCallType DEF GetHit, GetMiss, Return
<1> QED
  BY <1>1, <1>2, <1>3

LEMMA WriteType ==
  ASSUME StorageTypeOK, NEW w \in Workers,
         \/ GetRemove(w) \/ DeleteCommit(w)
         \/ \E new \in StorageEntry : Insert(w, new)
  PROVE  StorageTypeOK'
<1> USE DEF StorageTypeOK
<1>1. CASE GetRemove(w) \/ DeleteCommit(w)
  BY <1>1, NoCallType DEF GetRemove, DeleteCommit, Return
<1>2. ASSUME NEW new \in StorageEntry, Insert(w, new)
      PROVE  StorageTypeOK'
  <2>1. [entry |-> new, expires_at |-> call[w].expires] \in InternalEntry
    BY DEF InternalEntry, Call
  <2> QED
    BY <1>2, <2>1, NoCallType DEF Insert, Return
<1> QED
  BY <1>1, <1>2

\* Where a call goes on is a call.
LEMMA AfterGcType ==
  ASSUME StorageTypeOK, NEW w \in Workers
  PROVE  /\ AfterGc(w) \in Call
         /\ \/ AfterGc(w) = NoCall
            \/ /\ AfterGc(w).op = call[w].op /\ AfterGc(w).key = call[w].key
               /\ AfterGc(w).current = call[w].current
               /\ AfterGc(w).now = call[w].now /\ AfterGc(w).gcNow = 0
               /\ AfterGc(w).phase \in {"now", "expires"}
  BY NoCallType DEF AfterGc, StorageTypeOK, Call, Phases

\* What a common step makes of a call's locals: times it reads from the clock,
\* and no phase from which an operation removes or swaps.
LEMMA CommonLocals ==
  ASSUME StorageTypeOK, NEW w \in Workers, Common(w)
  PROVE  /\ Busy(w)
         /\ \/ call'[w] = NoCall
            \/ /\ call'[w].phase \notin {"idle", "remove"}
               /\ call'[w].phase = "commit" => call[w].op \in {"set", "increment"}
               /\ call'[w].now \in {call[w].now, clock}
               /\ call'[w].gcNow \in {call[w].gcNow, clock, 0}
<1> USE DEF StorageTypeOK, Call, Busy
<1>0. \/ AfterGc(w) = NoCall
      \/ /\ AfterGc(w).phase \in {"now", "expires"}
         /\ AfterGc(w).now = call[w].now /\ AfterGc(w).gcNow = 0
  BY AfterGcType
<1>1. CASE CountRequest(w)
  BY <1>0, <1>1 DEF CountRequest
<1>2. CASE TryGcLock(w)
  <2>1. CASE gcLock = None
    BY <1>2, <2>1 DEF TryGcLock, Goto
  <2>2. CASE gcLock /= None
    BY <1>0, <1>2, <2>2 DEF TryGcLock
  <2> QED
    BY <2>1, <2>2
<1>3. CASE StartSweep(w)
  BY <1>3 DEF StartSweep
<1>4. CASE \E k \in Keys : SweepKey(w, k)
  BY <1>4 DEF SweepKey
<1>5. CASE EndSweep(w)
  BY <1>0, <1>5 DEF EndSweep
<1>6. CASE ComputeExpiry(w)
  BY <1>6 DEF ComputeExpiry
<1>7. CASE ReadNow(w)
  BY <1>7 DEF ReadNow
<1> QED
  BY <1>1, <1>2, <1>3, <1>4, <1>5, <1>6, <1>7 DEF Common

\* A common step takes nothing that had not expired when the collection began.
LEMMA CommonDrops ==
  ASSUME StorageTypeOK, NEW w \in Workers, Common(w), NEW k \in Keys, data'[k] /= data[k]
  PROVE  data'[k] = None /\ data[k] /= None /\ ~LiveAt(data[k], call[w].gcNow)
<1>1. PICK j \in Keys : SweepKey(w, j)
  BY DEF Common, CountRequest, TryGcLock, StartSweep, EndSweep, ComputeExpiry, ReadNow
<1> QED
  BY <1>1 DEF SweepKey, StorageTypeOK, Keep, LiveAt

LEMMA ClearType ==
  ASSUME StorageTypeOK, NEW w \in Workers, NEW k \in Keys, ClearKey(w, k)
  PROVE  StorageTypeOK'
  BY DEF ClearKey, StorageTypeOK, Call

LEMMA TickType == ASSUME StorageTypeOK, Tick PROVE StorageTypeOK'
  BY DEF Tick, StorageTypeOK
=============================================================================
