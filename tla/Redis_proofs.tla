----------------------------- MODULE Redis_proofs ---------------------------
(***************************************************************************)
(* Theorems of what runs on RedisStorage: RedisOps, with arbitrary calls,  *)
(* and Middleware, with those of GCRA.  In both, what holds for any number *)
(* of tasks over a server that can fail at any command, with races between *)
(* GET and SETEX, and what holds for a task that is alone: the increments  *)
(* a counter keeps, and what the middleware lets through.                  *)
(***************************************************************************)
EXTENDS RedisOps, Middleware, Gcra_proofs, FiniteSetTheorems, TLAPS

(***************************************************************************)
(* RedisStorage                                                            *)
(***************************************************************************)
LEMMA NoCallType == NoCall \in Call
  BY DEF NoCall, Call, Phases

LEMMA TtlMsType == \A ttl \in Nat : TtlMs(ttl) \in Nat
<1> SUFFICES ASSUME NEW ttl \in Nat PROVE TtlMs(ttl) \in Nat
  OBVIOUS
<1>1. ttl \div MsPerSecond \in Nat
  BY RedisAssumption, DivisionIsNat
<1> QED
  BY <1>1, RedisAssumption DEF TtlMs

\* A connection is taken out of the pool, or given back to it.
LEMMA PoolStep ==
  ASSUME RedisTypeOK, PoolKept, NEW w \in Workers,
         call' = [call EXCEPT ![w] = call'[w]],
         IF w \in Connected
           THEN \/ call'[w].phase \in {"read", "write"} /\ free' = free
                \/ call'[w].phase \notin {"read", "write"} /\ free' = free + 1
           ELSE \/ call'[w].phase \in {"read", "write"} /\ free > 0 /\ free' = free - 1
                \/ call'[w].phase \notin {"read", "write"} /\ free' = free
  PROVE  PoolKept' /\ free' \in 0..Connections
<1> USE DEF RedisTypeOK
<1>1. /\ IsFiniteSet(Connected) /\ free + Cardinality(Connected) = Connections
      /\ Cardinality(Connected) \in Nat /\ free \in Nat /\ Connections \in Nat
  BY FS_CardinalityType, RedisAssumption DEF PoolKept
<1>2. Connected' = IF call'[w].phase \in {"read", "write"}
                     THEN Connected \cup {w} ELSE Connected \ {w}
  BY DEF Connected
<1>3. IsFiniteSet(Connected') /\ Cardinality(Connected') \in Nat
  BY <1>1, <1>2, FS_AddElement, FS_RemoveElement, FS_CardinalityType
<1>4. PICK c \in Nat, new \in Nat :
        c = Cardinality(Connected) /\ new = Cardinality(Connected')
  BY <1>1, <1>3
<1>5. new = IF call'[w].phase \in {"read", "write"}
              THEN IF w \in Connected THEN c ELSE c + 1
              ELSE IF w \in Connected THEN c - 1 ELSE c
  BY <1>1, <1>2, <1>4, FS_AddElement, FS_RemoveElement
<1>6. free' + new = Connections /\ free' \in Nat /\ free + c = Connections
  BY SMTT(30), <1>1, <1>4, <1>5
<1>7. free' \in 0..Connections
  BY <1>1, <1>4, <1>6
<1> QED
  BY <1>3, <1>4, <1>6, <1>7 DEF PoolKept

-----------------------------------------------------------------------------
(***************************************************************************)
(* RedisOps: entries, times and arguments                                  *)
(***************************************************************************)
LEMMA NewEntryType ==
  ASSUME NEW n \in Nat, NEW t \in Nat
  PROVE  NewEntry(n, t) \in StorageEntry /\ NewEntry(n, t).count = n
         /\ NewEntry(n, t).window_start = t
  BY DEF NewEntry, StorageEntry

LEMMA WindowsType == AllWindows \subseteq Nat /\ Windows \subseteq AllWindows /\ 0 \in AllWindows
  BY OpsAssumption DEF AllWindows

LEMMA EntriesType == \A e \in Entries : e \in StorageEntry /\ e.window_start \in AllWindows
<1> SUFFICES ASSUME NEW e \in Entries
             PROVE  e \in StorageEntry /\ e.window_start \in AllWindows
  OBVIOUS
<1>1. PICK c \in 1..MaxCount, ws \in Windows : e = NewEntry(c, ws)
  BY DEF Entries
<1>2. c \in Nat /\ ws \in Nat /\ ws \in AllWindows
  BY OpsAssumption, WindowsType
<1> QED
  BY <1>1, <1>2, NewEntryType

LEMMA ArgumentFacts ==
  /\ \A a \in Arguments("set") : a.new \in Entries
  /\ \A a \in Arguments("increment") : a.window_start \in Windows
  /\ \A a \in Arguments("compare_and_swap") : a.new \in Entries
<1>1. ASSUME NEW a \in Arguments("set") PROVE a.new \in Entries
  <2>1. Arguments("set") = {[NoArg EXCEPT !.new = e] : e \in Entries}
    BY DEF Arguments
  <2>2. PICK e \in Entries : a = [NoArg EXCEPT !.new = e]
    BY <1>1, <2>1
  <2> QED
    BY <2>2 DEF NoArg
<1>2. ASSUME NEW a \in Arguments("increment") PROVE a.window_start \in Windows
  <2>1. Arguments("increment") = {[NoArg EXCEPT !.window_start = ws] : ws \in Windows}
    BY DEF Arguments
  <2>2. PICK ws \in Windows : a = [NoArg EXCEPT !.window_start = ws]
    BY <1>2, <2>1
  <2> QED
    BY <2>2 DEF NoArg
<1>3. ASSUME NEW a \in Arguments("compare_and_swap") PROVE a.new \in Entries
  <2>1. Arguments("compare_and_swap") =
          [new : Entries, expected : Entries \cup {None}, window_start : {0}]
    BY DEF Arguments
  <2>2. \A A, B, C, r : r \in [new : A, expected : B, window_start : C] => r.new \in A
    OBVIOUS
  <2>3. a \in [new : Entries, expected : Entries \cup {None}, window_start : {0}]
    BY Zenon, <1>3, <2>1
  <2> QED
    BY Zenon, <2>2, <2>3
<1> QED
  BY <1>1, <1>2, <1>3

LEMMA ArgumentType ==
  ASSUME NEW op \in Operations
  PROVE  NoArg \in Argument /\ Arguments(op) \subseteq Argument
<1>1. NoArg \in Argument
  BY DEF NoArg, Argument
<1> SUFFICES ASSUME NEW a \in Arguments(op) PROVE a \in Argument
  BY <1>1
<1>2. CASE op = "set"
  <2>1. Arguments(op) = {[NoArg EXCEPT !.new = e] : e \in Entries}
    BY <1>2 DEF Arguments
  <2>2. PICK e \in Entries : a = [NoArg EXCEPT !.new = e]
    BY <2>1
  <2>3. e \in StorageEntry
    BY EntriesType
  <2> QED
    BY <2>2, <2>3 DEF NoArg, Argument
<1>3. CASE op = "increment"
  <2>1. Arguments(op) = {[NoArg EXCEPT !.window_start = ws] : ws \in Windows}
    BY <1>3 DEF Arguments
  <2>2. PICK ws \in Windows : a = [NoArg EXCEPT !.window_start = ws]
    BY <2>1
  <2>3. ws \in Nat
    BY OpsAssumption
  <2> QED
    BY <2>2, <2>3 DEF NoArg, Argument
<1>4. CASE op = "compare_and_swap"
  <2>1. Arguments(op) =
          [new : Entries, expected : Entries \cup {None}, window_start : {0}]
    BY <1>4 DEF Arguments
  <2>2. PICK e \in Entries, x \in Entries \cup {None} :
          a = [new |-> e, expected |-> x, window_start |-> 0]
    BY <2>1
  <2>3. e \in StorageEntry /\ x \in StorageEntry \cup {None}
    BY EntriesType
  <2> QED
    BY <2>2, <2>3 DEF Argument
<1>5. CASE op \notin {"set", "increment", "compare_and_swap"}
  <2>1. Arguments(op) = {NoArg}
    BY <1>5 DEF Arguments
  <2> QED
    BY <1>1, <2>1
<1> QED
  BY <1>2, <1>3, <1>4, <1>5

LEMMA IncrementedFacts ==
  ASSUME NEW current \in StorageEntry \cup {None}, NEW ws \in Nat, NEW t \in Nat
  PROVE  LET e == Incremented(current, 1, ws, t)
         IN  /\ e \in StorageEntry /\ e.window_start = ws
             /\ e.count = IF current /= None /\ current.window_start = ws
                            THEN current.count + 1 ELSE 1
<1> DEFINE n == IF current /= None /\ current.window_start = ws
                  THEN current.count + 1 ELSE 1
<1>1. n \in Nat
  BY DEF StorageEntry
<1> HIDE DEF n
<1>2. /\ NewEntry(n, ws) \in StorageEntry /\ NewEntry(n, ws).count = n
      /\ NewEntry(n, ws).window_start = ws
  BY <1>1, NewEntryType
<1>3. [NewEntry(n, ws) EXCEPT !.last_update = t] \in StorageEntry
  BY <1>2 DEF StorageEntry
<1>4. /\ [NewEntry(n, ws) EXCEPT !.last_update = t].count = n
      /\ [NewEntry(n, ws) EXCEPT !.last_update = t].window_start = ws
  BY <1>2 DEF StorageEntry
<1> QED
  BY <1>3, <1>4 DEF Incremented, n

LEMMA OperationType ==
  ASSUME NEW current \in StorageEntry \cup {None}
  PROVE  Operation(current) \in StorageEntry /\ Operation(current).window_start = 0
<1> DEFINE n == IF current = None \/ current.count >= MaxCount THEN 1 ELSE current.count + 1
<1>1. n \in Nat
  BY DEF StorageEntry
<1> HIDE DEF n
<1>2. NewEntry(n, 0) \in StorageEntry /\ NewEntry(n, 0).window_start = 0
  BY <1>1, NewEntryType
<1> QED
  BY <1>2 DEF Operation, n

LEMMA WrittenType ==
  ASSUME OpsTypeOK, OpsCalls, NEW w \in Workers, call[w].phase = "write",
         call[w].op /= "delete"
  PROVE  /\ Written(w) \in StorageEntry /\ Written(w).count \in Nat
         /\ Written(w).window_start \in AllWindows
         /\ call[w].op = "increment" => Written(w).window_start = arg[w].window_start
<1>1. /\ call[w].op \in {"set", "increment", "execute_atomic", "compare_and_swap"}
      /\ arg[w] \in Arguments(call[w].op)
  <2>1. call[w].op \in ops[w] /\ call[w].op /= "get" /\ arg[w] \in Arguments(call[w].op)
    BY DEF OpsCalls, Busy
  <2>2. ops[w] \subseteq Operations
    BY OpsAssumption DEF OpsTypeOK
  <2> QED
    BY <2>1, <2>2 DEF Operations
<1>2. call[w].current \in StorageEntry \cup {None} /\ clock \in Nat
  BY DEF OpsTypeOK, RedisTypeOK, Call
<1>3. \A e \in StorageEntry : e.count \in Nat
  BY DEF StorageEntry
<1>4. CASE call[w].op = "increment"
  <2>1. Written(w) = Incremented(call[w].current, 1, arg[w].window_start, clock)
    BY <1>4 DEF Written
  <2>2. arg[w].window_start \in Nat /\ arg[w].window_start \in AllWindows
    BY <1>1, <1>4, ArgumentFacts, WindowsType
  <2>3. Written(w) \in StorageEntry /\ Written(w).window_start = arg[w].window_start
    BY <1>2, <2>1, <2>2, IncrementedFacts
  <2> QED
    BY <1>3, <2>2, <2>3
<1>5. CASE call[w].op = "execute_atomic"
  <2>1. Written(w) = Operation(call[w].current)
    BY <1>5 DEF Written
  <2> QED
    BY <1>2, <1>3, <1>5, <2>1, OperationType, WindowsType
<1>6. CASE call[w].op \in {"set", "compare_and_swap"}
  <2>1. Written(w) = arg[w].new
    BY <1>6 DEF Written
  <2>2. arg[w].new \in Entries
    BY <1>1, <1>6, ArgumentFacts
  <2> QED
    BY <1>3, <1>6, <2>1, <2>2, EntriesType
<1> QED
  BY <1>1, <1>4, <1>5, <1>6

(***************************************************************************)
(* The kinds of steps                                                      *)
(***************************************************************************)
OpsShared == OpsTypeOK /\ PoolKept /\ OpsCalls

\* The call of w ends, and its connection, if it has one, goes back.
OpsEnded(w) ==
  /\ Busy(w)
  /\ call' = [call EXCEPT ![w] = NoCall]
  /\ free' = IF call[w].phase = "connect" THEN free ELSE free + 1
  /\ arg' = [arg EXCEPT ![w] = NoArg]
  /\ UNCHANGED <<clock, ops>>

\* The server carries out SETEX, and w learns of it or not.
OpsWriting(w) ==
  /\ call[w].phase = "write" /\ call[w].op \notin {"get", "delete"}
  /\ call[w].op = "compare_and_swap" => CasMatches(call[w].current, arg[w].expected)
  /\ Stored(w, Written(w))
  /\ Account(w, TRUE) \/ Account(w, FALSE)

OpsDeleting(w) ==
  /\ call[w].op = "delete"
  /\ store' = [store EXCEPT ![call[w].key] = None]
  /\ UNCHANGED <<acked, sent>>

OpsQuitting(w) == UNCHANGED <<store, acked, sent>>

OpsAdvancing(w) ==
  /\ Connect(w) \/ Read(w)
  /\ UNCHANGED <<ops, arg, acked, sent>>

LEMMA OpsStepCases ==
  ASSUME OpsShared, NEW w \in Workers, OpsStep(w)
  PROVE  OpsAdvancing(w) \/ (OpsEnded(w) /\ (OpsWriting(w) \/ OpsDeleting(w) \/ OpsQuitting(w)))
<1> USE DEF OpsShared, OpsTypeOK, RedisTypeOK
<1>1. Busy(w)' <=> call'[w].phase /= "idle"
  BY DEF Busy
<1>2. ASSUME HangUp(w), Busy(w), clock' = clock PROVE OpsEnded(w)
  <2>1. ~Busy(w)'
    BY <1>1, <1>2 DEF HangUp, NoCall
  <2> QED
    BY <1>2, <2>1 DEF HangUp, OpsEnded, OpsStep
<1>3. ASSUME Connect(w) \/ Read(w), UNCHANGED <<acked, sent>> PROVE OpsAdvancing(w)
  <2>1. call'[w].phase \in {"read", "write"}
    <3>1. call[w] \in Call
      OBVIOUS
    <3>2. CASE Connect(w)
      BY <3>1, <3>2 DEF Connect, Call
    <3>3. CASE Read(w)
      BY <3>1, <3>3 DEF Read, Call
    <3> QED
      BY <1>3, <3>2, <3>3
  <2>2. Busy(w)'
    BY <1>1, <2>1
  <2> QED
    BY <1>3, <2>2 DEF OpsAdvancing, OpsStep
<1>4. CASE WriteDone(w)
  <2>1. OpsEnded(w)
    BY <1>2, <1>4 DEF WriteDone, SetAnswered, Busy
  <2>2. call[w].op \notin {"get", "delete"}
    BY <1>4 DEF WriteDone, SetAnswered, OpsCalls
  <2>3. Refused(w) => OpsQuitting(w)
    BY <1>4 DEF WriteDone, SetAnswered, OpsQuitting
  <2>4. ~Refused(w) => OpsWriting(w)
    BY <1>4, <2>2 DEF WriteDone, SetAnswered, OpsWriting
  <2> QED
    BY <2>1, <2>3, <2>4
<1>5. CASE WriteUnanswered(w)
  <2>1. OpsEnded(w)
    BY <1>2, <1>5 DEF WriteUnanswered, SetUnanswered, Busy
  <2>2. call[w].op \notin {"get", "delete"}
    BY <1>5 DEF WriteUnanswered, SetUnanswered, OpsCalls
  <2>3. OpsWriting(w)
    BY <1>5, <2>2 DEF WriteUnanswered, SetUnanswered, OpsWriting
  <2> QED
    BY <2>1, <2>3
<1>6. CASE Other(w)
  <2>1. CASE Connect(w) \/ Read(w)
    BY <1>3, <1>6, <2>1 DEF Other
  <2>2. CASE DeleteDone(w) \/ DeleteUnanswered(w)
    <3>1. OpsEnded(w)
      BY <1>2, <2>2 DEF DeleteDone, DeleteUnanswered, Busy
    <3> QED
      BY <1>6, <2>2, <3>1 DEF DeleteDone, DeleteUnanswered, OpsDeleting, Other
  <2>3. CASE GetDone(w) \/ CasMismatch(w, arg[w].expected) \/ Fail(w)
    <3>1. OpsEnded(w)
      BY <1>2, <2>3 DEF GetDone, CasMismatch, Fail, Busy
    <3> QED
      BY <1>6, <2>3, <3>1 DEF GetDone, CasMismatch, Fail, OpsQuitting, Other
  <2> QED
    BY <1>6, <2>1, <2>2, <2>3 DEF Other
<1> QED
  BY <1>4, <1>5, <1>6 DEF OpsStep

LEMMA OpsNextCases ==
  ASSUME OpsShared, [OpsNext]_opsVars
  PROVE  \/ Tick /\ UNCHANGED <<ops, arg, acked, sent>>
         \/ UNCHANGED opsVars
         \/ \E w \in Workers : \E op \in ops[w], k \in Keys : OpsStart(w, op, k)
         \/ \E w \in Workers : OpsAdvancing(w)
         \/ \E w \in Workers : OpsEnded(w) /\ (OpsWriting(w) \/ OpsDeleting(w) \/ OpsQuitting(w))
  BY OpsStepCases DEF OpsNext

LEMMA OpsStartFacts ==
  ASSUME OpsShared, NEW w \in Workers, NEW op \in ops[w], NEW k \in Keys, OpsStart(w, op, k)
  PROVE  /\ ~Busy(w) /\ Busy(w)' /\ op \in Operations
         /\ call' = [call EXCEPT ![w] = call'[w]] /\ call' \in [Workers -> Call]
         /\ call'[w].phase = "connect" /\ call'[w].op = op /\ call'[w].key = k
         /\ arg' = [arg EXCEPT ![w] = arg'[w]] /\ arg'[w] \in Arguments(op)
         /\ arg' \in [Workers -> Argument]
         /\ UNCHANGED <<clock, store, free, ops, acked, sent>>
<1> USE DEF OpsShared, OpsTypeOK, RedisTypeOK
<1>1. op \in Operations
  BY OpsAssumption
<1>2. PICK ttl \in Ttls : Begin(w, op, k, ttl)
  BY DEF OpsStart
<1>3. ttl \in Nat
  BY OpsAssumption
<1>4. call' = [call EXCEPT ![w] = [NoCall EXCEPT !.phase = "connect", !.op = op,
                                                !.key = k, !.ttl = ttl]]
  BY <1>2 DEF Begin
<1>5. [NoCall EXCEPT !.phase = "connect", !.op = op, !.key = k, !.ttl = ttl] \in Call
  BY <1>1, <1>3 DEF NoCall, Call, Phases
<1>6. call'[w].phase = "connect" /\ call'[w].op = op /\ call'[w].key = k
  BY <1>4 DEF NoCall
<1>7. PICK a \in Arguments(op) : arg' = [arg EXCEPT ![w] = a]
  BY DEF OpsStart
<1>8. arg' \in [Workers -> Argument] /\ arg' = [arg EXCEPT ![w] = arg'[w]]
      /\ arg'[w] \in Arguments(op)
  <2>1. a \in Argument
    BY <1>1, ArgumentType
  <2> QED
    BY <1>7, <2>1
<1>9. ~Busy(w) /\ UNCHANGED <<clock, store, free, ops, acked, sent>>
  BY <1>2 DEF OpsStart, Begin
<1>10. call' \in [Workers -> Call] /\ call' = [call EXCEPT ![w] = call'[w]]
  BY <1>4, <1>5
<1> QED
  BY <1>1, <1>6, <1>8, <1>9, <1>10 DEF Busy

LEMMA OpsAdvanceFacts ==
  ASSUME OpsShared, NEW w \in Workers, OpsAdvancing(w)
  PROVE  /\ Busy(w) /\ Busy(w)' /\ call[w].phase \in {"connect", "read"}
         /\ call' = [call EXCEPT ![w] = call'[w]] /\ call' \in [Workers -> Call]
         /\ call'[w].op = call[w].op /\ call'[w].key = call[w].key
         /\ \/ /\ call[w].phase = "connect" /\ free > 0 /\ free' = free - 1
               /\ \/ call'[w].phase = "write" /\ call[w].op \in {"set", "delete"}
                  \/ call'[w].phase = "read" /\ call[w].op \notin {"set", "delete"}
            \/ /\ call[w].phase = "read" /\ free' = free
               /\ call'[w].phase = "write" /\ call[w].op /= "get"
               /\ call'[w].current = Live(call[w].key)
         /\ UNCHANGED <<clock, store, ops, arg, acked, sent>>
<1> USE DEF OpsShared, OpsTypeOK, RedisTypeOK
<1>1. UNCHANGED <<ops, arg, acked, sent>>
  BY DEF OpsAdvancing
<1>2. CASE Connect(w)
  <2> DEFINE p == IF call[w].op \in {"set", "delete"} THEN "write" ELSE "read"
  <2>1. call' = [call EXCEPT ![w] = [call[w] EXCEPT !.phase = p]]
    BY <1>2 DEF Connect
  <2>2. p \in {"read", "write"}
    OBVIOUS
  <2>3. /\ call[w].phase = "connect" /\ free > 0 /\ free' = free - 1
        /\ UNCHANGED <<clock, store>>
    BY <1>2 DEF Connect
  <2>4. call[w] \in Call
    OBVIOUS
  <2>5. \/ p = "write" /\ call[w].op \in {"set", "delete"}
        \/ p = "read" /\ call[w].op \notin {"set", "delete"}
    OBVIOUS
  <2> HIDE DEF p
  <2>6. [call[w] EXCEPT !.phase = p] \in Call
    BY <2>2, <2>4 DEF Call, Phases
  <2>7. call'[w] = [call[w] EXCEPT !.phase = p] /\ call' \in [Workers -> Call]
    BY <2>1, <2>6
  <2>8. call'[w].phase = p /\ call'[w].op = call[w].op /\ call'[w].key = call[w].key
    BY <2>4, <2>7 DEF Call
  <2>9. call' = [call EXCEPT ![w] = call'[w]]
    BY <2>1, <2>7
  <2> QED
    BY <1>1, <2>2, <2>3, <2>5, <2>7, <2>8, <2>9 DEF Busy
<1>3. CASE Read(w)
  <2> DEFINE c == [call[w] EXCEPT !.phase = "write", !.current = Live(call[w].key)]
  <2>1. /\ call[w].phase = "read" /\ call[w].op /= "get" /\ call' = [call EXCEPT ![w] = c]
        /\ UNCHANGED <<clock, store, free>>
    BY <1>3 DEF Read
  <2>2. call[w] \in Call /\ call[w].key \in Keys
    BY <2>1 DEF OpsCalls, Busy
  <2>3. Live(call[w].key) \in StorageEntry \cup {None}
    BY <2>2 DEF Live, Value
  <2>4. /\ c \in Call /\ c.phase = "write" /\ c.op = call[w].op /\ c.key = call[w].key
        /\ c.current = Live(call[w].key)
    BY <2>2, <2>3 DEF Call, Phases
  <2> HIDE DEF c
  <2>5. call'[w] = c /\ call' \in [Workers -> Call] /\ call' = [call EXCEPT ![w] = call'[w]]
    BY <2>1, <2>4
  <2> QED
    BY <1>1, <2>1, <2>4, <2>5 DEF Busy
<1> QED
  BY <1>2, <1>3 DEF OpsAdvancing

LEMMA OpsEndedFacts ==
  ASSUME OpsShared, NEW w \in Workers, OpsEnded(w)
  PROVE  /\ call'[w] = NoCall /\ ~Busy(w)' /\ call'[w].op = None
         /\ call' = [call EXCEPT ![w] = call'[w]] /\ call' \in [Workers -> Call]
         /\ arg' \in [Workers -> Argument] /\ arg' = [arg EXCEPT ![w] = arg'[w]]
         /\ call[w].op \in Operations /\ call[w].key \in Keys
         /\ UNCHANGED <<clock, ops>>
<1> USE DEF OpsShared, OpsTypeOK, RedisTypeOK
<1>1. call'[w] = NoCall /\ call' \in [Workers -> Call]
  BY NoCallType DEF OpsEnded
<1>2. call[w].op \in Operations /\ call[w].key \in Keys
  BY OpsAssumption DEF OpsEnded, OpsCalls
<1>3. NoArg \in Argument
  BY <1>2, ArgumentType
<1>4. arg' \in [Workers -> Argument] /\ arg' = [arg EXCEPT ![w] = arg'[w]]
  BY <1>3 DEF OpsEnded
<1>5. ~Busy(w)' /\ call'[w].op = None
  BY <1>1 DEF Busy, NoCall
<1> QED
  BY <1>1, <1>2, <1>4, <1>5 DEF OpsEnded

\* The value that w writes.
OpsNewValue(w) == [entry |-> Written(w), expires_at |-> clock + TtlMs(call[w].ttl)]

\* What was sent grows by what w writes, in its window only, and an increment
\* adds one.
LEMMA WriteSent ==
  ASSUME OpsShared, NEW w \in Workers, OpsEnded(w), OpsWriting(w),
         NEW k \in Keys, k = call[w].key
  PROVE  \E n \in Nat :
           /\ sent' = [sent EXCEPT ![k][Written(w).window_start] = n]
           /\ n >= sent[k][Written(w).window_start]
           /\ IF call[w].op = "increment" THEN n = sent[k][Written(w).window_start] + 1
                                          ELSE n >= Written(w).count
<1> DEFINE t == Written(w).window_start
           c == Written(w).count
<1>1. c \in Nat /\ t \in AllWindows
  BY WrittenType DEF OpsWriting, OpsShared
<1>2. sent[k][t] \in Nat
  BY <1>1 DEF OpsShared, OpsTypeOK
<1>3. CASE call[w].op = "increment"
  <2>1. sent' = [sent EXCEPT ![k][t] = @ + 1]
    BY <1>3 DEF OpsWriting, Account
  <2>2. sent' = [sent EXCEPT ![k][t] = sent[k][t] + 1]
    BY <2>1
  <2> HIDE DEF t
  <2>3. sent[k][t] + 1 \in Nat /\ sent[k][t] + 1 >= sent[k][t]
    BY <1>2
  <2> QED
    BY <1>3, <2>2, <2>3 DEF t
<1>4. CASE call[w].op /= "increment"
  <2> DEFINE n == IF sent[k][t] < c THEN c ELSE sent[k][t]
  <2>1. sent' = [sent EXCEPT ![k][t] = IF @ < c THEN c ELSE @]
    BY <1>4 DEF OpsWriting, Account
  <2>2. sent' = [sent EXCEPT ![k][t] = n]
    BY <2>1
  <2> HIDE DEF t, c
  <2>3. n \in Nat /\ n >= sent[k][t] /\ n >= c
    BY <1>1, <1>2
  <2> HIDE DEF n
  <2> QED
    BY <1>4, <2>2, <2>3 DEF t, c
<1> QED
  BY <1>3, <1>4

LEMMA OpsWriteFacts ==
  ASSUME OpsShared, NEW w \in Workers, OpsEnded(w), OpsWriting(w)
  PROVE  /\ OpsNewValue(w) \in Value
         /\ store' = [store EXCEPT ![call[w].key] = OpsNewValue(w)]
         /\ acked' \in [Keys -> Nat] /\ sent' \in [Keys -> [AllWindows -> Nat]]
         /\ \A k \in Keys \ {call[w].key} : acked'[k] = acked[k]
         /\ \A k \in Keys, t \in AllWindows : sent[k][t] <= sent'[k][t]
<1> USE DEF OpsShared, OpsTypeOK, RedisTypeOK
<1>1. /\ Written(w) \in StorageEntry /\ Written(w).count \in Nat
      /\ Written(w).window_start \in AllWindows
  BY WrittenType DEF OpsWriting
<1>2. clock + TtlMs(call[w].ttl) \in Nat
  <2>1. call[w].ttl \in Nat /\ clock \in Nat
    BY DEF Call
  <2>2. TtlMs(call[w].ttl) \in Nat
    BY <2>1, TtlMsType
  <2> QED
    BY <2>1, <2>2
<1>3. OpsNewValue(w) \in Value /\ store' = [store EXCEPT ![call[w].key] = OpsNewValue(w)]
  BY <1>1, <1>2 DEF OpsNewValue, Value, OpsWriting, Stored
<1>4. call[w].key \in Keys
  BY OpsEndedFacts
<1>5. PICK k \in Keys : k = call[w].key
  BY <1>4
<1>6. \E a \in Nat : acked' = [acked EXCEPT ![k] = a]
  <2>1. CASE call[w].op = "increment"
    <3> DEFINE n == IF InWindow(Live(k), w) THEN acked[k] ELSE 0
    <3>1. n \in Nat /\ 1 + n \in Nat /\ 0 + n \in Nat
      OBVIOUS
    <3>2. \/ acked' = [acked EXCEPT ![k] = 1 + n]
          \/ acked' = [acked EXCEPT ![k] = 0 + n]
          \/ acked' = [acked EXCEPT ![k] = 0]
      BY <1>5, <2>1 DEF OpsWriting, Account
    <3> HIDE DEF n
    <3> QED
      BY <3>1, <3>2
  <2>2. CASE call[w].op /= "increment"
    <3>1. acked' = [acked EXCEPT ![k] = Written(w).count]
      BY <1>5, <2>2 DEF OpsWriting, Account
    <3> QED
      BY <1>1, <3>1
  <2> QED
    BY <2>1, <2>2
<1>7. PICK a \in Nat : acked' = [acked EXCEPT ![k] = a]
  BY <1>6
<1>8. acked' \in [Keys -> Nat] /\ \A j \in Keys \ {call[w].key} : acked'[j] = acked[j]
  BY <1>5, <1>7
<1>9. PICK n \in Nat : /\ sent' = [sent EXCEPT ![k][Written(w).window_start] = n]
                       /\ n >= sent[k][Written(w).window_start]
  BY <1>5, WriteSent
<1>10. sent' = [sent EXCEPT ![k] = [sent[k] EXCEPT ![Written(w).window_start] = n]]
  BY <1>9
<1>11. /\ sent[k] \in [AllWindows -> Nat]
       /\ [sent[k] EXCEPT ![Written(w).window_start] = n] \in [AllWindows -> Nat]
  OBVIOUS
<1>12. sent' \in [Keys -> [AllWindows -> Nat]]
  BY <1>10, <1>11
<1>13. ASSUME NEW j \in Keys, NEW t \in AllWindows PROVE sent[j][t] <= sent'[j][t]
  <2>1. sent[j][t] \in Nat
    OBVIOUS
  <2>2. sent'[j][t] = sent[j][t] \/ (j = k /\ t = Written(w).window_start /\ sent'[j][t] = n)
    BY <1>10, <1>11
  <2> QED
    BY <1>9, <2>1, <2>2
<1> QED
  BY <1>3, <1>8, <1>12, <1>13

(***************************************************************************)
(* Types, the pool and the calls                                           *)
(***************************************************************************)
LEMMA OpsEndedPool ==
  ASSUME OpsShared, NEW w \in Workers, OpsEnded(w)
  PROVE  PoolKept' /\ free' \in 0..Connections
<1> USE DEF OpsShared, OpsTypeOK, RedisTypeOK
<1>1. call'[w] = NoCall /\ call' = [call EXCEPT ![w] = call'[w]]
  BY OpsEndedFacts
<1>2. call'[w].phase \notin {"read", "write"}
  BY <1>1 DEF NoCall
<1>3. w \in Connected <=> call[w].phase /= "connect"
  BY DEF Connected, OpsEnded, Busy, Call, Phases
<1>4. free' = IF w \in Connected THEN free + 1 ELSE free
  BY <1>3 DEF OpsEnded
<1> QED
  BY <1>1, <1>2, <1>4, PoolStep

LEMMA AdvancePool ==
  ASSUME OpsShared, NEW w \in Workers, OpsAdvancing(w)
  PROVE  PoolKept' /\ free' \in 0..Connections
<1>1. call' = [call EXCEPT ![w] = call'[w]] /\ call'[w].phase \in {"read", "write"}
  BY OpsAdvanceFacts
<1>2. \/ w \notin Connected /\ free > 0 /\ free' = free - 1
      \/ w \in Connected /\ free' = free
  BY OpsAdvanceFacts DEF Connected
<1> QED
  BY <1>1, <1>2, PoolStep DEF OpsShared, OpsTypeOK

LEMMA OpsTypeStep ==
  ASSUME OpsShared, [OpsNext]_opsVars
  PROVE  OpsTypeOK' /\ PoolKept'
<1> USE DEF OpsShared, OpsTypeOK, RedisTypeOK
<1>1. CASE Tick /\ UNCHANGED <<ops, arg, acked, sent>>
  BY <1>1 DEF Tick, PoolKept, Connected
<1>2. CASE UNCHANGED opsVars
  BY <1>2 DEF opsVars, redisVars, PoolKept, Connected
<1>3. ASSUME NEW w \in Workers, NEW op \in ops[w], NEW k \in Keys, OpsStart(w, op, k)
      PROVE  OpsTypeOK' /\ PoolKept'
  <2>1. Connected' = Connected
    <3>1. call[w].phase = "idle" /\ call'[w].phase = "connect"
      BY <1>3, OpsStartFacts DEF Busy
    <3>2. call' = [call EXCEPT ![w] = call'[w]]
      BY <1>3, OpsStartFacts
    <3> QED
      BY <3>1, <3>2 DEF Connected
  <2>2. UNCHANGED <<clock, store, free, ops, acked, sent>>
    BY <1>3, OpsStartFacts
  <2>3. PoolKept'
    BY <2>1, <2>2 DEF PoolKept
  <2> QED
    BY <1>3, <2>2, <2>3, OpsStartFacts
<1>4. ASSUME NEW w \in Workers, OpsAdvancing(w)
      PROVE  OpsTypeOK' /\ PoolKept'
  BY <1>4, OpsAdvanceFacts, AdvancePool
<1>5. ASSUME NEW w \in Workers, OpsEnded(w), OpsWriting(w) \/ OpsDeleting(w) \/ OpsQuitting(w)
      PROVE  OpsTypeOK' /\ PoolKept'
  <2>1. /\ call' \in [Workers -> Call] /\ arg' \in [Workers -> Argument]
        /\ UNCHANGED <<clock, ops>>
    BY <1>5, OpsEndedFacts
  <2>2. PoolKept' /\ free' \in 0..Connections
    BY <1>5, OpsEndedPool
  <2>3. /\ store' \in [Keys -> Value \cup {None}]
        /\ acked' \in [Keys -> Nat] /\ sent' \in [Keys -> [AllWindows -> Nat]]
    <3>1. CASE OpsWriting(w)
      BY <1>5, <3>1, OpsWriteFacts
    <3>2. CASE OpsDeleting(w)
      BY <3>2 DEF OpsDeleting
    <3>3. CASE OpsQuitting(w)
      BY <3>3 DEF OpsQuitting
    <3> QED
      BY <1>5, <3>1, <3>2, <3>3
  <2> QED
    BY <2>1, <2>2, <2>3
<1> QED
  BY Zenon, <1>1, <1>2, <1>3, <1>4, <1>5, OpsNextCases DEF OpsShared

LEMMA OpsCallsStep ==
  ASSUME OpsShared, [OpsNext]_opsVars
  PROVE  OpsCalls'
<1> USE DEF OpsShared, OpsTypeOK, RedisTypeOK
<1> DEFINE Made(x) == /\ ~Busy(x) => call[x].op = None
                      /\ Busy(x) => /\ call[x].op \in ops[x]
                                    /\ call[x].key \in Keys
                                    /\ arg[x] \in Arguments(call[x].op)
                      /\ call[x].phase = "read" => call[x].op \notin {"set", "delete"}
                      /\ call[x].phase = "write" => call[x].op /= "get"
<1> SUFFICES ASSUME NEW v \in Workers
             PROVE  Made(v)'
  BY DEF OpsCalls
<1>0. None \notin Operations
  BY RedisAssumption
<1>1. CASE call'[v] = call[v] /\ arg'[v] = arg[v] /\ ops' = ops
  <2>1. Made(v)
    BY DEF OpsCalls
  <2>2. Busy(v)' <=> Busy(v)
    BY <1>1 DEF Busy
  <2>3. Arguments(call[v].op)' = Arguments(call[v].op)
    BY <1>1 DEF Arguments, Entries
  <2> QED
    BY <1>1, <2>1, <2>2, <2>3
<1>2. CASE Tick /\ UNCHANGED <<ops, arg, acked, sent>>
  BY <1>1, <1>2 DEF Tick
<1>3. CASE UNCHANGED opsVars
  BY <1>1, <1>3 DEF opsVars, redisVars
<1>4. ASSUME NEW w \in Workers, NEW op \in ops[w], NEW k \in Keys, OpsStart(w, op, k)
      PROVE  Made(v)'
  <2>1. CASE v = w
    <3>1. /\ Busy(w)' /\ call'[w].phase = "connect" /\ call'[w].op = op /\ call'[w].key = k
          /\ arg'[w] \in Arguments(op) /\ ops' = ops
      BY <1>4, OpsStartFacts
    <3> QED
      BY <2>1, <3>1 DEF Arguments, Entries
  <2>2. CASE v /= w
    <3>1. call'[v] = call[v] /\ arg'[v] = arg[v] /\ ops' = ops
      BY <1>4, <2>2, OpsStartFacts
    <3> QED
      BY <1>1, <3>1
  <2> QED
    BY <2>1, <2>2
<1>5. ASSUME NEW w \in Workers, OpsAdvancing(w)
      PROVE  Made(v)'
  <2>1. CASE v = w
    <3>1. /\ Busy(w) /\ Busy(w)' /\ call'[w].op = call[w].op /\ call'[w].key = call[w].key
          /\ call'[w].phase = "read" => call[w].op \notin {"set", "delete"}
          /\ call'[w].phase = "write" => call[w].op /= "get"
          /\ arg' = arg /\ ops' = ops
      BY <1>5, OpsAdvanceFacts
    <3>2. /\ call[w].op \in ops[w] /\ call[w].key \in Keys
          /\ arg[w] \in Arguments(call[w].op)
      BY <3>1 DEF OpsCalls
    <3>3. Arguments(call'[w].op) = Arguments(call[w].op)
      BY Zenon, <3>1
    <3> QED
      BY <2>1, <3>1, <3>2, <3>3
  <2>2. CASE v /= w
    <3>1. call'[v] = call[v] /\ arg'[v] = arg[v] /\ ops' = ops
      BY <1>5, <2>2, OpsAdvanceFacts
    <3> QED
      BY <1>1, <3>1
  <2> QED
    BY <2>1, <2>2
<1>6. ASSUME NEW w \in Workers, OpsEnded(w)
      PROVE  Made(v)'
  <2>1. CASE v = w
    <3>1. ~Busy(w)' /\ call'[w].op = None /\ call'[w].phase = "idle"
      BY <1>6, OpsEndedFacts DEF Busy
    <3> QED
      BY <2>1, <3>1
  <2>2. CASE v /= w
    <3>1. call'[v] = call[v] /\ arg'[v] = arg[v] /\ ops' = ops
      BY <1>6, <2>2, OpsEndedFacts
    <3> QED
      BY <1>1, <3>1
  <2> QED
    BY <2>1, <2>2
<1> QED
  BY Zenon, <1>2, <1>3, <1>4, <1>5, <1>6, OpsNextCases DEF OpsShared

(***************************************************************************)
(* What a task that is alone has read                                      *)
(***************************************************************************)
LEMMA OpsFixed ==
  ASSUME OpsShared, [OpsNext]_opsVars
  PROVE  ops' = ops /\ clock \in Nat /\ clock' \in Nat /\ clock <= clock'
<1> USE DEF OpsShared, OpsTypeOK, RedisTypeOK
<1>1. CASE Tick /\ UNCHANGED <<ops, arg, acked, sent>>
  BY <1>1 DEF Tick
<1>2. CASE UNCHANGED opsVars
  BY <1>2 DEF opsVars, redisVars
<1>3. ASSUME NEW w \in Workers, NEW op \in ops[w], NEW k \in Keys, OpsStart(w, op, k)
      PROVE  UNCHANGED <<clock, ops>>
  BY <1>3, OpsStartFacts
<1>4. ASSUME NEW w \in Workers, OpsAdvancing(w)
      PROVE  UNCHANGED <<clock, ops>>
  BY <1>4, OpsAdvanceFacts
<1>5. ASSUME NEW w \in Workers, OpsEnded(w)
      PROVE  UNCHANGED <<clock, ops>>
  BY <1>5, OpsEndedFacts
<1>6. CASE UNCHANGED <<clock, ops>>
  BY <1>6
<1> QED
  BY <1>1, <1>2, <1>3, <1>4, <1>5, <1>6, OpsNextCases

LEMMA LoneStays ==
  ASSUME OpsShared, [OpsNext]_opsVars, NEW w \in Workers, Lone(w)',
         call'[w].phase = "write", call'[w].op \notin {"set", "delete"}
  PROVE  /\ Lone(w)
         /\ \/ call'[w] = call[w] /\ store' = store
            \/ /\ store' = store /\ clock' = clock /\ call'[w].key = call[w].key
               /\ call'[w].current = Live(call[w].key)
<1> USE DEF OpsShared, OpsTypeOK, RedisTypeOK
<1>1. ops' = ops
  BY OpsFixed
<1>2. Lone(w)
  BY <1>1 DEF Lone
<1>3. CASE Tick /\ UNCHANGED <<ops, arg, acked, sent>>
  BY <1>2, <1>3 DEF Tick
<1>4. CASE UNCHANGED opsVars
  BY <1>2, <1>4 DEF opsVars, redisVars
<1>5. ASSUME NEW v \in Workers, NEW op \in ops[v], NEW k \in Keys, OpsStart(v, op, k)
      PROVE  FALSE
  <2>1. v = w
    BY <1>2 DEF Lone
  <2> QED
    BY <1>5, <2>1, OpsStartFacts
<1>6. ASSUME NEW v \in Workers, OpsAdvancing(v)
      PROVE  /\ store' = store /\ clock' = clock /\ call'[w].key = call[w].key
             /\ call'[w].current = Live(call[w].key)
  <2>1. ops[v] /= {}
    <3>1. Busy(v)
      BY <1>6, OpsAdvanceFacts
    <3> QED
      BY <3>1 DEF OpsCalls
  <2>2. v = w
    BY <1>2, <2>1 DEF Lone
  <2> QED
    BY <1>6, <2>2, OpsAdvanceFacts
<1>7. ASSUME NEW v \in Workers, OpsEnded(v)
      PROVE  FALSE
  <2>1. ops[v] /= {}
    BY <1>7 DEF OpsEnded, OpsCalls
  <2>2. v = w
    BY <1>2, <2>1 DEF Lone
  <2> QED
    BY <1>7, <2>2, OpsEndedFacts DEF NoCall
<1> QED
  BY <1>2, <1>3, <1>4, <1>5, <1>6, <1>7, OpsNextCases

LEMMA ReadStandsStep ==
  ASSUME OpsShared, ReadStands, [OpsNext]_opsVars
  PROVE  ReadStands'
<1> USE DEF OpsShared, OpsTypeOK, RedisTypeOK
<1>1. OpsTypeOK' /\ OpsCalls'
  BY OpsTypeStep, OpsCallsStep
<1> SUFFICES ASSUME NEW w \in Workers, call'[w].phase = "write",
                    call'[w].op \notin {"set", "delete"}, Lone(w)'
             PROVE  IF call'[w].current = None
                      THEN Live(call[w].key)' = None
                      ELSE /\ store'[call'[w].key] /= None
                           /\ store'[call'[w].key].entry = call'[w].current
  BY DEF ReadStands, Lone
<1>2. call'[w].key \in Keys
  BY <1>1 DEF OpsCalls, Busy
<1>3. PICK k \in Keys : k = call'[w].key
  BY <1>2
<1>4. Lone(w)
  BY LoneStays
<1>5. CASE call'[w] = call[w] /\ store' = store
  <2>1. IF call[w].current = None THEN Live(k) = None
        ELSE store[k] /= None /\ store[k].entry = call[w].current
    BY <1>3, <1>4, <1>5 DEF ReadStands, Lone
  <2>2. CASE call[w].current = None
    <3>1. store[k] = None \/ ~(store[k].expires_at > clock)
      <4>1. store[k] /= None => store[k].entry /= None
        BY RedisAssumption DEF Value
      <4> QED
        BY <2>1, <2>2, <4>1 DEF Live
    <3>2. clock \in Nat /\ clock' \in Nat /\ clock <= clock'
      BY OpsFixed
    <3>3. store[k] /= None => store[k].expires_at \in Nat
      BY DEF Value
    <3>4. store[k] = None \/ ~(store[k].expires_at > clock')
      BY <3>1, <3>2, <3>3
    <3>5. Live(call[w].key)' = None
      BY <1>3, <1>5, <3>4 DEF Live
    <3> QED
      BY <1>5, <2>2, <3>5
  <2>3. CASE call[w].current /= None
    BY <1>3, <1>5, <2>1, <2>3
  <2> QED
    BY <2>2, <2>3
<1>6. CASE /\ store' = store /\ clock' = clock /\ call'[w].key = call[w].key
           /\ call'[w].current = Live(call[w].key)
  <2>1. Live(call[w].key)' = Live(k) /\ call'[w].current = Live(k)
    BY <1>3, <1>6 DEF Live
  <2>2. Live(k) /= None => store[k] /= None /\ store[k].entry = Live(k)
    BY DEF Live
  <2> QED
    BY <1>3, <1>6, <2>1, <2>2
<1> QED
  BY <1>5, <1>6, LoneStays

(***************************************************************************)
(* What was sent                                                           *)
(***************************************************************************)
LEMMA SentGrows ==
  ASSUME OpsShared, [OpsNext]_opsVars
  PROVE  \A k \in Keys, t \in AllWindows : sent[k][t] <= sent'[k][t]
<1>1. CASE sent' = sent
  BY <1>1 DEF OpsShared, OpsTypeOK
<1>2. CASE Tick /\ UNCHANGED <<ops, arg, acked, sent>>
  BY <1>1, <1>2
<1>3. CASE UNCHANGED opsVars
  BY <1>1, <1>3 DEF opsVars
<1>4. ASSUME NEW w \in Workers, NEW op \in ops[w], NEW k \in Keys, OpsStart(w, op, k)
      PROVE  sent' = sent
  BY <1>4, OpsStartFacts
<1>5. ASSUME NEW w \in Workers, OpsAdvancing(w)
      PROVE  sent' = sent
  BY <1>5, OpsAdvanceFacts
<1>6. ASSUME NEW w \in Workers, OpsEnded(w), OpsWriting(w)
      PROVE  \A k \in Keys, t \in AllWindows : sent[k][t] <= sent'[k][t]
  BY <1>6, OpsWriteFacts
<1>7. ASSUME NEW w \in Workers, OpsDeleting(w) \/ OpsQuitting(w)
      PROVE  sent' = sent
  BY <1>7 DEF OpsDeleting, OpsQuitting
<1> QED
  BY <1>1, <1>2, <1>3, <1>4, <1>5, <1>6, <1>7, OpsNextCases

\* An entry that was sent stays so.
LEMMA WasSentStays ==
  ASSUME OpsShared, [OpsNext]_opsVars, NEW k \in Keys, NEW e \in StorageEntry, WasSent(k, e)
  PROVE  e.window_start \in AllWindows /\ e.count <= sent'[k][e.window_start]
<1> DEFINE t == e.window_start
<1>1. t \in AllWindows /\ e.count <= sent[k][t] /\ sent[k][t] <= sent'[k][t]
  BY SentGrows DEF WasSent
<1>2. e.count \in Nat
  BY DEF StorageEntry
<1>3. sent[k][t] \in Nat
  BY <1>1 DEF OpsShared, OpsTypeOK
<1>4. sent'[k][t] \in Nat
  BY <1>1, OpsTypeStep DEF OpsTypeOK
<1> HIDE DEF t
<1>5. e.count <= sent'[k][t]
  BY <1>1, <1>2, <1>3, <1>4
<1> QED
  BY <1>1, <1>5 DEF t

\* What w writes was sent with it, also when it goes on from what has expired, was
\* deleted or replaced since w read it.
LEMMA WrittenWasSent ==
  ASSUME OpsShared, AllSent, NEW w \in Workers, OpsEnded(w), OpsWriting(w),
         NEW k \in Keys, k = call[w].key, sent' \in [Keys -> [AllWindows -> Nat]]
  PROVE  /\ Written(w).window_start \in AllWindows
         /\ Written(w).count <= sent'[k][Written(w).window_start]
<1> DEFINE t == Written(w).window_start
           c == Written(w).count
<1>1. c \in Nat /\ t \in AllWindows /\ (call[w].op = "increment" => t = arg[w].window_start)
  BY WrittenType DEF OpsWriting, OpsShared
<1>2. PICK n \in Nat :
        /\ sent' = [sent EXCEPT ![k][t] = n]
        /\ IF call[w].op = "increment" THEN n = sent[k][t] + 1 ELSE n >= c
  BY WriteSent
<1>3. sent'[k][t] = n /\ sent[k][t] \in Nat
  BY <1>1, <1>2 DEF OpsShared, OpsTypeOK
<1>4. CASE call[w].op /= "increment"
  BY <1>1, <1>2, <1>3, <1>4
<1>5. CASE call[w].op = "increment"
  <2> DEFINE cur == call[w].current
  <2>1. /\ cur \in StorageEntry \cup {None} /\ clock \in Nat
        /\ arg[w].window_start \in Nat /\ arg[w].window_start = t
    BY <1>1, <1>5 DEF OpsShared, OpsTypeOK, RedisTypeOK, Call, Argument
  <2>2. Written(w) = Incremented(cur, 1, arg[w].window_start, clock)
    BY <1>5 DEF Written
  <2>3. cur /= None => WasSent(k, cur)
    BY DEF AllSent, OpsEnded
  <2>4. c = IF cur /= None /\ cur.window_start = t THEN cur.count + 1 ELSE 1
    <3> DEFINE ws == arg[w].window_start
    <3>1. Written(w) = Incremented(cur, 1, ws, clock) /\ ws = t
      BY <2>1, <2>2
    <3>2. cur \in StorageEntry \cup {None} /\ ws \in Nat /\ clock \in Nat
      BY <2>1
    <3> HIDE DEF cur, ws, t
    <3>3. Incremented(cur, 1, ws, clock).count =
            IF cur /= None /\ cur.window_start = ws THEN cur.count + 1 ELSE 1
      BY <3>2, IncrementedFacts
    <3> QED
      BY <3>1, <3>3
  <2> HIDE DEF cur
  <2>5. CASE cur /= None /\ cur.window_start = t
    <3>1. cur.count <= sent[k][t] /\ cur.count \in Nat
      BY <2>1, <2>3, <2>5 DEF WasSent, StorageEntry
    <3>2. c = cur.count + 1
      BY <2>4, <2>5
    <3> HIDE DEF c, t
    <3>3. c <= sent'[k][t]
      BY <1>1, <1>2, <1>3, <1>5, <3>1, <3>2
    <3> QED
      BY <1>1, <3>3 DEF c, t
  <2>6. CASE ~(cur /= None /\ cur.window_start = t)
    <3>1. c = 1
      BY <2>4, <2>6
    <3> HIDE DEF c, t
    <3>2. c <= sent'[k][t]
      BY <1>1, <1>2, <1>3, <1>5, <3>1
    <3> QED
      BY <1>1, <3>2 DEF c, t
  <2> QED
    BY <2>5, <2>6
<1> QED
  BY <1>1, <1>4, <1>5

\* What a key holds after a step it held before, or it was written in the step.
LEMMA OpsStoreStep ==
  ASSUME OpsShared, [OpsNext]_opsVars, NEW k \in Keys, store'[k] /= None
  PROVE  \/ store'[k] = store[k] /\ acked'[k] = acked[k]
         \/ \E w \in Workers : /\ OpsEnded(w) /\ OpsWriting(w) /\ k = call[w].key
                               /\ store'[k].entry = Written(w)
<1> USE DEF OpsShared, OpsTypeOK, RedisTypeOK
<1>1. CASE Tick /\ UNCHANGED <<ops, arg, acked, sent>>
  BY <1>1 DEF Tick
<1>2. CASE UNCHANGED opsVars
  BY <1>2 DEF opsVars, redisVars
<1>3. ASSUME NEW w \in Workers, NEW op \in ops[w], NEW j \in Keys, OpsStart(w, op, j)
      PROVE  UNCHANGED <<store, acked>>
  BY <1>3, OpsStartFacts
<1>4. ASSUME NEW w \in Workers, OpsAdvancing(w)
      PROVE  UNCHANGED <<store, acked>>
  BY <1>4, OpsAdvanceFacts
<1>5. ASSUME NEW w \in Workers, OpsEnded(w), OpsWriting(w)
      PROVE  \/ store'[k] = store[k] /\ acked'[k] = acked[k]
             \/ k = call[w].key /\ store'[k].entry = Written(w)
  <2>1. /\ store' = [store EXCEPT ![call[w].key] = OpsNewValue(w)]
        /\ k /= call[w].key => acked'[k] = acked[k]
    BY <1>5, OpsWriteFacts
  <2> QED
    BY <2>1 DEF OpsNewValue
<1>6. ASSUME NEW w \in Workers, OpsDeleting(w)
      PROVE  store'[k] = store[k] /\ acked'[k] = acked[k]
  <2>1. k /= call[w].key
    BY <1>6 DEF OpsDeleting
  <2> QED
    BY <1>6, <2>1 DEF OpsDeleting
<1>7. ASSUME NEW w \in Workers, OpsQuitting(w)
      PROVE  store'[k] = store[k] /\ acked'[k] = acked[k]
  BY <1>7 DEF OpsQuitting
<1> QED
  BY <1>1, <1>2, <1>3, <1>4, <1>5, <1>6, <1>7, OpsNextCases

\* What a call has read after a step it had read before, or it reads it in the
\* step from the server.
LEMMA OpsCurrentStep ==
  ASSUME OpsShared, [OpsNext]_opsVars, NEW w \in Workers, Busy(w)', call'[w].current /= None
  PROVE  \/ Busy(w) /\ call'[w] = call[w]
         \/ /\ store' = store /\ call'[w].key = call[w].key /\ call[w].key \in Keys
            /\ call'[w].current = Live(call[w].key)
         \/ Busy(w) /\ call'[w].key = call[w].key /\ call'[w].current = call[w].current
<1> USE DEF OpsShared, OpsTypeOK, RedisTypeOK
<1>1. CASE call' = call
  BY <1>1 DEF Busy
<1>2. CASE Tick /\ UNCHANGED <<ops, arg, acked, sent>>
  BY <1>1, <1>2 DEF Tick
<1>3. CASE UNCHANGED opsVars
  BY <1>1, <1>3 DEF opsVars, redisVars
<1>4. ASSUME NEW v \in Workers, NEW op \in ops[v], NEW k \in Keys, OpsStart(v, op, k)
      PROVE  Busy(w) /\ call'[w] = call[w]
  <2>1. PICK ttl \in Ttls : Begin(v, op, k, ttl)
    BY <1>4 DEF OpsStart
  <2>2. v = w => call'[w].current = None
    BY <2>1 DEF Begin, NoCall
  <2>3. call'[w] = call[w]
    BY <2>1, <2>2 DEF Begin
  <2> QED
    BY <2>3 DEF Busy
<1>5. ASSUME NEW v \in Workers, Connect(v)
      PROVE  Busy(w) /\ call'[w].key = call[w].key /\ call'[w].current = call[w].current
  <2>1. call[w] \in Call /\ call[v] \in Call
    OBVIOUS
  <2>2. call'[w].key = call[w].key /\ call'[w].current = call[w].current
    BY <1>5, <2>1 DEF Connect, Call
  <2>3. v /= w => call'[w].phase = call[w].phase
    BY <1>5, <2>1 DEF Connect, Call
  <2>4. Busy(w)
    BY <1>5, <2>3 DEF Connect, Busy
  <2> QED
    BY <2>2, <2>4
<1>6. ASSUME NEW v \in Workers, Read(v)
      PROVE  \/ Busy(w) /\ call'[w] = call[w]
             \/ /\ store' = store /\ call'[w].key = call[w].key /\ call[w].key \in Keys
                /\ call'[w].current = Live(call[w].key)
  <2>1. CASE v = w
    <3>1. call[w].key \in Keys
      BY <1>6, <2>1 DEF Read, OpsCalls, Busy
    <3>2. call'[w] = [call[w] EXCEPT !.phase = "write", !.current = Live(call[w].key)]
      BY <1>6, <2>1 DEF Read
    <3>3. call[w] \in Call
      OBVIOUS
    <3> QED
      BY <1>6, <3>1, <3>2, <3>3 DEF Read, Call
  <2>2. CASE v /= w
    <3>1. call'[w] = call[w]
      BY <1>6, <2>2 DEF Read
    <3> QED
      BY <3>1 DEF Busy
  <2> QED
    BY <2>1, <2>2
<1>7. ASSUME NEW v \in Workers, OpsEnded(v)
      PROVE  Busy(w) /\ call'[w] = call[w]
  <2>1. call' = [call EXCEPT ![v] = call'[v]] /\ ~Busy(v)'
    BY <1>7, OpsEndedFacts
  <2>2. v /= w
    BY <2>1
  <2>3. call'[w] = call[w]
    BY <2>1, <2>2
  <2> QED
    BY <2>3 DEF Busy
<1> QED
  BY <1>2, <1>3, <1>4, <1>5, <1>6, <1>7, OpsNextCases DEF OpsAdvancing

LEMMA AllSentStep ==
  ASSUME OpsShared, AllSent, [OpsNext]_opsVars
  PROVE  AllSent'
<1>1. sent' \in [Keys -> [AllWindows -> Nat]]
  BY OpsTypeStep DEF OpsTypeOK
<1>2. ASSUME NEW k \in Keys, store[k] /= None
      PROVE  store[k].entry \in StorageEntry /\ WasSent(k, store[k].entry)
  BY <1>2 DEF OpsShared, OpsTypeOK, RedisTypeOK, Value, AllSent
<1>3. ASSUME NEW k \in Keys, store'[k] /= None
      PROVE  WasSent(k, store[k].entry)'
  <2>1. CASE store'[k] = store[k]
    <3>1. store[k].entry \in StorageEntry /\ WasSent(k, store[k].entry)
      BY <1>2, <1>3, <2>1
    <3> QED
      BY <2>1, <3>1, WasSentStays DEF WasSent
  <2>2. ASSUME NEW w \in Workers, OpsEnded(w), OpsWriting(w), k = call[w].key,
               store'[k].entry = Written(w)
        PROVE  WasSent(k, store[k].entry)'
    BY <1>1, <2>2, WrittenWasSent DEF WasSent
  <2> QED
    BY <1>3, <2>1, <2>2, OpsStoreStep
<1>4. ASSUME NEW w \in Workers, Busy(w)', call'[w].current /= None
      PROVE  WasSent(call[w].key, call[w].current)'
  <2>1. CASE /\ Busy(w) /\ call'[w].key = call[w].key
             /\ call'[w].current = call[w].current
    <3>1. call[w].key \in Keys /\ call[w].current \in StorageEntry
      BY <1>4, <2>1 DEF OpsShared, OpsCalls, OpsTypeOK, RedisTypeOK, Call
    <3>2. WasSent(call[w].key, call[w].current)
      BY <1>4, <2>1 DEF AllSent
    <3> QED
      BY <2>1, <3>1, <3>2, WasSentStays DEF WasSent
  <2>2. CASE /\ store' = store /\ call'[w].key = call[w].key /\ call[w].key \in Keys
             /\ call'[w].current = Live(call[w].key)
    <3>1. PICK k \in Keys : k = call[w].key
      BY <2>2
    <3>2. store[k] /= None /\ call'[w].current = store[k].entry
      BY <1>4, <2>2, <3>1 DEF Live
    <3>3. store[k].entry \in StorageEntry /\ WasSent(k, store[k].entry)
      BY <1>2, <3>2
    <3> QED
      BY <2>2, <3>1, <3>2, <3>3, WasSentStays DEF WasSent
  <2> QED
    BY <1>4, <2>1, <2>2, OpsCurrentStep
<1> QED
  BY <1>3, <1>4 DEF AllSent

(***************************************************************************)
(* Counters                                                                *)
(***************************************************************************)
\* An increment by a task that is alone goes on from what the server holds, unless
\* that has expired since it was read; nothing is known of the others.
LEMMA IncrementCounts ==
  ASSUME OpsShared, ReadStands, CountsKept, NEW w \in Workers, OpsEnded(w), OpsWriting(w),
         call[w].op = "increment", NEW k \in Keys, k = call[w].key
  PROVE  Written(w).count >= acked'[k]
<1> USE DEF OpsShared, OpsTypeOK, RedisTypeOK
<1> DEFINE cur  == call[w].current
           ws   == arg[w].window_start
           goes == cur /= None /\ cur.window_start = ws
           n    == Written(w).count
<1>1. ws \in Nat /\ cur \in StorageEntry \cup {None} /\ clock \in Nat
  BY DEF Argument, Call
<1>2. n = IF goes THEN cur.count + 1 ELSE 1
  <2>1. Written(w) = Incremented(cur, 1, ws, clock)
    BY DEF Written
  <2> HIDE DEF cur, ws
  <2>2. Incremented(cur, 1, ws, clock).count =
          IF cur /= None /\ cur.window_start = ws THEN cur.count + 1 ELSE 1
    BY <1>1, IncrementedFacts
  <2> QED
    BY <2>1, <2>2
<1>3. n \in Nat
  BY WrittenType DEF OpsWriting
<1>4. acked[k] \in Nat
  OBVIOUS
<1>5. CASE ~Lone(w)
  <2>1. acked'[k] = 0
    BY <1>5 DEF OpsWriting, Account
  <2> HIDE DEF n
  <2> QED
    BY <1>3, <2>1 DEF n
<1>6. CASE Lone(w)
  <2>1. PICK one \in {0, 1} : acked'[k] = one + (IF InWindow(Live(k), w) THEN acked[k] ELSE 0)
    <3>1. ASSUME NEW answered \in BOOLEAN, Account(w, answered)
          PROVE  LET one == IF answered THEN 1 ELSE 0
                 IN  acked'[k] = one + (IF InWindow(Live(k), w) THEN acked[k] ELSE 0)
      BY <1>6, <3>1 DEF Account
    <3>2. ASSUME Account(w, TRUE)
          PROVE  acked'[k] = 1 + (IF InWindow(Live(k), w) THEN acked[k] ELSE 0)
      BY <3>1, <3>2
    <3>3. ASSUME Account(w, FALSE)
          PROVE  acked'[k] = 0 + (IF InWindow(Live(k), w) THEN acked[k] ELSE 0)
      BY <3>1, <3>3
    <3>4. Account(w, TRUE) \/ Account(w, FALSE)
      BY DEF OpsWriting
    <3> QED
      BY <3>2, <3>3, <3>4
  <2>2. IF cur = None THEN Live(k) = None ELSE store[k] /= None /\ store[k].entry = cur
    BY <1>6 DEF ReadStands, OpsWriting
  <2>3. CASE goes
    <3>1. store[k] /= None /\ cur.count \in Nat /\ cur.count >= acked[k]
      BY <1>1, <2>2, <2>3 DEF StorageEntry, CountsKept
    <3>2. n = cur.count + 1
      BY <1>2, <2>3
    <3> HIDE DEF n, cur, goes
    <3>3. acked'[k] <= 1 + acked[k] /\ acked'[k] \in Nat
      BY <1>4, <2>1
    <3>4. n >= acked'[k]
      BY <1>4, <3>1, <3>2, <3>3
    <3> QED
      BY <3>4 DEF n
  <2>4. CASE ~goes
    <3>1. Live(k) = None \/ Live(k) = cur
      BY <2>2 DEF Live
    <3>2. ~InWindow(Live(k), w)
      BY <2>2, <2>4, <3>1 DEF InWindow
    <3>3. n = 1
      BY <1>2, <2>4
    <3> HIDE DEF n
    <3>4. acked'[k] \in {0, 1}
      BY <1>4, <2>1, <3>2
    <3>5. n >= acked'[k]
      BY <3>3, <3>4
    <3> QED
      BY <3>5 DEF n
  <2> QED
    BY <2>3, <2>4
<1> QED
  BY <1>5, <1>6

LEMMA CountsStep ==
  ASSUME OpsShared, ReadStands, CountsKept, [OpsNext]_opsVars
  PROVE  CountsKept'
<1> SUFFICES ASSUME NEW k \in Keys, store'[k] /= None
             PROVE  store'[k].entry.count >= acked'[k]
  BY DEF CountsKept
<1>1. CASE store'[k] = store[k] /\ acked'[k] = acked[k]
  BY <1>1 DEF CountsKept
<1>2. ASSUME NEW w \in Workers, OpsEnded(w), OpsWriting(w), k = call[w].key,
             store'[k].entry = Written(w)
      PROVE  store'[k].entry.count >= acked'[k]
  <2>1. CASE call[w].op = "increment"
    BY <1>2, <2>1, IncrementCounts
  <2>2. CASE call[w].op /= "increment"
    <3>1. acked'[k] = Written(w).count
      BY <1>2, <2>2 DEF OpsWriting, Account, OpsShared, OpsTypeOK
    <3>2. Written(w).count \in Nat
      BY <1>2, WrittenType DEF OpsWriting, OpsShared
    <3> QED
      BY <1>2, <3>1, <3>2
  <2> QED
    BY <2>1, <2>2
<1> QED
  BY <1>1, <1>2, OpsStoreStep

LEMMA OpsInitially == OpsInit => OpsShared /\ AllSent /\ CountsKept /\ ReadStands
<1> SUFFICES ASSUME OpsInit PROVE OpsShared /\ AllSent /\ CountsKept /\ ReadStands
  OBVIOUS
<1> USE DEF OpsInit, RedisInit
<1>1. NoArg \in Argument
  BY DEF NoArg, Argument
<1>2. OpsTypeOK
  BY <1>1, NoCallType, RedisAssumption DEF OpsTypeOK, RedisTypeOK
<1>3. PoolKept
  <2>1. Connected = {}
    BY DEF Connected, NoCall
  <2>2. IsFiniteSet({}) /\ Cardinality({}) = 0
    BY FS_EmptySet
  <2> QED
    BY <2>1, <2>2, RedisAssumption DEF PoolKept
<1>4. OpsCalls
  BY DEF OpsCalls, Busy, NoCall
<1>5. CountsKept
  BY DEF CountsKept
<1>6. ReadStands
  BY DEF ReadStands, NoCall
<1>7. AllSent
  BY DEF AllSent, Busy, NoCall
<1> QED
  BY <1>2, <1>3, <1>4, <1>5, <1>6, <1>7 DEF OpsShared

LEMMA OpsSharedStep == OpsShared /\ [OpsNext]_opsVars => OpsShared'
  BY OpsTypeStep, OpsCallsStep DEF OpsShared

\* Whatever fails, is dropped or races: values keep their types, every connection
\* is in the pool or with one task, and no call writes what it may not.
THEOREM RedisIsConsistent == OpsSpec => [](OpsTypeOK /\ PoolKept /\ OpsCalls)
<1>1. OpsInit => OpsShared
  BY OpsInitially
<1>2. OpsShared /\ [OpsNext]_opsVars => OpsShared'
  BY OpsSharedStep
<1>3. OpsShared => OpsTypeOK /\ PoolKept /\ OpsCalls
  BY DEF OpsShared
<1> QED
  BY <1>1, <1>2, <1>3, PTL DEF OpsSpec

\* All of that together with what the counters hold, what tasks have read of them
\* and what a task that is alone goes on from: the inductive invariant.
THEOREM RedisInvariant == OpsSpec => []OpsInv
<1>1. OpsInit => OpsInv
  BY OpsInitially DEF OpsInv, OpsShared
<1>2. OpsInv /\ [OpsNext]_opsVars => OpsInv'
  BY OpsSharedStep, AllSentStep, CountsStep, ReadStandsStep DEF OpsInv, OpsShared
<1> QED
  BY <1>1, <1>2, PTL DEF OpsSpec

\* However many tasks race between GET and SETEX, a counter shows no more
\* increments of its window than the server was sent.
THEOREM CountersNeverOvercount == OpsSpec => []NeverOvercounted
<1>1. OpsSpec => []OpsInv
  BY RedisInvariant
<1>2. OpsInv => NeverOvercounted
  BY DEF OpsInv, AllSent, WasSent, NeverOvercounted, Live
<1> QED
  BY <1>1, <1>2, PTL

\* A counter shows at least what its caller knows it counted in its window since
\* it expired, whichever commands and answers are lost, if that caller is alone.
THEOREM CountersCount == OpsSpec => []IncrementsCounted
<1>1. OpsSpec => []OpsInv
  BY RedisInvariant
<1>2. OpsInv => IncrementsCounted
  BY DEF OpsInv, CountsKept, IncrementsCounted, Live
<1> QED
  BY <1>1, <1>2, PTL

-----------------------------------------------------------------------------
(***************************************************************************)
(* Middleware: which steps there are                                       *)
(***************************************************************************)
Starting(w, k) ==
  (CheckAndRecord(w, k) \/ Check(w, k) \/ Reset(w, k)) /\ UNCHANGED comeBack

Advancing(w) == Advance(w) /\ UNCHANGED comeBack

\* check_and_record ends: the request is let through, denied, or neither, with
\* its entry stored or refused.
Passed(w) == Record(w) /\ ~Refused(w) /\ Outcome(w).allowed /\ Charged(w)
Denied(w) ==
  /\ Record(w) /\ ~Refused(w) /\ ~Outcome(w).allowed
  /\ comeBack' = [comeBack EXCEPT ![call[w].key] =
       clock + RetryAfterSeconds(RetryAfter(Outcome(w), now[w])) * MsPerSecond]
Unanswered(w) == RecordUnanswered(w) /\ Charged(w)
Quitting(w) ==
  (PeekDone(w) \/ Failure(w) \/ (Record(w) /\ Refused(w))) /\ UNCHANGED comeBack

Deleting(w) == (Forget(w) \/ ForgetUnanswered(w)) /\ Charged(w)

LEMMA NextCases ==
  ASSUME [FrontNext]_allVars
  PROVE  \/ Time /\ UNCHANGED comeBack
         \/ \E w \in Workers, k \in Keys : Starting(w, k)
         \/ \E w \in Workers : \/ Advancing(w) \/ Passed(w) \/ Denied(w) \/ Unanswered(w)
                               \/ Quitting(w) \/ Deleting(w)
         \/ UNCHANGED <<vars, comeBack>>
<1> USE DEF Starting, Advancing, Passed, Denied, Unanswered, Quitting, Deleting, frontVars
<1>1. \A r \in Requests : KeyOf(r) \in Keys
  BY KeysAssumption DEF KeyOf
<1>2. CASE Time /\ UNCHANGED frontVars
  BY <1>2
<1>3. ASSUME NEW w \in Workers, NEW r \in Requests, Arrive(w, r)
      PROVE  Starting(w, KeyOf(r))
  BY <1>3 DEF Arrive
<1>4. ASSUME NEW w \in Workers, Ask(w)
      PROVE  \E k \in Keys : Starting(w, k)
  BY <1>1, <1>4 DEF Ask
<1>5. ASSUME NEW w \in Workers, Work(w)
      PROVE  \/ Advancing(w) \/ Passed(w) \/ Denied(w) \/ Unanswered(w)
             \/ Quitting(w) \/ Deleting(w)
             \/ UNCHANGED <<vars, comeBack>>
  <2>1. CASE Pass(w)
    BY <2>1 DEF Pass
  <2>2. CASE Deny(w)
    BY <2>2 DEF Deny
  <2>3. CASE FailOpen(w)
    BY <2>3 DEF FailOpen
  <2>4. CASE Drop(w)
    BY <2>4 DEF Drop
  <2>5. CASE Respond(w)
    BY <2>5 DEF Respond
  <2>6. CASE Asked(w)
    BY <2>6 DEF Asked
  <2> QED
    BY <1>5, <2>1, <2>2, <2>3, <2>4, <2>5, <2>6 DEF Work
<1>6. CASE UNCHANGED allVars
  BY <1>6 DEF allVars
<1> QED
  BY <1>1, <1>2, <1>3, <1>4, <1>5, <1>6 DEF FrontNext

(***************************************************************************)
(* What the steps do                                                       *)
(***************************************************************************)
LEMMA StartFacts ==
  ASSUME FrontTypeOK, NEW w \in Workers, NEW k \in Keys, Starting(w, k)
  PROVE  /\ ~Busy(w) /\ Busy(w)'
         /\ call' = [call EXCEPT ![w] = call'[w]] /\ call' \in [Workers -> Call]
         /\ call'[w].phase = "connect" /\ call'[w].key = k
         /\ call'[w].op \in {"execute_atomic", "get", "delete"}
         /\ call'[w].op = "execute_atomic" => call'[w].ttl = Ttl
         /\ call'[w].current = None
         /\ now' = [now EXCEPT ![w] = clock] /\ now' \in [Workers -> Nat]
         /\ outcome' \in [Workers -> {"ok", "error", None}]
         /\ clock' = clock /\ store' = store /\ free' = free
         /\ admitted' = admitted /\ comeBack' = comeBack
<1> USE DEF FrontTypeOK, TypeOK, RedisTypeOK
<1>1. PICK op \in {"execute_atomic", "get", "delete"}, ttl \in Nat :
        Start(w, op, k, ttl) /\ (op = "execute_atomic" => ttl = Ttl)
  BY QuotaTypes DEF Starting, CheckAndRecord, Check, Reset
<1> DEFINE new == [NoCall EXCEPT !.phase = "connect", !.op = op, !.key = k, !.ttl = ttl]
<1>2. /\ new.phase = "connect" /\ new.op = op /\ new.key = k /\ new.ttl = ttl
      /\ new.current = None
  BY DEF NoCall
<1>3. new \in Call
  <2>1. /\ "connect" \in Phases /\ op \in Operations \cup {None}
        /\ k \in Keys \cup {None} /\ None \in StorageEntry \cup {None}
    BY DEF Phases, Operations
  <2> QED
    BY <2>1 DEF NoCall, Call
<1>4. call' = [call EXCEPT ![w] = new]
  BY <1>1 DEF Start, Begin
<1> HIDE DEF new
<1>5. ~Busy(w) /\ now' = [now EXCEPT ![w] = clock]
      /\ outcome' = [outcome EXCEPT ![w] = None]
      /\ clock' = clock /\ store' = store /\ free' = free /\ admitted' = admitted
  BY <1>1 DEF Start, Begin
<1>6. call'[w] = new
  BY <1>4
<1> QED
  BY <1>1, <1>2, <1>3, <1>4, <1>5, <1>6 DEF Starting, Busy

\* The entry check_and_record stores.
NewValue(w) == [entry |-> WithTat(Outcome(w).tat), expires_at |-> clock + TtlMs(Ttl)]

\* How a call ends.
Ended(w) ==
  /\ Busy(w)
  /\ call' = [call EXCEPT ![w] = NoCall]
  /\ free' = IF call[w].phase = "connect" THEN free ELSE free + 1
  /\ clock' = clock /\ now' = now
  /\ outcome' \in [Workers -> {"ok", "error", None}]

LEMMA OutcomeFacts ==
  ASSUME FrontTypeOK, DebtInv, NEW w \in Workers
  PROVE  /\ Outcome(w) \in Decision /\ now[w] \in Nat
         /\ Tat(call[w].current) \in Nat \cup {None}
         /\ Outcome(w) = CalculateDecision(Tat(call[w].current), now[w])
         /\ call[w].current /= None =>
              call[w].current.tat \in Nat /\ Tat(call[w].current) = call[w].current.tat
         /\ Outcome(w).allowed =>
              /\ call[w].current /= None => Outcome(w).tat >= call[w].current.tat + Period
              /\ Outcome(w).tat >= now[w] + Period
              /\ Outcome(w).tat <= now[w] + MaxTatOffset + Period
         /\ ~Outcome(w).allowed =>
              call[w].current /= None /\ Outcome(w).tat = call[w].current.tat
<1> DEFINE tat == Tat(call[w].current)
           d   == Outcome(w)
<1>1. /\ tat \in Nat \cup {None} /\ (call[w].current = None => tat = None)
      /\ call[w].current /= None => call[w].current.tat \in Nat /\ tat = call[w].current.tat
  BY DEF Tat, DebtInv, WithinBurst
<1>2. now[w] \in Nat
  BY DEF FrontTypeOK, TypeOK
<1>3. d = CalculateDecision(tat, now[w])
  BY DEF Outcome
<1> HIDE DEF tat, d
<1>4. /\ d \in Decision
      /\ d.allowed => /\ tat \in Nat => d.tat >= tat + Period
                      /\ d.tat >= now[w] + Period
                      /\ d.tat <= now[w] + MaxTatOffset + Period
      /\ ~d.allowed => tat \in Nat /\ d.tat = tat
  BY <1>1, <1>2, <1>3, DecisionFacts
<1>5. tat \in Nat => call[w].current /= None
  BY <1>1, NoneAssumption
<1> QED
  BY <1>1, <1>2, <1>3, <1>4, <1>5 DEF tat, d

\* check_and_record stores an entry: let through, denied or unanswered.
LEMMA WriteFacts ==
  ASSUME SharedInv, NEW w \in Workers, Passed(w) \/ Denied(w) \/ Unanswered(w)
  PROVE  /\ Ended(w)
         /\ call[w].key \in Keys
         /\ call[w].op = "execute_atomic" /\ call[w].phase = "write"
         /\ NewValue(w) \in Value
         /\ store' = [store EXCEPT ![call[w].key] = NewValue(w)]
         /\ admitted' = IF Passed(w)
                          THEN [admitted EXCEPT ![call[w].key] = Append(@, now[w])]
                          ELSE admitted
<1> USE DEF SharedInv, FrontTypeOK, TypeOK, RedisTypeOK
<1>1. /\ call[w].phase = "write" /\ call[w].op /= "delete" /\ Busy(w)
      /\ Stored(w, WithTat(Outcome(w).tat)) /\ HangUp(w) /\ clock' = clock /\ now' = now
  BY DEF Passed, Denied, Unanswered, Record, RecordUnanswered, SetAnswered, SetUnanswered,
         End, Busy
<1>2. call[w].key \in Keys /\ call[w].op = "execute_atomic" /\ call[w].ttl = Ttl
  BY <1>1 DEF CallsMade
<1>3. outcome' \in [Workers -> {"ok", "error", None}]
  BY DEF Passed, Denied, Unanswered, Record, RecordUnanswered, End
<1>4. admitted' = IF Passed(w)
                    THEN [admitted EXCEPT ![call[w].key] = Append(@, now[w])]
                    ELSE admitted
  <2>1. CASE Passed(w)
    BY <2>1 DEF Passed, Record
  <2>2. CASE ~Passed(w)
    BY <2>2 DEF Passed, Denied, Unanswered, Record, RecordUnanswered
  <2> QED
    BY <2>1, <2>2
<1>5. NewValue(w) \in Value
  <2>1. Outcome(w).tat \in Nat
    BY OutcomeFacts DEF Decision
  <2>2. clock + TtlMs(Ttl) \in Nat
    BY TtlMsType, QuotaTypes
  <2> QED
    BY <2>1, <2>2, WithTatType DEF NewValue, Value
<1> QED
  BY <1>1, <1>2, <1>3, <1>4, <1>5 DEF Ended, HangUp, Stored, NewValue

\* A call ends that changes nothing else.
LEMMA QuitFacts ==
  ASSUME SharedInv, NEW w \in Workers, Quitting(w)
  PROVE  Ended(w) /\ store' = store /\ admitted' = admitted /\ comeBack' = comeBack
<1> USE DEF SharedInv, FrontTypeOK, TypeOK, RedisTypeOK
<1>1. CASE PeekDone(w)
  BY <1>1 DEF PeekDone, GetDone, HangUp, End, Ended, Busy, Quitting
<1>2. CASE Failure(w)
  BY <1>2 DEF Failure, Fail, HangUp, End, Ended, Quitting
<1>3. CASE Record(w) /\ Refused(w)
  BY <1>3 DEF Record, SetAnswered, HangUp, End, Ended, Busy, Quitting
<1> QED
  BY <1>1, <1>2, <1>3 DEF Quitting

LEMMA DeleteFacts ==
  ASSUME SharedInv, NEW w \in Workers, Deleting(w)
  PROVE  /\ Ended(w) /\ call[w].key \in Keys
         /\ store' = [store EXCEPT ![call[w].key] = None]
         /\ admitted' = [admitted EXCEPT ![call[w].key] = <<>>]
         /\ comeBack' = [comeBack EXCEPT ![call[w].key] = None]
<1> USE DEF SharedInv, FrontTypeOK, TypeOK, RedisTypeOK
<1>1. /\ DeleteDone(w) /\ now' = now
      /\ outcome' \in [Workers -> {"ok", "error", None}]
      /\ admitted' = [admitted EXCEPT ![call[w].key] = <<>>]
      /\ comeBack' = [comeBack EXCEPT ![call[w].key] = None]
  BY DEF Deleting, Forget, ForgetUnanswered, DeleteUnanswered, End, Charged
<1>2. Busy(w)
  BY <1>1 DEF DeleteDone, Busy
<1>3. call[w].key \in Keys
  BY <1>2 DEF CallsMade
<1> QED
  BY <1>1, <1>2, <1>3 DEF DeleteDone, HangUp, Ended

\* A connection, or the entry's value, is there.
LEMMA AdvanceFacts ==
  ASSUME SharedInv, NEW w \in Workers, Advancing(w)
  PROVE  /\ Busy(w) /\ call[w].phase \in {"connect", "read"}
         /\ call' = [call EXCEPT ![w] = call'[w]] /\ call'[w] \in Call
         /\ call'[w].op = call[w].op /\ call'[w].key = call[w].key
         /\ call'[w].ttl = call[w].ttl
         /\ \/ /\ call[w].phase = "connect" /\ call'[w].phase \in {"read", "write"}
               /\ call'[w].phase = "write" <=> call[w].op \in {"set", "delete"}
               /\ call'[w].current = call[w].current
               /\ free > 0 /\ free' = free - 1
            \/ /\ call[w].phase = "read" /\ call'[w].phase = "write"
               /\ call[w].op = "execute_atomic"
               /\ call'[w].current = Live(call[w].key)
               /\ free' = free
         /\ clock' = clock /\ now' = now /\ outcome' = outcome
         /\ store' = store /\ admitted' = admitted /\ comeBack' = comeBack
<1> USE DEF SharedInv, FrontTypeOK, TypeOK, RedisTypeOK
<1>1. call[w] \in Call
  OBVIOUS
<1>2. CASE Connect(w)
  <2> DEFINE phase == IF call[w].op \in {"set", "delete"} THEN "write" ELSE "read"
  <2>1. /\ call[w].phase = "connect" /\ free > 0 /\ free' = free - 1
        /\ call' = [call EXCEPT ![w] = [call[w] EXCEPT !.phase = phase]]
        /\ clock' = clock /\ store' = store
    BY <1>2 DEF Connect
  <2>2. phase \in Phases /\ phase \in {"read", "write"}
        /\ (phase = "write" <=> call[w].op \in {"set", "delete"})
    BY DEF Phases
  <2> HIDE DEF phase
  <2> QED
    BY <1>1, <2>1, <2>2 DEF Advancing, Advance, Call, Busy
<1>3. CASE Read(w)
  <2>1. /\ call[w].phase = "read" /\ call[w].op /= "get"
        /\ call' = [call EXCEPT ![w] =
                      [call[w] EXCEPT !.phase = "write", !.current = Live(call[w].key)]]
        /\ clock' = clock /\ store' = store /\ free' = free
    BY <1>3 DEF Read
  <2>2. call[w].op = "execute_atomic" /\ call[w].key \in Keys
    BY <2>1 DEF CallsMade, Busy
  <2>3. Live(call[w].key) \in StorageEntry \cup {None}
    BY <2>2 DEF Live, Value
  <2>4. "write" \in Phases
    BY DEF Phases
  <2> QED
    BY <1>1, <2>1, <2>2, <2>3, <2>4 DEF Advancing, Advance, Call, Busy
<1> QED
  BY <1>2, <1>3 DEF Advancing, Advance

(***************************************************************************)
(* The pool                                                                *)
(***************************************************************************)
LEMMA EndedPool ==
  ASSUME SharedInv, NEW w \in Workers, Ended(w)
  PROVE  /\ PoolKept' /\ free' \in 0..Connections
         /\ call'[w] = NoCall /\ call' \in [Workers -> Call]
<1> USE DEF SharedInv, FrontTypeOK, TypeOK, RedisTypeOK
<1>1. call'[w] = NoCall /\ call' = [call EXCEPT ![w] = call'[w]]
      /\ call' \in [Workers -> Call]
  BY NoCallType DEF Ended
<1>2. call'[w].phase \notin {"read", "write"}
  BY <1>1 DEF NoCall
<1>3. w \in Connected <=> call[w].phase /= "connect"
  BY DEF Connected, Ended, Busy, Call, Phases
<1>4. free' = IF w \in Connected THEN free + 1 ELSE free
  BY <1>3 DEF Ended
<1> QED
  BY <1>1, <1>2, <1>4, PoolStep

(***************************************************************************)
(* Types                                                                   *)
(***************************************************************************)
LEMMA FrontVarsStep ==
  ASSUME FrontTypeOK, [FrontNext]_allVars
  PROVE  /\ framework' \in Frameworks
         /\ request' \in [Workers -> Requests \cup {None}]
         /\ stage' \in [Workers -> {"idle", "limit", "serve"}]
<1> USE DEF FrontTypeOK
<1>1. CASE UNCHANGED frontVars
  BY <1>1 DEF frontVars
<1>2. ASSUME NEW w \in Workers, NEW r \in Requests, Arrive(w, r)
      PROVE  /\ framework' \in Frameworks
             /\ request' \in [Workers -> Requests \cup {None}]
             /\ stage' \in [Workers -> {"idle", "limit", "serve"}]
  BY <1>2 DEF Arrive
<1>3. ASSUME NEW w \in Workers, Ask(w) \/ Work(w)
      PROVE  /\ framework' \in Frameworks
             /\ request' \in [Workers -> Requests \cup {None}]
             /\ stage' \in [Workers -> {"idle", "limit", "serve"}]
  BY <1>3 DEF Ask, Work, Pass, Deny, FailOpen, Drop, Respond, Asked, Proceed, Leave,
              frontVars
<1> QED
  BY <1>1, <1>2, <1>3 DEF FrontNext, allVars

LEMMA SecondsType ==
  ASSUME NEW x \in Nat \cup {None}
  PROVE  RetryAfterSeconds(x) \in Nat
<1>1. \A y \in Nat : y \div MsPerSecond \in Nat
  BY RedisAssumption, DivisionIsNat
<1> QED
  BY <1>1 DEF RetryAfterSeconds

\* When a denied client may come back is a time.
LEMMA ComeBackFacts ==
  ASSUME SharedInv, NEW w \in Workers, Denied(w)
  PROVE  /\ comeBack'[call[w].key] \in Nat
         /\ comeBack' = [comeBack EXCEPT ![call[w].key] = comeBack'[call[w].key]]
<1> DEFINE d == Outcome(w)
           tat == Tat(call[w].current)
           wait == RetryAfter(d, now[w])
           seconds == RetryAfterSeconds(wait)
           back == clock + seconds * MsPerSecond
<1>1. /\ ~d.allowed /\ comeBack' = [comeBack EXCEPT ![call[w].key] = back]
      /\ call[w].key \in Keys
  BY WriteFacts DEF Denied
<1>2. /\ tat \in Nat /\ d.tat = tat /\ now[w] \in Nat /\ d = CalculateDecision(tat, now[w])
      /\ clock \in Nat
  BY <1>1, OutcomeFacts DEF SharedInv, FrontTypeOK, TypeOK, RedisTypeOK
<1>3. tat > now[w] + MaxTatOffset
  <2>1. ~(tat = None \/ tat <= now[w] + MaxTatOffset)
    BY <1>1, <1>2, DecisionRule
  <2> HIDE DEF tat
  <2> QED
    BY <1>2, <2>1, QuotaTypes
<1>4. wait \in Nat
  BY <1>1, <1>2, <1>3, DeniedWait
<1>5. seconds \in Nat
  BY <1>4, SecondsType
<1> HIDE DEF seconds
<1>6. back \in Nat
  BY <1>2, <1>5, RedisAssumption
<1>7. comeBack'[call[w].key] = back
  BY <1>1 DEF SharedInv, FrontTypeOK
<1> HIDE DEF back
<1> QED
  BY <1>1, <1>6, <1>7

\* Writes, deletions and ends of calls alike end the call of one task.
Ending(w) == Passed(w) \/ Denied(w) \/ Unanswered(w) \/ Quitting(w) \/ Deleting(w)

LEMMA EndingFacts ==
  ASSUME SharedInv, NEW w \in Workers, Ending(w)
  PROVE  /\ Ended(w)
         /\ store' \in [Keys -> Value \cup {None}]
         /\ admitted' \in [Keys -> Seq(Nat)]
         /\ comeBack' \in [Keys -> Nat \cup {None}]
<1> USE DEF SharedInv, FrontTypeOK, TypeOK, RedisTypeOK
<1>1. CASE Passed(w) \/ Denied(w) \/ Unanswered(w)
  <2>1. /\ Ended(w) /\ call[w].key \in Keys /\ NewValue(w) \in Value
        /\ store' = [store EXCEPT ![call[w].key] = NewValue(w)]
        /\ admitted' = IF Passed(w)
                         THEN [admitted EXCEPT ![call[w].key] = Append(@, now[w])]
                         ELSE admitted
    BY <1>1, WriteFacts
  <2>2. admitted' \in [Keys -> Seq(Nat)]
    <3>1. Append(admitted[call[w].key], now[w]) \in Seq(Nat)
      BY <2>1
    <3> QED
      BY <2>1, <3>1
  <2>3. comeBack' \in [Keys -> Nat \cup {None}]
    <3>1. CASE Denied(w)
      BY <2>1, <3>1, ComeBackFacts
    <3>2. CASE ~Denied(w)
      BY <1>1, <2>1, <3>2 DEF Passed, Unanswered, Charged
    <3> QED
      BY <3>1, <3>2
  <2> QED
    BY <2>1, <2>2, <2>3
<1>2. CASE Quitting(w)
  BY <1>2, QuitFacts
<1>3. CASE Deleting(w)
  <2>1. <<>> \in Seq(Nat)
    OBVIOUS
  <2> QED
    BY <1>3, <2>1, DeleteFacts
<1> QED
  BY <1>1, <1>2, <1>3 DEF Ending

LEMMA TypeStep ==
  ASSUME SharedInv, [FrontNext]_allVars
  PROVE  FrontTypeOK' /\ PoolKept'
<1> USE DEF SharedInv, FrontTypeOK, TypeOK, RedisTypeOK
<1>1. CASE Time /\ UNCHANGED comeBack
  <2>1. PoolKept'
    BY <1>1 DEF Time, Tick, PoolKept, Connected
  <2> QED
    BY <1>1, <2>1, FrontVarsStep DEF Time, Tick
<1>2. ASSUME NEW w \in Workers, NEW k \in Keys, Starting(w, k)
      PROVE  FrontTypeOK' /\ PoolKept'
  <2>1. w \notin Connected /\ call'[w].phase \notin {"read", "write"}
    BY <1>2, StartFacts DEF Connected, Busy
  <2>2. PoolKept'
    BY <1>2, <2>1, StartFacts, PoolStep
  <2> QED
    BY <1>2, <2>2, StartFacts, FrontVarsStep
<1>3. ASSUME NEW w \in Workers, Advancing(w)
      PROVE  FrontTypeOK' /\ PoolKept'
  <2>1. PoolKept' /\ free' \in 0..Connections
    <3>1. w \in Connected <=> call[w].phase = "read"
      BY <1>3, AdvanceFacts DEF Connected
    <3> QED
      BY <1>3, <3>1, AdvanceFacts, PoolStep
  <2>2. call' \in [Workers -> Call]
    <3>1. call' = [call EXCEPT ![w] = call'[w]] /\ call'[w] \in Call
      BY <1>3, AdvanceFacts
    <3> QED
      BY <3>1
  <2> QED
    BY <1>3, <2>1, <2>2, AdvanceFacts, FrontVarsStep
<1>4. ASSUME NEW w \in Workers, Ending(w)
      PROVE  FrontTypeOK' /\ PoolKept'
  <2>1. now' \in [Workers -> Nat] /\ clock' \in Nat
        /\ outcome' \in [Workers -> {"ok", "error", None}]
    BY <1>4, EndingFacts DEF Ended
  <2> QED
    BY <1>4, <2>1, EndingFacts, EndedPool, FrontVarsStep
<1>5. CASE UNCHANGED <<vars, comeBack>>
  <2>1. PoolKept'
    BY <1>5 DEF vars, redisVars, PoolKept, Connected
  <2> QED
    BY <1>5, <2>1, FrontVarsStep DEF vars, redisVars
<1> QED
  BY <1>1, <1>2, <1>3, <1>4, <1>5, NextCases DEF Ending

(***************************************************************************)
(* What calls and entries are, for any number of tasks                     *)
(***************************************************************************)
LEMMA CallsMadeStep ==
  ASSUME SharedInv, [FrontNext]_allVars
  PROVE  CallsMade'
<1> USE DEF SharedInv, FrontTypeOK, TypeOK, RedisTypeOK
<1>0. /\ None \notin {"execute_atomic", "get", "delete"}
      /\ NoCall.phase = "idle" /\ NoCall.op = None
  BY RedisAssumption DEF NoCall, Operations
<1> USE DEF CallsMade, Busy
<1>1. CASE Time /\ UNCHANGED comeBack
  <2>1. clock' = clock + 1 /\ call' = call /\ now' = now
        /\ \A w \in Workers : call[w].phase /= "idle" => clock < now[w] + MaxLatency
    BY <1>1 DEF Time, Tick
  <2>2. \A w \in Workers : /\ call[w].phase /= "idle" => clock + 1 <= now[w] + MaxLatency
                           /\ now[w] <= clock + 1
    BY <2>1, GcraRedisAssumption
  <2> QED
    BY <2>1, <2>2
<1>2. ASSUME NEW w \in Workers, NEW k \in Keys, Starting(w, k)
      PROVE  CallsMade'
  <2>1. /\ call' = [call EXCEPT ![w] = call'[w]]
        /\ call'[w].phase = "connect" /\ call'[w].key = k
        /\ call'[w].op \in {"execute_atomic", "get", "delete"}
        /\ call'[w].op = "execute_atomic" => call'[w].ttl = Ttl
        /\ now' = [now EXCEPT ![w] = clock] /\ clock' = clock
    BY <1>2, StartFacts
  <2>2. clock <= clock + MaxLatency
    BY GcraRedisAssumption
  <2> QED
    BY <2>1, <2>2
<1>3. ASSUME NEW w \in Workers, Advancing(w)
      PROVE  CallsMade'
  <2>1. /\ call' = [call EXCEPT ![w] = call'[w]]
        /\ call'[w].op = call[w].op /\ call'[w].key = call[w].key
        /\ call'[w].ttl = call[w].ttl
        /\ call[w].phase \in {"connect", "read"} /\ call'[w].phase \in {"read", "write"}
        /\ call'[w].phase = "write" => call[w].op \in {"execute_atomic", "set", "delete"}
        /\ call'[w].phase = "read" => call[w].op \notin {"set", "delete"}
        /\ clock' = clock /\ now' = now
    BY <1>3, AdvanceFacts
  <2>2. ASSUME NEW v \in Workers \ {w}
        PROVE  call'[v] = call[v]
    BY <2>1
  <2>3. /\ call'[w].key \in Keys /\ call'[w].op \in {"execute_atomic", "get", "delete"}
        /\ call'[w].op = "execute_atomic" => call'[w].ttl = Ttl
        /\ call'[w].phase = "read" => call'[w].op \in {"execute_atomic", "get"}
        /\ call'[w].phase = "write" => call'[w].op \in {"execute_atomic", "delete"}
        /\ clock <= now[w] + MaxLatency /\ call'[w].phase /= "idle"
    BY <2>1
  <2>4. now[w] <= clock
    OBVIOUS
  <2> SUFFICES ASSUME NEW v \in Workers
               PROVE  (/\ ~Busy(v) => call[v] = NoCall
                       /\ Busy(v) => /\ call[v].key \in Keys
                                     /\ call[v].op \in {"execute_atomic", "get", "delete"}
                                     /\ clock <= now[v] + MaxLatency
                       /\ call[v].op = "execute_atomic" => call[v].ttl = Ttl
                       /\ call[v].phase = "read" => call[v].op \in {"execute_atomic", "get"}
                       /\ call[v].phase = "write" =>
                            call[v].op \in {"execute_atomic", "delete"}
                       /\ now[v] <= clock)'
    OBVIOUS
  <2> QED
    BY ZenonT(60), <2>1, <2>2, <2>3, <2>4
<1>4. ASSUME NEW w \in Workers, Ending(w)
      PROVE  CallsMade'
  BY ZenonT(60), <1>0, <1>4, EndingFacts DEF Ended
<1>5. CASE UNCHANGED <<vars, comeBack>>
  BY <1>5 DEF vars, redisVars
<1> QED
  BY <1>1, <1>2, <1>3, <1>4, <1>5, NextCases DEF Ending

\* The entry that is stored is within the burst, as those it is made from.
LEMMA NewEntryWithin ==
  ASSUME SharedInv, NEW w \in Workers
  PROVE  WithinBurst(NewValue(w).entry) /\ NewValue(w).entry.tat = Outcome(w).tat
<1> DEFINE d == Outcome(w)
<1>1. /\ d \in Decision /\ now[w] \in Nat /\ clock \in Nat /\ now[w] <= clock
      /\ NewValue(w).entry.tat = d.tat /\ d.tat \in Nat
  BY OutcomeFacts DEF SharedInv, FrontTypeOK, TypeOK, RedisTypeOK, CallsMade, NewValue,
     WithTat, NewEntry, Decision
<1>2. CASE d.allowed
  <2>1. d.tat <= now[w] + MaxTatOffset + Period
    BY <1>2, OutcomeFacts DEF SharedInv
  <2> HIDE DEF d
  <2> QED
    BY <1>1, <2>1, QuotaTypes DEF WithinBurst, d
<1>3. CASE ~d.allowed
  <2>1. call[w].current /= None /\ d.tat = call[w].current.tat
    BY <1>3, OutcomeFacts DEF SharedInv
  <2> QED
    BY <1>1, <2>1 DEF SharedInv, DebtInv, WithinBurst
<1> QED
  BY <1>2, <1>3

LEMMA WithinStays ==
  ASSUME NEW e, WithinBurst(e), clock \in Nat, clock' \in Nat, clock <= clock'
  PROVE  e.tat \in Nat /\ e.tat <= clock' + MaxTatOffset + Period
  BY QuotaTypes DEF WithinBurst

LEMMA ClockStep ==
  ASSUME SharedInv, [FrontNext]_allVars
  PROVE  clock \in Nat /\ clock' \in Nat /\ clock <= clock'
<1> USE DEF SharedInv, FrontTypeOK, TypeOK, RedisTypeOK
<1>1. clock' \in {clock, clock + 1}
  BY NextCases, StartFacts, AdvanceFacts, EndingFacts
  DEF Time, Tick, Ending, Ended, vars, redisVars
<1> QED
  BY <1>1

\* An entry stays, is deleted, or is replaced by the one a task makes.
LEMMA StoreStep ==
  ASSUME SharedInv, [FrontNext]_allVars, NEW k \in Keys
  PROVE  \/ store'[k] = store[k]
         \/ store'[k] = None /\ \E w \in Workers : Deleting(w) /\ k = call[w].key
         \/ \E w \in Workers : /\ Passed(w) \/ Denied(w) \/ Unanswered(w)
                               /\ k = call[w].key /\ store'[k] = NewValue(w)
<1> USE DEF SharedInv, FrontTypeOK, TypeOK, RedisTypeOK
<1>1. CASE store' = store
  BY <1>1
<1>2. ASSUME NEW w \in Workers, Passed(w) \/ Denied(w) \/ Unanswered(w)
      PROVE  store'[k] = IF k = call[w].key THEN NewValue(w) ELSE store[k]
  BY <1>2, WriteFacts
<1>3. ASSUME NEW w \in Workers, Deleting(w)
      PROVE  store'[k] = IF k = call[w].key THEN None ELSE store[k]
  BY <1>3, DeleteFacts
<1>4. \/ store' = store
      \/ \E w \in Workers : Deleting(w) \/ Passed(w) \/ Denied(w) \/ Unanswered(w)
  BY NextCases, StartFacts, AdvanceFacts, QuitFacts DEF Time, Tick, vars, redisVars
<1> QED
  BY <1>1, <1>2, <1>3, <1>4

\* A task keeps what it read, forgets it, or reads it now.
LEMMA CurrentStep ==
  ASSUME SharedInv, [FrontNext]_allVars, NEW v \in Workers
  PROVE  \/ call'[v].current = call[v].current
         \/ call'[v].current = None
         \/ call[v].key \in Keys /\ call'[v].current = Live(call[v].key)
<1> USE DEF SharedInv, FrontTypeOK, TypeOK, RedisTypeOK
<1>1. ASSUME NEW w \in Workers, NEW k \in Keys, Starting(w, k)
      PROVE  call'[v] = call[v] \/ call'[v].current = None
  BY <1>1, StartFacts
<1>2. ASSUME NEW w \in Workers, Ending(w)
      PROVE  call'[v] = call[v] \/ call'[v].current = None
  BY <1>2, EndingFacts DEF Ended, NoCall
<1>3. ASSUME NEW w \in Workers, Advancing(w)
      PROVE  \/ call'[v].current = call[v].current
             \/ call[v].key \in Keys /\ call'[v].current = Live(call[v].key)
  <2>1. /\ call' = [call EXCEPT ![w] = call'[w]] /\ Busy(w)
        /\ call'[w].current \in {call[w].current, Live(call[w].key)}
    BY <1>3, AdvanceFacts
  <2>2. call[w].key \in Keys
    BY <2>1 DEF CallsMade
  <2> QED
    BY <2>1, <2>2
<1> QED
  BY <1>1, <1>2, <1>3, NextCases DEF Ending, Time, Tick, vars, redisVars

LEMMA DebtStep ==
  ASSUME SharedInv, [FrontNext]_allVars
  PROVE  DebtInv'
<1> USE DEF SharedInv, DebtInv
<1>1. /\ clock \in Nat /\ clock' \in Nat /\ clock <= clock'
  BY ClockStep
<1>2. ASSUME NEW k \in Keys, store'[k] /= None
      PROVE  WithinBurst(store[k].entry)'
  <2>1. \/ store'[k] = store[k]
        \/ \E w \in Workers : store'[k] = NewValue(w)
    BY <1>2, StoreStep
  <2>2. CASE store'[k] = store[k]
    <3>1. WithinBurst(store[k].entry)
      BY <1>2, <2>2
    <3> QED
      BY <1>1, <2>2, <3>1, WithinStays DEF WithinBurst
  <2>3. ASSUME NEW w \in Workers, store'[k] = NewValue(w)
        PROVE  WithinBurst(store[k].entry)'
    <3>1. WithinBurst(NewValue(w).entry)
      BY NewEntryWithin
    <3> QED
      BY <1>1, <2>3, <3>1, WithinStays DEF WithinBurst
  <2> QED
    BY <2>1, <2>2, <2>3
<1>3. ASSUME NEW w \in Workers, call'[w].current /= None
      PROVE  WithinBurst(call[w].current)'
  <2>1. CASE call'[w].current = call[w].current
    <3>1. WithinBurst(call[w].current)
      BY <1>3, <2>1
    <3> QED
      BY <1>1, <2>1, <3>1, WithinStays DEF WithinBurst
  <2>2. CASE call[w].key \in Keys /\ call'[w].current = Live(call[w].key)
    <3>1. /\ WithinBurst(store[call[w].key].entry)
          /\ call'[w].current = store[call[w].key].entry
      BY <1>3, <2>2 DEF Live
    <3> QED
      BY <1>1, <3>1, WithinStays DEF WithinBurst
  <2> QED
    BY <1>3, <2>1, <2>2, CurrentStep
<1> QED
  BY <1>2, <1>3

LEMMA SharedInit == FrontInit => SharedInv
<1> SUFFICES ASSUME FrontInit PROVE SharedInv
  OBVIOUS
<1> USE DEF FrontInit, Init, RedisInit
<1>1. <<>> \in Seq(Nat)
  OBVIOUS
<1>2. FrontTypeOK
  BY <1>1, NoCallType, RedisAssumption DEF FrontTypeOK, TypeOK, RedisTypeOK
<1>3. PoolKept
  <2>1. Connected = {}
    BY DEF Connected, NoCall
  <2>2. IsFiniteSet(Connected) /\ Cardinality(Connected) = 0
    BY <2>1, FS_EmptySet
  <2> QED
    BY <2>2, RedisAssumption DEF PoolKept
<1>4. CallsMade
  <2>1. None \notin {"execute_atomic", "get", "delete"}
    BY RedisAssumption DEF Operations
  <2> QED
    BY <2>1 DEF CallsMade, NoCall, Busy
<1>5. DebtInv
  BY DEF DebtInv, NoCall
<1> QED
  BY <1>2, <1>3, <1>4, <1>5 DEF SharedInv

LEMMA SharedStep == SharedInv /\ [FrontNext]_allVars => SharedInv'
  BY TypeStep, CallsMadeStep, DebtStep DEF SharedInv

\* However many tasks fail, stall, are dropped or overwrite each other's entry:
\* the values keep their types, every connection is in the pool or with one
\* task, and no TAT is more than a burst ahead of the clock.
THEOREM FrontIsConsistent == FrontSpec => []SharedInv
<1>1. FrontInit => SharedInv
  BY SharedInit
<1>2. SharedInv /\ [FrontNext]_allVars => SharedInv'
  BY SharedStep
<1> QED
  BY <1>1, <1>2, PTL DEF FrontSpec

\* If TTLs cut to whole seconds still cover a burst, no entry expires before
\* the debt it records is past, whatever the tasks do to each other.
THEOREM DebtIsOutlived ==
  ASSUME MaxTatOffset + Period <= TtlMs(Ttl)
  PROVE  FrontSpec => []ExpiryCoversDebt
<1>1. FrontInit => ExpiryCoversDebt
  BY DEF FrontInit, Init, RedisInit, ExpiryCoversDebt
<1>2. SharedInv /\ ExpiryCoversDebt /\ [FrontNext]_allVars => ExpiryCoversDebt'
  <2> SUFFICES ASSUME SharedInv, ExpiryCoversDebt, [FrontNext]_allVars,
                      NEW k \in Keys, store'[k] /= None
               PROVE  store'[k].entry.tat <= store'[k].expires_at
    BY DEF ExpiryCoversDebt
  <2>1. CASE store'[k] = store[k]
    BY <2>1 DEF ExpiryCoversDebt
  <2>2. ASSUME NEW w \in Workers, store'[k] = NewValue(w)
        PROVE  store'[k].entry.tat <= store'[k].expires_at
    <3>1. /\ NewValue(w).entry.tat \in Nat
          /\ NewValue(w).entry.tat <= clock + MaxTatOffset + Period
          /\ NewValue(w).expires_at = clock + TtlMs(Ttl)
          /\ clock \in Nat
      BY NewEntryWithin, ClockStep DEF WithinBurst, NewValue
    <3> DEFINE tat == NewValue(w).entry.tat
               ttl == TtlMs(Ttl)
    <3>2. ttl \in Nat /\ MaxTatOffset + Period <= ttl
      BY TtlMsType, QuotaTypes
    <3> HIDE DEF tat, ttl
    <3>3. tat <= clock + ttl
      BY <3>1, <3>2, QuotaTypes DEF tat
    <3> QED
      BY <2>2, <3>1, <3>3 DEF tat, ttl
  <2> QED
    BY <2>1, <2>2, StoreStep
<1>3. FrontSpec => []SharedInv
  BY FrontIsConsistent
<1> QED
  BY <1>1, <1>2, <1>3, PTL DEF FrontSpec

(***************************************************************************)
(* A task that is alone                                                    *)
(***************************************************************************)
LEMMA StillStoredStep ==
  ASSUME SharedInv, NEW w \in Workers, Workers = {w}, StillStored(w), [FrontNext]_allVars
  PROVE  StillStored(w)'
<1> USE DEF SharedInv, FrontTypeOK, TypeOK, RedisTypeOK
<1>1. CASE call'[w].current = None
  BY <1>1 DEF StillStored
<1>2. CASE Advancing(w)
  <2>1. /\ call'[w].op = call[w].op /\ call'[w].key = call[w].key /\ store' = store
        /\ \/ call'[w].current = call[w].current
           \/ call'[w].current = Live(call[w].key)
    BY <1>2, AdvanceFacts
  <2> QED
    BY <2>1 DEF StillStored, Live
<1>3. CASE call' = call /\ store' = store
  BY <1>3 DEF StillStored
<1>4. ASSUME Ending(w)
      PROVE  call'[w].current = None
  BY <1>4, EndingFacts DEF Ended, NoCall
<1>5. ASSUME NEW k \in Keys, Starting(w, k)
      PROVE  call'[w].current = None
  BY <1>5, StartFacts
<1> QED
  BY <1>1, <1>2, <1>3, <1>4, <1>5, NextCases DEF Ending, Time, Tick, vars, redisVars

(***************************************************************************)
(* What a task that is alone lets through                                  *)
(***************************************************************************)
\* The TTL, cut to whole seconds, covers a burst, a period and Slack, as it does
\* when a period is a second longer than a call lasts; and no call lasts longer
\* than a burst and a period.
Alone(w) ==
  /\ Workers = {w}
  /\ MaxTatOffset + Period + Slack <= TtlMs(Ttl)
  /\ MaxLatency <= MaxTatOffset + Period

LEMMA BaseMoves ==
  ASSUME SharedInv, NEW w \in Workers, [FrontNext]_allVars
  PROVE  /\ Base(w) \in Nat /\ Base(w)' \in Nat
         /\ Base(w) <= Base(w)'
         /\ Base(w) <= clock
<1> USE DEF SharedInv, FrontTypeOK, TypeOK, RedisTypeOK
<1>1. clock \in Nat /\ clock' \in Nat /\ clock <= clock' /\ now[w] \in Nat
  BY ClockStep
<1>2. now[w] <= clock
  BY DEF CallsMade
<1>3. now' \in [Workers -> Nat]
  BY TypeStep
<1>4. \/ Busy(w)' /\ Busy(w) /\ now'[w] = now[w]
      \/ Busy(w)' /\ ~Busy(w) /\ now'[w] = clock
      \/ ~Busy(w)'
  <2>1. \A v \in Workers, k \in Keys :
          Starting(v, k) => IF v = w THEN ~Busy(w) /\ now'[w] = clock
                                     ELSE call'[w] = call[w] /\ now'[w] = now[w]
    BY StartFacts
  <2>2. \A v \in Workers :
          Advancing(v) => now'[w] = now[w] /\ (Busy(w) \/ call'[w] = call[w])
    BY AdvanceFacts
  <2>3. \A v \in Workers :
          Ending(v) => now'[w] = now[w] /\ (Busy(w) \/ call'[w] = call[w])
    BY EndingFacts DEF Ended
  <2> QED
    BY <2>1, <2>2, <2>3, NextCases DEF Ending, Time, Tick, vars, redisVars, Busy
<1>5. Base(w)' = IF Busy(w)' THEN now'[w] ELSE clock'
  BY DEF Base
<1> QED
  BY <1>1, <1>2, <1>3, <1>4, <1>5 DEF Base

\* The debt of a log is covered at a later time.
LEMMA LaterDebt ==
  ASSUME NEW log \in Seq(Nat), NEW s \in Nat, NEW t \in Nat, NEW u \in Nat, t <= u,
         DebtBy(log, Later(s, t))
  PROVE  DebtBy(log, Later(s, u))
<1>1. Later(s, t) \in Int /\ Later(s, u) \in Int /\ Later(s, t) <= Later(s, u)
  BY DEF Later
<1> QED
  BY <1>1, DebtMonotone

\* A key that a step leaves alone.
LEMMA KeyStays ==
  ASSUME SharedInv, NEW w \in Workers, [FrontNext]_allVars, NEW k \in Keys, KeyInv(w, k),
         store'[k] = store[k], admitted'[k] = admitted[k]
  PROVE  KeyInv(w, k)'
<1> USE DEF SharedInv, FrontTypeOK, TypeOK, RedisTypeOK
<1>1. CASE store[k] = None
  BY <1>1 DEF KeyInv
<1>2. CASE store[k] /= None
  <2> DEFINE tat == store[k].entry.tat
  <2>1. tat \in Nat /\ admitted[k] \in Seq(Nat)
    BY <1>2 DEF DebtInv, WithinBurst
  <2>2. DebtBy(admitted[k], Later(tat, Base(w))) /\ tat + Slack <= store[k].expires_at
    BY <1>2 DEF KeyInv, Remembered
  <2>3. DebtBy(admitted[k], Later(tat, Base(w)'))
    BY <2>1, <2>2, BaseMoves, LaterDebt
  <2> QED
    BY <1>2, <2>2, <2>3 DEF KeyInv, Remembered
<1> QED
  BY <1>1, <1>2

\* An entry that is gone has left no debt that is not past.
LEMMA ExpiredSettled ==
  ASSUME SharedInv, NEW w \in Workers, Alone(w), Busy(w), NEW k \in Keys, KeyInv(w, k),
         Live(k) = None
  PROVE  Settled(w, k)
<1> USE DEF SharedInv, FrontTypeOK, TypeOK, RedisTypeOK
<1>1. CASE store[k] = None
  BY <1>1, EmptyLog DEF KeyInv, Settled, DebtBy
<1>2. CASE store[k] /= None
  <2> DEFINE tat == store[k].entry.tat
             log == admitted[k]
             t   == now[w]
             gone == store[k].expires_at
  <2>1. /\ tat \in Nat /\ log \in Seq(Nat) /\ t \in Nat /\ clock \in Nat /\ gone \in Nat
        /\ store[k].entry \in StorageEntry
    BY <1>2 DEF DebtInv, WithinBurst, Value
  <2>2. DebtBy(log, Later(tat, t)) /\ tat + Slack <= gone
    BY <1>2 DEF KeyInv, Remembered, Base
  <2>3. gone <= clock
    BY <1>2, <2>1, RedisAssumption DEF Live
  <2>4. clock <= t + MaxLatency
    BY DEF CallsMade
  <2>5. Base(w) = t
    BY DEF Base
  <2> HIDE DEF tat, log, t, gone
  <2>6. /\ tat <= t \/ tat <= clock - Period
        /\ tat <= t + MaxTatOffset
    <3>1. tat + Slack <= clock /\ clock <= t + MaxLatency /\ MaxLatency \in Nat
          /\ Period \in Nat /\ MaxTatOffset \in Nat /\ Slack \in Nat
      BY <2>1, <2>2, <2>3, <2>4, QuotaTypes, GcraRedisAssumption DEF Slack
    <3>2. MaxLatency <= MaxTatOffset + Period
      BY DEF Alone
    <3>3. CASE Slack = MaxLatency
      BY <2>1, <3>1, <3>3
    <3>4. CASE Slack = Period
      BY <2>1, <3>1, <3>2, <3>4
    <3> QED
      BY <3>3, <3>4 DEF Slack
  <2>7. /\ t + MaxTatOffset \in Int /\ clock - Period \in Int /\ Later(tat, t) \in Int
        /\ t <= t + MaxTatOffset /\ t \in Int
        /\ Later(tat, t) <= t + MaxTatOffset
    BY <2>1, <2>6, QuotaTypes DEF Later
  <2>8. DebtBy(log, t + MaxTatOffset)
    BY <2>1, <2>2, <2>7, DebtMonotone
  <2>9. DebtBy(log, t) \/ DebtBy(log, clock - Period)
    <3>1. Later(tat, t) = t \/ (Later(tat, t) = tat /\ tat > t)
      BY <2>1 DEF Later
    <3>2. CASE Later(tat, t) = t
      BY <2>2, <3>2
    <3>3. CASE Later(tat, t) = tat /\ tat > t
      <4>1. tat <= clock - Period /\ tat \in Int
        BY <2>1, <2>6, <3>3
      <4> QED
        BY <2>1, <2>2, <2>7, <3>3, <4>1, DebtMonotone
    <3> QED
      BY <3>1, <3>2, <3>3
  <2> QED
    BY <2>5, <2>8, <2>9 DEF Settled, log
<1> QED
  BY <1>1, <1>2

\* And it stays so while the clock goes on.
LEMMA SettledStays ==
  ASSUME SharedInv, NEW w \in Workers, [FrontNext]_allVars, NEW k \in Keys, Settled(w, k),
         admitted'[k] = admitted[k]
  PROVE  Settled(w, k)'
<1> DEFINE log == admitted[k]
           b   == Base(w)
<1>1. PICK b1 \in Nat : b1 = Base(w)'
  BY BaseMoves
<1>2. /\ log \in Seq(Nat) /\ b \in Nat /\ b <= b1
      /\ clock \in Nat /\ clock' \in Nat /\ clock <= clock'
  BY <1>1, BaseMoves, ClockStep DEF SharedInv, FrontTypeOK, TypeOK
<1>3. DebtBy(log, b + MaxTatOffset) /\ (DebtBy(log, b) \/ DebtBy(log, clock - Period))
  BY DEF Settled
<1> HIDE DEF log, b
<1>4. /\ b + MaxTatOffset \in Int /\ b1 + MaxTatOffset \in Int
      /\ b + MaxTatOffset <= b1 + MaxTatOffset
      /\ clock - Period \in Int /\ clock' - Period \in Int
      /\ clock - Period <= clock' - Period
  BY <1>2, QuotaTypes, Shifted
<1>5. DebtBy(log, b1 + MaxTatOffset)
  BY <1>2, <1>3, <1>4, DebtMonotone
<1>6. DebtBy(log, b1) \/ DebtBy(log, clock' - Period)
  BY <1>2, <1>3, <1>4, DebtMonotone
<1> QED
  BY <1>1, <1>5, <1>6 DEF Settled, log

\* What a write finds of its key's debt, and what its entry covers.
LEMMA WriteCovers ==
  ASSUME SharedInv, NEW w \in Workers, Alone(w), StillStored(w), LogInv(w),
         Passed(w) \/ Denied(w) \/ Unanswered(w)
  PROVE  LET k   == call[w].key
             log == admitted[k]
             tat == Outcome(w).tat
         IN  /\ DebtBy(log, Later(tat, clock))
             /\ Outcome(w).allowed =>
                  /\ DebtBy(Append(log, now[w]), Later(tat, clock))
                  /\ DebtBy(log, now[w] + MaxTatOffset)
<1> USE DEF SharedInv, FrontTypeOK, TypeOK, RedisTypeOK
<1> DEFINE k   == call[w].key
           log == admitted[k]
           d   == Outcome(w)
           t   == now[w]
           top == Later(d.tat, clock)
<1>1. /\ k \in Keys /\ call[w].op = "execute_atomic" /\ call[w].phase = "write"
      /\ Base(w) = t
  BY WriteFacts DEF Base, Busy
<1>2. log \in Seq(Nat) /\ t \in Nat /\ clock \in Nat /\ t <= clock
  BY <1>1 DEF CallsMade
<1>3. /\ d.tat \in Nat
      /\ d.allowed => d.tat >= t + Period
      /\ d.allowed /\ call[w].current /= None => d.tat >= call[w].current.tat + Period
      /\ ~d.allowed => call[w].current /= None /\ d.tat = call[w].current.tat
      /\ call[w].current /= None =>
           call[w].current.tat \in Nat /\ Tat(call[w].current) = call[w].current.tat
      /\ d = CalculateDecision(Tat(call[w].current), t)
  BY OutcomeFacts DEF Decision
<1>4. KeyInv(w, k)
  BY <1>1 DEF LogInv
<1>5. CASE call[w].current = None
  <2>1. Settled(w, k) /\ d.allowed
    BY <1>1, <1>3, <1>5 DEF LogInv
  <2>2. /\ DebtBy(log, t + MaxTatOffset)
        /\ DebtBy(log, t) \/ DebtBy(log, clock - Period)
    BY <1>1, <2>1 DEF Settled
  <2>3. d.tat >= t + Period
    BY <1>3, <2>1
  <2> HIDE DEF log, d, t, k
  <2>4. DebtBy(Append(log, t), top)
    BY <1>2, <1>3, <2>2, <2>3, FreshDebt
  <2>5. /\ top \in Int /\ t <= top /\ clock - Period <= top
        /\ t \in Int /\ clock - Period \in Int
    BY <1>2, <1>3, QuotaTypes DEF Later
  <2> HIDE DEF top
  <2>6. DebtBy(log, top)
    BY <1>2, <2>2, <2>5, DebtMonotone
  <2> QED
    BY <2>2, <2>4, <2>6 DEF log, d, t, top, k
<1>6. CASE call[w].current /= None
  <2> DEFINE old == call[w].current.tat
  <2>1. store[k] /= None /\ call[w].current = store[k].entry
    BY <1>1, <1>6 DEF StillStored
  <2>2. DebtBy(log, Later(old, t))
    BY <1>1, <1>4, <2>1 DEF KeyInv, Remembered
  <2>3. /\ old \in Nat /\ Tat(call[w].current) = old
        /\ d.allowed => d.tat >= old + Period
        /\ ~d.allowed => d.tat = old
    BY <1>3, <1>6
  <2>4. d.allowed => old <= t + MaxTatOffset
    <3>1. d.allowed => Tat(call[w].current) = None \/ Tat(call[w].current) <= t + MaxTatOffset
      BY <1>2, <1>3, <2>3, DecisionRule
    <3> QED
      BY <2>3, <3>1, NoneAssumption
  <2> HIDE DEF log, d, t, k, old
  <2>5. /\ top \in Int /\ Later(old, t) \in Int /\ Later(old, t) <= top /\ d.tat <= top
        /\ d.tat \in Int
    BY <1>2, <1>3, <2>3, QuotaTypes DEF Later
  <2>6. DebtBy(log, top)
    BY <1>2, <2>2, <2>5, DebtMonotone
  <2>7. ASSUME d.allowed
        PROVE  DebtBy(Append(log, t), top) /\ DebtBy(log, t + MaxTatOffset)
    <3>1. DebtBy(Append(log, t), d.tat) /\ Append(log, t) \in Seq(Nat)
      BY <1>2, <1>3, <2>2, <2>3, <2>7, KnownDebt
    <3>2. DebtBy(Append(log, t), top)
      BY <2>5, <3>1, DebtMonotone
    <3>3. Later(old, t) <= t + MaxTatOffset /\ t + MaxTatOffset \in Int
      BY <1>2, <2>3, <2>4, <2>7, QuotaTypes DEF Later
    <3> QED
      BY <1>2, <2>2, <2>5, <3>2, <3>3, DebtMonotone
  <2> QED
    BY <2>6, <2>7 DEF log, d, t, top, k
<1> QED
  BY <1>5, <1>6

\* The entry written remembers the debt, that of its own request included.
LEMMA WriteRemembers ==
  ASSUME SharedInv, NEW w \in Workers, Alone(w), StillStored(w), LogInv(w),
         [FrontNext]_allVars, Passed(w) \/ Denied(w) \/ Unanswered(w),
         NEW k \in Keys, k = call[w].key
  PROVE  KeyInv(w, k)'
<1> USE DEF SharedInv, FrontTypeOK, TypeOK, RedisTypeOK
<1> DEFINE new == NewValue(w)
           tat == new.entry.tat
<1>1. /\ store'[k] = new /\ new /= None /\ Ended(w)
      /\ admitted'[k] = IF Passed(w) THEN Append(admitted[k], now[w]) ELSE admitted[k]
  BY WriteFacts, RedisAssumption
<1>2. Passed(w) => Outcome(w).allowed
  BY DEF Passed
<1>3. DebtBy(admitted'[k], Later(tat, clock))
  <2>1. tat = Outcome(w).tat
    BY NewEntryWithin
  <2> HIDE DEF tat
  <2> QED
    BY <1>1, <1>2, <2>1, WriteCovers
<1>4. call'[w].phase = "idle" /\ clock' = clock
  BY <1>1 DEF Ended, NoCall
<1>5. Base(w)' = clock
  BY <1>4 DEF Base, Busy
<1>6. tat + Slack <= new.expires_at
  <2>1. tat \in Nat /\ tat <= clock + MaxTatOffset + Period /\ clock \in Nat
    BY NewEntryWithin DEF WithinBurst
  <2>2. new.expires_at = clock + TtlMs(Ttl)
    BY DEF NewValue
  <2>3. MaxTatOffset + Period + Slack <= TtlMs(Ttl) /\ TtlMs(Ttl) \in Nat /\ Slack \in Nat
    BY TtlMsType, QuotaTypes, GcraRedisAssumption DEF Alone, Slack
  <2> DEFINE ttl == TtlMs(Ttl)
  <2> HIDE DEF new, tat, ttl
  <2> QED
    BY <2>1, <2>2, <2>3, QuotaTypes DEF ttl
<1>7. store'[k].entry.tat = tat
  BY <1>1
<1> HIDE DEF new, tat
<1> QED
  BY <1>1, <1>3, <1>5, <1>6, <1>7 DEF KeyInv, Remembered

\* How a step changes a log: not at all, or with the entry of its key.
LEMMA AdmittedStep ==
  ASSUME SharedInv, NEW w \in Workers, Alone(w), [FrontNext]_allVars, NEW k \in Keys
  PROVE  \/ admitted'[k] = admitted[k] /\ store'[k] = store[k]
         \/ k = call[w].key /\ Deleting(w)
         \/ k = call[w].key /\ (Passed(w) \/ Denied(w) \/ Unanswered(w))
<1> USE DEF SharedInv, FrontTypeOK, TypeOK, RedisTypeOK
<1>1. ASSUME Passed(w) \/ Denied(w) \/ Unanswered(w), k /= call[w].key
      PROVE  admitted'[k] = admitted[k] /\ store'[k] = store[k]
  BY <1>1, WriteFacts
<1>2. ASSUME Deleting(w), k /= call[w].key
      PROVE  admitted'[k] = admitted[k] /\ store'[k] = store[k]
  BY <1>2, DeleteFacts
<1>3. \/ admitted' = admitted /\ store' = store
      \/ Deleting(w) \/ Passed(w) \/ Denied(w) \/ Unanswered(w)
  BY NextCases, StartFacts, AdvanceFacts, QuitFacts DEF Alone, Time, Tick, vars, redisVars
<1> QED
  BY <1>1, <1>2, <1>3

LEMMA LogStep ==
  ASSUME SharedInv, NEW w \in Workers, Alone(w), StillStored(w), LogInv(w),
         [FrontNext]_allVars
  PROVE  LogInv(w)'
<1> USE DEF SharedInv, FrontTypeOK, TypeOK, RedisTypeOK
<1>1. ASSUME NEW k \in Keys
      PROVE  KeyInv(w, k)'
  <2>1. CASE admitted'[k] = admitted[k] /\ store'[k] = store[k]
    BY <2>1, KeyStays DEF LogInv
  <2>2. CASE k = call[w].key /\ Deleting(w)
    <3>1. store'[k] = None /\ admitted'[k] = <<>>
      BY <2>2, DeleteFacts
    <3> QED
      BY <3>1 DEF KeyInv
  <2>3. CASE k = call[w].key /\ (Passed(w) \/ Denied(w) \/ Unanswered(w))
    BY <2>3, WriteRemembers
  <2> QED
    BY <2>1, <2>2, <2>3, AdmittedStep
<1>2. ASSUME call'[w].op = "execute_atomic", call'[w].phase = "write",
             call'[w].current = None
      PROVE  Settled(w, call[w].key)'
  <2>1. ASSUME NEW k \in Keys
        PROVE  ~Starting(w, k)
    BY <1>2, StartFacts
  <2>2. ~Ending(w)
    BY <1>2, EndingFacts DEF Ended, NoCall
  <2>3. CASE Advancing(w)
    <3>1. /\ call'[w].key = call[w].key /\ call'[w].op = call[w].op
          /\ Busy(w) /\ admitted' = admitted
          /\ call'[w].phase = "write" /\ call[w].phase = "connect" =>
               call[w].op \in {"set", "delete"}
          /\ call[w].phase /= "connect" => call'[w].current = Live(call[w].key)
      BY <2>3, AdvanceFacts
    <3>2. call[w].key \in Keys /\ Live(call[w].key) = None
      BY <1>2, <3>1 DEF CallsMade
    <3>3. Settled(w, call[w].key)
      BY <3>1, <3>2, ExpiredSettled DEF LogInv
    <3>4. PICK k \in Keys : k = call[w].key
      BY <3>2
    <3>5. Settled(w, k)'
      BY <3>1, <3>3, <3>4, SettledStays
    <3> QED
      BY <3>1, <3>4, <3>5 DEF Settled
  <2>4. CASE call' = call /\ admitted' = admitted
    <3>1. Settled(w, call[w].key) /\ call[w].key \in Keys
      BY <1>2, <2>4 DEF LogInv, CallsMade, Busy
    <3>2. PICK k \in Keys : k = call[w].key
      BY <3>1
    <3>3. Settled(w, k)'
      BY <2>4, <3>1, <3>2, SettledStays
    <3> QED
      BY <2>4, <3>2, <3>3 DEF Settled
  <2> QED
    BY <2>1, <2>2, <2>3, <2>4, NextCases DEF Alone, Ending, Time, Tick, vars, redisVars
<1> QED
  BY <1>1, <1>2 DEF LogInv

(***************************************************************************)
(* The contract                                                            *)
(***************************************************************************)
LEMMA AppendConforms ==
  ASSUME NEW log \in Seq(Nat), NEW a \in Nat, DebtBy(log, a + MaxTatOffset),
         Contract!ConformingLog(log)
  PROVE  Contract!ConformingLog(Append(log, a))
<1> DEFINE new == Append(log, a)
<1>1. /\ Len(new) = Len(log) + 1
      /\ \A i \in 1..Len(log) : new[i] = log[i]
  OBVIOUS
<1> SUFFICES ASSUME NEW i \in 1..Len(new), NEW j \in 1..Len(new), i < j
             PROVE  Contract!Spaced(new, i, j)
  BY DEF Contract!ConformingLog
<1>2. i \in 1..Len(log)
  BY <1>1
<1>3. CASE j = Len(new)
  BY <1>2, <1>3, DebtSpaces DEF Contract!Spaced
<1>4. CASE j /= Len(new)
  <2>1. j \in 1..Len(log) /\ new[i] = log[i] /\ new[j] = log[j]
    BY <1>1, <1>2, <1>4
  <2>2. Contract!Spaced(log, i, j)
    BY <1>2, <2>1 DEF Contract!ConformingLog
  <2> QED
    BY <2>1, <2>2 DEF Contract!Spaced
<1> QED
  BY <1>3, <1>4

LEMMA ConformsStep ==
  ASSUME SharedInv, NEW w \in Workers, Alone(w), StillStored(w), LogInv(w), Conforms,
         [FrontNext]_allVars
  PROVE  Conforms'
<1> USE DEF SharedInv, FrontTypeOK, TypeOK, RedisTypeOK
<1> SUFFICES ASSUME NEW k \in Keys
             PROVE  Contract!ConformingLog(admitted'[k])
  BY DEF Conforms, Contract!ConformingLog, Contract!Spaced
<1>1. Contract!ConformingLog(admitted[k])
  BY DEF Conforms
<1>2. CASE admitted'[k] = admitted[k]
  BY <1>1, <1>2
<1>3. CASE k = call[w].key /\ Deleting(w)
  <2>1. admitted'[k] = <<>>
    BY <1>3, DeleteFacts
  <2> QED
    BY <2>1, EmptyLog DEF Contract!ConformingLog
<1>4. CASE k = call[w].key /\ Passed(w)
  <2>1. admitted'[k] = Append(admitted[k], now[w])
    BY <1>4, WriteFacts
  <2>2. DebtBy(admitted[k], now[w] + MaxTatOffset)
    BY <1>4, WriteCovers DEF Passed
  <2> QED
    BY <1>1, <2>1, <2>2, AppendConforms
<1>5. CASE k = call[w].key /\ ~Passed(w) /\ (Denied(w) \/ Unanswered(w))
  BY <1>2, <1>5, WriteFacts
<1> QED
  BY <1>2, <1>3, <1>4, <1>5, AdmittedStep

\* A server that fails before or after a command, clients that disconnect, and
\* entries that expire: as long as one task serves them, and the TTL is cut by so
\* little, the stored entry still knows of all debt that is not past, and so does
\* the entry the task has read.
THEOREM FrontInvariant ==
  ASSUME NEW w \in Workers, Alone(w)
  PROVE  FrontSpec => []FrontInv
<1> DEFINE Inv == SharedInv /\ StillStored(w) /\ LogInv(w) /\ Conforms
<1>1. FrontInit => Inv
  <2> SUFFICES ASSUME FrontInit PROVE Inv
    OBVIOUS
  <2>1. /\ \A k \in Keys : store[k] = None /\ admitted[k] = <<>>
        /\ call[w].op = None /\ call[w].current = None /\ call[w].phase = "idle"
    BY DEF FrontInit, Init, RedisInit, NoCall
  <2>2. StillStored(w) /\ LogInv(w)
    BY <2>1 DEF StillStored, LogInv, KeyInv
  <2>3. Conforms
    BY <2>1, EmptyLog DEF Conforms, Contract!ConformingLog
  <2> QED
    BY <2>2, <2>3, SharedInit
<1>2. Inv /\ [FrontNext]_allVars => Inv'
  BY SharedStep, StillStoredStep, LogStep, ConformsStep DEF Alone
<1>3. Inv => FrontInv
  BY DEF FrontInv, Alone
<1> QED
  BY <1>1, <1>2, <1>3, PTL DEF FrontSpec

\* What the front end lets through of what the limiter has answered keeps to the
\* quota, through every failure of the storage and the cut of the TTL, if one
\* task serves and the cut TTL covers a burst, a period and Slack.
THEOREM RedisConforms ==
  ASSUME NEW w \in Workers, Alone(w)
  PROVE  FrontSpec => []Conforms
<1>1. FrontInv => Conforms
  BY DEF FrontInv
<1> QED
  BY <1>1, FrontInvariant, PTL

=============================================================================
