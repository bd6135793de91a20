---------------------------- MODULE Limiter_proofs --------------------------
(***************************************************************************)
(* Theorems of Limiter: type correctness for any workers, and, for one     *)
(* worker, that the buckets keep their rate, the sliding log its window,   *)
(* the two window algorithms their count and the sliding window its        *)
(* boundary, and that replies are honoured, for any quota and clock.       *)
(***************************************************************************)
EXTENDS Limiter, MemoryStorage_proofs, TLAPS

(***************************************************************************)
(* Numbers                                                                 *)
(***************************************************************************)
LEMMA TimesMonotone ==
  ASSUME NEW a \in Int, NEW b \in Int, NEW r \in Nat, a <= b
  PROVE  a * r \in Int /\ b * r \in Int /\ a * r <= b * r
  OBVIOUS

LEMMA TimesSum ==
  ASSUME NEW a \in Int, NEW b \in Int, NEW r \in Nat
  PROVE  (a + b) * r = a * r + b * r /\ (a - b) * r = a * r - b * r
  OBVIOUS

LEMMA TimesNat ==
  ASSUME NEW a \in Nat, NEW r \in Nat
  PROVE  a * r \in Nat
  OBVIOUS

LEMMA DivisionIsNat ==
  ASSUME NEW a \in Nat, NEW r \in Nat \ {0}
  PROVE  a \div r \in Nat
  OBVIOUS

LEMMA QuotaConstants ==
  /\ EffectiveBurst \in Nat \ {0} /\ Unit \in Nat \ {0} /\ WindowMs \in Nat \ {0}
  /\ EffectiveRefillRate \in Nat \ {0} /\ MaxRequests \in Nat \ {0}
  /\ MaxTokens \in Nat /\ Unit <= MaxTokens /\ MaxLevel = MaxTokens
  /\ BucketTtl \in Nat /\ WindowTtl \in Nat /\ WindowTtl = 2 * WindowMs /\ Ttl \in Nat
<1>1. /\ EffectiveBurst \in Nat \ {0} /\ Unit \in Nat \ {0} /\ WindowMs \in Nat \ {0}
      /\ EffectiveRefillRate \in Nat \ {0} /\ MaxRequests \in Nat \ {0}
  BY QuotaAssumption, TokenBucketAssumption, NoneAssumption
  DEF EffectiveBurst, Unit, EffectiveRefillRate
<1>2. MaxTokens \in Nat /\ Unit <= MaxTokens
  <2>1. 1 * Unit <= EffectiveBurst * Unit /\ EffectiveBurst * Unit \in Nat
    BY <1>1, TimesMonotone, TimesNat
  <2> QED
    BY <1>1, <2>1 DEF MaxTokens
<1>3. BucketTtl \in Nat
  <2>1. (2 * MaxTokens) \div EffectiveRefillRate \in Nat
    BY <1>1, <1>2, DivisionIsNat
  <2> QED
    BY <2>1, TokenBucketAssumption DEF BucketTtl, Later
<1> QED
  BY <1>1, <1>2, <1>3 DEF MaxLevel, MaxTokens, WindowTtl, Ttl

(***************************************************************************)
(* The filter of the sliding log                                           *)
(***************************************************************************)
\* FilterWindow is the last value of a function that is what it says of itself.
LEMMA FilterUnfold ==
  ASSUME NEW s \in Seq(Nat), NEW t \in Nat
  PROVE  \E f : /\ FilterWindow(s, t) = f[Len(s)]
                /\ f = [n \in 0..Len(s) |->
                          IF n = 0 THEN <<>>
                          ELSE IF s[n] >= t THEN Append(f[n - 1], s[n]) ELSE f[n - 1]]
<1> DEFINE Body(g, n) == IF n = 0 THEN <<>>
                         ELSE IF s[n] >= t THEN Append(g[n - 1], s[n]) ELSE g[n - 1]
           Good(g, n) == g = [i \in 0..n |-> Body(g, i)]
<1>1. Len(s) \in Nat
  OBVIOUS
<1>2. \A n \in Nat : \E g : Good(g, n)
  <2> DEFINE Bad == {n \in Nat : ~\E g : Good(g, n)}
  <2> SUFFICES ASSUME Bad /= {} PROVE FALSE
    OBVIOUS
  <2>1. PICK n \in Bad : \A m \in Bad : ~(m < n)
    BY LeastElement
  <2>2. CASE n = 0
    <3> DEFINE g == [i \in 0..0 |-> <<>>]
    <3>1. Good(g, 0)
      OBVIOUS
    <3> QED
      BY <2>1, <2>2, <3>1
  <2>3. CASE n /= 0
    <3>1. n \in Nat /\ n - 1 \in Nat
      BY <2>1, <2>3
    <3>2. n - 1 \notin Bad
      <4> HIDE DEF Bad
      <4> QED
        BY <2>1, <3>1
    <3>3. PICK g : Good(g, n - 1)
      BY <3>1, <3>2
    <3> DEFINE h == [i \in 0..n |-> IF i = n THEN Body(g, n) ELSE g[i]]
    <3>4. ASSUME NEW i \in 0..n PROVE h[i] = Body(h, i)
      <4>1. CASE i = n
        BY <3>1, <4>1, <2>3
      <4>2. CASE i /= n
        <5>1. i \in 0..(n - 1)
          BY <3>1, <4>2
        <5>2. h[i] = g[i] /\ g[i] = Body(g, i)
          BY <3>3, <5>1, <4>2
        <5>3. i /= 0 => i - 1 \in 0..(n - 1) /\ i - 1 /= n /\ h[i - 1] = g[i - 1]
          BY <5>1, <3>1
        <5> QED
          BY <5>2, <5>3
      <4> QED
        BY <4>1, <4>2
    <3>5. Good(h, n)
      <4> HIDE DEF Body
      <4>1. h = [i \in 0..n |-> h[i]]
        OBVIOUS
      <4> HIDE DEF h
      <4> QED
        BY <3>4, <4>1
    <3> QED
      BY <2>1, <3>5
  <2> QED
    BY <2>2, <2>3
<1> DEFINE f == CHOOSE g : Good(g, Len(s))
<1>3. Good(f, Len(s))
  <2>1. \E g : Good(g, Len(s))
    BY <1>1, <1>2
  <2> HIDE DEF Good
  <2> QED
    BY <2>1
<1>4. FilterWindow(s, t) = f[Len(s)]
  BY DEF FilterWindow
<1> HIDE DEF f
<1> QED
  BY <1>3, <1>4

\* The filter keeps times, and the end of a sequence that is all in the window
\* stays its end.
LEMMA FilterFacts ==
  ASSUME NEW s \in Seq(Nat), NEW t \in Nat
  PROVE  LET kept == FilterWindow(s, t)
         IN  /\ kept \in Seq(Nat)
             /\ \A m \in 0..Len(s) :
                  (\A i \in 1..Len(s) : Len(s) - m < i => s[i] >= t) =>
                    /\ m <= Len(kept)
                    /\ \A j \in 0..(m - 1) : kept[Len(kept) - j] = s[Len(s) - j]
<1>1. PICK f : /\ FilterWindow(s, t) = f[Len(s)]
               /\ f = [n \in 0..Len(s) |->
                         IF n = 0 THEN <<>>
                         ELSE IF s[n] >= t THEN Append(f[n - 1], s[n]) ELSE f[n - 1]]
  BY FilterUnfold
<1> DEFINE In(n, m) == \A i \in 1..n : n - m < i => s[i] >= t
           Ends(n, m) == m <= Len(f[n]) /\ \A j \in 0..(m - 1) : f[n][Len(f[n]) - j] = s[n - j]
           P(n) == f[n] \in Seq(Nat) /\ \A m \in 0..n : In(n, m) => Ends(n, m)
<1>2. Len(s) \in Nat
  OBVIOUS
<1>3. f[0] = <<>>
  BY <1>1, <1>2
<1>4. \A n \in 1..Len(s) : f[n] = IF s[n] >= t THEN Append(f[n - 1], s[n]) ELSE f[n - 1]
  <2> TAKE n \in 1..Len(s)
  <2>1. n \in 0..Len(s) /\ n /= 0
    OBVIOUS
  <2> QED
    BY <1>1, <2>1
<1>5. P(0)
  BY <1>3
<1>6. ASSUME NEW n \in 1..Len(s), P(n - 1)
      PROVE  P(n)
  <2>1. n \in Nat /\ n - 1 \in Nat /\ s[n] \in Nat /\ f[n - 1] \in Seq(Nat)
    BY <1>6
  <2>2. CASE s[n] >= t
    <3>1. f[n] = Append(f[n - 1], s[n])
      BY <1>4, <2>2
    <3>2. f[n] \in Seq(Nat) /\ Len(f[n]) = Len(f[n - 1]) + 1 /\ Len(f[n - 1]) \in Nat
          /\ f[n][Len(f[n])] = s[n]
          /\ \A i \in 1..Len(f[n - 1]) : f[n][i] = f[n - 1][i]
      BY <2>1, <3>1
    <3>3. ASSUME NEW m \in 0..n, In(n, m)
          PROVE  Ends(n, m)
      <4>1. CASE m = 0
        BY <3>2, <4>1
      <4>2. CASE m /= 0
        <5>1. m - 1 \in 0..(n - 1) /\ In(n - 1, m - 1)
          BY <2>1, <3>3, <4>2
        <5>2. Ends(n - 1, m - 1)
          BY <1>6, <5>1
        <5>3. m <= Len(f[n])
          BY <3>2, <5>1, <5>2
        <5>4. ASSUME NEW j \in 0..(m - 1)
              PROVE  f[n][Len(f[n]) - j] = s[n - j]
          <6>1. CASE j = 0
            BY <3>2, <6>1, <2>1
          <6>2. CASE j /= 0
            <7>1. j - 1 \in 0..(m - 1 - 1) /\ j \in Nat /\ m \in Nat
              BY <6>2, <5>1, <2>1
            <7>2. f[n - 1][Len(f[n - 1]) - (j - 1)] = s[(n - 1) - (j - 1)]
              BY <5>2, <7>1
            <7>3. /\ Len(f[n - 1]) - (j - 1) = Len(f[n]) - j
                  /\ (n - 1) - (j - 1) = n - j
                  /\ Len(f[n]) - j \in 1..Len(f[n - 1])
              BY <3>2, <5>2, <5>1, <6>2, <7>1, <2>1
            <7> QED
              BY <3>2, <7>2, <7>3
          <6> QED
            BY <6>1, <6>2
        <5> QED
          BY <5>3, <5>4
      <4> QED
        BY <4>1, <4>2
    <3> QED
      BY <3>2, <3>3
  <2>3. CASE ~(s[n] >= t)
    <3>1. f[n] = f[n - 1]
      BY <1>4, <2>3
    <3>2. ASSUME NEW m \in 0..n, In(n, m)
          PROVE  m = 0
      <4>1. CASE m /= 0
        <5>1. n \in 1..n /\ n - m < n
          BY <2>1, <4>1
        <5> QED
          BY <3>2, <5>1, <2>3
      <4> QED
        BY <4>1
    <3>3. f[n] \in Seq(Nat) /\ Ends(n, 0)
      BY <2>1, <3>1
    <3> HIDE DEF In, Ends
    <3> QED
      BY <3>2, <3>3
  <2> QED
    BY <2>2, <2>3
<1>7. \A n \in 0..Len(s) : P(n)
  <2> HIDE DEF P
  <2> DEFINE Bad == {n \in 0..Len(s) : ~P(n)}
  <2> SUFFICES ASSUME Bad /= {} PROVE FALSE
    OBVIOUS
  <2>1. Bad \in SUBSET Nat
    BY <1>2
  <2>2. PICK n \in Bad : \A m \in Bad : ~(m < n)
    <3> HIDE DEF Bad
    <3> QED
      BY <2>1, LeastElement
  <2>3. n \in 1..Len(s)
    BY <1>2, <1>5, <2>2
  <2>4. n - 1 \in 0..Len(s) /\ n - 1 < n
    BY <1>2, <2>3
  <2>5. P(n - 1)
    BY <2>2, <2>4
  <2>6. P(n)
    BY <1>6, <2>3, <2>5
  <2> QED
    BY <2>2, <2>6
<1>8. P(Len(s))
  <2> HIDE DEF P
  <2> QED
    BY <1>2, <1>7
<1> QED
  BY <1>1, <1>8

(***************************************************************************)
(* What the algorithms store has the type of an entry                      *)
(***************************************************************************)
LEMMA EntryTypes ==
  /\ \A n, t \in Nat :
       NewEntry(n, t) \in StorageEntry /\ WithTokens(n, t) \in StorageEntry
  /\ \A times \in Seq(Nat) : WithTimestamps(times) \in StorageEntry
<1>1. ASSUME NEW n \in Nat, NEW t \in Nat
      PROVE  NewEntry(n, t) \in StorageEntry
  BY DEF NewEntry, StorageEntry
<1>2. ASSUME NEW n \in Nat, NEW t \in Nat
      PROVE  WithTokens(n, t) \in StorageEntry
  <2>1. NewEntry(0, t) \in StorageEntry
    BY DEF NewEntry, StorageEntry
  <2> QED
    BY <2>1 DEF WithTokens, StorageEntry
<1>3. ASSUME NEW times \in Seq(Nat)
      PROVE  WithTimestamps(times) \in StorageEntry
  <2> DEFINE last == IF times = <<>> THEN 0 ELSE times[Len(times)]
  <2>1. last \in Nat /\ Len(times) \in Nat
    OBVIOUS
  <2>2. NewEntry(Len(times), last) \in StorageEntry
    BY <2>1 DEF NewEntry, StorageEntry
  <2>3. WithTimestamps(times) = [NewEntry(Len(times), last) EXCEPT !.timestamps = times]
    BY DEF WithTimestamps
  <2> HIDE DEF last
  <2> QED
    BY <2>2, <2>3 DEF StorageEntry
<1> QED
  BY <1>1, <1>2, <1>3

LEMMA MinusType ==
  ASSUME NEW a \in Int, NEW b \in Int
  PROVE  Minus(a, b) \in Nat /\ Minus(a, b) >= a - b
  BY DEF Minus

LEMMA TimestampsType ==
  ASSUME NEW entry \in StorageEntry \cup {None}
  PROVE  Timestamps(entry) \in Seq(Nat)
  BY DEF Timestamps, StorageEntry

LEMMA InWindowType ==
  ASSUME NEW entry \in StorageEntry \cup {None}, NEW t \in Nat
  PROVE  InWindow(entry, t) \in Seq(Nat) /\ Len(InWindow(entry, t)) \in Nat
<1>1. Minus(t, WindowMs) \in Nat
  BY QuotaConstants, MinusType
<1>2. InWindow(entry, t) \in Seq(Nat)
  BY <1>1, TimestampsType, FilterFacts DEF InWindow
<1> QED
  BY <1>2

LEMMA WindowStartType ==
  ASSUME NEW t \in Nat
  PROVE  WindowStart(t) \in Nat
  BY QuotaConstants, DivisionIsNat, TimesNat DEF WindowStart

\* What a bucket holds, as a number of tokens.
Content(alg, entry) ==
  IF entry = None \/ entry.tokens = None THEN MaxTokens
  ELSE IF alg = "token_bucket" THEN entry.tokens
  ELSE MaxTokens - entry.tokens

\* The tokens the rate gives back to it.
Refill(entry, t) == Minus(t, entry.last_update) * EffectiveRefillRate

LEMMA RefillType ==
  ASSUME NEW entry \in StorageEntry, NEW t \in Nat
  PROVE  Refill(entry, t) \in Nat
<1>1. entry.last_update \in Nat
  BY DEF StorageEntry
<1>2. Minus(t, entry.last_update) \in Nat
  BY <1>1 DEF Minus
<1> QED
  BY <1>2, TimesNat, QuotaConstants DEF Refill

LEMMA RecordType ==
  ASSUME NEW entry \in StorageEntry \cup {None}, NEW t \in Nat,
         algorithm \in Algorithms \ {"fixed_window"}
  PROVE  Decide(entry, t).entry \in StorageEntry /\ Decide(entry, t).allowed \in BOOLEAN
<1>1. CASE algorithm = "token_bucket"
  <2>1. Refilled(entry, t) \in Nat
    <3>1. CASE entry = None
      BY <3>1, QuotaConstants DEF Refilled
    <3>2. CASE entry /= None
      <4>1. entry \in StorageEntry /\ entry.tokens \in Nat \cup {None}
        BY <3>2 DEF StorageEntry
      <4> DEFINE tokens == IF entry.tokens = None THEN MaxTokens ELSE entry.tokens
                 refill == Refill(entry, t)
      <4>2. tokens \in Nat /\ refill \in Nat
        BY <4>1, QuotaConstants, RefillType
      <4>3. Refilled(entry, t) = IF refill > 0 THEN Lesser(tokens + refill, MaxTokens)
                                 ELSE tokens
        BY <3>2 DEF Refilled, Refill
      <4> HIDE DEF tokens, refill
      <4> QED
        BY <4>2, <4>3, QuotaConstants DEF Lesser
    <3> QED
      BY <3>1, <3>2
  <2> DEFINE tokens == Refilled(entry, t)
             left   == IF tokens >= Unit THEN tokens - Unit ELSE tokens
  <2>2. left \in Nat
    BY <2>1, QuotaConstants
  <2>3. /\ Decide(entry, t).entry = WithTokens(left, t)
        /\ Decide(entry, t).allowed = (tokens >= Unit)
    BY <1>1 DEF Decide, TokenBucketRecord, Verdict
  <2> HIDE DEF left, tokens
  <2> QED
    BY <2>2, <2>3, EntryTypes
<1>2. CASE algorithm = "leaky_bucket"
  <2>1. Level(entry, t) \in Nat
    <3>1. CASE entry = None
      BY <3>1 DEF Level
    <3>2. CASE entry /= None
      <4>1. entry \in StorageEntry /\ entry.tokens \in Nat \cup {None}
        BY <3>2 DEF StorageEntry
      <4>2. Refill(entry, t) \in Nat
        BY <4>1, RefillType
      <4>3. Level(entry, t) =
              Minus(IF entry.tokens = None THEN 0 ELSE entry.tokens, Refill(entry, t))
        BY <3>2 DEF Level, Refill
      <4> DEFINE level == IF entry.tokens = None THEN 0 ELSE entry.tokens
      <4>4. level \in Nat
        BY <4>1
      <4> HIDE DEF level
      <4> QED
        BY <4>2, <4>3, <4>4 DEF level, Minus
    <3> QED
      BY <3>1, <3>2
  <2> DEFINE level == Level(entry, t)
             full  == level + Unit
  <2>2. full \in Nat
    BY <2>1, QuotaConstants
  <2>3. \/ Decide(entry, t).entry = WithTokens(full, t) /\ Decide(entry, t).allowed = TRUE
        \/ Decide(entry, t).entry = WithTokens(level, t) /\ Decide(entry, t).allowed = FALSE
    BY <1>2 DEF Decide, LeakyBucketRecord, Verdict
  <2> HIDE DEF full
  <2> QED
    BY <2>1, <2>2, <2>3, EntryTypes
<1>3. CASE algorithm = "sliding_log"
  <2> DEFINE log == InWindow(entry, t)
  <2>1. log \in Seq(Nat) /\ Append(log, t) \in Seq(Nat)
    BY InWindowType
  <2>2. \/ /\ Decide(entry, t).entry = WithTimestamps(Append(log, t))
           /\ Decide(entry, t).allowed = TRUE
        \/ /\ Decide(entry, t).entry = WithTimestamps(log)
           /\ Decide(entry, t).allowed = FALSE
    BY <1>3 DEF Decide, SlidingLogRecord, Verdict
  <2> HIDE DEF log
  <2> QED
    BY <2>1, <2>2, EntryTypes
<1>4. CASE algorithm = "sliding_window"
  <2> DEFINE counts == Counts(entry, t)
  <2>1. counts.current \in Nat /\ counts.previous \in Nat
    BY DEF Counts, StorageEntry
  <2>2. WindowStart(t) \in Nat
    BY WindowStartType
  <2>3. \/ /\ Decide(entry, t).entry = [NewEntry(counts.current + 1, WindowStart(t)) EXCEPT
                                          !.prev_count = counts.previous, !.last_update = t]
           /\ Decide(entry, t).allowed = TRUE
        \/ /\ Decide(entry, t).entry =
                IF entry = None THEN NewEntry(counts.current, WindowStart(t)) ELSE entry
           /\ Decide(entry, t).allowed = FALSE
    BY <1>4 DEF Decide, SlidingWindowRecord, Verdict
  <2> HIDE DEF counts
  <2>4. NewEntry(counts.current + 1, WindowStart(t)) \in StorageEntry
        /\ NewEntry(counts.current, WindowStart(t)) \in StorageEntry
    BY <2>1, <2>2, EntryTypes
  <2>5. [NewEntry(counts.current + 1, WindowStart(t)) EXCEPT
           !.prev_count = counts.previous, !.last_update = t] \in StorageEntry
    BY <2>1, <2>4 DEF StorageEntry
  <2> QED
    BY <2>3, <2>4, <2>5
<1> QED
  BY <1>1, <1>2, <1>3, <1>4, LimiterAssumption

LEMMA IncrementedType ==
  ASSUME NEW internal \in InternalEntry \cup {None}, NEW ws \in Nat, NEW t \in Nat
  PROVE  Incremented(internal, 1, ws, t) \in StorageEntry
<1>1. CASE internal = None
  <2>1. NewEntry(1, ws) \in StorageEntry
    BY EntryTypes
  <2> QED
    BY <1>1, <2>1 DEF Incremented, StorageEntry
<1>2. CASE internal /= None
  <2> DEFINE entry == internal.entry
  <2>1. entry \in StorageEntry /\ entry.count \in Nat
    BY <1>2 DEF InternalEntry, StorageEntry
  <2>2. Incremented(internal, 1, ws, t) =
          IF entry.window_start = ws
            THEN [entry EXCEPT !.count = @ + 1, !.last_update = t]
            ELSE [entry EXCEPT !.prev_count = entry.count, !.count = 1,
                               !.window_start = ws, !.last_update = t]
    BY <1>2 DEF Incremented
  <2> HIDE DEF entry
  <2>3. [entry EXCEPT !.count = @ + 1, !.last_update = t] \in StorageEntry
    <3> DEFINE c == entry.count + 1
    <3>1. c \in Nat
      BY <2>1
    <3> HIDE DEF c
    <3>2. [entry EXCEPT !.count = c, !.last_update = t] \in StorageEntry
      BY <2>1, <3>1 DEF StorageEntry
    <3> QED
      BY <3>2 DEF c
  <2>4. [entry EXCEPT !.prev_count = entry.count, !.count = 1,
                      !.window_start = ws, !.last_update = t] \in StorageEntry
    BY <2>1 DEF StorageEntry
  <2> QED
    BY <2>2, <2>3, <2>4
<1> QED
  BY <1>1, <1>2

(***************************************************************************)
(* The kinds of steps                                                      *)
(***************************************************************************)
Ending(w) == Record(w) \/ CountRecord(w) \/ PeekHit(w) \/ PeekMiss(w) \/ Forget(w)

StartSome(w, k) == CheckAndRecord(w, k) \/ Check(w, k) \/ Reset(w, k)

Calls == {"execute_atomic", "increment", "get", "delete"}

Counting == {"execute_atomic", "increment"}

LEMMA NextCases ==
  ASSUME [Next]_vars
  PROVE  \/ Time \/ StepBack \/ UNCHANGED vars
         \/ \E w \in Workers, k \in Keys : StartSome(w, k)
         \/ \E w \in Workers : Internal(w) \/ Ending(w)
  BY Zenon DEF Next, StartSome, Ending

LEMMA StartFacts ==
  ASSUME NEW w \in Workers, NEW k \in Keys, StartSome(w, k)
  PROVE  \E op \in Operations, ttl \in Nat :
           /\ Begin(w, op, k, ttl)
           /\ op \in Calls
           /\ op = "execute_atomic" => algorithm /= "fixed_window"
           /\ op = "increment" => algorithm = "fixed_window"
           /\ op \in Counting => ttl = Ttl
           /\ now' = [now EXCEPT ![w] = clock]
           /\ started' = [started EXCEPT ![w] = clock + behind]
           /\ UNCHANGED <<algorithm, behind, admitted>>
<1> USE QuotaConstants DEF StartSome, Start, Operations, Calls, Counting
<1>1. CASE CheckAndRecord(w, k)
  BY <1>1 DEF CheckAndRecord
<1>2. CASE Check(w, k)
  BY <1>2 DEF Check
<1>3. CASE Reset(w, k)
  BY <1>3 DEF Reset
<1> QED
  BY <1>1, <1>2, <1>3

LEMMA EndFacts ==
  ASSUME NEW w \in Workers, Ending(w)
  PROVE  /\ Busy(w)
         /\ call' = [call EXCEPT ![w] = NoCall]
         /\ now' = [now EXCEPT ![w] = 0]
         /\ started' = [started EXCEPT ![w] = 0]
         /\ UNCHANGED <<clock, requests, gcLock, algorithm, behind>>
  BY DEF Ending, Record, CountRecord, PeekHit, PeekMiss, Forget, TellRecorded, Done,
         ExecuteCommit, IncrementCommit, Insert, GetHit, GetMiss, GetRemove,
         DeleteCommit, Return, At, Busy

\* A common step of a call that an algorithm makes.
LEMMA CommonCall ==
  ASSUME StorageTypeOK, NEW w \in Workers, Common(w), call[w].op \in Calls
  PROVE  /\ Busy(w) /\ Busy(w)'
         /\ call'[w].op = call[w].op /\ call'[w].key = call[w].key
         /\ call'[w].ttl = call[w].ttl
         /\ call'[w].phase /= "remove"
         /\ call'[w].phase = "commit" => call'[w].op /= "execute_atomic"
         /\ call'[w].now \in {call[w].now, clock}
         /\ call'[w].gcNow \in {call[w].gcNow, clock, 0}
         /\ call[w].op \in Counting /\ call'[w].phase \in {"now", "load", "commit"} =>
              \/ call[w].phase = "now" /\ call'[w].expires = call[w].expires
              \/ call'[w].expires = clock + call[w].ttl
<1> USE DEF StorageTypeOK, Call, Busy, Calls, Counting
<1>0. AfterGc(w) = IF call[w].op = "get" THEN [call[w] EXCEPT !.phase = "now", !.gcNow = 0]
                   ELSE [call[w] EXCEPT !.phase = "expires", !.gcNow = 0]
  BY DEF AfterGc
<1>1. CASE CountRequest(w)
  BY <1>0, <1>1 DEF CountRequest
<1>2. CASE TryGcLock(w)
  <2>1. call' = [call EXCEPT ![w].phase = "gc"] \/ call' = [call EXCEPT ![w] = AfterGc(w)]
    BY <1>2 DEF TryGcLock, Goto
  <2>2. call[w].phase = "try_lock"
    BY <1>2 DEF TryGcLock
  <2>3. CASE call' = [call EXCEPT ![w].phase = "gc"]
    BY <2>2, <2>3
  <2>4. CASE call' = [call EXCEPT ![w] = AfterGc(w)]
    BY <1>0, <2>2, <2>4
  <2> QED
    BY <2>1, <2>3, <2>4
<1>3. CASE StartSweep(w)
  BY <1>3 DEF StartSweep
<1>4. CASE \E k \in Keys : SweepKey(w, k)
  BY <1>4 DEF SweepKey
<1>5. CASE EndSweep(w)
  BY <1>0, <1>5 DEF EndSweep
<1>6. CASE ComputeExpiry(w)
  BY <1>6 DEF ComputeExpiry
<1>7. CASE ReadNow(w)
  BY <1>7 DEF ReadNow
<1> QED
  BY <1>1, <1>2, <1>3, <1>4, <1>5, <1>6, <1>7 DEF Common

(***************************************************************************)
(* Type correctness, and the calls that are made, for any workers          *)
(***************************************************************************)
CallsOK == \A w \in Workers : CallsMade(w)

LEMMA CallsMadeInit == Init => CallsOK
<1> SUFFICES ASSUME Init, NEW w \in Workers PROVE CallsMade(w)
  BY DEF CallsOK
<1>1. call[w] = NoCall /\ NoCall.phase = "idle" /\ NoCall.op = None /\ behind = 0
  BY DEF Init, StorageInit, NoCall
<1>2. None \notin {"execute_atomic", "increment"}
  BY MemoryStorageAssumption DEF Operations
<1> QED
  BY <1>1, <1>2 DEF CallsMade, Busy

LEMMA TypeInit == Init => TypeOK
<1> SUFFICES ASSUME Init PROVE TypeOK
  OBVIOUS
<1>1. StorageTypeOK
  BY NoCallType, MemoryStorageAssumption DEF Init, StorageInit, StorageTypeOK
<1>2. CallsKeyed
  BY MemoryStorageAssumption DEF Init, StorageInit, CallsKeyed, Keyed, NoCall
<1> QED
  BY <1>1, <1>2, LimiterAssumption DEF Init, TypeOK

\* The entry that a call finds, if its key has one.
LEMMA KeyFacts ==
  ASSUME TypeOK, NEW w \in Workers, call[w].op \in Calls
  PROVE  /\ call[w].key \in Keys
         /\ data[call[w].key] \in InternalEntry \cup {None}
  BY DEF TypeOK, StorageTypeOK, CallsKeyed, Keyed, Operations, Calls

LEMMA EndingType ==
  ASSUME TypeOK, CallsOK, NEW w \in Workers, Ending(w)
  PROVE  StorageTypeOK' /\ admitted' \in [Keys -> Seq(Nat)]
<1>0. StorageTypeOK /\ admitted \in [Keys -> Seq(Nat)] /\ now[w] \in Nat
      /\ started[w] \in Nat /\ algorithm \in Algorithms
  BY DEF TypeOK
<1>1. ASSUME NEW verdict, TellRecorded(w, verdict)
      PROVE  admitted' \in [Keys -> Seq(Nat)]
  <2>1. \/ admitted' = admitted
        \/ admitted' = [admitted EXCEPT ![call[w].key] = Append(@, started[w])]
    BY <1>1 DEF TellRecorded
  <2>2. \A log \in Seq(Nat) : Append(log, started[w]) \in Seq(Nat)
    BY <1>0
  <2> QED
    BY <1>0, <2>1, <2>2
<1>2. CASE Record(w)
  <2>1. call[w].current \in StorageEntry \cup {None}
    BY <1>0 DEF StorageTypeOK, Call
  <2>2. algorithm /= "fixed_window"
    BY <1>2 DEF Record, ExecuteCommit, At, CallsOK, CallsMade
  <2>3. Decide(call[w].current, now[w]).entry \in StorageEntry
    BY <1>0, <2>1, <2>2, RecordType
  <2> QED
    BY <1>0, <1>1, <1>2, <2>3, WriteType DEF Record, ExecuteCommit
<1>3. CASE CountRecord(w)
  <2> DEFINE ws == WindowStart(now[w])
  <2>1. ws \in Nat /\ call[w].now \in Nat
    BY <1>0, WindowStartType DEF StorageTypeOK, Call
  <2>2. call[w].op = "increment"
    BY <1>3 DEF CountRecord, IncrementCommit, At
  <2>3. data[call[w].key] \in InternalEntry \cup {None}
    BY <2>2, KeyFacts DEF Calls
  <2> HIDE DEF ws
  <2>4. Incremented(data[call[w].key], 1, ws, call[w].now) \in StorageEntry
    BY <2>1, <2>3, IncrementedType
  <2>5. StorageTypeOK'
    BY <1>0, <1>3, <2>4, WriteType DEF CountRecord, IncrementCommit, ws
  <2> QED
    BY <1>1, <1>3, <2>5 DEF CountRecord
<1>4. CASE PeekHit(w) \/ PeekMiss(w)
  <2>1. StorageTypeOK'
    BY <1>4, ReadType, WriteType DEF PeekHit, PeekMiss, TypeOK
  <2> QED
    BY <1>0, <1>4, <2>1 DEF PeekHit, PeekMiss
<1>5. CASE Forget(w)
  <2>1. StorageTypeOK'
    BY <1>5, WriteType DEF Forget, TypeOK
  <2>2. call[w].key \in Keys
    BY <1>5, KeyFacts DEF Forget, DeleteCommit, At, Calls
  <2> QED
    BY <1>0, <1>5, <2>1, <2>2 DEF Forget
<1> QED
  BY <1>2, <1>3, <1>4, <1>5 DEF Ending

LEMMA StorageStep ==
  ASSUME TypeOK, CallsOK, [Next]_vars
  PROVE  StorageTypeOK' /\ CallsKeyed'
<1> USE DEF TypeOK
<1>0. NoCall.op \notin Keyed
  BY MemoryStorageAssumption DEF NoCall, Keyed
<1>1. CASE UNCHANGED vars
  BY <1>1 DEF vars, storageVars, StorageTypeOK, CallsKeyed
<1>2. CASE Time
  BY <1>2 DEF Time, Tick, StorageTypeOK, CallsKeyed
<1>3. CASE StepBack
  <2>1. clock' \in Nat
    BY <1>3, LimiterAssumption DEF StepBack, StorageTypeOK
  <2> QED
    BY <1>3, <2>1 DEF StepBack, StorageTypeOK, CallsKeyed
<1>4. ASSUME NEW w \in Workers, NEW k \in Keys, StartSome(w, k)
      PROVE  StorageTypeOK' /\ CallsKeyed'
  <2>1. PICK op \in Operations, ttl \in Nat : Begin(w, op, k, ttl)
    BY <1>4, StartFacts
  <2>2. StorageTypeOK'
    BY <2>1, BeginType
  <2>3. call'[w].key = k /\ \A v \in Workers \ {w} : call'[v] = call[v]
    BY <2>1 DEF Begin, NoCall, StorageTypeOK
  <2> QED
    BY <2>2, <2>3 DEF CallsKeyed
<1>5. ASSUME NEW w \in Workers, Internal(w)
      PROVE  StorageTypeOK' /\ CallsKeyed'
  <2>1. StorageTypeOK'
    BY <1>5, CommonType, ReadType DEF Internal
  <2>2. /\ \A v \in Workers \ {w} : call'[v] = call[v]
        /\ \/ call'[w] = NoCall
           \/ call'[w].op = call[w].op /\ call'[w].key = call[w].key
    <3>1. CASE Common(w)
      BY <3>1, CommonFrame
    <3>2. CASE Load(w)
      BY <3>2 DEF Load, StorageTypeOK, Call
    <3>3. CASE GetExpired(w)
      BY <3>3 DEF GetExpired, Goto, StorageTypeOK, Call
    <3> QED
      BY <1>5, <3>1, <3>2, <3>3 DEF Internal
  <2> QED
    BY <1>0, <2>1, <2>2 DEF CallsKeyed
<1>6. ASSUME NEW w \in Workers, Ending(w)
      PROVE  StorageTypeOK' /\ CallsKeyed'
  <2>1. StorageTypeOK'
    BY <1>6, EndingType
  <2> QED
    BY <1>0, <1>6, <2>1, EndFacts DEF CallsKeyed, StorageTypeOK
<1> QED
  BY <1>1, <1>2, <1>3, <1>4, <1>5, <1>6, NextCases

LEMMA TypeStep == TypeOK /\ CallsOK /\ [Next]_vars => TypeOK'
<1> SUFFICES ASSUME TypeOK, CallsOK, [Next]_vars PROVE TypeOK'
  OBVIOUS
<1> DEFINE Others == /\ algorithm' \in Algorithms
                     /\ behind' \in 0..MaxStep
                     /\ now' \in [Workers -> Nat]
                     /\ started' \in [Workers -> Nat]
                     /\ admitted' \in [Keys -> Seq(Nat)]
<1> SUFFICES Others
  BY StorageStep DEF TypeOK
<1>0. clock \in Nat /\ behind \in Nat /\ MaxStep \in Nat
  BY LimiterAssumption DEF TypeOK, StorageTypeOK
<1>1. CASE UNCHANGED vars
  BY <1>1 DEF vars, TypeOK
<1>2. CASE Time
  BY <1>2 DEF Time, TypeOK
<1>3. CASE StepBack
  <2>1. behind' \in 0..MaxStep
    BY <1>0, <1>3 DEF StepBack, TypeOK
  <2> QED
    BY <1>3, <2>1 DEF StepBack, TypeOK
<1>4. ASSUME NEW w \in Workers, NEW k \in Keys, StartSome(w, k)
      PROVE  Others
  <2>1. /\ now' = [now EXCEPT ![w] = clock]
        /\ started' = [started EXCEPT ![w] = clock + behind]
        /\ UNCHANGED <<algorithm, behind, admitted>>
    BY <1>4, StartFacts
  <2>2. clock + behind \in Nat
    BY <1>0
  <2> QED
    BY <1>0, <2>1, <2>2 DEF TypeOK
<1>5. ASSUME NEW w \in Workers, Internal(w)
      PROVE  Others
  BY <1>5 DEF Internal, TypeOK
<1>6. ASSUME NEW w \in Workers, Ending(w)
      PROVE  Others
  <2>1. admitted' \in [Keys -> Seq(Nat)]
    BY <1>6, EndingType
  <2>2. /\ now' = [now EXCEPT ![w] = 0]
        /\ started' = [started EXCEPT ![w] = 0]
        /\ UNCHANGED <<algorithm, behind>>
    BY <1>6, EndFacts
  <2> QED
    BY <2>1, <2>2 DEF TypeOK
<1> HIDE DEF Others
<1> QED
  BY Zenon, <1>1, <1>2, <1>3, <1>4, <1>5, <1>6, NextCases

\* What one worker knows of its call, for a step that is not its own.
LEMMA CallsMadeStep == TypeOK /\ CallsOK /\ [Next]_vars => CallsOK'
<1> SUFFICES ASSUME TypeOK, CallsOK, [Next]_vars, NEW v \in Workers
             PROVE  CallsMade(v)'
  BY DEF CallsOK
<1>0. /\ clock \in Nat /\ behind \in Nat /\ MaxStep \in Nat /\ MaxLatency \in Nat
      /\ now \in [Workers -> Nat] /\ started \in [Workers -> Nat]
      /\ call \in [Workers -> Call]
  BY LimiterAssumption DEF TypeOK, StorageTypeOK
<1>a. CallsMade(v)
  BY DEF CallsOK
<1>b. None \notin Calls /\ NoCall.op = None /\ NoCall.phase = "idle"
  BY MemoryStorageAssumption DEF Operations, Calls, NoCall
<1>1. CASE UNCHANGED vars
  BY <1>a, <1>1 DEF vars, storageVars, CallsMade, Busy, Ttl
<1>2. CASE Time
  <2>1. /\ Busy(v) => clock + behind < started[v] + MaxLatency
        /\ clock' = clock + 1
        /\ UNCHANGED <<call, algorithm, behind, now, started>>
    BY <1>2 DEF Time, Tick
  <2>2. started[v] \in Nat
    BY <1>0
  <2> QED
    BY <1>0, <1>a, <2>1, <2>2 DEF CallsMade, Busy, Ttl
<1>3. CASE StepBack
  <2>1. PICK step \in 1..(MaxStep - behind) :
          step <= clock /\ clock' = clock - step /\ behind' = behind + step
    BY <1>3 DEF StepBack
  <2>2. algorithm \in Resilient /\ UNCHANGED <<call, algorithm, now, started>>
    BY <1>3 DEF StepBack
  <2>3. clock' + behind' = clock + behind /\ behind <= behind'
    BY <1>0, <2>1
  <2>4. now[v] \in Nat /\ started[v] \in Nat /\ behind' \in Nat
    BY <1>0, <2>1
  <2>5. Ttl' = Ttl /\ Busy(v)' = Busy(v) /\ Resilient' = Resilient
    BY <2>2 DEF Ttl, Busy, Resilient
  <2> HIDE DEF Resilient
  <2> QED
    BY <1>0, <1>a, <2>2, <2>3, <2>4, <2>5 DEF CallsMade
<1>4. ASSUME NEW w \in Workers, NEW k \in Keys, StartSome(w, k)
      PROVE  CallsMade(v)'
  <2>1. PICK op \in Operations, ttl \in Nat :
           /\ Begin(w, op, k, ttl)
           /\ op \in Calls
           /\ op = "execute_atomic" => algorithm /= "fixed_window"
           /\ op = "increment" => algorithm = "fixed_window"
           /\ op \in Counting => ttl = Ttl
           /\ now' = [now EXCEPT ![w] = clock]
           /\ started' = [started EXCEPT ![w] = clock + behind]
           /\ UNCHANGED <<algorithm, behind, admitted>>
    BY <1>4, StartFacts
  <2>2. clock' = clock /\ Ttl' = Ttl
    BY <2>1 DEF Begin, Ttl
  <2>3. CASE v = w
    <3>1. /\ call'[v].op = op /\ call'[v].ttl = ttl
          /\ call'[v].phase = FirstPhase(op)
      BY <1>0, <2>1, <2>3 DEF Begin, NoCall
    <3>2. Busy(v)' /\ op /= None
      BY <1>b, <2>1, <3>1 DEF Busy, FirstPhase, Calls
    <3>3. now'[v] = clock /\ started'[v] = clock + behind
      BY <1>0, <2>1, <2>3
    <3> QED
      BY <1>0, <1>a, <2>1, <2>2, <3>1, <3>2, <3>3 DEF CallsMade, Calls, Counting
  <2>4. CASE v /= w
    <3>1. call'[v] = call[v] /\ now'[v] = now[v] /\ started'[v] = started[v]
      BY <1>0, <2>1, <2>4 DEF Begin
    <3> QED
      BY <1>a, <2>1, <2>2, <3>1 DEF CallsMade, Busy
  <2> QED
    BY <2>3, <2>4
<1>5. ASSUME NEW w \in Workers, Internal(w)
      PROVE  CallsMade(v)'
  <2>1. UNCHANGED <<algorithm, behind, now, started>> /\ clock' = clock
    BY <1>5, CommonFrame DEF Internal, Load, GetExpired, TypeOK
  <2>2. /\ call'[v].op = call[v].op /\ call'[v].ttl = call[v].ttl
        /\ Busy(v)' = Busy(v)
    <3>1. CASE v /= w
      <4>1. call'[v] = call[v]
        BY <1>0, <1>5, <3>1, CommonFrame DEF Internal, Load, GetExpired, Goto, TypeOK
      <4> QED
        BY <4>1 DEF Busy
    <3>2. CASE v = w /\ Common(w)
      <4>1. call[w].op \in Calls
        <5>1. Busy(w)
          BY <3>2, CommonLocals DEF TypeOK
        <5> QED
          BY <1>a, <3>2, <5>1 DEF CallsMade, Calls
      <4>2. /\ Busy(w) /\ Busy(w)'
            /\ call'[w].op = call[w].op /\ call'[w].ttl = call[w].ttl
        BY <3>2, <4>1, CommonCall DEF TypeOK
      <4> QED
        BY <3>2, <4>2 DEF Busy
    <3>3. CASE v = w /\ Load(w)
      <4>1. \E c : call' = [call EXCEPT ![w] = [@ EXCEPT !.phase = "commit", !.current = c]]
        BY <3>3 DEF Load
      <4>2. call[w] \in Call /\ call[w].phase = "load"
        BY <1>0, <3>3 DEF Load
      <4> QED
        BY <1>0, <3>3, <4>1, <4>2 DEF Busy, Call
    <3>4. CASE v = w /\ GetExpired(w)
      BY <1>0, <3>4 DEF GetExpired, Goto, Busy, Call, At
    <3> QED
      BY <1>5, <3>1, <3>2, <3>3, <3>4 DEF Internal
  <2>3. Ttl' = Ttl
    BY <2>1 DEF Ttl
  <2> QED
    BY <1>a, <2>1, <2>2, <2>3 DEF CallsMade
<1>6. ASSUME NEW w \in Workers, Ending(w)
      PROVE  CallsMade(v)'
  <2>1. /\ call' = [call EXCEPT ![w] = NoCall]
        /\ now' = [now EXCEPT ![w] = 0]
        /\ started' = [started EXCEPT ![w] = 0]
        /\ UNCHANGED <<clock, algorithm, behind>>
    BY <1>6, EndFacts
  <2>2. CASE v = w
    <3>1. call'[v] = NoCall /\ ~Busy(v)'
      BY <1>0, <1>b, <2>1, <2>2 DEF Busy
    <3>2. call'[v].op = None
      BY <1>b, <3>1
    <3> QED
      BY <1>a, <1>b, <2>1, <3>1, <3>2 DEF CallsMade, Calls
  <2>3. CASE v /= w
    <3>1. call'[v] = call[v] /\ now'[v] = now[v] /\ started'[v] = started[v]
      BY <1>0, <2>1, <2>3
    <3>2. Ttl' = Ttl
      BY <2>1 DEF Ttl
    <3> QED
      BY <1>a, <2>1, <3>1, <3>2 DEF CallsMade, Busy
  <2> QED
    BY <2>2, <2>3
<1> QED
  BY Zenon, <1>1, <1>2, <1>3, <1>4, <1>5, <1>6, NextCases

\* Every state has the types it should, whatever the quota, the algorithm, the
\* number of workers and keys, and however the clock is set back.
THEOREM LimiterTypes == Spec => []TypeOK
<1>1. Init => TypeOK /\ CallsOK
  BY TypeInit, CallsMadeInit
<1>2. (TypeOK /\ CallsOK) /\ [Next]_vars => (TypeOK /\ CallsOK)'
  BY TypeStep, CallsMadeStep
<1> QED
  BY <1>1, <1>2, PTL DEF Spec

(***************************************************************************)
(* What is owed of a bucket                                                *)
(***************************************************************************)
LEMMA SinceType ==
  ASSUME NEW log \in Seq(Nat), NEW i \in 1..Len(log)
  PROVE  /\ log[i] \in Nat /\ Since(log, i) \in Nat \ {0}
         /\ log[i] * EffectiveRefillRate \in Nat /\ Since(log, i) * Unit \in Nat
<1>1. log[i] \in Nat /\ Since(log, i) \in Nat \ {0}
  BY DEF Since
<1> QED
  BY <1>1, TimesNat, QuotaConstants

LEMMA OwedMore ==
  ASSUME NEW log \in Seq(Nat), NEW a \in Int, NEW b \in Int, Owed(log, a), a <= b
  PROVE  Owed(log, b)
<1> SUFFICES ASSUME NEW i \in 1..Len(log)
             PROVE  log[i] * EffectiveRefillRate + Since(log, i) * Unit <= b
  BY DEF Owed
<1> DEFINE x == log[i] * EffectiveRefillRate
           y == Since(log, i) * Unit
<1>1. x \in Nat /\ y \in Nat
  BY SinceType
<1>2. x + y <= a
  BY DEF Owed
<1> HIDE DEF x, y
<1>3. x + y <= b
  BY <1>1, <1>2
<1> QED
  BY <1>3 DEF x, y

\* How a log grows by a request.
LEMMA AppendFacts ==
  ASSUME NEW log \in Seq(Nat), NEW s \in Nat
  PROVE  LET grown == Append(log, s)
         IN  /\ grown \in Seq(Nat)
             /\ Len(grown) = Len(log) + 1 /\ Len(log) \in Nat
             /\ grown[Len(grown)] = s /\ Since(grown, Len(grown)) = 1
             /\ \A i \in 1..Len(log) : /\ i \in 1..Len(grown)
                                       /\ grown[i] = log[i]
                                       /\ Since(grown, i) = Since(log, i) + 1
             /\ \A i \in 1..Len(grown) : i \in 1..Len(log) \/ i = Len(grown)
  BY DEF Since

LEMMA OwedAppend ==
  ASSUME NEW log \in Seq(Nat), NEW s \in Nat, NEW a \in Int, NEW b \in Int, Owed(log, a),
         a + Unit <= b, s * EffectiveRefillRate + Unit <= b
  PROVE  Owed(Append(log, s), b)
<1> DEFINE grown == Append(log, s)
<1> SUFFICES ASSUME NEW i \in 1..Len(grown)
             PROVE  grown[i] * EffectiveRefillRate + Since(grown, i) * Unit <= b
  BY DEF Owed
<1>0. Unit \in Nat
  BY QuotaConstants
<1>1. CASE i \in 1..Len(log)
  <2>1. grown[i] = log[i] /\ Since(grown, i) = Since(log, i) + 1
    BY <1>1, AppendFacts
  <2> DEFINE x == log[i] * EffectiveRefillRate
             n == Since(log, i)
             y == n * Unit
  <2>2. x \in Nat /\ y \in Nat /\ n \in Nat
    BY <1>1, SinceType
  <2>3. (n + 1) * Unit = y + 1 * Unit
    BY <1>0, <2>2, TimesSum
  <2>4. x + y <= a
    BY <1>1 DEF Owed
  <2> HIDE DEF x, y, n
  <2>5. x + (n + 1) * Unit <= b
    BY <1>0, <2>2, <2>3, <2>4
  <2> QED
    BY <2>1, <2>5 DEF x, n
<1>2. CASE i = Len(grown)
  <2>1. grown[i] = s /\ Since(grown, i) = 1
    BY <1>2, AppendFacts
  <2> QED
    BY <1>0, <2>1
<1> QED
  BY <1>1, <1>2, AppendFacts

(***************************************************************************)
(* What is in a bucket                                                     *)
(***************************************************************************)
\* An entry of a bucket, or its absence.
BucketEntry(entry) ==
  entry = None \/ (entry \in StorageEntry /\ entry.tokens \in 0..MaxTokens)

\* Both buckets fill at the rate, up to the burst.
LEMMA AvailableIs ==
  ASSUME NEW alg \in Buckets, NEW entry, BucketEntry(entry), NEW t \in Nat
  PROVE  Available(alg, entry, t) =
           IF entry = None THEN MaxTokens
           ELSE Lesser(Content(alg, entry) + Refill(entry, t), MaxTokens)
<1>0. MaxTokens \in Nat /\ MaxLevel = MaxTokens
  BY QuotaConstants
<1>1. CASE entry = None
  <2>1. Refilled(entry, t) = MaxTokens
    BY <1>1 DEF Refilled
  <2>2. Level(entry, t) = 0
    BY <1>1 DEF Level
  <2> QED
    BY <1>0, <1>1, <2>1, <2>2 DEF Available
<1>2. CASE entry /= None
  <2>1. entry \in StorageEntry /\ entry.tokens \in 0..MaxTokens /\ entry.tokens /= None
    BY <1>0, <1>2, NoneAssumption DEF BucketEntry
  <2> DEFINE refill == Refill(entry, t)
             tokens == entry.tokens
  <2>2. refill \in Nat
    BY <2>1, RefillType
  <2>3. Refilled(entry, t) = IF refill > 0 THEN Lesser(tokens + refill, MaxTokens) ELSE tokens
    BY <1>2, <2>1 DEF Refilled, Refill
  <2>4. Level(entry, t) = Minus(tokens, refill)
    BY <1>2, <2>1 DEF Level, Refill
  <2>5. Content(alg, entry) = IF alg = "token_bucket" THEN tokens ELSE MaxTokens - tokens
    BY <1>2, <2>1 DEF Content
  <2>6. tokens \in 0..MaxTokens
    BY <2>1
  <2> HIDE DEF refill, tokens
  <2>7. Available(alg, entry, t) = Lesser(Content(alg, entry) + refill, MaxTokens)
    BY <1>0, <2>2, <2>3, <2>4, <2>5, <2>6 DEF Available, Buckets, Lesser, Minus
  <2> QED
    BY <1>2, <2>7 DEF refill
<1> QED
  BY <1>1, <1>2

LEMMA AvailableType ==
  ASSUME NEW alg \in Buckets, NEW entry, BucketEntry(entry), NEW t \in Nat
  PROVE  Available(alg, entry, t) \in 0..MaxTokens
<1>0. MaxTokens \in Nat
  BY QuotaConstants
<1>1. CASE entry = None
  BY <1>0, <1>1, AvailableIs
<1>2. CASE entry /= None
  <2>1. entry \in StorageEntry /\ entry.tokens \in 0..MaxTokens
    BY <1>2 DEF BucketEntry
  <2> DEFINE refill == Refill(entry, t)
             content == Content(alg, entry)
  <2>2. refill \in Nat
    BY <2>1, RefillType
  <2>3. content \in 0..MaxTokens
    BY <1>0, <2>1 DEF Content
  <2>4. Available(alg, entry, t) = Lesser(content + refill, MaxTokens)
    BY <1>2, AvailableIs
  <2> HIDE DEF refill, content
  <2> QED
    BY <1>0, <2>2, <2>3, <2>4 DEF Lesser
<1> QED
  BY <1>1, <1>2

LEMMA MinusSum ==
  ASSUME NEW a \in Nat, NEW b \in Nat, NEW c \in Nat
  PROVE  /\ Minus(a, c) \in Nat /\ Minus(b, c) \in Nat /\ Minus(b, a) \in Nat
         /\ Minus(b, c) <= Minus(a, c) + Minus(b, a)
  BY DEF Minus

\* No more comes in between two times than the rate gives.
LEMMA AvailableGrows ==
  ASSUME NEW alg \in Buckets, NEW entry, BucketEntry(entry), NEW t \in Nat, NEW u \in Nat
  PROVE  Available(alg, entry, u) <=
           Available(alg, entry, t) + Minus(u, t) * EffectiveRefillRate
<1>0. MaxTokens \in Nat /\ EffectiveRefillRate \in Nat
  BY QuotaConstants
<1> DEFINE gain == Minus(u, t) * EffectiveRefillRate
<1>1. Minus(u, t) \in Nat /\ gain \in Nat
  <2>1. Minus(u, t) \in Nat
    BY DEF Minus
  <2> QED
    BY <1>0, <2>1, TimesNat
<1>2. CASE entry = None
  BY <1>0, <1>1, <1>2, AvailableIs
<1>3. CASE entry /= None
  <2>1. entry \in StorageEntry /\ entry.last_update \in Nat
    BY <1>3 DEF BucketEntry, StorageEntry
  <2> DEFINE atT == Refill(entry, t)
             atU == Refill(entry, u)
             content == Content(alg, entry)
             last == entry.last_update
  <2>2. atU <= atT + gain
    <3>1. /\ Minus(t, last) \in Nat /\ Minus(u, last) \in Nat
          /\ Minus(u, last) <= Minus(t, last) + Minus(u, t)
      BY <2>1, MinusSum
    <3>2. Minus(u, last) * EffectiveRefillRate
            <= (Minus(t, last) + Minus(u, t)) * EffectiveRefillRate
      BY <1>0, <1>1, <3>1, TimesMonotone
    <3>3. (Minus(t, last) + Minus(u, t)) * EffectiveRefillRate
            = Minus(t, last) * EffectiveRefillRate + gain
      BY <1>0, <1>1, <3>1, TimesSum
    <3> QED
      BY <3>2, <3>3 DEF Refill
  <2>3. atT \in Nat /\ atU \in Nat
    BY <2>1, RefillType
  <2>4. content \in 0..MaxTokens
    BY <1>0, <1>3 DEF Content, BucketEntry
  <2>5. /\ Available(alg, entry, t) = Lesser(content + atT, MaxTokens)
        /\ Available(alg, entry, u) = Lesser(content + atU, MaxTokens)
    BY <1>3, AvailableIs
  <2> HIDE DEF gain, atT, atU, content
  <2>6. Available(alg, entry, u) <= Available(alg, entry, t) + gain
    BY <1>0, <1>1, <2>2, <2>3, <2>4, <2>5 DEF Lesser
  <2> QED
    BY <2>6 DEF gain
<1> QED
  BY <1>2, <1>3

(***************************************************************************)
(* What an algorithm knows, and how long                                   *)
(***************************************************************************)
LEMMA OrderedFacts ==
  ASSUME NEW log \in Seq(Nat), NEW base \in Int, Ordered(log, base)
  PROVE  /\ \A i \in 1..Len(log) : log[i] \in Nat /\ log[i] <= base
         /\ \A i, j \in 1..Len(log) : i <= j => log[i] <= log[j]
         /\ \A later \in Int : base <= later => Ordered(log, later)
         /\ \A s \in Nat : base <= s => Ordered(Append(log, s), s)
<1>1. /\ \A i \in 1..Len(log) : log[i] \in Nat /\ log[i] <= base
      /\ \A i, j \in 1..Len(log) : i <= j => log[i] <= log[j]
  BY DEF Ordered
<1>2. ASSUME NEW later \in Int, base <= later PROVE Ordered(log, later)
  BY <1>1, <1>2 DEF Ordered
<1>3. ASSUME NEW s \in Nat, base <= s PROVE Ordered(Append(log, s), s)
  <2> DEFINE grown == Append(log, s)
  <2> SUFFICES ASSUME NEW j \in 1..Len(grown)
               PROVE  grown[j] <= s /\ \A i \in 1..j : grown[i] <= grown[j]
    BY DEF Ordered
  <2>1. \A i \in 1..Len(log) : grown[i] = log[i] /\ grown[i] <= s
    BY <1>1, <1>3, AppendFacts
  <2>2. grown[Len(grown)] = s /\ Len(grown) = Len(log) + 1 /\ Len(log) \in Nat
    BY AppendFacts
  <2> HIDE DEF grown
  <2>3. CASE j \in 1..Len(log)
    BY <1>1, <2>1, <2>2, <2>3
  <2>4. CASE j = Len(grown)
    <3>1. \A i \in 1..j : i \in 1..Len(log) \/ i = Len(grown)
      BY <2>2, <2>4
    <3> QED
      BY <2>1, <2>2, <2>4, <3>1
  <2> QED
    BY <2>2, <2>3, <2>4
<1> QED
  BY <1>1, <1>2, <1>3

LEMMA DivisionBounds ==
  ASSUME NEW a \in Nat, NEW w \in Nat \ {0}
  PROVE  (a \div w) * w <= a /\ a < (a \div w) * w + w
  OBVIOUS

LEMMA WindowStartMonotone ==
  ASSUME NEW a \in Nat, NEW b \in Nat, a <= b
  PROVE  /\ WindowStart(a) <= WindowStart(b)
         /\ WindowStart(a) = WindowStart(b) => b < a + WindowMs
<1> DEFINE q == a \div WindowMs
           r == b \div WindowMs
<1>0. WindowMs \in Nat \ {0}
  BY QuotaConstants
<1>1. q \in Nat /\ r \in Nat
  BY <1>0, DivisionIsNat
<1>4. /\ q * WindowMs <= a /\ a < q * WindowMs + WindowMs
      /\ r * WindowMs <= b /\ b < r * WindowMs + WindowMs
  BY <1>0, DivisionBounds
<1> HIDE DEF q, r
<1>2. q <= r
  <2> SUFFICES ASSUME r + 1 <= q PROVE FALSE
    BY <1>1
  <2>1. (r + 1) * WindowMs <= q * WindowMs
    BY <1>0, <1>1, TimesMonotone
  <2>2. (r + 1) * WindowMs = r * WindowMs + 1 * WindowMs
    BY <1>0, <1>1, TimesSum
  <2>3. r * WindowMs \in Nat /\ q * WindowMs \in Nat
    BY <1>0, <1>1, TimesNat
  <2> QED
    BY <1>0, <1>4, <2>1, <2>2, <2>3
<1>3. q * WindowMs <= r * WindowMs
  BY <1>0, <1>1, <1>2, TimesMonotone
<1>5. q * WindowMs \in Nat /\ r * WindowMs \in Nat
  BY <1>0, <1>1, TimesNat
<1> DEFINE x == q * WindowMs
           y == r * WindowMs
<1>6. WindowStart(a) = x /\ WindowStart(b) = y
  BY DEF WindowStart, q, r
<1> HIDE DEF x, y
<1> QED
  BY <1>0, <1>3, <1>4, <1>5, <1>6 DEF x, y

\* Between two times of a window all times are of that window.
LEMMA WindowBetween ==
  ASSUME NEW a \in Nat, NEW b \in Nat, NEW c \in Nat, a <= b, b <= c,
         WindowStart(a) = WindowStart(c)
  PROVE  WindowStart(a) = WindowStart(b)
<1>1. WindowStart(a) <= WindowStart(b) /\ WindowStart(b) <= WindowStart(c)
  BY WindowStartMonotone
<1> QED
  BY <1>1, WindowStartType

\* A window starts at each multiple of its length.
LEMMA StartOfMultiple ==
  ASSUME NEW q \in Nat
  PROVE  WindowStart(q * WindowMs) = q * WindowMs
<1>0. WindowMs \in Nat \ {0}
  BY QuotaConstants
<1> DEFINE x == q * WindowMs
           r == x \div WindowMs
<1>1. x \in Nat /\ r \in Nat
  BY <1>0, DivisionIsNat, TimesNat
<1>2. r * WindowMs <= x /\ x < r * WindowMs + WindowMs
  <2> HIDE DEF x
  <2> QED
    BY <1>0, <1>1, DivisionBounds
<1>3. r = q
  <2> HIDE DEF r
  <2>1. CASE r < q
    <3>1. (r + 1) * WindowMs <= q * WindowMs
      BY <1>0, <1>1, <2>1, TimesMonotone
    <3>2. (r + 1) * WindowMs = r * WindowMs + 1 * WindowMs
      BY <1>0, <1>1, TimesSum
    <3>3. r * WindowMs \in Nat
      BY <1>0, <1>1, TimesNat
    <3> QED
      BY <1>0, <1>1, <1>2, <3>1, <3>2, <3>3
  <2>2. CASE q < r
    <3>1. (q + 1) * WindowMs <= r * WindowMs
      BY <1>0, <1>1, <2>2, TimesMonotone
    <3>2. (q + 1) * WindowMs = q * WindowMs + 1 * WindowMs
      BY <1>0, <1>1, TimesSum
    <3>3. r * WindowMs \in Nat
      BY <1>0, <1>1, TimesNat
    <3> QED
      BY <1>0, <1>1, <1>2, <3>1, <3>2, <3>3
  <2> QED
    BY <1>1, <2>1, <2>2
<1>4. WindowStart(x) = r * WindowMs
  BY DEF WindowStart
<1> QED
  BY <1>3, <1>4

\* Where the windows start.
LEMMA WindowStartFacts ==
  ASSUME NEW t \in Nat
  PROVE  /\ WindowStart(t) \in Nat /\ WindowStart(t) <= t /\ t < WindowStart(t) + WindowMs
         /\ WindowStart(WindowStart(t)) = WindowStart(t)
         /\ WindowEnds(t) \in 1..WindowMs
<1>0. WindowMs \in Nat \ {0}
  BY QuotaConstants
<1>1. WindowStart(t) \in Nat /\ WindowStart(t) <= t /\ t < WindowStart(t) + WindowMs
  BY <1>0, WindowStartType, DivisionBounds DEF WindowStart
<1>2. WindowStart(WindowStart(t)) = WindowStart(t)
  <2>1. t \div WindowMs \in Nat
    BY <1>0, DivisionIsNat
  <2> QED
    BY <2>1, StartOfMultiple DEF WindowStart
<1>3. WindowEnds(t) \in 1..WindowMs
  BY <1>0, <1>1 DEF WindowEnds
<1> QED
  BY <1>1, <1>2, <1>3

\* One window is over before another begins.
LEMMA NextWindow ==
  ASSUME NEW s \in Nat, NEW t \in Nat, s = WindowStart(s), s <= t
  PROVE  s = WindowStart(t) \/ s + WindowMs <= WindowStart(t)
<1>0. WindowMs \in Nat \ {0}
  BY QuotaConstants
<1> DEFINE q == s \div WindowMs
           r == t \div WindowMs
<1>1. q \in Nat /\ r \in Nat
  BY <1>0, DivisionIsNat
<1>2. s = q * WindowMs /\ WindowStart(t) = r * WindowMs
  BY DEF WindowStart
<1>3. s <= WindowStart(t)
  BY WindowStartMonotone
<1> HIDE DEF q, r
<1>4. CASE q = r
  BY <1>2, <1>4
<1>5. CASE q < r
  <2>1. (q + 1) * WindowMs <= r * WindowMs
    BY <1>0, <1>1, <1>5, TimesMonotone
  <2>2. (q + 1) * WindowMs = q * WindowMs + 1 * WindowMs
    BY <1>0, <1>1, TimesSum
  <2>3. r * WindowMs \in Nat /\ q * WindowMs \in Nat
    BY <1>0, <1>1, TimesNat
  <2> QED
    BY <1>0, <1>2, <2>1, <2>2, <2>3
<1>6. CASE r < q
  <2>1. (r + 1) * WindowMs <= q * WindowMs
    BY <1>0, <1>1, <1>6, TimesMonotone
  <2>2. (r + 1) * WindowMs = r * WindowMs + 1 * WindowMs
    BY <1>0, <1>1, TimesSum
  <2>3. r * WindowMs \in Nat /\ q * WindowMs \in Nat
    BY <1>0, <1>1, TimesNat
  <2> QED
    BY <1>0, <1>2, <1>3, <2>1, <2>2, <2>3
<1> QED
  BY <1>1, <1>4, <1>5, <1>6

\* What a bucket knows is the balance of what is owed and what it holds.
LEMMA BucketStays ==
  ASSUME NEW alg \in Buckets, NEW entry, BucketEntry(entry), NEW log \in Seq(Nat),
         NEW base \in Nat, NEW reading \in Nat, NEW base2 \in Nat, NEW reading2 \in Nat,
         base <= base2, reading2 - reading <= base2 - base,
         BucketKnows(alg, entry, log, base, reading)
  PROVE  BucketKnows(alg, entry, log, base2, reading2)
<1> DEFINE x1 == base * EffectiveRefillRate
           x2 == base2 * EffectiveRefillRate
           gain == Minus(reading2, reading) * EffectiveRefillRate
           a1 == Available(alg, entry, reading)
           a2 == Available(alg, entry, reading2)
<1>0. MaxTokens \in Nat /\ EffectiveRefillRate \in Nat
  BY QuotaConstants
<1>1. a1 \in 0..MaxTokens /\ a2 \in 0..MaxTokens
  BY AvailableType
<1>2. a2 <= a1 + gain
  BY AvailableGrows
<1>3. x1 + gain <= x2 /\ x1 \in Int /\ x2 \in Int /\ gain \in Int
  <2> DEFINE m == Minus(reading2, reading)
  <2>1. m \in Nat /\ base + m <= base2
    BY DEF Minus
  <2> HIDE DEF m
  <2>2. (base + m) * EffectiveRefillRate <= x2
    BY <1>0, <2>1, TimesMonotone
  <2>3. (base + m) * EffectiveRefillRate = x1 + m * EffectiveRefillRate
    BY <1>0, <2>1, TimesSum
  <2>4. x1 \in Nat /\ x2 \in Nat /\ m * EffectiveRefillRate \in Nat
    BY <1>0, <2>1, TimesNat
  <2> QED
    BY <2>2, <2>3, <2>4 DEF m
<1>4. Owed(log, x1 + MaxTokens - a1) /\ (entry /= None => entry.tokens \in 0..MaxTokens)
  BY DEF BucketKnows
<1> HIDE DEF x1, x2, gain, a1, a2
<1>5. x1 + MaxTokens - a1 <= x2 + MaxTokens - a2
  BY <1>0, <1>1, <1>2, <1>3
<1>6. x1 + MaxTokens - a1 \in Int /\ x2 + MaxTokens - a2 \in Int
  BY <1>0, <1>1, <1>3
<1>7. Owed(log, x2 + MaxTokens - a2)
  BY <1>4, <1>5, <1>6, OwedMore
<1> QED
  BY <1>4, <1>7 DEF BucketKnows, x2, a2

LEMMA WindowStays ==
  ASSUME NEW entry, NEW log \in Seq(Nat), NEW base \in Nat, NEW base2 \in Nat,
         base <= base2, Ordered(log, base), WindowKnows(entry, log, base)
  PROVE  WindowKnows(entry, log, base2)
<1> SUFFICES ASSUME NEW i \in 1..Len(log), WindowStart(log[i]) = WindowStart(base2)
             PROVE  /\ entry /= None
                    /\ entry.window_start = WindowStart(base2)
                    /\ Since(log, i) <= entry.count
  BY DEF WindowKnows
<1>1. log[i] \in Nat /\ log[i] <= base
  BY OrderedFacts
<1>2. WindowStart(log[i]) = WindowStart(base)
  BY <1>1, WindowBetween
<1> QED
  BY <1>2 DEF WindowKnows

\* What is known of the window before, in the window after it too: there, it is the
\* count of the window itself.
LEMMA PreviousStays ==
  ASSUME NEW entry \in StorageEntry \cup {None}, NEW log \in Seq(Nat),
         NEW base \in Nat, NEW base2 \in Nat, base <= base2, Ordered(log, base),
         WindowKnows(entry, log, base),
         WindowStart(base) = WindowStart(base2) => PreviousKnows(entry, log, base)
  PROVE  PreviousKnows(entry, log, base2)
<1> SUFFICES ASSUME NEW l \in 1..Len(log), NEW i \in 1..l,
                    WindowStart(log[i]) = WindowStart(log[l]),
                    WindowStart(log[i]) + WindowMs = WindowStart(base2)
             PROVE  l - i + 1 <= Counts(entry, base2).previous
  BY DEF PreviousKnows
<1>0. WindowMs \in Nat \ {0} /\ Len(log) \in Nat
  BY QuotaConstants
<1>1. i \in 1..Len(log)
  BY <1>0
<1>2. log[i] \in Nat /\ log[i] <= base
  BY <1>1, OrderedFacts
<1>3. CASE WindowStart(base) = WindowStart(base2)
  <2>1. Counts(entry, base2) = Counts(entry, base)
    BY <1>3 DEF Counts
  <2>2. l - i + 1 <= Counts(entry, base).previous
    BY <1>3 DEF PreviousKnows
  <2> QED
    BY <2>1, <2>2
<1>4. CASE WindowStart(base) /= WindowStart(base2)
  <2> DEFINE s == WindowStart(base)
  <2>1. s \in Nat /\ s <= base /\ WindowStart(s) = s /\ WindowStart(base2) \in Nat
        /\ WindowStart(log[i]) \in Nat
    BY <1>2, WindowStartFacts
  <2>2. s + WindowMs <= WindowStart(base2)
    BY <1>4, <2>1, NextWindow
  <2>3. WindowStart(log[i]) <= s
    BY <1>2, WindowStartMonotone
  <2>4. WindowStart(log[i]) = s /\ WindowStart(base2) = s + WindowMs
    BY <1>0, <2>1, <2>2, <2>3
  <2>5. entry /= None /\ entry.window_start = s /\ Since(log, i) <= entry.count
    BY <1>1, <2>4 DEF WindowKnows
  <2> HIDE DEF s
  <2>6. s /= WindowStart(base2) /\ s = Minus(WindowStart(base2), WindowMs)
    BY <1>0, <2>1, <2>4 DEF Minus
  <2>7. Counts(entry, base2).previous = entry.count
    BY <2>5, <2>6 DEF Counts
  <2>8. entry.count \in Nat
    BY <2>5 DEF StorageEntry
  <2> QED
    BY <1>0, <2>5, <2>7, <2>8 DEF Since
<1> QED
  BY <1>3, <1>4

LEMMA LogStays ==
  ASSUME NEW entry \in StorageEntry \cup {None}, NEW log \in Seq(Nat),
         NEW base \in Nat, NEW reading \in Nat, NEW base2 \in Nat, NEW reading2 \in Nat,
         base <= base2, reading2 - reading <= base2 - base,
         LogKnows(entry, log, base, reading)
  PROVE  LogKnows(entry, log, base2, reading2)
<1> DEFINE times == Timestamps(entry)
<1>0. WindowMs \in Nat /\ times \in Seq(Nat)
  BY QuotaConstants, TimestampsType
<1> SUFFICES ASSUME NEW i \in 1..Len(log), base2 <= log[i] + WindowMs
             PROVE  /\ Since(log, i) <= Len(times)
                    /\ times[Len(times) - Since(log, i) + 1] + base2 - reading2 >= log[i]
  BY DEF LogKnows
<1>1. log[i] \in Nat /\ Since(log, i) \in Nat \ {0}
  BY SinceType
<1>2. base <= log[i] + WindowMs
  BY <1>0, <1>1
<1>3. /\ Since(log, i) <= Len(times)
      /\ times[Len(times) - Since(log, i) + 1] + base - reading >= log[i]
  BY <1>2 DEF LogKnows
<1> DEFINE n == Len(times) - Since(log, i) + 1
           v == times[n]
<1>4. n \in 1..Len(times)
  <2>1. Len(times) \in Nat
    BY <1>0
  <2> HIDE DEF times
  <2> QED
    BY SMTT(30), <1>1, <1>3, <2>1
<1>5. v \in Nat
  <2>1. \A j \in 1..Len(times) : times[j] \in Nat
    <3> HIDE DEF times
    <3> QED
      BY SMTT(30), <1>0
  <2> HIDE DEF n, times
  <2> QED
    BY Zenon, <1>4, <2>1
<1>6. v + base - reading >= log[i]
  BY <1>3
<1> HIDE DEF v
<1>7. v + base2 - reading2 >= log[i]
  BY <1>1, <1>5, <1>6
<1> QED
  BY <1>3, <1>7 DEF v

\* Knowledge stands while true time, and with it perhaps the clock, moves on.
LEMMA KnowsStays ==
  ASSUME NEW alg, NEW entry \in StorageEntry \cup {None}, NEW log \in Seq(Nat),
         NEW base \in Nat, NEW reading \in Nat, NEW base2 \in Nat, NEW reading2 \in Nat,
         base <= base2, reading2 - reading <= base2 - base,
         Ordered(log, base), Knows(alg, entry, log, base, reading)
  PROVE  Knows(alg, entry, log, base2, reading2)
<1>1. ASSUME alg \in Buckets
      PROVE  BucketKnows(alg, entry, log, base2, reading2)
  <2>1. BucketKnows(alg, entry, log, base, reading)
    BY <1>1 DEF Knows
  <2>2. BucketEntry(entry)
    BY <2>1 DEF BucketKnows, BucketEntry
  <2> QED
    BY <1>1, <2>1, <2>2, BucketStays
<1>2. ASSUME alg \in Aligned
      PROVE  WindowKnows(entry, log, base2)
  BY <1>2, WindowStays DEF Knows
<1>3. ASSUME alg = "sliding_log"
      PROVE  LogKnows(entry, log, base2, reading2)
  BY <1>3, LogStays DEF Knows
<1>4. ASSUME alg = "sliding_window"
      PROVE  PreviousKnows(entry, log, base2)
  <2>1. WindowKnows(entry, log, base) /\ PreviousKnows(entry, log, base)
    BY <1>4 DEF Knows, Aligned
  <2> QED
    BY <2>1, PreviousStays
<1> QED
  BY <1>1, <1>2, <1>3, <1>4 DEF Knows

LEMMA RateProducts ==
  ASSUME NEW a \in Int, NEW b \in Int, a <= b
  PROVE  /\ a * EffectiveRefillRate \in Int /\ b * EffectiveRefillRate \in Int
         /\ a * EffectiveRefillRate <= b * EffectiveRefillRate
  BY TimesMonotone, QuotaConstants

LEMMA NoTimes == ASSUME NEW log \in Seq(Nat), NEW base \in Nat, NEW reading \in Nat
  PROVE  /\ LogKnows(None, log, base, reading)
              <=> \A i \in 1..Len(log) : ~(base <= log[i] + WindowMs)
         /\ WindowKnows(None, log, base)
              <=> \A i \in 1..Len(log) : WindowStart(log[i]) /= WindowStart(base)
<1>1. Timestamps(None) = <<>> /\ Len(<<>>) = 0
  BY DEF Timestamps
<1>2. \A i \in 1..Len(log) : ~(Since(log, i) <= 0)
  BY SinceType
<1>3. LogKnows(None, log, base, reading)
              => \A i \in 1..Len(log) : ~(base <= log[i] + WindowMs)
  <2> SUFFICES ASSUME LogKnows(None, log, base, reading), NEW i \in 1..Len(log),
                      base <= log[i] + WindowMs
               PROVE  FALSE
    OBVIOUS
  <2>1. Since(log, i) <= Len(Timestamps(None))
    BY DEF LogKnows
  <2> QED
    BY <1>1, <1>2, <2>1
<1> QED
  BY <1>3 DEF LogKnows, WindowKnows

LEMMA SettledStays ==
  ASSUME NEW alg, NEW log \in Seq(Nat), NEW base \in Nat, NEW time \in Nat,
         NEW base2 \in Nat, NEW time2 \in Nat, base <= base2, time <= time2,
         Ordered(log, base), Settled(alg, log, base, time)
  PROVE  Settled(alg, log, base2, time2)
<1>1. CASE alg \in Buckets
  <2> DEFINE x1 == base * EffectiveRefillRate
             x2 == base2 * EffectiveRefillRate
             y1 == time * EffectiveRefillRate
             y2 == time2 * EffectiveRefillRate
  <2>0. MaxTokens \in Nat /\ Unit \in Nat
    BY QuotaConstants
  <2>1. x1 \in Int /\ x2 \in Int /\ y1 \in Int /\ y2 \in Int /\ x1 <= x2 /\ y1 <= y2
    <3>1. x1 \in Int /\ x2 \in Int /\ x1 <= x2
      BY SMTT(30), RateProducts
    <3>2. y1 \in Int /\ y2 \in Int /\ y1 <= y2
      BY SMTT(30), RateProducts
    <3> QED
      BY <3>1, <3>2
  <2>2. Owed(log, x1 + MaxTokens - Unit) /\ (Owed(log, x1) \/ Owed(log, y1 - Unit))
    BY <1>1 DEF Settled
  <2> HIDE DEF x1, x2, y1, y2
  <2>3. /\ x1 + MaxTokens - Unit \in Int /\ x2 + MaxTokens - Unit \in Int
        /\ y1 - Unit \in Int /\ y2 - Unit \in Int
        /\ x1 + MaxTokens - Unit <= x2 + MaxTokens - Unit /\ y1 - Unit <= y2 - Unit
    BY <2>0, <2>1
  <2>4. Owed(log, x2 + MaxTokens - Unit) /\ (Owed(log, x2) \/ Owed(log, y2 - Unit))
    BY <2>1, <2>2, <2>3, OwedMore
  <2> QED
    BY <1>1, <2>4 DEF Settled, Buckets, Aligned, x2, y2
<1>2. CASE alg \notin Buckets
  <2>1. alg \in Aligned => WindowKnows(None, log, base2)
    BY WindowStays DEF Settled
  <2>2. ASSUME alg = "sliding_log" PROVE LogKnows(None, log, base2, base2)
    <3>1. LogKnows(None, log, base, base) /\ base2 - base <= base2 - base
      BY <2>2 DEF Settled
    <3> QED
      BY <3>1, LogStays
  <2>3. ASSUME alg = "sliding_window"
        PROVE  \/ PreviousKnows(None, log, base2)
               \/ WindowStart(base2) < base2 /\ base2 + WindowEnds(base2) <= time2
    <3>1. /\ WindowKnows(None, log, base)
          /\ \/ PreviousKnows(None, log, base)
             \/ WindowStart(base) < base /\ base + WindowEnds(base) <= time
      BY <2>3 DEF Settled, Aligned
    <3>2. CASE WindowStart(base) = WindowStart(base2) /\ ~PreviousKnows(None, log, base)
      <4>1. WindowStart(base) < base /\ base + WindowEnds(base) <= time
        BY <3>1, <3>2
      <4>2. WindowStart(base) \in Nat /\ WindowStart(base2) = WindowStart(base)
            /\ WindowMs \in Nat
        BY <3>2, QuotaConstants, WindowStartType
      <4> DEFINE x == WindowStart(base)
      <4>3. x < base /\ base + (x + WindowMs - base) <= time /\ x \in Nat
        BY <4>1, <4>2 DEF WindowEnds
      <4>4. WindowEnds(base2) = x + WindowMs - base2 /\ WindowStart(base2) = x
        BY <4>2 DEF WindowEnds
      <4> HIDE DEF x
      <4>5. x < base2 /\ base2 + (x + WindowMs - base2) <= time2
        BY <4>2, <4>3
      <4> QED
        BY <4>4, <4>5
    <3>3. CASE WindowStart(base) = WindowStart(base2) => PreviousKnows(None, log, base)
      BY <3>1, <3>3, PreviousStays
    <3> QED
      BY <3>2, <3>3
  <2> QED
    BY <1>2, <2>1, <2>2, <2>3 DEF Settled
<1> QED
  BY <1>1, <1>2

LEMMA OutlivesLonger ==
  ASSUME NEW alg, NEW log \in Seq(Nat), NEW expiry \in Int, NEW expiry2 \in Int,
         expiry <= expiry2, Outlives(alg, log, expiry)
  PROVE  Outlives(alg, log, expiry2)
<1>0. MaxTokens \in Nat /\ BucketTtl \in Nat /\ WindowTtl \in Nat
  BY QuotaConstants
<1>1. CASE alg \in Buckets
  <2> DEFINE x1 == (expiry - BucketTtl) * EffectiveRefillRate
             x2 == (expiry2 - BucketTtl) * EffectiveRefillRate
  <2>1. x1 \in Int /\ x2 \in Int /\ x1 <= x2
    <3>1. expiry - BucketTtl \in Int /\ expiry2 - BucketTtl \in Int
          /\ expiry - BucketTtl <= expiry2 - BucketTtl
      BY <1>0
    <3> QED
      BY <3>1, RateProducts
  <2>2. Owed(log, MaxTokens + x1)
    BY <1>1 DEF Outlives
  <2> HIDE DEF x1, x2
  <2>3. Owed(log, MaxTokens + x2)
    BY <1>0, <2>1, <2>2, OwedMore
  <2> QED
    BY <1>1, <2>3 DEF Outlives, x2
<1>2. CASE alg \notin Buckets
  <2>1. \A i \in 1..Len(log) : log[i] \in Nat /\ log[i] + WindowTtl <= expiry
    BY <1>2 DEF Outlives
  <2>2. \A i \in 1..Len(log) : log[i] + WindowTtl <= expiry2
    BY <1>0, <2>1
  <2> QED
    BY <1>2, <2>2 DEF Outlives
<1> QED
  BY <1>1, <1>2

(***************************************************************************)
(* An entry that may be taken for expired                                  *)
(***************************************************************************)
\* A call is shorter than a window, and shorter than the time a bucket is kept
\* by what a token takes; a bucket is kept until it is full, with a token to
\* spare or by the longest call longer.
Timely ==
  /\ MaxLatency < WindowMs
  /\ Unit <= (BucketTtl - MaxLatency) * EffectiveRefillRate
  /\ \/ MaxTokens + Unit <= BucketTtl * EffectiveRefillRate
     \/ MaxTokens <= (BucketTtl - MaxLatency) * EffectiveRefillRate

\* That is so if a call, and a millisecond, are shorter than the time to fill a bucket.
LEMMA ShortCallsAreTimely ==
  ASSUME MaxLatency < WindowMs, (MaxLatency + 1) * EffectiveRefillRate <= MaxTokens
  PROVE  Timely
<1> DEFINE R == EffectiveRefillRate
           q == (2 * MaxTokens) \div R
<1>0. /\ R \in Nat \ {0} /\ MaxTokens \in Nat /\ MaxLatency \in Nat /\ Unit \in Nat
      /\ Unit <= MaxTokens /\ BucketTtl \in Nat /\ 2 * MaxTokens \in Nat
  BY QuotaConstants, LimiterAssumption
<1> HIDE DEF R
<1>1. q \in Nat /\ q * R \in Nat /\ 2 * MaxTokens < q * R + R
  BY <1>0, DivisionIsNat, DivisionBounds, TimesNat
<1>2. q <= BucketTtl
  <2>1. q = (2 * MaxTokens) \div EffectiveRefillRate
    BY DEF R
  <2> HIDE DEF q
  <2>2. \A a, b \in Nat : a <= Later(a, b)
    BY DEF Later
  <2>3. MinTtl \in Nat
    BY TokenBucketAssumption
  <2> QED
    BY <1>1, <2>1, <2>2, <2>3 DEF BucketTtl
<1> HIDE DEF q
<1>3. q * R <= BucketTtl * R
  BY <1>0, <1>1, <1>2, TimesMonotone
<1>4. (BucketTtl - MaxLatency) * R = BucketTtl * R - MaxLatency * R
  BY <1>0, TimesSum
<1>5. (MaxLatency + 1) * R = MaxLatency * R + R
  <2>1. (MaxLatency + 1) * R = MaxLatency * R + 1 * R
    BY <1>0, TimesSum
  <2> QED
    BY <1>0, <2>1
<1>6. MaxLatency * R \in Nat /\ BucketTtl * R \in Nat
  BY <1>0, TimesNat
<1>7. MaxLatency * R + R <= MaxTokens
  BY <1>5 DEF R
<1>8. MaxTokens <= (BucketTtl - MaxLatency) * R
  <2>1. \A a, b, c, d, e \in Nat :
          2 * a < b + c /\ b <= d /\ e + c <= a => a <= d - e
    OBVIOUS
  <2> QED
    BY <1>0, <1>1, <1>3, <1>4, <1>6, <1>7, <2>1
<1>9. Unit <= (BucketTtl - MaxLatency) * R
  <2> DEFINE x == (BucketTtl - MaxLatency) * R
  <2>1. x \in Int
    BY <1>0, <1>4, <1>6
  <2>2. MaxTokens <= x
    BY <1>8
  <2> HIDE DEF x
  <2>3. Unit <= x
    BY <1>0, <2>1, <2>2
  <2> QED
    BY <2>3 DEF x
<1> QED
  BY <1>8, <1>9 DEF Timely, R

LEMMA StaleBucket ==
  ASSUME Timely, NEW alg \in Buckets, NEW log \in Seq(Nat), NEW expiry \in Int,
         NEW base \in Nat, NEW time \in Nat, expiry <= time, time <= base + MaxLatency,
         Outlives(alg, log, expiry)
  PROVE  Settled(alg, log, base, time)
<1> DEFINE R == EffectiveRefillRate
           x == base * R
           y == time * R
           kept == BucketTtl * R
           spare == (BucketTtl - MaxLatency) * R
           left == (expiry - BucketTtl) * R
<1>0. /\ MaxTokens \in Nat /\ Unit \in Nat /\ R \in Nat /\ BucketTtl \in Nat
      /\ MaxLatency \in Nat
  BY QuotaConstants, LimiterAssumption
<1>1. Owed(log, MaxTokens + left)
  BY DEF Outlives
<1>2. left \in Int /\ left <= y - kept
  <2>1. expiry - BucketTtl \in Int /\ time - BucketTtl \in Int
        /\ expiry - BucketTtl <= time - BucketTtl
    BY <1>0
  <2>2. left \in Int /\ left <= (time - BucketTtl) * R
    BY <2>1, RateProducts
  <2>3. (time - BucketTtl) * R = y - kept
    BY <1>0, TimesSum
  <2> QED
    BY <2>2, <2>3
<1>3. left <= x - spare
  <2> DEFINE short == BucketTtl - MaxLatency
  <2>1. short \in Int /\ expiry - BucketTtl \in Int /\ base - short \in Int
        /\ expiry - BucketTtl <= base - short
    BY <1>0
  <2>2. left <= (base - short) * R
    <3> HIDE DEF short
    <3> QED
      BY <2>1, RateProducts
  <2>3. (base - short) * R = x - short * R
    <3> HIDE DEF short
    <3> QED
      BY <1>0, <2>1, TimesSum
  <2> QED
    BY <2>2, <2>3
<1>4. x \in Int /\ y \in Int /\ kept \in Int /\ spare \in Int
  <2>1. BucketTtl - MaxLatency \in Int
    BY <1>0
  <2> QED
    BY <1>0, <2>1, RateProducts
<1>5. Unit <= spare /\ (MaxTokens + Unit <= kept \/ MaxTokens <= spare)
  BY DEF Timely
<1> HIDE DEF R, x, y, kept, spare, left
<1>6. Owed(log, x + MaxTokens - Unit)
  <2>1. MaxTokens + left \in Int /\ x + MaxTokens - Unit \in Int
        /\ MaxTokens + left <= x + MaxTokens - Unit
    BY <1>0, <1>2, <1>3, <1>4, <1>5
  <2> QED
    BY <1>1, <2>1, OwedMore
<1>7. Owed(log, x) \/ Owed(log, y - Unit)
  <2>1. MaxTokens + left \in Int /\ y - Unit \in Int
    BY <1>0, <1>2, <1>4
  <2>2. CASE MaxTokens + Unit <= kept
    <3>1. MaxTokens + left <= y - Unit
      BY <1>0, <1>2, <1>4, <2>2
    <3> QED
      BY <1>1, <2>1, <3>1, OwedMore
  <2>3. CASE MaxTokens <= spare
    <3>1. MaxTokens + left <= x
      BY <1>0, <1>2, <1>3, <1>4, <2>3
    <3> QED
      BY <1>1, <1>4, <2>1, <3>1, OwedMore
  <2> QED
    BY <1>5, <2>2, <2>3
<1> QED
  BY <1>6, <1>7 DEF Settled, Buckets, Aligned, x, y, R

\* The next request may be decided on as if such an entry did not exist.
LEMMA StaleSettled ==
  ASSUME Timely, NEW alg, NEW log \in Seq(Nat), NEW expiry \in Int,
         NEW base \in Nat, NEW time \in Nat, expiry <= time, time <= base + MaxLatency,
         Ordered(log, base), Outlives(alg, log, expiry)
  PROVE  Settled(alg, log, base, time)
<1>0. WindowMs \in Nat /\ WindowTtl = 2 * WindowMs /\ MaxLatency \in Nat
  BY QuotaConstants, LimiterAssumption
<1>1. CASE alg \in Buckets
  BY <1>1, StaleBucket
<1>2. CASE alg \notin Buckets
  <2>1. ASSUME NEW i \in 1..Len(log)
        PROVE  ~(base <= log[i] + WindowMs) /\ WindowStart(log[i]) /= WindowStart(base)
    <3>1. log[i] \in Nat /\ log[i] <= base
      BY OrderedFacts
    <3>2. log[i] + WindowTtl <= expiry
      BY <1>2 DEF Outlives
    <3>3. log[i] + WindowMs < base
      BY <1>0, <3>1, <3>2 DEF Timely
    <3>4. WindowStart(log[i]) = WindowStart(base) => base < log[i] + WindowMs
      BY <3>1, WindowStartMonotone
    <3> QED
      BY <1>0, <3>1, <3>3, <3>4
  <2>2. LogKnows(None, log, base, base) /\ WindowKnows(None, log, base)
    BY <2>1, NoTimes
  <2>3. \/ PreviousKnows(None, log, base)
        \/ WindowStart(base) < base /\ base + WindowEnds(base) <= time
    <3> SUFFICES ASSUME NEW l \in 1..Len(log), NEW i \in 1..l,
                        WindowStart(log[i]) + WindowMs = WindowStart(base)
                 PROVE  WindowStart(base) < base /\ base + WindowEnds(base) <= time
      BY DEF PreviousKnows
    <3>0. i \in 1..Len(log)
      OBVIOUS
    <3> DEFINE t == log[i]
    <3>a. t \in Nat /\ t <= base
      BY <3>0, OrderedFacts
    <3> HIDE DEF t
    <3>b. WindowStart(t) \in Nat /\ WindowStart(t) <= t /\ WindowStart(base) \in Nat
      BY <3>a, WindowStartFacts
    <3>1. log[i] \in Nat /\ WindowStart(log[i]) \in Nat /\ WindowStart(log[i]) <= log[i]
          /\ WindowStart(base) \in Nat
      BY <3>a, <3>b DEF t
    <3>2. log[i] + WindowTtl <= expiry
      BY <1>2, <3>0 DEF Outlives
    <3>3. WindowStart(base) + WindowMs <= time
      <4>1. t + 2 * WindowMs <= time
        BY <1>0, <3>2 DEF t
      <4>2. WindowStart(t) + WindowMs = WindowStart(base)
        BY DEF t
      <4> QED
        BY <1>0, <3>a, <3>b, <4>1, <4>2
    <3>4. WindowStart(base) < base
      BY <1>0, <3>1, <3>3 DEF Timely
    <3> QED
      BY <1>0, <3>1, <3>3, <3>4 DEF WindowEnds
  <2> QED
    BY <1>2, <2>2, <2>3 DEF Settled
<1> QED
  BY <1>1, <1>2

(***************************************************************************)
(* The decisions of the buckets                                            *)
(***************************************************************************)
LEMMA NewBucket ==
  ASSUME NEW alg \in Buckets, NEW n \in 0..MaxTokens, NEW t \in Nat
  PROVE  LET entry == WithTokens(n, t)
         IN  /\ entry \in StorageEntry /\ entry.tokens = n
             /\ BucketEntry(entry)
             /\ Available(alg, entry, t) = IF alg = "token_bucket" THEN n ELSE MaxTokens - n
<1> DEFINE entry == WithTokens(n, t)
<1>0. MaxTokens \in Nat /\ MaxLevel = MaxTokens /\ EffectiveRefillRate \in Nat /\ n \in Nat
  BY QuotaConstants
<1>1. entry \in StorageEntry
  BY <1>0, EntryTypes
<1>2. entry.tokens = n /\ entry.last_update = t
  BY DEF WithTokens, NewEntry
<1>3. entry /= None /\ n /= None
  BY <1>0, <1>1, MemoryStorageAssumption, NoneAssumption
<1>4. Minus(t, t) * EffectiveRefillRate = 0
  BY <1>0 DEF Minus
<1> HIDE DEF entry
<1>5. Refilled(entry, t) = n
  BY <1>2, <1>3, <1>4 DEF Refilled
<1>6. Level(entry, t) = n
  BY <1>0, <1>2, <1>3, <1>4 DEF Level, Minus
<1>7. Available(alg, entry, t) = IF alg = "token_bucket" THEN n ELSE MaxTokens - n
  BY <1>0, <1>5, <1>6 DEF Available
<1>8. BucketEntry(entry)
  BY <1>1, <1>2 DEF BucketEntry
<1> QED
  BY <1>1, <1>2, <1>7, <1>8 DEF entry

LEMMA BucketRecord ==
  ASSUME algorithm \in Buckets, NEW entry, BucketEntry(entry), NEW t \in Nat
  PROVE  LET verdict == Decide(entry, t)
             held    == Available(algorithm, entry, t)
         IN  /\ verdict.entry \in StorageEntry /\ BucketEntry(verdict.entry)
             /\ verdict.allowed <=> held >= Unit
             /\ Available(algorithm, verdict.entry, t) =
                  IF held >= Unit THEN held - Unit ELSE held
<1> DEFINE held == Available(algorithm, entry, t)
<1>0. MaxTokens \in Nat /\ MaxLevel = MaxTokens /\ Unit \in Nat
  BY QuotaConstants
<1>1. held \in 0..MaxTokens
  BY AvailableType
<1>2. CASE algorithm = "token_bucket"
  <2> DEFINE left == IF held >= Unit THEN held - Unit ELSE held
  <2>1. left \in 0..MaxTokens
    BY <1>0, <1>1
  <2>2. held = Refilled(entry, t)
    BY <1>2 DEF Available
  <2>3. Decide(entry, t).entry = WithTokens(left, t) /\ Decide(entry, t).allowed = (held >= Unit)
    BY <1>2, <2>2 DEF Decide, TokenBucketRecord, Verdict
  <2> HIDE DEF left
  <2>4. LET new == WithTokens(left, t)
        IN  new \in StorageEntry /\ BucketEntry(new) /\ Available(algorithm, new, t) = left
    BY <1>2, <2>1, NewBucket
  <2> QED
    BY <2>3, <2>4 DEF left
<1>3. CASE algorithm = "leaky_bucket"
  <2> DEFINE level == Level(entry, t)
             full  == IF held >= Unit THEN level + Unit ELSE level
  <2>1. held = MaxTokens - level
    BY <1>0, <1>3 DEF Available
  <2>2. level \in Nat
    <3>1. CASE entry = None
      BY <3>1 DEF Level
    <3>2. CASE entry /= None
      <4>1. entry \in StorageEntry /\ entry.tokens \in 0..MaxTokens
        BY <3>2 DEF BucketEntry
      <4>2. Refill(entry, t) \in Nat
        BY <4>1, RefillType
      <4>3. entry.tokens /= None
        BY <1>0, <4>1, NoneAssumption
      <4>4. level = Minus(entry.tokens, Refill(entry, t))
        BY <3>2, <4>3 DEF Level, Refill
      <4> HIDE DEF level
      <4> QED
        BY <1>0, <4>1, <4>2, <4>4 DEF Minus
    <3> QED
      BY <3>1, <3>2
  <2>3. held >= Unit <=> level + Unit <= MaxLevel
    <3> HIDE DEF level, held
    <3> QED
      BY <1>0, <2>1, <2>2
  <2>4. full \in 0..MaxTokens
    <3> HIDE DEF level, held
    <3> QED
      BY <1>0, <1>1, <2>1, <2>2
  <2>5. /\ Decide(entry, t).entry = WithTokens(full, t)
        /\ Decide(entry, t).allowed <=> held >= Unit
    <3> HIDE DEF held
    <3>0. Decide(entry, t) = LeakyBucketRecord(entry, t)
      BY <1>3 DEF Decide
    <3>1. CASE held >= Unit
      <4>1. LeakyBucketRecord(entry, t) =
              Verdict(TRUE, WithTokens(full, t), (MaxLevel - full) \div Unit, None)
        BY <2>3, <3>1 DEF LeakyBucketRecord
      <4> QED
        BY <3>0, <3>1, <4>1 DEF Verdict
    <3>2. CASE ~(held >= Unit)
      <4>1. LeakyBucketRecord(entry, t) = Verdict(FALSE, WithTokens(full, t), 0, RoomAfter(full))
        BY <2>3, <3>2 DEF LeakyBucketRecord
      <4> QED
        BY <3>0, <3>2, <4>1 DEF Verdict
    <3> QED
      BY <3>1, <3>2
  <2>6. MaxTokens - full = IF held >= Unit THEN held - Unit ELSE held
    <3> HIDE DEF level, held
    <3> QED
      BY <1>0, <2>1, <2>2
  <2> HIDE DEF full, level
  <2>7. LET new == WithTokens(full, t)
        IN  /\ new \in StorageEntry /\ BucketEntry(new)
            /\ Available(algorithm, new, t) = MaxTokens - full
    BY <1>3, <2>4, NewBucket
  <2> QED
    BY <2>5, <2>6, <2>7
<1> QED
  BY <1>2, <1>3 DEF Buckets

\* Between a call's start and its end true time has moved on by no less than the
\* clock shows.
LEMMA GainIsPaid ==
  ASSUME NEW base \in Nat, NEW time \in Nat, NEW reading \in Nat, NEW clk \in Nat,
         base <= time, base - reading <= time - clk
  PROVE  LET gain == Minus(clk, reading) * EffectiveRefillRate
         IN  /\ gain \in Nat
             /\ base * EffectiveRefillRate \in Nat /\ time * EffectiveRefillRate \in Nat
             /\ base * EffectiveRefillRate + gain <= time * EffectiveRefillRate
<1> DEFINE m == Minus(clk, reading)
           R == EffectiveRefillRate
<1>0. R \in Nat
  BY QuotaConstants
<1>1. m \in Nat /\ base + m <= time
  BY DEF Minus
<1> HIDE DEF m, R
<1>2. (base + m) * R <= time * R
  BY <1>0, <1>1, TimesMonotone
<1>3. (base + m) * R = base * R + m * R
  BY <1>0, <1>1, TimesSum
<1>4. base * R \in Nat /\ time * R \in Nat /\ m * R \in Nat
  BY <1>0, <1>1, TimesNat
<1> QED
  BY <1>2, <1>3, <1>4 DEF m, R

\* With the window before weighed in there is room for a request at `base`; or it
\* is the first of its window, and does not come at its beginning.
LeavesRoom(log, base) ==
  \E c \in Nat :
    /\ \A m \in 1..Len(log) : WindowStart(log[m]) = WindowStart(base) => Since(log, m) <= c
    /\ \A l \in 1..Len(log) : \A i \in 1..l :
         WindowStart(log[i]) = WindowStart(log[l])
           /\ WindowStart(log[i]) + WindowMs = WindowStart(base) =>
             \/ c * WindowMs + (l - i + 1) * WindowEnds(base) < MaxRequests * WindowMs
             \/ c = 0 /\ WindowStart(base) < base

\* A request let through at `base` keeps the promise of the algorithm.
Admissible(alg, log, base) ==
  /\ alg \in Buckets => Owed(log, base * EffectiveRefillRate + MaxTokens - Unit)
  /\ alg \in Aligned =>
       \A i \in 1..Len(log) : WindowStart(log[i]) = WindowStart(base) =>
         Since(log, i) < MaxRequests
  /\ alg = "sliding_window" => LeavesRoom(log, base)
  /\ alg = "sliding_log" =>
       \A i \in 1..Len(log) : base <= log[i] + WindowMs => Since(log, i) < MaxRequests

Grown(log, allowed, base) == IF allowed THEN Append(log, base) ELSE log

LEMMA BucketDecides ==
  ASSUME algorithm \in Buckets, NEW entry, BucketEntry(entry), NEW log \in Seq(Nat),
         NEW base \in Nat, NEW reading \in Nat, NEW time \in Nat, NEW clk \in Nat,
         base <= time, base - reading <= time - clk,
         IF entry = None THEN Settled(algorithm, log, base, time)
                         ELSE BucketKnows(algorithm, entry, log, base, reading)
  PROVE  LET verdict == Decide(entry, reading)
             grown   == Grown(log, verdict.allowed, base)
         IN  /\ BucketKnows(algorithm, verdict.entry, grown, time, clk)
             /\ verdict.allowed => Admissible(algorithm, log, base)
             /\ Outlives(algorithm, grown, base + BucketTtl)
<1> DEFINE verdict == Decide(entry, reading)
           grown == Grown(log, verdict.allowed, base)
           R == EffectiveRefillRate
           x == base * R
           y == time * R
           gain == Minus(clk, reading) * R
           held == Available(algorithm, entry, reading)
           left == Available(algorithm, verdict.entry, reading)
           after == Available(algorithm, verdict.entry, clk)
<1>0. /\ MaxTokens \in Nat /\ Unit \in Nat /\ Unit <= MaxTokens /\ BucketTtl \in Nat
  BY QuotaConstants
<1>1. /\ verdict.entry \in StorageEntry /\ BucketEntry(verdict.entry)
      /\ verdict.allowed <=> held >= Unit
      /\ left = IF held >= Unit THEN held - Unit ELSE held
  BY BucketRecord
<1>2. held \in 0..MaxTokens /\ after \in 0..MaxTokens
  BY <1>1, AvailableType
<1>3. after <= left + gain
  BY <1>1, AvailableGrows
<1>4. gain \in Nat /\ x \in Nat /\ y \in Nat /\ x + gain <= y
  BY GainIsPaid
<1>5. /\ \/ Owed(log, x + MaxTokens - held)
         \/ held = MaxTokens /\ Owed(log, y - Unit)
      /\ \/ Owed(log, x + MaxTokens - held)
         \/ held = MaxTokens /\ Owed(log, x + MaxTokens - Unit)
  <2>1. CASE entry = None
    <3>1. held = MaxTokens
      BY <2>1, AvailableIs
    <3>2. Owed(log, x + MaxTokens - Unit) /\ (Owed(log, x) \/ Owed(log, y - Unit))
      BY <2>1 DEF Settled
    <3>3. x + MaxTokens - held = x
      BY <1>0, <1>4, <3>1
    <3> QED
      BY <3>1, <3>2, <3>3
  <2>2. CASE entry /= None
    BY <2>2 DEF BucketKnows
  <2> QED
    BY <2>1, <2>2
<1>6. verdict.entry.tokens \in 0..MaxTokens
  BY <1>1, MemoryStorageAssumption DEF BucketEntry
<1>8. grown = IF held >= Unit THEN Append(log, base) ELSE log
  BY <1>1 DEF Grown
<1>9. \A a, b \in Int : Owed(log, a) /\ a <= b => Owed(log, b)
  BY OwedMore
<1>10. \A a, b \in Int : Owed(log, a) /\ a + Unit <= b /\ x + Unit <= b =>
         Owed(Append(log, base), b)
  BY OwedAppend
<1>a. Owed(grown, y + MaxTokens - after) =>
        BucketKnows(algorithm, verdict.entry, grown, time, clk)
  <2> DEFINE new == verdict.entry
             log1 == grown
  <2>1. y = time * EffectiveRefillRate /\ after = Available(algorithm, new, clk)
    OBVIOUS
  <2>2. new.tokens \in 0..MaxTokens
    BY <1>6
  <2> HIDE DEF new, log1, y, after
  <2>3. Owed(log1, y + MaxTokens - after) => BucketKnows(algorithm, new, log1, time, clk)
    BY <2>1, <2>2 DEF BucketKnows
  <2> QED
    BY <2>3 DEF new, log1
<1>b. Owed(log, x + MaxTokens - Unit) => Admissible(algorithm, log, base)
  BY DEF Admissible, Buckets, Aligned
<1>c. Owed(grown, MaxTokens + x) => Outlives(algorithm, grown, base + BucketTtl)
  <2> DEFINE log1 == grown
             last == base + BucketTtl
  <2>1. (last - BucketTtl) * EffectiveRefillRate = x
    <3>1. last - BucketTtl = base
      BY <1>0
    <3> HIDE DEF last
    <3> QED
      BY <3>1
  <2> HIDE DEF log1, last, x
  <2>2. Owed(log1, MaxTokens + x) => Outlives(algorithm, log1, last)
    BY <2>1 DEF Outlives
  <2> QED
    BY <2>2 DEF log1, last
<1> SUFFICES /\ Owed(grown, y + MaxTokens - after)
             /\ held >= Unit => Owed(log, x + MaxTokens - Unit)
             /\ Owed(grown, MaxTokens + x)
  <2> HIDE DEF held
  <2> QED
    BY <1>1, <1>a, <1>b, <1>c
<1> HIDE DEF verdict, grown, R, x, y, gain, held, left, after
<1>11. x + MaxTokens - held \in Int /\ y - Unit \in Int /\ x + MaxTokens - Unit \in Int
       /\ y + MaxTokens - after \in Int /\ MaxTokens + x \in Int
  BY <1>0, <1>2, <1>4
<1>12. held >= Unit => Owed(log, x + MaxTokens - Unit)
  <2> SUFFICES ASSUME held >= Unit, Owed(log, x + MaxTokens - held)
               PROVE  Owed(log, x + MaxTokens - Unit)
    BY <1>5
  <2>1. x + MaxTokens - held <= x + MaxTokens - Unit
    BY <1>0, <1>2, <1>4
  <2> QED
    BY <1>9, <1>11, <2>1
<1>13. CASE held >= Unit
  <2>1. grown = Append(log, base) /\ left = held - Unit
    BY <1>1, <1>8, <1>13
  <2>2. after <= held - Unit + gain
    BY <1>3, <2>1
  <2>3. x + Unit <= y + MaxTokens - after
    BY <1>0, <1>2, <1>4, <2>2
  <2>4. x + MaxTokens - held + Unit <= y + MaxTokens - after
    BY <1>0, <1>2, <1>4, <2>2
  <2>5. y - Unit + Unit <= y + MaxTokens - after
    BY <1>0, <1>2, <1>4
  <2>6. Owed(grown, y + MaxTokens - after)
    BY <1>5, <1>10, <1>11, <2>1, <2>3, <2>4, <2>5
  <2>7. x + MaxTokens - Unit + Unit <= MaxTokens + x /\ x + Unit <= MaxTokens + x
    BY <1>0, <1>4
  <2>8. Owed(grown, MaxTokens + x)
    BY <1>10, <1>11, <1>12, <1>13, <2>1, <2>7
  <2> QED
    BY <1>12, <2>6, <2>8
<1>14. CASE ~(held >= Unit)
  <2>1. grown = log /\ left = held
    BY <1>1, <1>8, <1>14
  <2>2. held /= MaxTokens
    BY <1>0, <1>14
  <2>3. x + MaxTokens - held <= y + MaxTokens - after /\ x + MaxTokens - held <= MaxTokens + x
    BY <1>0, <1>2, <1>3, <1>4, <2>1
  <2> QED
    BY <1>5, <1>9, <1>11, <1>14, <2>1, <2>2, <2>3
<1> QED
  BY <1>13, <1>14

(***************************************************************************)
(* The decisions of the windows                                            *)
(***************************************************************************)
\* A counter that has counted on still knows of the requests of its window.
LEMMA CountGrows ==
  ASSUME NEW log \in Seq(Nat), NEW base \in Nat, NEW time \in Nat, base <= time,
         Ordered(log, base), NEW n \in Nat, NEW allowed \in BOOLEAN,
         \A i \in 1..Len(log) : WindowStart(log[i]) = WindowStart(base) => Since(log, i) <= n,
         NEW entry, entry /= None, entry.window_start = WindowStart(base), entry.count = n + 1
  PROVE  WindowKnows(entry, Grown(log, allowed, base), time)
<1> DEFINE grown == Grown(log, allowed, base)
<1> SUFFICES ASSUME NEW i \in 1..Len(grown), WindowStart(grown[i]) = WindowStart(time)
             PROVE  /\ WindowStart(base) = WindowStart(time)
                    /\ Since(grown, i) <= n + 1
  BY DEF WindowKnows
<1>1. \A j \in 1..Len(log) : /\ log[j] \in Nat /\ log[j] <= base
                             /\ Since(log, j) \in Nat
  BY OrderedFacts, SinceType
<1>2. ASSUME NEW j \in 1..Len(log), WindowStart(log[j]) = WindowStart(time)
      PROVE  WindowStart(base) = WindowStart(time) /\ Since(log, j) <= n
  <2>1. log[j] \in Nat /\ log[j] <= base
    BY <1>1
  <2>2. WindowStart(log[j]) = WindowStart(base)
    BY <1>2, <2>1, WindowBetween
  <2> QED
    BY <1>2, <2>2
<1>3. CASE allowed
  <2>1. grown = Append(log, base)
    BY <1>3 DEF Grown
  <2> HIDE DEF grown
  <2>2. CASE i \in 1..Len(log)
    <3>1. grown[i] = log[i] /\ Since(grown, i) = Since(log, i) + 1
      BY <2>1, <2>2, AppendFacts
    <3> QED
      BY <1>1, <1>2, <2>2, <3>1
  <2>3. CASE i = Len(grown)
    <3>1. grown[i] = base /\ Since(grown, i) = 1
      BY <2>1, <2>3, AppendFacts
    <3> QED
      BY <3>1
  <2> QED
    BY <2>1, <2>2, <2>3, AppendFacts
<1>4. CASE ~allowed
  <2>1. grown = log
    BY <1>4 DEF Grown
  <2> HIDE DEF grown
  <2> QED
    BY <1>1, <1>2, <2>1
<1> QED
  BY <1>3, <1>4

LEMMA NewOutlives ==
  ASSUME NEW alg, alg \notin Buckets, NEW log \in Seq(Nat), NEW base \in Nat,
         Ordered(log, base), NEW allowed \in BOOLEAN
  PROVE  Outlives(alg, Grown(log, allowed, base), base + WindowTtl)
<1> DEFINE grown == Grown(log, allowed, base)
<1>0. WindowTtl \in Nat
  BY QuotaConstants
<1>1. ASSUME NEW i \in 1..Len(grown)
      PROVE  grown[i] + WindowTtl <= base + WindowTtl
  <2>1. \A j \in 1..Len(log) : log[j] \in Nat /\ log[j] <= base
    BY OrderedFacts
  <2>2. CASE allowed
    <3>1. grown = Append(log, base)
      BY <2>2 DEF Grown
    <3> HIDE DEF grown
    <3>2. (i \in 1..Len(log) /\ grown[i] = log[i]) \/ grown[i] = base
      BY <3>1, AppendFacts
    <3> QED
      BY <1>0, <2>1, <3>2
  <2>3. CASE ~allowed
    <3>1. grown = log
      BY <2>3 DEF Grown
    <3> HIDE DEF grown
    <3> QED
      BY <1>0, <2>1, <3>1
  <2> QED
    BY <2>2, <2>3
<1> QED
  BY <1>1 DEF Outlives

LEMMA FixedWindowDecides ==
  ASSUME NEW internal \in InternalEntry \cup {None}, NEW log \in Seq(Nat),
         NEW base \in Nat, NEW time \in Nat, NEW t \in Nat, base <= time, Ordered(log, base),
         IF internal = None THEN WindowKnows(None, log, base)
                            ELSE WindowKnows(internal.entry, log, base)
  PROVE  LET new     == Incremented(internal, 1, WindowStart(base), t)
             verdict == FixedWindowRecord(new.count, base)
         IN  /\ verdict.allowed \in BOOLEAN
             /\ WindowKnows(new, Grown(log, verdict.allowed, base), time)
             /\ verdict.allowed => Admissible("fixed_window", log, base)
<1> DEFINE ws == WindowStart(base)
           new == Incremented(internal, 1, ws, t)
           verdict == FixedWindowRecord(new.count, base)
<1>1. ws \in Nat /\ MaxRequests \in Nat
  BY WindowStartType, QuotaConstants
<1>2. verdict.allowed = (new.count <= MaxRequests)
  BY DEF FixedWindowRecord, Verdict
<1>3. PICK n \in Nat : /\ new /= None /\ new.window_start = ws /\ new.count = n + 1
                       /\ \A i \in 1..Len(log) : WindowStart(log[i]) = ws => Since(log, i) <= n
  <2>1. CASE internal = None
    <3>1. new.window_start = ws /\ new.count = 1
      BY <2>1 DEF Incremented, NewEntry
    <3>2. new /= None
      BY <1>1, IncrementedType, MemoryStorageAssumption
    <3> HIDE DEF new
    <3> WITNESS 0 \in Nat
    <3>3. \A i \in 1..Len(log) : WindowStart(log[i]) /= ws
      BY <2>1 DEF WindowKnows
    <3> QED
      BY <3>1, <3>2, <3>3
  <2>2. CASE internal /= None
    <3> DEFINE entry == internal.entry
    <3>0. entry \in StorageEntry
      BY <2>2 DEF InternalEntry
    <3>1. new /= None
      BY <1>1, IncrementedType, MemoryStorageAssumption
    <3>2. new = IF entry.window_start = ws
                  THEN [entry EXCEPT !.count = @ + 1, !.last_update = t]
                  ELSE [entry EXCEPT !.prev_count = entry.count, !.count = 1,
                                     !.window_start = ws, !.last_update = t]
      BY <2>2 DEF Incremented
    <3>3. \A i \in 1..Len(log) : WindowStart(log[i]) = ws =>
            entry.window_start = ws /\ Since(log, i) <= entry.count
      BY <2>2 DEF WindowKnows
    <3> HIDE DEF new, entry
    <3>4. CASE entry.window_start = ws
      <4>1. entry.count \in Nat
        BY <3>0 DEF StorageEntry
      <4> WITNESS entry.count \in Nat
      <4>2. new.window_start = ws /\ new.count = entry.count + 1
        BY <3>0, <3>2, <3>4 DEF StorageEntry
      <4> QED
        BY <3>1, <3>3, <4>2
    <3>5. CASE entry.window_start /= ws
      <4> WITNESS 0 \in Nat
      <4>1. new.window_start = ws /\ new.count = 1
        BY <3>0, <3>2, <3>5 DEF StorageEntry
      <4> QED
        BY <3>1, <3>3, <3>5, <4>1
    <3> QED
      BY <3>4, <3>5
  <2> QED
    BY <2>1, <2>2
<1> HIDE DEF new
<1>4. verdict.allowed \in BOOLEAN
  BY <1>2
<1>5. verdict.allowed => Admissible("fixed_window", log, base)
  <2> SUFFICES ASSUME new.count <= MaxRequests, NEW i \in 1..Len(log), WindowStart(log[i]) = ws
               PROVE  Since(log, i) < MaxRequests
    BY <1>2 DEF Admissible, Buckets, Aligned
  <2>1. Since(log, i) \in Nat
    BY SinceType
  <2> QED
    BY <1>1, <1>3, <2>1
<1> HIDE DEF verdict
<1>6. WindowKnows(new, Grown(log, verdict.allowed, base), time)
  BY <1>3, <1>4, CountGrows
<1> QED
  BY <1>4, <1>5, <1>6 DEF new, verdict

\* A sliding window with room has counted less than it may.
LEMMA RoomMeansFewer ==
  ASSUME NEW c \in Nat, NEW p \in Nat, NEW e \in Nat, NEW m \in Nat, NEW w \in Nat \ {0},
         Minus(m * w, c * w + p * e) > 0
  PROVE  c < m
<1> SUFFICES ASSUME m <= c PROVE FALSE
  OBVIOUS
<1> DEFINE x == m * w
           y == c * w
           z == p * e
<1>1. x \in Nat /\ y \in Nat /\ z \in Nat
  BY TimesNat
<1>2. x <= y
  BY TimesMonotone
<1>3. Minus(x, y + z) > 0
  OBVIOUS
<1> HIDE DEF x, y, z
<1> QED
  BY <1>1, <1>2, <1>3 DEF Minus

\* The requests of the window before are those of before the last.
LEMMA PreviousGrows ==
  ASSUME NEW entry, NEW new, NEW log \in Seq(Nat), NEW base \in Nat, NEW allowed \in BOOLEAN,
         PreviousKnows(entry, log, base),
         Counts(new, base).previous = Counts(entry, base).previous
  PROVE  PreviousKnows(new, Grown(log, allowed, base), base)
<1> DEFINE grown == Grown(log, allowed, base)
           n == Len(log)
<1>0. n \in Nat /\ WindowMs \in Nat \ {0} /\ WindowStart(base) \in Nat
  BY QuotaConstants, WindowStartType
<1>1. /\ \A i \in 1..n : grown[i] = log[i]
      /\ \/ Len(grown) = n
         \/ Len(grown) = n + 1 /\ grown[n + 1] = base
  <2>1. CASE allowed
    <3>1. grown = Append(log, base)
      BY <2>1 DEF Grown
    <3> HIDE DEF grown
    <3> QED
      BY <3>1
  <2>2. CASE ~allowed
    BY <2>2 DEF Grown
  <2> QED
    BY <2>1, <2>2
<1> HIDE DEF grown
<1> SUFFICES ASSUME NEW l \in 1..Len(grown), NEW i \in 1..l,
                    WindowStart(grown[i]) = WindowStart(grown[l]),
                    WindowStart(grown[i]) + WindowMs = WindowStart(base)
             PROVE  l - i + 1 <= Counts(new, base).previous
  BY DEF PreviousKnows, grown
<1>2. grown[l] /= base
  BY <1>0
<1>3. l \in 1..n /\ i \in 1..n
  BY SMTT(30), <1>0, <1>1, <1>2
<1>4. grown[i] = log[i] /\ grown[l] = log[l]
  BY <1>1, <1>3
<1> QED
  BY <1>3, <1>4 DEF PreviousKnows

\* Room that is there for the weight of p is there for that of less.
LEMMA RoomForFewer ==
  ASSUME NEW c \in Nat, NEW p \in Nat, NEW e \in Nat, NEW m \in Nat, NEW w \in Nat,
         NEW n \in Nat, n <= p, Minus(m * w, c * w + p * e) > 0
  PROVE  c * w + n * e < m * w
<1> DEFINE x == m * w
           y == c * w
           z == p * e
           v == n * e
<1>1. x \in Nat /\ y \in Nat /\ z \in Nat /\ v \in Nat
  BY TimesNat
<1>2. v <= z
  BY TimesMonotone
<1>3. Minus(x, y + z) > 0
  OBVIOUS
<1> HIDE DEF x, y, z, v
<1>4. y + v < x
  BY <1>1, <1>2, <1>3 DEF Minus
<1> QED
  BY <1>4 DEF x, y, v

LEMMA SlidingWindowDecides ==
  ASSUME algorithm = "sliding_window", NEW entry \in StorageEntry \cup {None},
         NEW log \in Seq(Nat), NEW base \in Nat, NEW time \in Nat, base <= time,
         Ordered(log, base), WindowKnows(entry, log, base),
         \/ PreviousKnows(entry, log, base)
         \/ entry = None /\ WindowStart(base) < base /\ base + WindowEnds(base) <= time
  PROVE  LET verdict == Decide(entry, base)
         IN  /\ WindowKnows(verdict.entry, Grown(log, verdict.allowed, base), time)
             /\ PreviousKnows(verdict.entry, Grown(log, verdict.allowed, base), time)
             /\ verdict.allowed => Admissible("sliding_window", log, base)
<1> DEFINE ws == WindowStart(base)
           counts == Counts(entry, base)
           room == Minus(MaxRequests * WindowMs, Weighted(entry, base))
           verdict == Decide(entry, base)
<1>0. ws \in Nat /\ MaxRequests \in Nat /\ WindowMs \in Nat \ {0} /\ WindowEnds(base) \in Nat
  <2>1. ws \in Nat /\ MaxRequests \in Nat /\ WindowMs \in Nat \ {0}
    BY WindowStartType, QuotaConstants
  <2>2. base < ws + WindowMs
    BY <2>1, DivisionBounds DEF WindowStart
  <2> QED
    BY <2>1, <2>2 DEF WindowEnds
<1>1. counts.current \in Nat /\ counts.previous \in Nat
  BY DEF Counts, StorageEntry
<1>2. ASSUME NEW i \in 1..Len(log), WindowStart(log[i]) = ws
      PROVE  Since(log, i) <= counts.current /\ Since(log, i) \in Nat
  <2>1. entry /= None /\ entry.window_start = ws /\ Since(log, i) <= entry.count
    BY <1>2 DEF WindowKnows
  <2>2. counts.current = entry.count
    BY <2>1 DEF Counts
  <2> QED
    BY <2>1, <2>2, SinceType
<1>3. verdict = SlidingWindowRecord(entry, base)
  BY DEF Decide
<1>a. ASSUME NEW new \in StorageEntry, NEW allowed \in BOOLEAN,
             WindowKnows(new, Grown(log, allowed, base), base),
             Counts(new, base).previous = counts.previous
      PROVE  PreviousKnows(new, Grown(log, allowed, base), time)
  <2> DEFINE grown == Grown(log, allowed, base)
  <2>1. grown \in Seq(Nat) /\ Ordered(grown, base)
    BY OrderedFacts DEF Grown
  <2>2. ASSUME WindowStart(base) = WindowStart(time)
        PROVE  PreviousKnows(new, grown, base)
    <3>1. ~(base + WindowEnds(base) <= time)
      BY SMTT(30), <1>0, <2>2, WindowStartFacts DEF WindowEnds
    <3>2. PreviousKnows(entry, log, base)
      BY <3>1
    <3> QED
      BY <1>a, <3>2, PreviousGrows
  <2> HIDE DEF grown
  <2>3. WindowKnows(new, grown, base)
    BY <1>a DEF grown
  <2>4. PreviousKnows(new, grown, time)
    BY <2>1, <2>2, <2>3, PreviousStays
  <2> QED
    BY <2>4 DEF grown
<1>4. CASE room > 0
  <2> DEFINE new == [NewEntry(counts.current + 1, ws) EXCEPT !.prev_count = counts.previous,
                                                             !.last_update = base]
  <2>1. verdict.allowed = TRUE /\ verdict.entry = new
    BY <1>3, <1>4 DEF SlidingWindowRecord, Verdict
  <2>2. new.window_start = ws /\ new.count = counts.current + 1
    BY DEF NewEntry
  <2>3. new /= None
    <3>1. NewEntry(counts.current + 1, ws) \in StorageEntry
      BY <1>0, <1>1, EntryTypes
    <3>2. new \in StorageEntry
      BY <1>1, <3>1 DEF StorageEntry
    <3> HIDE DEF new
    <3> QED
      BY <3>2, MemoryStorageAssumption
  <2>4. counts.current < MaxRequests
    <3> DEFINE c == counts.current
               p == counts.previous
    <3>1. Minus(MaxRequests * WindowMs, c * WindowMs + p * WindowEnds(base)) > 0
      BY <1>4 DEF Weighted
    <3>2. c \in Nat /\ p \in Nat
      BY <1>1
    <3> HIDE DEF c, p
    <3>3. c < MaxRequests
      BY <1>0, <3>1, <3>2, RoomMeansFewer
    <3> QED
      BY <3>3 DEF c
  <2>8. new \in StorageEntry /\ Counts(new, base).previous = counts.previous
    <3>1. NewEntry(counts.current + 1, ws) \in StorageEntry
      BY <1>0, <1>1, EntryTypes
    <3>2. new \in StorageEntry
      BY <1>1, <3>1 DEF StorageEntry
    <3>3. new.prev_count = counts.previous
      BY DEF NewEntry
    <3>4. counts.previous /= None
      BY <1>1, NoneAssumption
    <3> HIDE DEF new, counts
    <3> QED
      BY <2>2, <2>3, <3>2, <3>3, <3>4 DEF Counts
  <2>9. LeavesRoom(log, base)
    <3> DEFINE c == counts.current
               p == counts.previous
               e == WindowEnds(base)
    <3>1. Minus(MaxRequests * WindowMs, c * WindowMs + p * e) > 0
      BY <1>4 DEF Weighted
    <3>2. c \in Nat /\ p \in Nat /\ e \in Nat
      BY <1>0, <1>1
    <3>3. entry = None => c = 0
      BY DEF Counts
    <3>4. \A l \in 1..Len(log) : \A i \in 1..l :
            WindowStart(log[i]) = WindowStart(log[l]) /\ WindowStart(log[i]) + WindowMs = ws =>
              l - i + 1 <= p \/ (entry = None /\ ws < base)
      <4>1. PreviousKnows(entry, log, base) \/ (entry = None /\ ws < base)
        OBVIOUS
      <4> QED
        BY <4>1 DEF PreviousKnows
    <3>5. \A m \in 1..Len(log) : WindowStart(log[m]) = ws => Since(log, m) <= c
      BY <1>2
    <3> HIDE DEF c, p, e, ws, counts
    <3>6. ASSUME NEW l \in 1..Len(log), NEW i \in 1..l, l - i + 1 <= p
          PROVE  c * WindowMs + (l - i + 1) * e < MaxRequests * WindowMs
      <4> DEFINE n == l - i + 1
      <4>1. n \in Nat /\ n <= p
        BY <3>6
      <4> HIDE DEF n
      <4>2. c * WindowMs + n * e < MaxRequests * WindowMs
        BY <1>0, <3>1, <3>2, <4>1, RoomForFewer
      <4> QED
        BY <4>2 DEF n
    <3>7. \A l \in 1..Len(log) : \A i \in 1..l :
            WindowStart(log[i]) = WindowStart(log[l]) /\ WindowStart(log[i]) + WindowMs = ws =>
              \/ c * WindowMs + (l - i + 1) * e < MaxRequests * WindowMs
              \/ c = 0 /\ ws < base
      BY <3>3, <3>4, <3>6
    <3> QED
      BY <3>2, <3>5, <3>7 DEF LeavesRoom, ws, e
  <2> HIDE DEF new, counts, verdict
  <2>5. /\ WindowKnows(new, Grown(log, TRUE, base), time)
        /\ WindowKnows(new, Grown(log, TRUE, base), base)
    <3>1. base <= base
      OBVIOUS
    <3>2. ASSUME NEW t \in Nat, base <= t PROVE WindowKnows(new, Grown(log, TRUE, base), t)
      BY <1>1, <1>2, <2>2, <2>3, <3>2, CountGrows
    <3> QED
      BY <3>1, <3>2
  <2>10. PreviousKnows(new, Grown(log, TRUE, base), time)
    BY <1>a, <2>5, <2>8
  <2>6. Admissible("sliding_window", log, base)
    <3> SUFFICES ASSUME NEW i \in 1..Len(log), WindowStart(log[i]) = ws
                 PROVE  Since(log, i) < MaxRequests
      BY <2>9 DEF Admissible, Buckets, Aligned
    <3> QED
      BY <1>0, <1>1, <1>2, <2>4
  <2>7. verdict.entry = new /\ verdict.allowed = TRUE
    BY <2>1
  <2> QED
    BY <2>5, <2>6, <2>7, <2>10 DEF verdict
<1>5. CASE ~(room > 0)
  <2>1. /\ verdict.allowed = FALSE
        /\ verdict.entry = IF entry = None THEN NewEntry(counts.current, ws) ELSE entry
    BY <1>3, <1>5 DEF SlidingWindowRecord, Verdict
  <2>2. Grown(log, FALSE, base) = log
    BY DEF Grown
  <2>3. WindowKnows(verdict.entry, log, base)
    <3>1. CASE entry = None
      <4>1. \A i \in 1..Len(log) : WindowStart(log[i]) /= ws
        BY <3>1 DEF WindowKnows
      <4> QED
        BY <4>1 DEF WindowKnows
    <3>2. CASE entry /= None
      BY <2>1, <3>2
    <3> QED
      BY <3>1, <3>2
  <2>5. verdict.entry \in StorageEntry /\ Counts(verdict.entry, base).previous = counts.previous
    <3>1. CASE entry = None
      <4>1. counts.current = 0 /\ counts.previous = 0
        BY <3>1 DEF Counts
      <4>2. verdict.entry = NewEntry(0, ws)
        BY <2>1, <3>1, <4>1
      <4>3. NewEntry(0, ws) \in StorageEntry
        BY <1>0, EntryTypes
      <4>4. NewEntry(0, ws) /= None
        BY <4>3, MemoryStorageAssumption
      <4>5. NewEntry(0, ws).window_start = ws /\ NewEntry(0, ws).prev_count = None
        BY DEF NewEntry
      <4>6. Counts(NewEntry(0, ws), base).previous = 0
        BY <4>4, <4>5 DEF Counts
      <4> HIDE DEF verdict, counts
      <4> QED
        BY <4>1, <4>2, <4>3, <4>6
    <3>2. CASE entry /= None
      BY <2>1, <3>2
    <3> QED
      BY <3>1, <3>2
  <2> HIDE DEF verdict, counts
  <2>4. WindowKnows(verdict.entry, log, time)
    BY <2>3, <2>5, WindowStays
  <2>6. PreviousKnows(verdict.entry, Grown(log, FALSE, base), time)
    BY <1>a, <2>2, <2>3, <2>5
  <2> QED
    BY <2>1, <2>2, <2>4, <2>6 DEF verdict
<1> QED
  BY <1>4, <1>5

(***************************************************************************)
(* The decision of the sliding log                                         *)
(***************************************************************************)
\* What counts of the log survives the filter.
LEMMA FilterKnows ==
  ASSUME NEW entry \in StorageEntry \cup {None}, NEW log \in Seq(Nat), NEW base \in Nat,
         NEW reading \in Nat, Ordered(log, base), LogKnows(entry, log, base, reading),
         NEW i \in 1..Len(log), base <= log[i] + WindowMs
  PROVE  LET kept == InWindow(entry, reading)
             n    == Len(kept) - Since(log, i) + 1
         IN  Since(log, i) <= Len(kept) /\ n \in 1..Len(kept) /\ kept[n] + base - reading >= log[i]
<1> DEFINE times == Timestamps(entry)
           kept == InWindow(entry, reading)
           first == Minus(reading, WindowMs)
           m == Since(log, i)
<1>0. /\ WindowMs \in Nat /\ times \in Seq(Nat) /\ Len(times) \in Nat /\ first \in Nat
      /\ Len(log) \in Nat
  BY QuotaConstants, TimestampsType DEF Minus
<1>1. m \in Nat \ {0} /\ m <= Len(log) /\ log[i] \in Nat
  BY SinceType DEF Since
<1>2. m <= Len(times) /\ times[Len(times) - m + 1] + base - reading >= log[i]
  BY DEF LogKnows
<1>3. ASSUME NEW p \in 1..Len(times), Len(times) - m < p
      PROVE  times[p] >= first
  <2> DEFINE j == Len(log) - (Len(times) - p)
  <2>a. i = Len(log) - m + 1
    BY <1>0 DEF Since
  <2> HIDE DEF m, times, first, kept
  <2>1. j \in 1..Len(log) /\ i <= j
    <3> DEFINE length == Len(log)
               stored == Len(times)
    <3>1. length \in Nat /\ stored \in Nat /\ m \in Nat /\ m <= length
          /\ p \in 1..stored /\ stored - m < p /\ i = length - m + 1
      BY <1>0, <1>1, <1>3, <2>a
    <3> HIDE DEF length, stored
    <3>2. length - (stored - p) \in 1..length /\ i <= length - (stored - p)
      BY <3>1
    <3> QED
      BY <3>2 DEF length, stored
  <2>2. Len(times) - Since(log, j) + 1 = p
    BY <1>0, <2>1 DEF Since
  <2> DEFINE u == log[i]
             v == log[j]
             x == times[p]
  <2>3. v \in Nat /\ u \in Nat /\ u <= v /\ x \in Nat /\ base <= u + WindowMs
    <3> HIDE DEF j
    <3>1. u \in Nat /\ v \in Nat
      BY SMTT(30), <2>1
    <3>2. u <= v
      BY <2>1, OrderedFacts
    <3>3. x \in Nat
      BY SMTT(30), <1>0
    <3> QED
      BY <3>1, <3>2, <3>3
  <2>4. base <= v + WindowMs
    <3> HIDE DEF u, v, x, j
    <3> QED
      BY <1>0, <2>3
  <2>5. x + base - reading >= v
    <3>1. times[Len(times) - Since(log, j) + 1] + base - reading >= log[j]
      <4> HIDE DEF j
      <4> QED
        BY <2>1, <2>4 DEF LogKnows, times
    <3> QED
      BY <2>2, <3>1
  <2>6. x >= first
    <3> HIDE DEF u, v, x, j
    <3> QED
      BY <1>0, <2>3, <2>4, <2>5 DEF first, Minus
  <2> QED
    BY <2>6
<1>4. kept = FilterWindow(times, first)
  BY DEF InWindow
<1> HIDE DEF kept, times, first, m
<1>5. /\ kept \in Seq(Nat) /\ m <= Len(kept)
      /\ \A j \in 0..(m - 1) : kept[Len(kept) - j] = times[Len(times) - j]
  <2>1. m \in 0..Len(times)
    BY <1>0, <1>1, <1>2
  <2> QED
    BY <1>0, <1>3, <1>4, <2>1, FilterFacts
<1>6. kept[Len(kept) - m + 1] = times[Len(times) - m + 1]
  <2>1. Len(kept) \in Nat /\ m - 1 \in 0..(m - 1)
    BY <1>1, <1>5
  <2>2. Len(kept) - (m - 1) = Len(kept) - m + 1 /\ Len(times) - (m - 1) = Len(times) - m + 1
    BY <1>0, <1>1, <2>1
  <2>3. kept[Len(kept) - (m - 1)] = times[Len(times) - (m - 1)]
    BY <1>5, <2>1
  <2> QED
    BY <2>2, <2>3
<1>7. Len(kept) - m + 1 \in 1..Len(kept)
  BY <1>1, <1>5
<1> QED
  BY <1>2, <1>5, <1>6, <1>7 DEF m, kept

LEMMA StoredTimes ==
  ASSUME NEW times \in Seq(Nat)
  PROVE  Timestamps(WithTimestamps(times)) = times
<1>1. WithTimestamps(times) \in StorageEntry
  BY EntryTypes
<1>2. WithTimestamps(times).timestamps = times
  BY DEF WithTimestamps, NewEntry
<1>3. times /= None /\ WithTimestamps(times) /= None
  BY <1>1, NoneAssumption, MemoryStorageAssumption
<1> QED
  BY <1>2, <1>3 DEF Timestamps

LEMMA LogDecides ==
  ASSUME algorithm = "sliding_log", NEW entry \in StorageEntry \cup {None},
         NEW log \in Seq(Nat), NEW base \in Nat, NEW reading \in Nat,
         NEW time \in Nat, NEW clk \in Nat, base <= time, base - reading <= time - clk,
         Ordered(log, base), LogKnows(entry, log, base, reading)
  PROVE  LET verdict == Decide(entry, reading)
         IN  /\ LogKnows(verdict.entry, Grown(log, verdict.allowed, base), time, clk)
             /\ verdict.allowed => Admissible("sliding_log", log, base)
<1> DEFINE kept == InWindow(entry, reading)
           verdict == Decide(entry, reading)
<1>0. WindowMs \in Nat /\ MaxRequests \in Nat
  BY QuotaConstants
<1>1. kept \in Seq(Nat) /\ Len(kept) \in Nat
  BY InWindowType
<1>2. ASSUME NEW i \in 1..Len(log), base <= log[i] + WindowMs
      PROVE  LET n == Len(kept) - Since(log, i) + 1
             IN  Since(log, i) <= Len(kept) /\ n \in 1..Len(kept)
                 /\ kept[n] + base - reading >= log[i]
  BY <1>2, FilterKnows
<1>3. ASSUME NEW i \in 1..Len(log), time <= log[i] + WindowMs
      PROVE  LET n == Len(kept) - Since(log, i) + 1
             IN  Since(log, i) <= Len(kept) /\ n \in 1..Len(kept)
                 /\ kept[n] \in Nat /\ kept[n] + time - clk >= log[i]
  <2> DEFINE n == Len(kept) - Since(log, i) + 1
             v == kept[n]
  <2>1. log[i] \in Nat
    OBVIOUS
  <2>2. base <= log[i] + WindowMs
    BY <1>0, <1>3, <2>1
  <2>3. Since(log, i) <= Len(kept) /\ n \in 1..Len(kept) /\ v + base - reading >= log[i]
    BY <1>2, <2>2
  <2>4. v \in Nat
    <3> HIDE DEF kept, n
    <3> QED
      BY SMTT(30), <1>1, <2>3
  <2> HIDE DEF v
  <2>5. v + time - clk >= log[i]
    BY <2>1, <2>3, <2>4
  <2> QED
    BY <2>3, <2>4, <2>5 DEF v
<1>4. verdict = SlidingLogRecord(entry, reading)
  BY DEF Decide
<1>5. CASE Len(kept) < MaxRequests
  <2> DEFINE new == Append(kept, reading)
             log1 == Append(log, base)
  <2>1. verdict.allowed = TRUE /\ verdict.entry = WithTimestamps(new)
    BY <1>4, <1>5 DEF SlidingLogRecord, Verdict
  <2>2. Timestamps(verdict.entry) = new /\ new \in Seq(Nat)
    <3>1. new \in Seq(Nat)
      BY <1>1
    <3> HIDE DEF new, verdict
    <3> QED
      BY <2>1, <3>1, StoredTimes
  <2>3. ASSUME NEW i \in 1..Len(log1), time <= log1[i] + WindowMs
        PROVE  /\ Since(log1, i) <= Len(new)
               /\ new[Len(new) - Since(log1, i) + 1] + time - clk >= log1[i]
    <3> HIDE DEF kept, new, log1
    <3>0. Len(new) = Len(kept) + 1 /\ new[Len(new)] = reading
          /\ \A j \in 1..Len(kept) : new[j] = kept[j]
      BY <1>1 DEF new
    <3>1. CASE i \in 1..Len(log)
      <4>1. log1[i] = log[i] /\ Since(log1, i) = Since(log, i) + 1 /\ Since(log, i) \in Nat
        BY <3>1, AppendFacts, SinceType DEF log1
      <4> DEFINE n == Len(kept) - Since(log, i) + 1
      <4>2. Since(log, i) <= Len(kept) /\ n \in 1..Len(kept)
            /\ kept[n] \in Nat /\ kept[n] + time - clk >= log[i]
        BY <1>3, <2>3, <3>1, <4>1
      <4>3. Len(new) - Since(log1, i) + 1 = n
        BY <1>1, <3>0, <4>1
      <4> HIDE DEF n
      <4>4. new[n] = kept[n]
        BY <3>0, <4>2
      <4>5. Since(log1, i) <= Len(new)
        BY <1>1, <3>0, <4>1, <4>2
      <4> QED
        BY <4>1, <4>2, <4>3, <4>4, <4>5
    <3>2. CASE i = Len(log1)
      <4>1. log1[i] = base /\ Since(log1, i) = 1
        BY <3>2, AppendFacts DEF log1
      <4>2. Len(new) - Since(log1, i) + 1 = Len(new) /\ 1 <= Len(new)
        BY <1>1, <3>0, <4>1
      <4>3. reading + time - clk >= base
        OBVIOUS
      <4> QED
        BY <3>0, <4>1, <4>2, <4>3
    <3> QED
      BY <3>1, <3>2, AppendFacts DEF log1
  <2>4. LogKnows(verdict.entry, log1, time, clk)
    <3> HIDE DEF verdict, new, log1
    <3> QED
      BY <2>2, <2>3 DEF LogKnows
  <2>5. Admissible("sliding_log", log, base)
    <3> SUFFICES ASSUME NEW i \in 1..Len(log), base <= log[i] + WindowMs
                 PROVE  Since(log, i) < MaxRequests
      BY DEF Admissible, Buckets, Aligned
    <3>1. Since(log, i) <= Len(kept) /\ Since(log, i) \in Nat
      BY <1>2, SinceType
    <3> QED
      BY <1>0, <1>1, <1>5, <3>1
  <2>6. Grown(log, verdict.allowed, base) = log1
    BY <2>1 DEF Grown
  <2> QED
    BY <2>4, <2>5, <2>6
<1>6. CASE ~(Len(kept) < MaxRequests)
  <2>1. verdict.allowed = FALSE /\ verdict.entry = WithTimestamps(kept)
    BY <1>4, <1>6 DEF SlidingLogRecord, Verdict
  <2>2. Timestamps(verdict.entry) = kept
    BY <1>1, <2>1, StoredTimes
  <2>3. LogKnows(verdict.entry, log, time, clk)
    <3> HIDE DEF verdict, kept
    <3> QED
      BY <1>3, <2>2 DEF LogKnows
  <2>4. Grown(log, verdict.allowed, base) = log
    BY <2>1 DEF Grown
  <2> QED
    BY <2>1, <2>3, <2>4
<1> QED
  BY <1>5, <1>6

(***************************************************************************)
(* What holds of a key                                                     *)
(***************************************************************************)
\* KeyInv of a key that has `internal` and `log`, at the true time `time`; the
\* clock lags by `lag`.
KeyOK(alg, internal, log, base, reading, time, lag) ==
  /\ Ordered(log, base)
  /\ IF internal = None
       THEN Settled(alg, log, base, time)
       ELSE /\ Knows(alg, internal.entry, log, base, reading)
            /\ Outlives(alg, log, internal.expires_at + lag)

LEMMA KeyMoves ==
  ASSUME NEW alg, NEW internal \in InternalEntry \cup {None}, NEW log \in Seq(Nat),
         NEW base \in Nat, NEW reading \in Nat, NEW time \in Nat, NEW lag \in Nat,
         NEW base2 \in Nat, NEW reading2 \in Nat, NEW time2 \in Nat, NEW lag2 \in Nat,
         KeyOK(alg, internal, log, base, reading, time, lag),
         base <= base2, reading2 - reading <= base2 - base, time <= time2, lag <= lag2
  PROVE  KeyOK(alg, internal, log, base2, reading2, time2, lag2)
<1>0. Ordered(log, base)
  BY DEF KeyOK
<1>1. Ordered(log, base2)
  BY <1>0, OrderedFacts
<1>2. CASE internal = None
  <2>1. Settled(alg, log, base2, time2)
    BY <1>0, <1>2, SettledStays DEF KeyOK
  <2> QED
    BY <1>1, <1>2, <2>1 DEF KeyOK
<1>3. CASE internal /= None
  <2> DEFINE expires == internal.expires_at
  <2>1. internal.entry \in StorageEntry /\ expires \in Nat
    BY <1>3 DEF InternalEntry
  <2>2. Knows(alg, internal.entry, log, base, reading) /\ Outlives(alg, log, expires + lag)
    BY <1>3 DEF KeyOK
  <2>3. Knows(alg, internal.entry, log, base2, reading2)
    BY <1>0, <2>1, <2>2, KnowsStays
  <2> HIDE DEF expires
  <2>4. expires + lag \in Int /\ expires + lag2 \in Int /\ expires + lag <= expires + lag2
    BY <2>1
  <2>5. Outlives(alg, log, expires + lag2)
    BY <2>2, <2>4, OutlivesLonger
  <2> QED
    BY <1>1, <1>3, <2>3, <2>5 DEF KeyOK, expires
<1> QED
  BY <1>2, <1>3

LEMMA KeyStale ==
  ASSUME Timely, NEW alg, NEW internal \in InternalEntry, NEW log \in Seq(Nat),
         NEW base \in Nat, NEW reading \in Nat, NEW time \in Nat, NEW lag \in Nat,
         KeyOK(alg, internal, log, base, reading, time, lag),
         internal.expires_at + lag <= time, time <= base + MaxLatency
  PROVE  Settled(alg, log, base, time)
<1> DEFINE expiry == internal.expires_at + lag
<1>1. expiry \in Int /\ internal /= None
  BY MemoryStorageAssumption DEF InternalEntry
<1>2. Ordered(log, base) /\ Outlives(alg, log, expiry)
  BY <1>1 DEF KeyOK
<1> HIDE DEF expiry
<1> QED
  BY <1>1, <1>2, StaleSettled DEF expiry

\* Of a settled key a bucket is full, and the others know of no request.
LEMMA SettledKnows ==
  ASSUME NEW alg, alg \notin Buckets, alg /= "sliding_window", NEW log \in Seq(Nat), NEW base \in Nat,
         NEW time, NEW reading \in Nat, Settled(alg, log, base, time)
  PROVE  Knows(alg, None, log, base, reading)
<1>1. Knows(alg, None, log, base, base)
  BY DEF Settled, Knows
<1> QED
  BY <1>1, NoTimes DEF Knows

LEMMA ExecuteKeeps ==
  ASSUME algorithm \in Algorithms, algorithm /= "fixed_window",
         NEW entry \in StorageEntry \cup {None}, NEW log \in Seq(Nat),
         NEW base \in Nat, NEW reading \in Nat, NEW time \in Nat, NEW clk \in Nat,
         NEW lag \in Nat, NEW expires \in Nat,
         base <= time, base - reading <= time - clk, algorithm \notin Resilient => base = reading,
         base + Ttl <= expires + lag, Ordered(log, base),
         IF entry = None THEN Settled(algorithm, log, base, time)
                         ELSE Knows(algorithm, entry, log, base, reading)
  PROVE  LET verdict == Decide(entry, reading)
         IN  /\ KeyOK(algorithm, [entry |-> verdict.entry, expires_at |-> expires],
                      Grown(log, verdict.allowed, base), time, clk, time, lag)
             /\ verdict.allowed => Admissible(algorithm, log, base)
<1> DEFINE verdict == Decide(entry, reading)
           grown == Grown(log, verdict.allowed, base)
           new == [entry |-> verdict.entry, expires_at |-> expires]
<1>0. algorithm \in Buckets \/ algorithm = "sliding_log" \/ algorithm = "sliding_window"
  BY LimiterAssumption DEF Buckets
<1>1. verdict.entry \in StorageEntry /\ verdict.allowed \in BOOLEAN
  BY RecordType
<1>2. new.entry = verdict.entry /\ new.expires_at = expires /\ new /= None
  <2>1. new \in InternalEntry
    BY <1>1 DEF InternalEntry
  <2>2. new /= None
    <3> HIDE DEF new
    <3> QED
      BY <2>1, MemoryStorageAssumption
  <2> QED
    BY <2>2
<1>3. grown \in Seq(Nat) /\ Ordered(grown, time)
  <2>1. Ordered(log, time) /\ Ordered(Append(log, base), base) /\ Append(log, base) \in Seq(Nat)
    BY OrderedFacts
  <2>2. Ordered(Append(log, base), time)
    <3> DEFINE longer == Append(log, base)
    <3>1. longer \in Seq(Nat) /\ Ordered(longer, base)
      BY <2>1
    <3> HIDE DEF longer
    <3>2. Ordered(longer, time)
      BY <3>1, OrderedFacts
    <3> QED
      BY <3>2 DEF longer
  <2> QED
    BY <2>1, <2>2 DEF Grown
<1>4. base + Ttl \in Int /\ expires + lag \in Int
  BY QuotaConstants
<1> SUFFICES /\ Knows(algorithm, verdict.entry, grown, time, clk)
             /\ Outlives(algorithm, grown, base + Ttl)
             /\ verdict.allowed => Admissible(algorithm, log, base)
  <2> HIDE DEF verdict, grown, new
  <2>1. Outlives(algorithm, grown, expires + lag)
    BY <1>3, <1>4, OutlivesLonger
  <2> QED
    BY <1>2, <1>3, <2>1 DEF KeyOK, verdict, grown, new
<1>5. CASE algorithm \in Buckets
  <2>1. BucketEntry(entry) /\ (entry /= None => BucketKnows(algorithm, entry, log, base, reading))
    BY <1>5 DEF BucketEntry, Knows, BucketKnows
  <2>2. Ttl = BucketTtl
    BY <1>5 DEF Ttl, Buckets
  <2>3. /\ BucketKnows(algorithm, verdict.entry, grown, time, clk)
        /\ verdict.allowed => Admissible(algorithm, log, base)
        /\ Outlives(algorithm, grown, base + BucketTtl)
    BY <1>5, <2>1, BucketDecides
  <2> HIDE DEF verdict, grown
  <2>4. Knows(algorithm, verdict.entry, grown, time, clk)
    BY <1>5, <2>3 DEF Knows, Buckets, Aligned
  <2> QED
    BY <2>2, <2>3, <2>4
<1>6. CASE algorithm = "sliding_log" \/ algorithm = "sliding_window"
  <2>1. algorithm \notin Buckets /\ Ttl = WindowTtl
    BY <1>6 DEF Buckets, Ttl
  <2>2. algorithm /= "sliding_window" => Knows(algorithm, entry, log, base, reading)
    BY <2>1, SettledKnows
  <2>3. Outlives(algorithm, grown, base + WindowTtl)
    <3> HIDE DEF verdict
    <3> QED
      BY <1>1, <2>1, NewOutlives
  <2>4. CASE algorithm = "sliding_log"
    <3>1. LogKnows(entry, log, base, reading)
      BY <2>2, <2>4 DEF Knows
    <3>2. /\ LogKnows(verdict.entry, grown, time, clk)
          /\ verdict.allowed => Admissible("sliding_log", log, base)
      BY <2>4, <3>1, LogDecides
    <3> HIDE DEF verdict, grown
    <3>3. Knows(algorithm, verdict.entry, grown, time, clk)
      BY <2>4, <3>2 DEF Knows, Buckets, Aligned
    <3> QED
      BY <2>1, <2>3, <2>4, <3>2, <3>3
  <2>5. CASE algorithm = "sliding_window"
    <3>1. /\ WindowKnows(entry, log, base)
          /\ \/ PreviousKnows(entry, log, base)
             \/ entry = None /\ WindowStart(base) < base /\ base + WindowEnds(base) <= time
      BY <2>5 DEF Settled, Knows, Aligned
    <3>2. base = reading
      BY <2>5 DEF Resilient
    <3>3. /\ WindowKnows(verdict.entry, grown, time)
          /\ PreviousKnows(verdict.entry, grown, time)
          /\ verdict.allowed => Admissible("sliding_window", log, base)
      BY <2>5, <3>1, <3>2, SlidingWindowDecides
    <3> HIDE DEF verdict, grown
    <3>4. Knows(algorithm, verdict.entry, grown, time, clk)
      BY <2>5, <3>3 DEF Knows, Buckets, Aligned
    <3> QED
      BY <2>1, <2>3, <2>5, <3>3, <3>4
  <2> QED
    BY <1>6, <2>4, <2>5
<1> QED
  BY <1>0, <1>5, <1>6

LEMMA IncrementKeeps ==
  ASSUME algorithm = "fixed_window", NEW internal \in InternalEntry \cup {None},
         NEW log \in Seq(Nat), NEW base \in Nat, NEW time \in Nat, NEW clk \in Nat,
         NEW lag \in Nat, NEW expires \in Nat, NEW t \in Nat,
         base <= time, base + Ttl <= expires + lag,
         KeyOK(algorithm, internal, log, base, base, time, lag)
  PROVE  LET new     == Incremented(internal, 1, WindowStart(base), t)
             verdict == FixedWindowRecord(new.count, base)
         IN  /\ KeyOK(algorithm, [entry |-> new, expires_at |-> expires],
                      Grown(log, verdict.allowed, base), time, clk, time, lag)
             /\ verdict.allowed => Admissible(algorithm, log, base)
<1> DEFINE entry == Incremented(internal, 1, WindowStart(base), t)
           verdict == FixedWindowRecord(entry.count, base)
           grown == Grown(log, verdict.allowed, base)
           new == [entry |-> entry, expires_at |-> expires]
<1>0. algorithm \notin Buckets /\ algorithm \in Aligned /\ Ttl = WindowTtl
  BY DEF Buckets, Aligned, Ttl
<1>1. Ordered(log, base)
  BY DEF KeyOK
<1>2. IF internal = None THEN WindowKnows(None, log, base)
                         ELSE WindowKnows(internal.entry, log, base)
  BY <1>0 DEF KeyOK, Settled, Knows
<1>3. /\ verdict.allowed \in BOOLEAN
      /\ WindowKnows(entry, grown, time)
      /\ verdict.allowed => Admissible("fixed_window", log, base)
  BY <1>1, <1>2, FixedWindowDecides
<1>4. new.entry = entry /\ new.expires_at = expires /\ new /= None
  <2>1. entry \in StorageEntry
    BY WindowStartType, IncrementedType
  <2>2. new \in InternalEntry
    <3> HIDE DEF entry
    <3> QED
      BY <2>1 DEF InternalEntry
  <2>3. new /= None
    <3> HIDE DEF new
    <3> QED
      BY <2>2, MemoryStorageAssumption
  <2> QED
    BY <2>3
<1> HIDE DEF entry, verdict
<1>5. grown \in Seq(Nat) /\ Ordered(grown, time)
  <2>1. Ordered(log, time) /\ Ordered(Append(log, base), base) /\ Append(log, base) \in Seq(Nat)
    BY <1>1, OrderedFacts
  <2>2. Ordered(Append(log, base), time)
    <3> DEFINE longer == Append(log, base)
    <3>1. longer \in Seq(Nat) /\ Ordered(longer, base)
      BY <2>1
    <3> HIDE DEF longer
    <3>2. Ordered(longer, time)
      BY <3>1, OrderedFacts
    <3> QED
      BY <3>2 DEF longer
  <2> QED
    BY <2>1, <2>2 DEF Grown
<1>6. Outlives(algorithm, grown, expires + lag)
  <2>1. base + WindowTtl \in Int /\ expires + lag \in Int
    BY QuotaConstants
  <2>2. Outlives(algorithm, grown, base + WindowTtl)
    BY <1>0, <1>1, <1>3, NewOutlives
  <2> HIDE DEF grown
  <2> QED
    BY <1>0, <1>5, <2>1, <2>2, OutlivesLonger
<1> HIDE DEF grown, new
<1>7. Knows(algorithm, entry, grown, time, clk)
  BY <1>0, <1>3 DEF Knows
<1>8. KeyOK(algorithm, new, grown, time, clk, time, lag)
  BY <1>4, <1>5, <1>6, <1>7 DEF KeyOK
<1> QED
  BY <1>3, <1>8 DEF entry, verdict, grown, new

(***************************************************************************)
(* The inductive invariant, for one worker                                 *)
(***************************************************************************)
Inv(w) == CallInv(w) /\ \A k \in Keys : KeyInv(w, k)

\* True time, the clock, and the call of w, if it has one.
LEMMA CallFacts ==
  ASSUME TypeOK, CallsOK, NEW w \in Workers
  PROVE  /\ clock \in Nat /\ behind \in Nat /\ clock + behind \in Nat
         /\ started[w] \in Nat /\ now[w] \in Nat /\ Ttl \in Nat
         /\ Base(w) \in Nat /\ Reading(w) \in Nat
         /\ Base(w) <= clock + behind /\ clock + behind <= Base(w) + MaxLatency
         /\ Base(w) - Reading(w) <= clock + behind - clock
         /\ algorithm \notin Resilient => Base(w) = Reading(w)
<1>1. /\ clock \in Nat /\ behind \in Nat /\ started[w] \in Nat /\ now[w] \in Nat
      /\ MaxLatency \in Nat /\ Ttl \in Nat
  BY LimiterAssumption, QuotaConstants DEF TypeOK, StorageTypeOK
<1>2. CallsMade(w)
  BY DEF CallsOK
<1>3. CASE Busy(w)
  <2>1. Base(w) = started[w] /\ Reading(w) = now[w]
    BY <1>3 DEF Base, Reading
  <2> QED
    BY <1>1, <1>2, <1>3, <2>1 DEF CallsMade
<1>4. CASE ~Busy(w)
  <2>1. Base(w) = clock + behind /\ Reading(w) = clock
    BY <1>4 DEF Base, Reading
  <2> QED
    BY <1>1, <1>2, <2>1 DEF CallsMade
<1> QED
  BY <1>3, <1>4

LEMMA KeyIs ==
  ASSUME NEW w, NEW k
  PROVE  /\ KeyInv(w, k) <=>
              KeyOK(algorithm, data[k], admitted[k], Base(w), Reading(w), clock + behind, behind)
         /\ KeyInv(w, k)' <=>
              KeyOK(algorithm', data'[k], admitted'[k], Base(w)', Reading(w)',
                    clock' + behind', behind')
  BY DEF KeyInv, Free, KeyOK

\* The key is left alone while true time moves on, and the clock perhaps less.
LEMMA KeyStays ==
  ASSUME TypeOK, CallsOK, TypeOK', NEW w \in Workers, NEW k \in Keys,
         data'[k] = data[k], admitted'[k] = admitted[k], algorithm' = algorithm,
         Base(w) <= Base(w)', Reading(w)' - Reading(w) <= Base(w)' - Base(w),
         clock + behind <= clock' + behind', behind <= behind', KeyInv(w, k)
  PROVE  KeyInv(w, k)' /\ (Free(w, k) => Free(w, k)')
<1>1. /\ Base(w) \in Nat /\ Reading(w) \in Nat /\ clock + behind \in Nat /\ behind \in Nat
  BY CallFacts
<1>2. /\ clock' \in Nat /\ behind' \in Nat /\ started'[w] \in Nat /\ now'[w] \in Nat
  BY LimiterAssumption DEF TypeOK, StorageTypeOK
<1>3. Base(w)' \in Nat /\ Reading(w)' \in Nat /\ clock' + behind' \in Nat
  BY <1>2 DEF Base, Reading
<1>4. data[k] \in InternalEntry \cup {None} /\ admitted[k] \in Seq(Nat)
  BY DEF TypeOK, StorageTypeOK
<1>5. KeyOK(algorithm, data[k], admitted[k], Base(w), Reading(w), clock + behind, behind)
  BY KeyIs
<1>6. KeyOK(algorithm, data[k], admitted[k], Base(w)', Reading(w)', clock' + behind', behind')
  BY <1>1, <1>2, <1>3, <1>4, <1>5, KeyMoves
<1>7. KeyInv(w, k)'
  BY <1>6, KeyIs
<1>8. ASSUME Free(w, k) PROVE Free(w, k)'
  <2>1. Ordered(admitted[k], Base(w)) /\ Settled(algorithm, admitted[k], Base(w), clock + behind)
    BY <1>5, <1>8 DEF KeyOK, Free
  <2>2. Settled(algorithm, admitted[k], Base(w)', clock' + behind')
    BY <1>1, <1>3, <1>4, <2>1, SettledStays
  <2> QED
    BY <2>2 DEF Free
<1> QED
  BY <1>7, <1>8

\* An entry that has expired by now need not have been there.
LEMMA FreeIfStale ==
  ASSUME TypeOK, CallsOK, Timely, NEW w \in Workers, NEW k \in Keys, KeyInv(w, k),
         data[k] /= None, data[k].expires_at <= clock
  PROVE  Free(w, k)
<1>1. /\ Base(w) \in Nat /\ Reading(w) \in Nat /\ clock \in Nat /\ behind \in Nat
      /\ clock + behind \in Nat /\ clock + behind <= Base(w) + MaxLatency
  BY CallFacts
<1>2. data[k] \in InternalEntry /\ admitted[k] \in Seq(Nat)
  BY DEF TypeOK, StorageTypeOK
<1>3. data[k].expires_at \in Nat
  BY <1>2 DEF InternalEntry
<1>4. data[k].expires_at + behind <= clock + behind
  BY <1>1, <1>3
<1>5. KeyOK(algorithm, data[k], admitted[k], Base(w), Reading(w), clock + behind, behind)
  BY KeyIs
<1>6. Settled(algorithm, admitted[k], Base(w), clock + behind)
  BY <1>1, <1>2, <1>4, <1>5, KeyStale
<1> QED
  BY <1>6 DEF Free

LEMMA IdleCall ==
  ASSUME NEW w, call'[w] = NoCall
  PROVE  CallInv(w)'
<1>1. ~Busy(w)' /\ call'[w].phase = "idle" /\ call'[w].op = None
  BY DEF Busy, NoCall
<1>2. None \notin {"execute_atomic", "increment"}
  BY MemoryStorageAssumption DEF Operations
<1> QED
  BY <1>1, <1>2 DEF CallInv, At

\* Time passes, or the clock is set back.
LEMMA MoveStep ==
  ASSUME TypeOK, CallsOK, TypeOK', NEW w \in Workers, Inv(w),
         UNCHANGED <<data, call, algorithm, now, started, admitted>>,
         clock + behind <= clock' + behind', behind <= behind'
  PROVE  Inv(w)'
<1>1. /\ clock \in Nat /\ behind \in Nat /\ started[w] \in Nat /\ Ttl \in Nat
  BY CallFacts
<1>2. clock' \in Nat /\ behind' \in Nat
  BY LimiterAssumption DEF TypeOK, StorageTypeOK
<1>3. Busy(w)' <=> Busy(w)
  BY DEF Busy
<1>4. Base(w) <= Base(w)' /\ Reading(w)' - Reading(w) <= Base(w)' - Base(w)
  <2>1. CASE Busy(w)
    <3>1. Base(w)' = Base(w) /\ Reading(w)' = Reading(w)
      BY <1>3, <2>1 DEF Base, Reading
    <3> QED
      BY <3>1, CallFacts
  <2>2. CASE ~Busy(w)
    <3>1. /\ Base(w) = clock + behind /\ Reading(w) = clock
          /\ Base(w)' = clock' + behind' /\ Reading(w)' = clock'
      BY <1>3, <2>2 DEF Base, Reading
    <3>2. clock' - clock <= (clock' + behind') - (clock + behind)
      <4>1. \A a, b, c, d \in Nat : b <= d => c - a <= (c + d) - (a + b)
        OBVIOUS
      <4> QED
        BY Zenon, <1>1, <1>2, <4>1
    <3> QED
      BY <3>1, <3>2
  <2> QED
    BY <2>1, <2>2
<1>5. ASSUME NEW k \in Keys
      PROVE  KeyInv(w, k)' /\ (Free(w, k) => Free(w, k)')
  <2>1. KeyInv(w, k)
    BY DEF Inv
  <2> QED
    BY <1>4, <2>1, KeyStays
<1>6. CallInv(w)'
  <2> USE DEF Inv
  <2>1. call[w].op \in {"execute_atomic", "increment"}
          /\ call[w].phase \in {"now", "load", "commit"} =>
           started[w] + Ttl <= call[w].expires + behind'
    <3>1. call[w].expires \in Nat
      BY DEF TypeOK, StorageTypeOK, Call
    <3> QED
      BY <1>1, <1>2, <3>1 DEF CallInv
  <2>2. Ttl' = Ttl
    BY DEF Ttl
  <2>3. \A k \in Keys : Stale(w, k)' => Stale(w, k)
    BY DEF Stale
  <2>4. call[w].op \in Calls => call[w].key \in Keys
    BY KeyFacts
  <2>5. call[w].phase = "remove" => Free(w, call[w].key)'
    <3> SUFFICES ASSUME call[w].phase = "remove" PROVE Free(w, call[w].key)'
      OBVIOUS
    <3>1. call[w].op \in Calls
      BY DEF CallsOK, CallsMade, Busy, Calls
    <3>2. PICK k \in Keys : k = call[w].key
      BY <2>4, <3>1
    <3>3. Free(w, k)'
      BY <1>5, <3>2 DEF CallInv
    <3> QED
      BY <3>2, <3>3 DEF Free
  <2>6. At(w, "execute_atomic", "commit") =>
          IF call[w].current = None
            THEN Free(w, call[w].key)'
            ELSE /\ data[call[w].key] /= None
                 /\ call[w].current = data[call[w].key].entry
    <3> SUFFICES ASSUME At(w, "execute_atomic", "commit"), call[w].current = None
                 PROVE  Free(w, call[w].key)'
      BY DEF CallInv
    <3>1. PICK k \in Keys : k = call[w].key
      BY <2>4 DEF At, Calls
    <3>2. Free(w, k)'
      BY <1>5, <3>1 DEF CallInv
    <3> QED
      BY <3>1, <3>2 DEF Free
  <2>7. Busy(w) => \A k \in Keys : Stale(w, k)' => Free(w, k)'
    BY <1>5, <2>3 DEF CallInv
  <2> QED
    BY <1>3, <2>1, <2>2, <2>5, <2>6, <2>7 DEF CallInv, At, Free
<1> QED
  BY <1>5, <1>6 DEF Inv

\* A call begins, with nothing in its locals yet.
LEMMA StartStep ==
  ASSUME TypeOK, CallsOK, TypeOK', Timely, NEW w \in Workers, Inv(w), NEW j \in Keys,
         StartSome(w, j)
  PROVE  Inv(w)'
<1>1. PICK op \in Operations, ttl \in Nat :
         /\ Begin(w, op, j, ttl)
         /\ op \in Calls
         /\ now' = [now EXCEPT ![w] = clock]
         /\ started' = [started EXCEPT ![w] = clock + behind]
         /\ UNCHANGED <<algorithm, behind, admitted>>
  BY StartFacts
<1>2. /\ now \in [Workers -> Nat] /\ started \in [Workers -> Nat] /\ call \in [Workers -> Call]
      /\ clock \in Nat /\ behind \in Nat
  BY CallFacts DEF TypeOK, StorageTypeOK
<1>3. /\ ~Busy(w) /\ UNCHANGED <<clock, data>>
      /\ call'[w].phase = FirstPhase(op) /\ call'[w].op = op
      /\ call'[w].now = 0 /\ call'[w].gcNow = 0
  BY <1>1, <1>2 DEF Begin, NoCall
<1>4. Busy(w)' /\ call'[w].phase /= "remove" /\ (op \in Counting => call'[w].phase = "enter")
  BY <1>1, <1>3 DEF Busy, FirstPhase, Calls, Counting
<1>5. Base(w)' = Base(w) /\ Reading(w)' = Reading(w)
  <2>1. now'[w] = clock /\ started'[w] = clock + behind
    BY <1>1, <1>2
  <2> QED
    BY <1>1, <1>3, <1>4, <2>1 DEF Base, Reading
<1>6. clock + behind <= clock' + behind' /\ behind <= behind'
      /\ Base(w) <= Base(w)' /\ Reading(w)' - Reading(w) <= Base(w)' - Base(w)
  <2>1. clock' + behind' = clock + behind /\ behind' = behind
    BY <1>1, <1>3
  <2> QED
    BY <1>2, <1>5, <2>1, CallFacts
<1>7. ASSUME NEW k \in Keys
      PROVE  KeyInv(w, k)' /\ (Free(w, k) => Free(w, k)')
  <2>1. data'[k] = data[k] /\ admitted'[k] = admitted[k] /\ algorithm' = algorithm
    BY <1>1, <1>3
  <2>2. KeyInv(w, k)
    BY DEF Inv
  <2> QED
    BY <1>6, <2>1, <2>2, KeyStays
<1>8. ASSUME NEW k \in Keys, Stale(w, k)'
      PROVE  Free(w, k)'
  <2>1. data[k] /= None /\ data[k].expires_at <= 0
    BY <1>3, <1>8 DEF Stale
  <2>2. data[k].expires_at \in Nat
    BY <2>1 DEF TypeOK, StorageTypeOK, InternalEntry
  <2>3. data[k].expires_at <= clock
    BY <1>2, <2>1, <2>2
  <2>4. Free(w, k)
    BY <2>1, <2>3, FreeIfStale DEF Inv
  <2> QED
    BY <1>7, <2>4
<1>9. CallInv(w)'
  BY <1>3, <1>4, <1>8 DEF CallInv, At, Counting
<1> QED
  BY <1>7, <1>9 DEF Inv

\* A step within a call.
LEMMA InternalStep ==
  ASSUME TypeOK, CallsOK, TypeOK', Timely, NEW w \in Workers, Inv(w), Internal(w)
  PROVE  Inv(w)'
<1>1. /\ StorageTypeOK /\ call \in [Workers -> Call] /\ clock \in Nat /\ behind \in Nat
      /\ started[w] \in Nat /\ Ttl \in Nat
  BY CallFacts DEF TypeOK, StorageTypeOK
<1>2. UNCHANGED <<algorithm, behind, now, started, admitted>> /\ clock' = clock
  BY CommonFrame DEF Internal, Load, GetExpired, TypeOK
<1>3. Busy(w) /\ call[w].op \in Calls
  <2>1. Busy(w)
    BY CommonLocals DEF Internal, Load, GetExpired, At, Busy, TypeOK
  <2> QED
    BY <2>1 DEF CallsOK, CallsMade, Calls
<1>4. Common(w) => /\ Busy(w)' /\ call'[w].op = call[w].op /\ call'[w].key = call[w].key
                   /\ call'[w].ttl = call[w].ttl
                   /\ call'[w].phase /= "remove"
                   /\ call'[w].phase = "commit" => call'[w].op /= "execute_atomic"
                   /\ call'[w].now \in {call[w].now, clock}
                   /\ call'[w].gcNow \in {call[w].gcNow, clock, 0}
                   /\ call[w].op \in Counting /\ call'[w].phase \in {"now", "load", "commit"} =>
                        \/ call[w].phase = "now" /\ call'[w].expires = call[w].expires
                        \/ call'[w].expires = clock + call[w].ttl
  BY <1>1, <1>3, CommonCall
<1>5. Load(w) => /\ call'[w] = [call[w] EXCEPT !.phase = "commit", !.current = call'[w].current]
                 /\ call[w].phase = "load" /\ call[w].op = "execute_atomic" /\ data' = data
                 /\ call'[w].current = IF LiveAt(data[call[w].key], call[w].now)
                                         THEN data[call[w].key].entry ELSE None
  <2> SUFFICES ASSUME Load(w)
               PROVE  /\ call'[w] = [call[w] EXCEPT !.phase = "commit",
                                                    !.current = call'[w].current]
                      /\ call[w].phase = "load" /\ call[w].op = "execute_atomic" /\ data' = data
                      /\ call'[w].current = IF LiveAt(data[call[w].key], call[w].now)
                                              THEN data[call[w].key].entry ELSE None
    OBVIOUS
  <2> DEFINE c == IF LiveAt(data[call[w].key], call[w].now)
                    THEN data[call[w].key].entry ELSE None
  <2>1. call' = [call EXCEPT ![w] = [@ EXCEPT !.phase = "commit", !.current = c]]
        /\ call[w].phase = "load" /\ data' = data
    BY DEF Load
  <2>2. call[w].op = "execute_atomic"
    BY <1>3 DEF Load, Calls
  <2> HIDE DEF c
  <2>3. call'[w] = [call[w] EXCEPT !.phase = "commit", !.current = c]
    BY <1>1, <2>1
  <2>4. call'[w].current = c
    BY <1>1, <2>3 DEF Call
  <2> QED
    BY <2>1, <2>2, <2>3, <2>4 DEF c
<1>6. GetExpired(w) => /\ call'[w] = [call[w] EXCEPT !.phase = "remove"] /\ data' = data
                       /\ call[w].op = "get"
                       /\ data[call[w].key] /= None /\ ~LiveAt(data[call[w].key], call[w].now)
  BY <1>1 DEF GetExpired, Goto, At
<1>7. Busy(w)' /\ call'[w].op = call[w].op
  <2>1. CASE Common(w)
    BY <1>4, <2>1
  <2>2. CASE Load(w)
    BY <1>1, <1>5, <2>2 DEF Busy, Call
  <2>3. CASE GetExpired(w)
    BY <1>1, <1>6, <2>3 DEF Busy, Call
  <2> QED
    BY <2>1, <2>2, <2>3 DEF Internal
<1>8. Base(w)' = Base(w) /\ Reading(w)' = Reading(w) /\ clock' + behind' = clock + behind
  BY <1>2, <1>3, <1>7 DEF Base, Reading
<1>9. ASSUME NEW k PROVE Free(w, k)' <=> Free(w, k)
  BY <1>2, <1>8 DEF Free
<1>10. ASSUME NEW k \in Keys, Stale(w, k) PROVE Free(w, k)
  BY <1>3, <1>10 DEF Inv, CallInv
<1>11. ASSUME NEW k \in Keys, data[k] /= None, data[k].expires_at <= clock PROVE Free(w, k)
  BY <1>11, FreeIfStale DEF Inv
<1>12. ASSUME NEW k \in Keys, data[k] /= None
       PROVE  data[k].expires_at \in Nat
  BY <1>1, <1>12 DEF StorageTypeOK, InternalEntry
<1>13. ASSUME NEW k \in Keys
       PROVE  KeyInv(w, k)'
  <2>1. KeyInv(w, k)
    BY DEF Inv
  <2>2. CASE data'[k] = data[k]
    BY <1>2, <1>8, <1>9, <2>1, <2>2 DEF KeyInv
  <2>3. CASE data'[k] /= data[k]
    <3>1. Common(w)
      BY <1>5, <1>6, <2>3 DEF Internal
    <3>2. data'[k] = None /\ data[k] /= None /\ ~LiveAt(data[k], call[w].gcNow)
      BY <1>1, <2>3, <3>1, CommonDrops
    <3>3. call[w].gcNow \in Nat
      BY <1>1 DEF Call
    <3>4. data[k].expires_at <= call[w].gcNow
      BY <1>12, <3>2, <3>3 DEF LiveAt
    <3>5. Free(w, k)
      BY <1>10, <3>2, <3>4 DEF Stale
    <3> QED
      BY <1>2, <1>8, <1>9, <2>1, <3>2, <3>5 DEF KeyInv
  <2> QED
    BY <2>2, <2>3
<1>14. ASSUME NEW k \in Keys, Stale(w, k)' PROVE Free(w, k)
  <2>1. data'[k] = data[k] /\ data[k] /= None
    <3>1. data'[k] \in {data[k], None}
      BY <1>1, <1>5, <1>6, CommonFrame DEF Internal
    <3> QED
      BY <1>14, <3>1 DEF Stale
  <2>2. data[k].expires_at <= call'[w].now \/ data[k].expires_at <= call'[w].gcNow
    BY <1>14, <2>1 DEF Stale
  <2>3. CASE Common(w)
    <3>1. \/ data[k].expires_at <= call[w].now \/ data[k].expires_at <= call[w].gcNow
          \/ data[k].expires_at <= clock \/ data[k].expires_at <= 0
      BY <1>4, <2>2, <2>3
    <3>2. Stale(w, k) \/ data[k].expires_at <= clock
      BY <1>1, <1>12, <2>1, <3>1 DEF Stale
    <3> QED
      BY <1>10, <1>11, <2>1, <3>2
  <2>4. CASE Load(w) \/ GetExpired(w)
    <3>1. call'[w].now = call[w].now /\ call'[w].gcNow = call[w].gcNow
      BY <1>1, <1>5, <1>6, <2>4 DEF Call
    <3> QED
      BY <1>10, <2>1, <2>2, <3>1 DEF Stale
  <2> QED
    BY <2>3, <2>4 DEF Internal
<1>15. PICK j \in Keys : j = call[w].key
  BY <1>3, KeyFacts
<1>16. ASSUME data[j] /= None, ~LiveAt(data[j], call[w].now)
       PROVE  Free(w, j)
  <2>1. call[w].now \in Nat
    BY <1>1 DEF Call
  <2>2. data[j].expires_at <= call[w].now
    BY <1>12, <1>16, <2>1 DEF LiveAt
  <2> QED
    BY <1>10, <1>16, <2>2 DEF Stale
<1>17. call'[w].op \in {"execute_atomic", "increment"}
         /\ call'[w].phase \in {"now", "load", "commit"} =>
          started[w] + Ttl <= call'[w].expires + behind
  <2> SUFFICES ASSUME call[w].op \in Counting, call'[w].phase \in {"now", "load", "commit"}
               PROVE  started[w] + Ttl <= call'[w].expires + behind
    BY <1>7 DEF Counting
  <2>0. call[w].phase \in {"now", "load", "commit"} =>
          started[w] + Ttl <= call[w].expires + behind
    BY DEF Inv, CallInv, Counting
  <2>1. CASE call'[w].expires = clock + call[w].ttl
    <3>1. call[w].ttl = Ttl
      BY DEF CallsOK, CallsMade, Counting
    <3>2. started[w] <= clock + behind
      BY <1>3 DEF CallsOK, CallsMade
    <3>3. \A a, b, c, d \in Nat : a <= b + c => a + d <= b + d + c
      OBVIOUS
    <3>4. started[w] + Ttl <= clock + Ttl + behind
      BY <1>1, <3>2, <3>3
    <3> QED
      BY <2>1, <3>1, <3>4
  <2>2. CASE Common(w)
    BY <1>4, <2>0, <2>1, <2>2
  <2>3. CASE Load(w)
    <3>1. call'[w].expires = call[w].expires
      BY <1>1, <1>5, <2>3 DEF Call
    <3> QED
      BY <1>5, <2>0, <2>3, <3>1
  <2>4. CASE GetExpired(w)
    BY <1>6, <2>4 DEF Counting
  <2> QED
    BY <2>2, <2>3, <2>4 DEF Internal
<1>18. call'[w].phase = "remove" => call'[w].key = j /\ Free(w, j)
  <2>1. CASE Common(w)
    BY <1>4, <2>1
  <2>2. CASE Load(w)
    BY <1>1, <1>5, <2>2 DEF Call
  <2>3. CASE GetExpired(w)
    BY <1>1, <1>6, <1>15, <1>16, <2>3 DEF Call
  <2> QED
    BY <2>1, <2>2, <2>3 DEF Internal
<1>19. At(w, "execute_atomic", "commit")' =>
         /\ call'[w].key = j /\ data' = data
         /\ IF call'[w].current = None
              THEN Free(w, j)
              ELSE data[j] /= None /\ call'[w].current = data[j].entry
  <2>1. CASE Common(w)
    BY <1>4, <2>1 DEF At
  <2>2. CASE Load(w)
    <3>1. call'[w].key = j /\ data' = data
      BY <1>1, <1>5, <1>15, <2>2 DEF Call
    <3>2. CASE LiveAt(data[j], call[w].now)
      <4>1. data[j] /= None /\ call'[w].current = data[j].entry
        BY <1>5, <1>15, <2>2, <3>2 DEF LiveAt
      <4>2. data[j].entry /= None
        <5>1. data[j].entry \in StorageEntry
          BY <1>1, <4>1 DEF StorageTypeOK, InternalEntry
        <5> QED
          BY <5>1, MemoryStorageAssumption
      <4> QED
        BY <3>1, <4>1, <4>2
    <3>3. CASE ~LiveAt(data[j], call[w].now)
      <4>1. call'[w].current = None
        BY <1>5, <1>15, <2>2, <3>3
      <4>2. Free(w, j)
        <5>1. CASE data[j] = None
          BY <5>1 DEF Inv, KeyInv
        <5>2. CASE data[j] /= None
          BY <1>16, <3>3, <5>2
        <5> QED
          BY <5>1, <5>2
      <4> QED
        BY <3>1, <4>1, <4>2
    <3> QED
      BY <3>2, <3>3
  <2>3. CASE GetExpired(w)
    BY <1>1, <1>6, <2>3 DEF At, Call
  <2> QED
    BY <2>1, <2>2, <2>3 DEF Internal
<1>20. CallInv(w)'
  <2>1. Ttl' = Ttl
    BY <1>2 DEF Ttl
  <2>2. started' = started /\ behind' = behind
    BY <1>2
  <2>3. Free(w, j) => Free(w, j)'
    BY <1>9
  <2>4. \A k \in Keys : Stale(w, k)' => Free(w, k)'
    BY <1>9, <1>14
  <2> QED
    BY <1>17, <1>18, <1>19, <2>1, <2>2, <2>3, <2>4 DEF CallInv, At, Free
<1> QED
  BY <1>13, <1>20 DEF Inv

\* What a step may do to the log of a key.
Admits(w, k) ==
  \/ admitted'[k] = admitted[k]
  \/ admitted'[k] = <<>>
  \/ /\ Admissible(algorithm, admitted[k], started[w])
     /\ admitted'[k] = Append(admitted[k], started[w])

\* A key about which the call that ends says nothing new.
LEMMA OthersStay ==
  ASSUME TypeOK, CallsOK, TypeOK', NEW w \in Workers, Inv(w), Ending(w),
         NEW k \in Keys, admitted'[k] = admitted[k]
  PROVE  /\ data'[k] = data[k] => KeyInv(w, k)'
         /\ data'[k] = None /\ Free(w, k) => KeyInv(w, k)'
<1>1. /\ call' = [call EXCEPT ![w] = NoCall]
      /\ UNCHANGED <<clock, algorithm, behind>>
  BY EndFacts
<1>2. ~Busy(w)'
  BY <1>1 DEF Busy, NoCall, TypeOK, StorageTypeOK
<1>3. Base(w)' = clock + behind /\ Reading(w)' = clock
  BY <1>1, <1>2 DEF Base, Reading
<1>4. /\ clock \in Nat /\ behind \in Nat /\ clock + behind \in Nat
      /\ Base(w) \in Nat /\ Reading(w) \in Nat
      /\ Base(w) <= clock + behind /\ Base(w) - Reading(w) <= clock + behind - clock
  BY CallFacts
<1>5. Base(w) <= Base(w)' /\ Reading(w)' - Reading(w) <= Base(w)' - Base(w)
  <2>1. \A a, b, c, d \in Nat : a - b <= c - d => d - b <= c - a
    OBVIOUS
  <2>2. clock - Reading(w) <= (clock + behind) - Base(w)
    BY <1>4, <2>1
  <2> QED
    BY <1>3, <1>4, <2>2
<1>6. clock' + behind' = clock + behind /\ behind' = behind
  BY <1>1
<1>7. clock + behind <= clock' + behind' /\ behind <= behind'
  BY <1>4, <1>6
<1>8. KeyInv(w, k)
  BY DEF Inv
<1>9. ASSUME data'[k] = data[k] PROVE KeyInv(w, k)'
  BY <1>1, <1>5, <1>7, <1>8, <1>9, KeyStays
<1>10. ASSUME data'[k] = None, Free(w, k) PROVE KeyInv(w, k)'
  <2>1. admitted[k] \in Seq(Nat)
    BY DEF TypeOK
  <2>2. Ordered(admitted[k], Base(w)) /\ Settled(algorithm, admitted[k], Base(w), clock + behind)
    BY <1>8, <1>10 DEF KeyInv, Free
  <2>3. Ordered(admitted[k], clock + behind)
    BY <1>4, <2>1, <2>2, OrderedFacts
  <2>4. Settled(algorithm, admitted[k], clock + behind, clock + behind)
    BY <1>4, <2>1, <2>2, SettledStays
  <2> QED
    BY <1>1, <1>3, <1>6, <1>10, <2>3, <2>4 DEF KeyInv, Free
<1> QED
  BY <1>9, <1>10

LEMMA RecordStep ==
  ASSUME TypeOK, CallsOK, TypeOK', NEW w \in Workers, Inv(w), Record(w) \/ CountRecord(w)
  PROVE  \A k \in Keys : KeyInv(w, k)' /\ Admits(w, k)
<1>0. Ending(w)
  BY DEF Ending
<1>1. /\ call' = [call EXCEPT ![w] = NoCall] /\ Busy(w)
      /\ UNCHANGED <<clock, algorithm, behind>>
  BY <1>0, EndFacts
<1>2. ~Busy(w)'
  BY <1>1 DEF Busy, NoCall, TypeOK, StorageTypeOK
<1>3. Base(w)' = clock + behind /\ Reading(w)' = clock
  BY <1>1, <1>2 DEF Base, Reading
<1>4. Base(w) = started[w] /\ Reading(w) = now[w]
  BY <1>1 DEF Base, Reading
<1>5. /\ clock \in Nat /\ behind \in Nat /\ clock + behind \in Nat
      /\ started[w] \in Nat /\ now[w] \in Nat
      /\ started[w] <= clock + behind /\ started[w] - now[w] <= clock + behind - clock
      /\ algorithm \notin Resilient => started[w] = now[w]
  BY <1>4, CallFacts
<1>6. /\ data \in [Keys -> InternalEntry \cup {None}] /\ admitted \in [Keys -> Seq(Nat)]
      /\ algorithm \in Algorithms
      /\ call[w].expires \in Nat /\ call[w].now \in Nat
      /\ call[w].current \in StorageEntry \cup {None}
  BY DEF TypeOK, StorageTypeOK, Call
<1>7. call[w].op \in Counting /\ call[w].phase = "commit"
  BY DEF Record, CountRecord, ExecuteCommit, IncrementCommit, At, Counting
<1>8. PICK j \in Keys : j = call[w].key
  BY <1>7, KeyFacts DEF Counting, Calls
<1>9. started[w] + Ttl <= call[w].expires + behind
  BY <1>7 DEF Inv, CallInv, Counting
<1>10. KeyInv(w, j)
  BY DEF Inv
<1> DEFINE log == admitted[j]
           expires == call[w].expires
<1>11. ASSUME NEW entry, NEW allowed \in BOOLEAN,
              data' = [data EXCEPT ![j] = [entry |-> entry, expires_at |-> expires]],
              admitted' = IF allowed THEN [admitted EXCEPT ![j] = Append(@, started[w])]
                          ELSE admitted,
              KeyOK(algorithm, [entry |-> entry, expires_at |-> expires],
                    Grown(log, allowed, started[w]), clock + behind, clock, clock + behind, behind),
              allowed => Admissible(algorithm, log, started[w])
       PROVE  \A k \in Keys : KeyInv(w, k)' /\ Admits(w, k)
  <2> TAKE k \in Keys
  <2>1. CASE k = j
    <3>1. data'[k] = [entry |-> entry, expires_at |-> expires]
      BY <1>6, <1>11, <2>1
    <3>2. admitted'[k] = Grown(log, allowed, started[w])
      BY <1>6, <1>11, <2>1 DEF Grown
    <3>3. KeyInv(w, k)'
      BY <1>1, <1>3, <1>11, <3>1, <3>2, KeyIs
    <3>4. Admits(w, k)
      BY <1>11, <2>1, <3>2 DEF Admits, Grown
    <3> QED
      BY <3>3, <3>4
  <2>2. CASE k /= j
    <3>1. data'[k] = data[k] /\ admitted'[k] = admitted[k]
      BY <1>6, <1>11, <2>2
    <3>2. KeyInv(w, k)'
      BY <1>0, <3>1, OthersStay
    <3> QED
      BY <3>1, <3>2 DEF Admits
  <2> QED
    BY <2>1, <2>2
<1>12. CASE Record(w)
  <2> DEFINE entry == call[w].current
             verdict == Decide(entry, now[w])
  <2>1. At(w, "execute_atomic", "commit")
    BY <1>12 DEF Record, ExecuteCommit
  <2>2. algorithm /= "fixed_window"
    BY <2>1 DEF At, CallsOK, CallsMade
  <2>3. verdict.allowed \in BOOLEAN
    BY <1>5, <1>6, <2>2, RecordType
  <2>4. Ordered(log, started[w])
        /\ IF entry = None THEN Settled(algorithm, log, started[w], clock + behind)
                           ELSE Knows(algorithm, entry, log, started[w], now[w])
    <3>1. Ordered(log, started[w])
      BY <1>4, <1>10 DEF KeyInv
    <3>2. CASE entry = None
      <4>1. Free(w, j)
        BY <1>8, <2>1, <3>2 DEF Inv, CallInv
      <4> QED
        BY <1>4, <3>1, <3>2, <4>1 DEF Free
    <3>3. CASE entry /= None
      <4>1. data[j] /= None /\ entry = data[j].entry
        BY <1>8, <2>1, <3>3 DEF Inv, CallInv
      <4> QED
        BY <1>4, <1>10, <3>1, <3>3, <4>1 DEF KeyInv
    <3> QED
      BY <3>2, <3>3
  <2>5. /\ KeyOK(algorithm, [entry |-> verdict.entry, expires_at |-> expires],
                 Grown(log, verdict.allowed, started[w]),
                 clock + behind, clock, clock + behind, behind)
        /\ verdict.allowed => Admissible(algorithm, log, started[w])
    <3> DEFINE base == started[w]
               reading == now[w]
               time == clock + behind
    <3>1. entry \in StorageEntry \cup {None} /\ log \in Seq(Nat) /\ expires \in Nat
      BY <1>6
    <3>2. base + Ttl <= expires + behind
      BY <1>9
    <3>3. base \in Nat /\ reading \in Nat /\ time \in Nat /\ base <= time
          /\ base - reading <= time - clock /\ (algorithm \notin Resilient => base = reading)
      BY <1>5
    <3>4. Ordered(log, base)
          /\ IF entry = None THEN Settled(algorithm, log, base, time)
                             ELSE Knows(algorithm, entry, log, base, reading)
      BY <2>4
    <3> HIDE DEF entry, log, expires, base, reading, time
    <3>5. LET new == Decide(entry, reading)
          IN  /\ KeyOK(algorithm, [entry |-> new.entry, expires_at |-> expires],
                       Grown(log, new.allowed, base), time, clock, time, behind)
              /\ new.allowed => Admissible(algorithm, log, base)
      BY <1>5, <1>6, <2>2, <3>1, <3>2, <3>3, <3>4, ExecuteKeeps
    <3> QED
      BY <3>5 DEF base, reading, time
  <2>6. data' = [data EXCEPT ![j] = [entry |-> verdict.entry, expires_at |-> expires]]
    BY <1>8, <1>12 DEF Record, ExecuteCommit, Insert
  <2>7. admitted' = IF verdict.allowed THEN [admitted EXCEPT ![j] = Append(@, started[w])]
                    ELSE admitted
    BY <1>8, <1>12 DEF Record, TellRecorded
  <2> HIDE DEF verdict, entry, log, expires
  <2> QED
    BY <1>11, <2>3, <2>5, <2>6, <2>7
<1>13. CASE CountRecord(w)
  <2> DEFINE entry == Incremented(data[j], 1, WindowStart(now[w]), call[w].now)
             verdict == FixedWindowRecord(entry.count, now[w])
  <2>1. algorithm = "fixed_window"
    BY <1>13 DEF CountRecord, IncrementCommit, At, CallsOK, CallsMade
  <2>2. now[w] = started[w]
    BY <1>5, <2>1 DEF Resilient
  <2>3. verdict.allowed \in BOOLEAN
    BY DEF FixedWindowRecord, Verdict
  <2>4. KeyOK(algorithm, data[j], log, now[w], now[w], clock + behind, behind)
    BY <1>4, <1>10, <2>2, KeyIs
  <2>5. /\ KeyOK(algorithm, [entry |-> entry, expires_at |-> expires],
                 Grown(log, verdict.allowed, now[w]),
                 clock + behind, clock, clock + behind, behind)
        /\ verdict.allowed => Admissible(algorithm, log, now[w])
    <3> DEFINE held == data[j]
               t == call[w].now
    <3>1. held \in InternalEntry \cup {None} /\ log \in Seq(Nat) /\ expires \in Nat /\ t \in Nat
      BY <1>6
    <3>2. now[w] + Ttl <= expires + behind
      BY <1>9, <2>2
    <3> HIDE DEF held, t, log, expires
    <3> QED
      BY <1>5, <2>1, <2>2, <2>4, <3>1, <3>2, IncrementKeeps DEF held, t
  <2>6. data' = [data EXCEPT ![j] = [entry |-> entry, expires_at |-> expires]]
    BY <1>8, <1>13 DEF CountRecord, IncrementCommit, Insert
  <2>7. admitted' = IF verdict.allowed THEN [admitted EXCEPT ![j] = Append(@, started[w])]
                    ELSE admitted
    <3>1. data'[j].entry = entry
      BY <1>6, <2>6
    <3> HIDE DEF entry
    <3> QED
      BY <1>8, <1>13, <3>1 DEF CountRecord, TellRecorded
  <2> HIDE DEF verdict, entry, log, expires
  <2> QED
    BY <1>11, <2>2, <2>3, <2>5, <2>6, <2>7
<1> QED
  BY <1>12, <1>13

LEMMA EndingStep ==
  ASSUME TypeOK, CallsOK, TypeOK', NEW w \in Workers, Inv(w), Ending(w)
  PROVE  Inv(w)' /\ \A k \in Keys : Admits(w, k)
<1>1. CallInv(w)'
  <2>1. call'[w] = NoCall
    BY EndFacts DEF TypeOK, StorageTypeOK
  <2> QED
    BY <2>1, IdleCall
<1>2. CASE Record(w) \/ CountRecord(w)
  BY <1>1, <1>2, RecordStep DEF Inv
<1>3. data \in [Keys -> InternalEntry \cup {None}] /\ admitted \in [Keys -> Seq(Nat)]
  BY DEF TypeOK, StorageTypeOK
<1>4. CASE PeekHit(w) \/ PeekMiss(w)
  <2>1. admitted' = admitted
    BY <1>4 DEF PeekHit, PeekMiss
  <2>2. ASSUME NEW k \in Keys PROVE KeyInv(w, k)'
    <3>1. CASE data'[k] = data[k]
      BY <2>1, <3>1, OthersStay
    <3>2. CASE data'[k] /= data[k]
      <4>1. GetRemove(w)
        BY <1>4, <3>2 DEF PeekHit, PeekMiss, GetHit, GetMiss
      <4>2. k = call[w].key /\ data'[k] = None
        BY <1>3, <3>2, <4>1 DEF GetRemove
      <4>3. Free(w, k)
        BY <4>1, <4>2 DEF GetRemove, At, Inv, CallInv
      <4> QED
        BY <2>1, <4>2, <4>3, OthersStay
    <3> QED
      BY <3>1, <3>2
  <2> QED
    BY <1>1, <2>1, <2>2 DEF Inv, Admits
<1>5. CASE Forget(w)
  <2>1. PICK j \in Keys : j = call[w].key
    BY <1>5, KeyFacts DEF Forget, DeleteCommit, At, Calls
  <2>2. /\ admitted' = [admitted EXCEPT ![j] = <<>>]
        /\ data' = [data EXCEPT ![j] = None]
    BY <1>5, <2>1 DEF Forget, DeleteCommit
  <2>3. ASSUME NEW k \in Keys PROVE KeyInv(w, k)' /\ Admits(w, k)
    <3>1. CASE k = j
      <4>1. admitted'[k] = <<>> /\ data'[k] = None
        BY <1>3, <2>2, <3>1
      <4>2. \A a : Owed(<<>>, a) /\ Ordered(<<>>, a)
        BY DEF Owed, Ordered
      <4>3. \A alg, base, time : Settled(alg, <<>>, base, time)
        BY <4>2 DEF Settled, WindowKnows, PreviousKnows, LogKnows
      <4> QED
        BY <4>1, <4>2, <4>3 DEF KeyInv, Free, Admits
    <3>2. CASE k /= j
      <4>1. admitted'[k] = admitted[k] /\ data'[k] = data[k]
        BY <1>3, <2>2, <3>2
      <4>2. KeyInv(w, k)'
        BY <4>1, OthersStay
      <4> QED
        BY <4>1, <4>2 DEF Admits
    <3> QED
      BY <3>1, <3>2
  <2> QED
    BY <1>1, <2>3 DEF Inv
<1> QED
  BY <1>2, <1>4, <1>5 DEF Ending

(***************************************************************************)
(* The inductive invariant holds                                           *)
(***************************************************************************)
\* One worker, in time.
Alone(w) == Workers = {w} /\ Timely

LEMMA InvInit ==
  ASSUME Init, NEW w \in Workers
  PROVE  Inv(w)
<1>1. call[w] = NoCall
  BY DEF Init, StorageInit
<1>2. CallInv(w)
  <2>1. ~Busy(w) /\ call[w].phase = "idle" /\ call[w].op = None
    BY <1>1 DEF Busy, NoCall
  <2>2. None \notin {"execute_atomic", "increment"}
    BY MemoryStorageAssumption DEF Operations
  <2> QED
    BY <2>1, <2>2 DEF CallInv, At
<1>3. ASSUME NEW k \in Keys PROVE KeyInv(w, k)
  <2>1. admitted[k] = <<>> /\ data[k] = None
    BY DEF Init, StorageInit
  <2>2. \A a : Owed(<<>>, a) /\ Ordered(<<>>, a)
    BY DEF Owed, Ordered
  <2>3. \A alg, base, time : Settled(alg, <<>>, base, time)
    BY <2>2 DEF Settled, WindowKnows, PreviousKnows, LogKnows
  <2> QED
    BY <2>1, <2>2, <2>3 DEF KeyInv, Free
<1> QED
  BY <1>2, <1>3 DEF Inv

LEMMA InvStep ==
  ASSUME NEW w, Alone(w), TypeOK, CallsOK, TypeOK', Inv(w), [Next]_vars
  PROVE  Inv(w)' /\ \A k \in Keys : Admits(w, k)
<1>0. w \in Workers /\ Timely
  BY DEF Alone
<1>1. /\ clock \in Nat /\ behind \in Nat
  BY <1>0, CallFacts
<1>2. ASSUME admitted' = admitted PROVE \A k \in Keys : Admits(w, k)
  BY <1>2 DEF Admits
<1>3. CASE Time
  <2>1. /\ UNCHANGED <<data, call, algorithm, now, started, admitted>>
        /\ clock' = clock + 1 /\ behind' = behind
    BY <1>3 DEF Time, Tick
  <2>2. clock + behind <= clock' + behind' /\ behind <= behind'
    BY <1>1, <2>1
  <2>3. Inv(w)'
    BY <1>0, <2>1, <2>2, MoveStep
  <2> QED
    BY <1>2, <2>1, <2>3
<1>4. CASE StepBack
  <2>1. PICK step \in 1..(MaxStep - behind) :
          clock' = clock - step /\ behind' = behind + step
    BY <1>4 DEF StepBack
  <2>2. UNCHANGED <<data, call, algorithm, now, started, admitted>>
    BY <1>4 DEF StepBack
  <2>3. MaxStep \in Nat
    BY LimiterAssumption
  <2>4. clock + behind <= clock' + behind' /\ behind <= behind'
    BY <1>1, <2>1, <2>3
  <2>5. Inv(w)'
    BY <1>0, <2>2, <2>4, MoveStep
  <2> QED
    BY <1>2, <2>2, <2>5
<1>5. CASE UNCHANGED vars
  <2>1. UNCHANGED <<data, call, algorithm, now, started, admitted>>
    BY <1>5 DEF vars, storageVars
  <2>2. clock + behind <= clock' + behind' /\ behind <= behind'
    BY <1>1, <1>5 DEF vars, storageVars
  <2>3. Inv(w)'
    BY <1>0, <2>1, <2>2, MoveStep
  <2> QED
    BY <1>2, <2>1, <2>3
<1>6. CASE \E v \in Workers, k \in Keys : StartSome(v, k)
  <2>1. PICK j \in Keys : StartSome(w, j)
    BY <1>6 DEF Alone
  <2>2. Inv(w)'
    BY <1>0, <2>1, StartStep
  <2>3. admitted' = admitted
    BY <2>1 DEF StartSome, CheckAndRecord, Check, Reset, Start
  <2> QED
    BY <1>2, <2>2, <2>3
<1>7. CASE \E v \in Workers : Internal(v) \/ Ending(v)
  <2>1. Internal(w) \/ Ending(w)
    BY <1>7 DEF Alone
  <2>2. CASE Internal(w)
    <3>1. Inv(w)'
      BY <1>0, <2>2, InternalStep
    <3>2. admitted' = admitted
      BY <2>2 DEF Internal
    <3> QED
      BY <1>2, <3>1, <3>2
  <2>3. CASE Ending(w)
    BY <1>0, <2>3, EndingStep
  <2> QED
    BY <2>1, <2>2, <2>3
<1> QED
  BY Zenon, <1>3, <1>4, <1>5, <1>6, <1>7, NextCases

\* What is stored on each key answers for the requests let through on it: the
\* content of a bucket for what they owe, the count of a window for how many they
\* are, the times of a log for when they came; and it is kept, in spite of expiry
\* and collection, as long as it matters.
THEOREM LimiterInvariant == ASSUME NEW w, Alone(w) PROVE Spec => []RatesInv
<1> DEFINE I == TypeOK /\ CallsOK /\ Inv(w)
<1>0. w \in Workers
  BY DEF Alone
<1>1. Init => I
  BY <1>0, TypeInit, CallsMadeInit, InvInit
<1>2. I /\ [Next]_vars => I'
  <2> SUFFICES ASSUME I, [Next]_vars PROVE I'
    OBVIOUS
  <2>1. TypeOK' /\ CallsOK'
    BY TypeStep, CallsMadeStep
  <2> QED
    BY <2>1, InvStep
<1>3. I => RatesInv
  BY DEF RatesInv, Inv, CallsOK, Alone
<1> HIDE DEF I
<1> QED
  BY <1>1, <1>2, <1>3, PTL DEF Spec

(***************************************************************************)
(* What the algorithms promise                                             *)
(***************************************************************************)
\* From the i-th request of `log` to the j-th, what `alg` promises is kept.
KeptBetween(alg, log, i, j) ==
  /\ alg \in Buckets =>
       (j - i + 1) * Unit <= MaxTokens + (log[j] - log[i]) * EffectiveRefillRate
  /\ alg \in Aligned /\ WindowStart(log[i]) = WindowStart(log[j]) => j - i + 1 <= MaxRequests
  /\ alg = "sliding_log" /\ log[j] - log[i] <= WindowMs => j - i + 1 <= MaxRequests

AllKept(alg, log) ==
  \A i, j \in 1..Len(log) : i <= j => KeptBetween(alg, log, i, j)

\* A request that comes last is let through only if the promise is kept from
\* every earlier one to it.
LEMMA KeptToLast ==
  ASSUME NEW alg, NEW log \in Seq(Nat), NEW s \in Nat, Admissible(alg, log, s),
         NEW i \in 1..Len(log)
  PROVE  /\ alg \in Buckets => (Since(log, i) + 1) * Unit
                                 <= MaxTokens + (s - log[i]) * EffectiveRefillRate
         /\ alg \in Aligned /\ WindowStart(log[i]) = WindowStart(s) =>
              Since(log, i) + 1 <= MaxRequests
         /\ alg = "sliding_log" /\ s - log[i] <= WindowMs => Since(log, i) + 1 <= MaxRequests
<1>1. log[i] \in Nat /\ Since(log, i) \in Nat \ {0}
  BY SinceType
<1>2. /\ EffectiveRefillRate \in Nat /\ Unit \in Nat /\ MaxTokens \in Nat /\ WindowMs \in Nat
      /\ MaxRequests \in Nat
  BY QuotaConstants
<1> DEFINE n == Since(log, i)
<1> DEFINE x == log[i]
<1>3. ASSUME alg \in Buckets
      PROVE  (n + 1) * Unit <= MaxTokens + (s - x) * EffectiveRefillRate
  <2>1. x * EffectiveRefillRate + n * Unit <= s * EffectiveRefillRate + MaxTokens - Unit
    BY <1>3 DEF Admissible, Owed
  <2> HIDE DEF n, x
  <2>2. (s - x) * EffectiveRefillRate = s * EffectiveRefillRate - x * EffectiveRefillRate
    BY <1>1, <1>2, TimesSum DEF x
  <2>3. n \in Nat
    BY <1>1 DEF n
  <2>4. (n + 1) * Unit = n * Unit + Unit
    <3>1. (n + 1) * Unit = n * Unit + 1 * Unit
      BY <1>2, <2>3, TimesSum
    <3> QED
      BY <1>2, <3>1
  <2>5. /\ x * EffectiveRefillRate \in Nat /\ s * EffectiveRefillRate \in Nat
        /\ n * Unit \in Nat
    BY <1>1, <1>2, <2>3, TimesNat DEF x
  <2>6. \A a, b, c, d, e \in Nat : a + b <= c + d - e => b + e <= d + (c - a)
    OBVIOUS
  <2>7. n * Unit + Unit <= MaxTokens
                             + (s * EffectiveRefillRate - x * EffectiveRefillRate)
    BY <1>2, <2>1, <2>5, <2>6
  <2> QED
    BY <2>2, <2>4, <2>7
<1>4. ASSUME alg \in Aligned, WindowStart(x) = WindowStart(s) PROVE n + 1 <= MaxRequests
  BY <1>1, <1>2, <1>4 DEF Admissible
<1>5. ASSUME alg = "sliding_log", s - x <= WindowMs PROVE n + 1 <= MaxRequests
  <2>1. s <= x + WindowMs
    BY <1>1, <1>2, <1>5
  <2> QED
    BY <1>1, <1>2, <1>5, <2>1 DEF Admissible
<1> QED
  BY <1>3, <1>4, <1>5

LEMMA KeptAppend ==
  ASSUME NEW alg, NEW log \in Seq(Nat), NEW s \in Nat, AllKept(alg, log),
         Admissible(alg, log, s)
  PROVE  AllKept(alg, Append(log, s))
<1> DEFINE grown == Append(log, s)
<1> DEFINE n == Len(log)
<1>0. n \in Nat
  OBVIOUS
<1>1. /\ Len(grown) = n + 1 /\ grown[n + 1] = s
      /\ \A i \in 1..n : grown[i] = log[i]
  OBVIOUS
<1>2. Unit \in Nat /\ Unit <= MaxTokens /\ MaxTokens \in Nat /\ MaxRequests \in Nat \ {0}
  BY QuotaConstants
<1>3. ASSUME NEW i \in 1..n PROVE KeptBetween(alg, grown, i, n + 1)
  <2>1. Since(log, i) + 1 = n + 1 - i + 1 /\ grown[i] = log[i]
    BY <1>1 DEF Since
  <2> DEFINE m == Since(log, i)
  <2>2. /\ alg \in Buckets =>
             (m + 1) * Unit <= MaxTokens + (s - log[i]) * EffectiveRefillRate
        /\ alg \in Aligned /\ WindowStart(log[i]) = WindowStart(s) => m + 1 <= MaxRequests
        /\ alg = "sliding_log" /\ s - log[i] <= WindowMs => m + 1 <= MaxRequests
    BY KeptToLast
  <2>3. m + 1 = (n + 1) - i + 1
    BY <2>1
  <2>4. grown[n + 1] = s /\ grown[i] = log[i]
    BY <1>1
  <2>5. ASSUME NEW a, NEW b, a = m + 1, b = grown[n + 1] - grown[i]
        PROVE  /\ alg \in Buckets => a * Unit <= MaxTokens + b * EffectiveRefillRate
               /\ alg = "sliding_log" /\ b <= WindowMs => a <= MaxRequests
    <3> HIDE DEF grown, n, m
    <3>1. b = s - log[i]
      BY <2>4, <2>5
    <3> QED
      BY <2>2, <2>5, <3>1
  <2>6. alg \in Aligned /\ WindowStart(grown[i]) = WindowStart(grown[n + 1]) => m + 1 <= MaxRequests
    <3> HIDE DEF grown, n, m
    <3> QED
      BY <2>2, <2>4
  <2>7. m \in Nat
    BY SinceType
  <2> HIDE DEF grown, n, m
  <2>8. (n + 1) - i + 1 = m + 1
    BY <1>0, <2>3, <2>7
  <2>9. alg \in Buckets =>
          ((n + 1) - i + 1) * Unit
             <= MaxTokens + (grown[n + 1] - grown[i]) * EffectiveRefillRate
    BY <2>5, <2>8
  <2>10. alg = "sliding_log" /\ grown[n + 1] - grown[i] <= WindowMs =>
           (n + 1) - i + 1 <= MaxRequests
    BY <2>5, <2>8
  <2> QED
    BY <2>6, <2>8, <2>9, <2>10 DEF KeptBetween
<1>4. KeptBetween(alg, grown, n + 1, n + 1)
  <2>1. (n + 1) - (n + 1) + 1 = 1 /\ s - s = 0
    BY <1>0
  <2>2. 1 * Unit = Unit /\ 0 * EffectiveRefillRate = 0
    BY <1>2, QuotaConstants
  <2> HIDE DEF grown, n
  <2> QED
    BY <1>1, <1>2, <2>1, <2>2 DEF KeptBetween
<1>5. ASSUME NEW i \in 1..n, NEW j \in 1..n, i <= j PROVE KeptBetween(alg, grown, i, j)
  <2>1. KeptBetween(alg, log, i, j)
    BY <1>5 DEF AllKept
  <2>2. grown[i] = log[i] /\ grown[j] = log[j]
    BY <1>1
  <2> HIDE DEF grown, n
  <2> QED
    BY <2>1, <2>2 DEF KeptBetween
<1> SUFFICES ASSUME NEW i \in 1..(n + 1), NEW j \in 1..(n + 1), i <= j
             PROVE  KeptBetween(alg, grown, i, j)
  <2> HIDE DEF grown, n
  <2> QED
    BY <1>1 DEF AllKept, grown
<1> HIDE DEF grown, n
<1>6. (i \in 1..n \/ i = n + 1) /\ (j \in 1..n \/ j = n + 1)
  BY <1>0
<1>7. i = n + 1 => j = n + 1
  BY <1>0
<1> QED
  BY <1>3, <1>4, <1>5, <1>6, <1>7

\* The windows that meet at a boundary, in a log of the sliding window.
Bounded(log) ==
  \A i, l, m, j \in 1..Len(log) :
    /\ i <= l /\ l < m /\ m <= j
    /\ WindowStart(log[i]) = WindowStart(log[l])
    /\ WindowStart(log[m]) = WindowStart(log[j])
    /\ WindowStart(log[j]) = WindowStart(log[i]) + WindowMs
    => (j - m + 1) * WindowMs + (l - i + 1) * WindowEnds(log[j]) < (MaxRequests + 1) * WindowMs

LEMMA OneMore ==
  ASSUME NEW x \in Nat, NEW c \in Nat, NEW y \in Nat, NEW e \in Nat, NEW m \in Nat,
         NEW w \in Nat, x <= c + 1, c * w + y * e < m * w
  PROVE  x * w + y * e < (m + 1) * w
<1>1. (c + 1) * w = c * w + 1 * w /\ (m + 1) * w = m * w + 1 * w
  BY TimesSum
<1>2. x * w <= (c + 1) * w
  BY TimesMonotone
<1>3. /\ x * w \in Nat /\ c * w \in Nat /\ m * w \in Nat /\ y * e \in Nat
      /\ (c + 1) * w \in Nat /\ (m + 1) * w \in Nat
  BY TimesNat
<1>4. 1 * w = w
  OBVIOUS
<1> DEFINE xw == x * w
           cw == c * w
           mw == m * w
           ye == y * e
           c1 == (c + 1) * w
           m1 == (m + 1) * w
<1>5. /\ xw \in Nat /\ cw \in Nat /\ mw \in Nat /\ ye \in Nat
      /\ c1 = cw + w /\ m1 = mw + w /\ xw <= c1 /\ cw + ye < mw
  BY <1>1, <1>2, <1>3, <1>4
<1> HIDE DEF xw, cw, mw, ye, c1, m1
<1>6. xw + ye < m1
  BY <1>5
<1> QED
  BY <1>6 DEF xw, ye, m1

\* Less than a whole window weighs less than it counts.
LEMMA WeighsLess ==
  ASSUME NEW y \in Nat, NEW e \in Nat, NEW m \in Nat \ {0}, NEW w \in Nat, y <= m, e < w
  PROVE  0 * w + y * e < m * w
<1>1. y * e <= m * e
  BY TimesMonotone
<1>2. m * (e + 1) <= m * w /\ e + 1 \in Nat
  <2>1. (e + 1) * m <= w * m
    BY TimesMonotone
  <2> QED
    BY <2>1
<1>3. m * (e + 1) = m * e + m
  OBVIOUS
<1>4. y * e \in Nat /\ m * e \in Nat /\ m * w \in Nat
  BY TimesNat
<1> DEFINE a == y * e
           b == m * e
           d == m * w
<1>5. a \in Nat /\ b \in Nat /\ d \in Nat /\ a <= b /\ b + m <= d
  BY <1>1, <1>2, <1>3, <1>4
<1> HIDE DEF a, b, d
<1>6. 0 + a < d
  BY <1>5
<1>7. 0 * w = 0
  OBVIOUS
<1> QED
  BY <1>6, <1>7 DEF a, d

LEMMA BoundedAppend ==
  ASSUME NEW log \in Seq(Nat), NEW s \in Nat, LeavesRoom(log, s),
         AllKept("sliding_window", log), Bounded(log)
  PROVE  Bounded(Append(log, s))
<1> DEFINE grown == Append(log, s)
           n == Len(log)
<1>0. /\ n \in Nat /\ MaxRequests \in Nat \ {0} /\ WindowMs \in Nat \ {0}
      /\ WindowStart(s) \in Nat /\ WindowEnds(s) \in 1..WindowMs
  BY QuotaConstants, WindowStartFacts
<1>1. /\ Len(grown) = n + 1 /\ grown[n + 1] = s
      /\ \A i \in 1..n : grown[i] = log[i]
  OBVIOUS
<1> HIDE DEF grown, n
<1> SUFFICES ASSUME NEW i \in 1..(n + 1), NEW l \in 1..(n + 1), NEW m \in 1..(n + 1),
                    NEW j \in 1..(n + 1), i <= l, l < m, m <= j,
                    WindowStart(grown[i]) = WindowStart(grown[l]),
                    WindowStart(grown[m]) = WindowStart(grown[j]),
                    WindowStart(grown[j]) = WindowStart(grown[i]) + WindowMs
             PROVE  (j - m + 1) * WindowMs + (l - i + 1) * WindowEnds(grown[j])
                      < (MaxRequests + 1) * WindowMs
  BY <1>1 DEF Bounded, grown
<1>2. i \in 1..n /\ l \in 1..n /\ grown[i] = log[i] /\ grown[l] = log[l]
  <2>1. i \in 1..n /\ l \in 1..n
    BY <1>0
  <2> QED
    BY <1>1, <2>1
<1>3. CASE j \in 1..n
  <2>1. m \in 1..n
    BY <1>0, <1>3
  <2>2. grown[m] = log[m] /\ grown[j] = log[j]
    BY <1>1, <1>3, <2>1
  <2> QED
    BY <1>2, <1>3, <2>1, <2>2 DEF Bounded, n
<1>4. CASE j = n + 1
  <2>0. grown[j] = s
    BY <1>1, <1>4
  <2>1. PICK c \in Nat :
          /\ \A a \in 1..n : WindowStart(log[a]) = WindowStart(s) => Since(log, a) <= c
          /\ \A b \in 1..n : \A a \in 1..b :
               WindowStart(log[a]) = WindowStart(log[b])
                 /\ WindowStart(log[a]) + WindowMs = WindowStart(s) =>
                   \/ c * WindowMs + (b - a + 1) * WindowEnds(s) < MaxRequests * WindowMs
                   \/ c = 0 /\ WindowStart(s) < s
    BY DEF LeavesRoom, n
  <2> DEFINE x == j - m + 1
             y == l - i + 1
             e == WindowEnds(s)
  <2>2. x \in Nat /\ y \in Nat /\ e \in Nat
    BY <1>0
  <2>3. x <= c + 1
    <3>1. CASE m = n + 1
      BY <1>0, <1>4, <2>1, <3>1
    <3>2. CASE m \in 1..n
      <4>1. Since(log, m) <= c
        BY <1>1, <2>0, <2>1, <3>2
      <4> QED
        BY <1>0, <1>4, <2>1, <3>2, <4>1 DEF Since, n
    <3> QED
      BY <1>0, <3>1, <3>2
  <2>4. \/ c * WindowMs + y * e < MaxRequests * WindowMs
        \/ c = 0 /\ WindowStart(s) < s
    <3>1. i \in 1..l
      BY <1>0
    <3> QED
      BY <1>2, <2>0, <2>1, <3>1
  <2>5. y <= MaxRequests
    <3>1. KeptBetween("sliding_window", log, i, l)
      BY <1>2 DEF AllKept, n
    <3> QED
      BY <1>2, <3>1 DEF KeptBetween, Aligned
  <2> HIDE DEF x, y, e
  <2>6. c * WindowMs + y * e < MaxRequests * WindowMs
    <3> SUFFICES ASSUME c = 0, WindowStart(s) < s
                 PROVE  0 * WindowMs + y * e < MaxRequests * WindowMs
      BY <2>4
    <3>1. e < WindowMs
      BY <1>0 DEF WindowEnds, e
    <3> QED
      BY <1>0, <2>2, <2>5, <3>1, WeighsLess
  <2>7. x * WindowMs + y * e < (MaxRequests + 1) * WindowMs
    BY <1>0, <2>1, <2>2, <2>3, <2>6, OneMore
  <2> QED
    BY <2>0, <2>7 DEF x, y, e
<1> QED
  BY <1>0, <1>3, <1>4

\* Of one key, all that its algorithm promises.
Kept(alg, log) == AllKept(alg, log) /\ (alg = "sliding_window" => Bounded(log))

PromiseKept == \A k \in Keys : Kept(algorithm, admitted[k])

LEMMA PromiseStep ==
  ASSUME NEW w, Alone(w), TypeOK, CallsOK, TypeOK', Inv(w), PromiseKept, [Next]_vars
  PROVE  PromiseKept'
<1> SUFFICES ASSUME NEW k \in Keys PROVE Kept(algorithm', admitted'[k])
  BY DEF PromiseKept
<1>1. algorithm' = algorithm
  <2>1. Keys' = Keys
    OBVIOUS
  <2>2. ASSUME NEW v \in Workers, Ending(v) PROVE algorithm' = algorithm
    BY <2>2, EndFacts
  <2>3. ASSUME NEW v \in Workers, NEW j \in Keys, StartSome(v, j)
        PROVE  algorithm' = algorithm
    BY <2>3, StartFacts
  <2>4. ASSUME NEW v \in Workers, Internal(v) PROVE algorithm' = algorithm
    BY <2>4 DEF Internal
  <2> QED
    BY <2>2, <2>3, <2>4, NextCases DEF Time, StepBack, vars
<1>2. Admits(w, k)
  BY InvStep
<1>3. /\ admitted[k] \in Seq(Nat) /\ started[w] \in Nat
      /\ Kept(algorithm, admitted[k])
  BY DEF TypeOK, Alone, PromiseKept
<1>4. Kept(algorithm, <<>>)
  BY DEF Kept, AllKept, Bounded
<1>5. ASSUME Admissible(algorithm, admitted[k], started[w])
      PROVE  Kept(algorithm, Append(admitted[k], started[w]))
  <2>1. AllKept(algorithm, Append(admitted[k], started[w]))
    BY <1>3, <1>5, KeptAppend DEF Kept
  <2>2. ASSUME algorithm = "sliding_window" PROVE Bounded(Append(admitted[k], started[w]))
    BY <1>3, <1>5, <2>2, BoundedAppend DEF Kept, Admissible
  <2> QED
    BY <2>1, <2>2 DEF Kept
<1> QED
  BY <1>1, <1>2, <1>3, <1>4, <1>5 DEF Admits

\* What RateKept, LogKept, WindowKept and BoundaryKept say of their algorithms.
LEMMA PromiseFacts ==
  ASSUME TypeOK, PromiseKept
  PROVE  RateKept /\ LogKept /\ WindowKept /\ BoundaryKept
<1>1. ASSUME NEW k \in Keys, NEW p \in Spans(k)
      PROVE  KeptBetween(algorithm, admitted[k], p[1], p[2])
  <2>1. p[1] \in 1..Len(admitted[k]) /\ p[2] \in 1..Len(admitted[k]) /\ p[1] <= p[2]
    BY DEF Spans
  <2> QED
    BY <2>1 DEF PromiseKept, Kept, AllKept
<1>2. MaxTokens = EffectiveBurst * Unit
  BY DEF MaxTokens
<1>3. RateKept
  BY <1>1, <1>2 DEF RateKept, KeptBetween, Size, Length, Buckets
<1>4. LogKept
  BY <1>1 DEF LogKept, KeptBetween, Size, Length
<1>5. WindowKept
  BY <1>1 DEF WindowKept, KeptBetween, Size, Aligned
<1>6. BoundaryKept
  <2> SUFFICES ASSUME algorithm = "sliding_window", NEW k \in Keys,
                      NEW p \in Spans(k), NEW q \in Spans(k), Adjacent(k, p, q)
               PROVE  Size(q) * WindowMs + Size(p) * WindowEnds(admitted[k][q[2]])
                        < (MaxRequests + 1) * WindowMs
    BY DEF BoundaryKept
  <2>1. Bounded(admitted[k])
    BY DEF PromiseKept, Kept
  <2>2. /\ p[1] \in 1..Len(admitted[k]) /\ p[2] \in 1..Len(admitted[k]) /\ p[1] <= p[2]
        /\ q[1] \in 1..Len(admitted[k]) /\ q[2] \in 1..Len(admitted[k]) /\ q[1] <= q[2]
    BY DEF Spans
  <2>3. /\ p[2] < q[1]
        /\ WindowStart(admitted[k][p[1]]) = WindowStart(admitted[k][p[2]])
        /\ WindowStart(admitted[k][q[1]]) = WindowStart(admitted[k][q[2]])
        /\ WindowStart(admitted[k][q[2]]) = WindowStart(admitted[k][p[1]]) + WindowMs
    BY DEF Adjacent
  <2> QED
    BY <2>1, <2>2, <2>3 DEF Bounded, Size
<1> QED
  BY <1>3, <1>4, <1>5, <1>6

LEMMA PromiseInvariant == ASSUME NEW w, Alone(w) PROVE Spec => [](TypeOK /\ PromiseKept)
<1> DEFINE I == TypeOK /\ CallsOK /\ Inv(w) /\ PromiseKept
<1>0. w \in Workers
  BY DEF Alone
<1>1. Init => I
  <2>1. Init => PromiseKept
    BY DEF Init, PromiseKept, Kept, AllKept, Bounded
  <2> QED
    BY <1>0, <2>1, TypeInit, CallsMadeInit, InvInit
<1>2. I /\ [Next]_vars => I'
  <2> SUFFICES ASSUME I, [Next]_vars PROVE I'
    OBVIOUS
  <2>1. TypeOK' /\ CallsOK'
    BY TypeStep, CallsMadeStep
  <2> QED
    BY <2>1, InvStep, PromiseStep
<1>3. I => TypeOK /\ PromiseKept
  OBVIOUS
<1> HIDE DEF I
<1> QED
  BY <1>1, <1>2, <1>3, PTL DEF Spec

\* Token and leaky bucket let through no more than one burst and what the rate
\* gives, between any two requests: for any quota, any number of keys, however far
\* the clock is set back, and with denials, expiry, collection and resets between.
THEOREM BucketsKeepTheRate == ASSUME NEW w, Alone(w) PROVE Spec => []RateKept
<1>1. Spec => [](TypeOK /\ PromiseKept)
  BY PromiseInvariant
<1>2. TypeOK /\ PromiseKept => RateKept
  BY PromiseFacts
<1> QED
  BY <1>1, <1>2, PTL

\* The sliding log lets no more than max_requests through in any interval of a
\* window's length, however far the clock is set back.
THEOREM SlidingLogKeepsItsWindow == ASSUME NEW w, Alone(w) PROVE Spec => []LogKept
<1>1. Spec => [](TypeOK /\ PromiseKept)
  BY PromiseInvariant
<1>2. TypeOK /\ PromiseKept => LogKept
  BY PromiseFacts
<1> QED
  BY <1>1, <1>2, PTL

\* The fixed and the sliding window let no more than max_requests through in one
\* aligned window, as long as the clock is not set back.
THEOREM WindowsKeepTheirCount == ASSUME NEW w, Alone(w) PROVE Spec => []WindowKept
<1>1. Spec => [](TypeOK /\ PromiseKept)
  BY PromiseInvariant
<1>2. TypeOK /\ PromiseKept => WindowKept
  BY PromiseFacts
<1> QED
  BY <1>1, <1>2, PTL

\* Around a boundary the sliding window lets no more through than max_requests and
\* a fraction of one: the requests of the window before weigh on every request, even
\* where a slow call finds their entry expired.
THEOREM SlidingWindowKeepsBoundary == ASSUME NEW w, Alone(w) PROVE Spec => []BoundaryKept
<1>1. Spec => [](TypeOK /\ PromiseKept)
  BY PromiseInvariant
<1>2. TypeOK /\ PromiseKept => BoundaryKept
  BY PromiseFacts
<1> QED
  BY <1>1, <1>2, PTL

(***************************************************************************)
(* What was told of a key: when the next request would be let through      *)
(***************************************************************************)
\* The count that a fixed window has at t.
CountAt(entry, t) ==
  IF entry /= None /\ entry.window_start = WindowStart(t) THEN entry.count ELSE 0

\* A request at t would be let through on `entry`.
Room(alg, entry, t) ==
  /\ alg \in Buckets => Unit <= Available(alg, entry, t)
  /\ alg = "sliding_log" => Len(InWindow(entry, t)) < MaxRequests
  /\ alg = "sliding_window" => Weighted(entry, t) < MaxRequests * WindowMs
  /\ alg = "fixed_window" => CountAt(entry, t) < MaxRequests

\* The window of an entry is one that has begun at t.
HasBegun(entry, t) ==
  entry /= None =>
    entry.window_start = WindowStart(entry.window_start) /\ entry.window_start <= t

\* What the storage holds for an algorithm.
Held(alg, entry, t) ==
  /\ entry \in StorageEntry \cup {None}
  /\ alg \in Buckets => BucketEntry(entry)
  /\ alg \in Aligned => HasBegun(entry, t)

LEMMA ScaleMonotone ==
  ASSUME NEW a \in Int, NEW b \in Int, NEW r \in Nat, a <= b
  PROVE  r * a \in Int /\ r * b \in Int /\ r * a <= r * b
  OBVIOUS

LEMMA ScaleNat ==
  ASSUME NEW a \in Nat, NEW r \in Nat
  PROVE  r * a \in Nat
  OBVIOUS

\* A filter that starts later keeps no more.
LEMMA FilterShrinks ==
  ASSUME NEW s \in Seq(Nat), NEW t \in Nat, NEW u \in Nat, t <= u
  PROVE  /\ Len(FilterWindow(s, u)) <= Len(FilterWindow(s, t))
         /\ Len(FilterWindow(s, t)) <= Len(s)
<1>1. PICK f : /\ FilterWindow(s, t) = f[Len(s)]
               /\ f = [n \in 0..Len(s) |->
                         IF n = 0 THEN <<>>
                         ELSE IF s[n] >= t THEN Append(f[n - 1], s[n]) ELSE f[n - 1]]
  BY FilterUnfold
<1>2. PICK g : /\ FilterWindow(s, u) = g[Len(s)]
               /\ g = [n \in 0..Len(s) |->
                         IF n = 0 THEN <<>>
                         ELSE IF s[n] >= u THEN Append(g[n - 1], s[n]) ELSE g[n - 1]]
  BY FilterUnfold
<1> DEFINE P(n) == /\ f[n] \in Seq(Nat) /\ g[n] \in Seq(Nat)
                   /\ Len(g[n]) <= Len(f[n]) /\ Len(f[n]) <= n
<1>3. Len(s) \in Nat
  OBVIOUS
<1>4. f[0] = <<>> /\ g[0] = <<>>
  BY <1>1, <1>2, <1>3
<1>5. \A n \in 1..Len(s) :
        /\ f[n] = IF s[n] >= t THEN Append(f[n - 1], s[n]) ELSE f[n - 1]
        /\ g[n] = IF s[n] >= u THEN Append(g[n - 1], s[n]) ELSE g[n - 1]
  <2> TAKE n \in 1..Len(s)
  <2>1. n \in 0..Len(s) /\ n /= 0
    OBVIOUS
  <2>2. f[n] = IF s[n] >= t THEN Append(f[n - 1], s[n]) ELSE f[n - 1]
    BY <1>1, <2>1
  <2>3. g[n] = IF s[n] >= u THEN Append(g[n - 1], s[n]) ELSE g[n - 1]
    BY <1>2, <2>1
  <2> QED
    BY <2>2, <2>3
<1>6. P(0)
  BY <1>4
<1>7. ASSUME NEW n \in 1..Len(s), P(n - 1)
      PROVE  P(n)
  <2>1. n \in Nat /\ n - 1 \in Nat /\ s[n] \in Nat
    OBVIOUS
  <2>2. /\ f[n - 1] \in Seq(Nat) /\ g[n - 1] \in Seq(Nat)
        /\ Len(g[n - 1]) <= Len(f[n - 1]) /\ Len(f[n - 1]) <= n - 1
    BY <1>7
  <2>3. \A h \in Seq(Nat) : /\ Append(h, s[n]) \in Seq(Nat)
                            /\ Len(Append(h, s[n])) = Len(h) + 1 /\ Len(h) \in Nat
    BY <2>1
  <2>4. s[n] >= u => s[n] >= t
    BY <2>1
  <2>5. /\ f[n] = IF s[n] >= t THEN Append(f[n - 1], s[n]) ELSE f[n - 1]
        /\ g[n] = IF s[n] >= u THEN Append(g[n - 1], s[n]) ELSE g[n - 1]
    BY <1>5
  <2> DEFINE a == f[n - 1]
             b == g[n - 1]
  <2>6. /\ Append(a, s[n]) \in Seq(Nat) /\ Len(Append(a, s[n])) = Len(a) + 1 /\ Len(a) \in Nat
        /\ Append(b, s[n]) \in Seq(Nat) /\ Len(Append(b, s[n])) = Len(b) + 1 /\ Len(b) \in Nat
    BY <2>2, <2>3
  <2>7. CASE s[n] >= u
    <3>1. f[n] = Append(a, s[n]) /\ g[n] = Append(b, s[n])
      BY <2>4, <2>5, <2>7
    <3> QED
      BY <2>1, <2>2, <2>6, <3>1
  <2>8. CASE ~(s[n] >= u) /\ s[n] >= t
    <3>1. f[n] = Append(a, s[n]) /\ g[n] = b
      BY <2>5, <2>8
    <3> QED
      BY <2>1, <2>2, <2>6, <3>1
  <2>9. CASE ~(s[n] >= t)
    <3>1. f[n] = a /\ g[n] = b
      BY <2>4, <2>5, <2>9
    <3> QED
      BY <2>1, <2>2, <2>6, <3>1
  <2> QED
    BY <2>7, <2>8, <2>9
<1>8. \A n \in 0..Len(s) : P(n)
  <2> HIDE DEF P
  <2> DEFINE Bad == {n \in 0..Len(s) : ~P(n)}
  <2> SUFFICES ASSUME Bad /= {} PROVE FALSE
    OBVIOUS
  <2>1. Bad \in SUBSET Nat
    BY <1>3
  <2>2. PICK n \in Bad : \A m \in Bad : ~(m < n)
    <3> HIDE DEF Bad
    <3> QED
      BY <2>1, LeastElement
  <2>3. n \in 1..Len(s)
    BY <1>3, <1>6, <2>2
  <2>4. n - 1 \in 0..Len(s) /\ n - 1 < n
    BY <1>3, <2>3
  <2>5. P(n - 1)
    BY <2>2, <2>4
  <2>6. P(n)
    BY <1>7, <2>3, <2>5
  <2> QED
    BY <2>2, <2>6
<1>9. P(Len(s))
  <2> HIDE DEF P
  <2> QED
    BY <1>3, <1>8
<1> QED
  BY <1>1, <1>2, <1>9

\* A bucket does not lose by waiting.
LEMMA AvailableMonotone ==
  ASSUME NEW alg \in Buckets, NEW entry, BucketEntry(entry), NEW t \in Nat, NEW u \in Nat,
         t <= u
  PROVE  Available(alg, entry, t) <= Available(alg, entry, u)
<1>0. MaxTokens \in Nat /\ EffectiveRefillRate \in Nat
  BY QuotaConstants
<1>1. CASE entry = None
  BY <1>0, <1>1, AvailableIs
<1>2. CASE entry /= None
  <2>1. entry \in StorageEntry /\ entry.last_update \in Nat
    BY <1>2 DEF BucketEntry, StorageEntry
  <2> DEFINE atT == Refill(entry, t)
             atU == Refill(entry, u)
             content == Content(alg, entry)
  <2>2. atT <= atU
    <3>1. /\ Minus(t, entry.last_update) \in Nat /\ Minus(u, entry.last_update) \in Nat
          /\ Minus(t, entry.last_update) <= Minus(u, entry.last_update)
      BY <2>1 DEF Minus
    <3> QED
      BY <1>0, <3>1, TimesMonotone DEF Refill
  <2>3. atT \in Nat /\ atU \in Nat
    BY <2>1, RefillType
  <2>4. content \in 0..MaxTokens
    BY <1>0, <1>2 DEF Content, BucketEntry
  <2>5. /\ Available(alg, entry, t) = Lesser(content + atT, MaxTokens)
        /\ Available(alg, entry, u) = Lesser(content + atU, MaxTokens)
    BY <1>2, AvailableIs
  <2> HIDE DEF atT, atU, content
  <2> QED
    BY <1>0, <2>2, <2>3, <2>4, <2>5 DEF Lesser
<1> QED
  BY <1>1, <1>2

\* What the previous window counted, as an entry tells it.
Previous(entry) == IF entry.prev_count = None THEN 0 ELSE entry.prev_count

\* How an entry weighs, in its own window, in the next one, and after that.
LEMMA WeightedIs ==
  ASSUME NEW entry \in StorageEntry, NEW t \in Nat, HasBegun(entry, t)
  PROVE  LET s == entry.window_start
         IN  /\ s \in Nat /\ entry.count \in Nat /\ Previous(entry) \in Nat
             /\ s = WindowStart(t) \/ s + WindowMs <= WindowStart(t)
             /\ s = WindowStart(t) =>
                  /\ Counts(entry, t) = [current |-> entry.count, previous |-> Previous(entry)]
                  /\ Weighted(entry, t) = entry.count * WindowMs
                                            + Previous(entry) * WindowEnds(t)
             /\ s + WindowMs = WindowStart(t) =>
                  /\ Counts(entry, t) = [current |-> 0, previous |-> entry.count]
                  /\ Weighted(entry, t) = entry.count * WindowEnds(t)
             /\ s + WindowMs < WindowStart(t) =>
                  /\ Counts(entry, t) = [current |-> 0, previous |-> 0]
                  /\ Weighted(entry, t) = 0
<1>0. WindowMs \in Nat \ {0} /\ WindowStart(t) \in Nat /\ WindowEnds(t) \in Int
  BY QuotaConstants, WindowStartFacts
<1>1. entry /= None
  BY MemoryStorageAssumption
<1> DEFINE s == entry.window_start
           c == entry.count
           p == Previous(entry)
           e == WindowEnds(t)
<1>2. s \in Nat /\ c \in Nat /\ p \in Nat
  BY DEF StorageEntry, Previous
<1>3. s = WindowStart(t) \/ s + WindowMs <= WindowStart(t)
  BY <1>1, <1>2, NextWindow DEF HasBegun
<1>4. c * WindowMs \in Nat /\ c * e \in Int /\ p * e \in Int /\ 0 * WindowMs = 0 /\ 0 * e = 0
  BY <1>0, <1>2
<1>5. Minus(WindowStart(t), WindowMs) = IF WindowMs <= WindowStart(t)
                                          THEN WindowStart(t) - WindowMs ELSE 0
  BY <1>0 DEF Minus
<1>6. CASE s = WindowStart(t)
  <2>1. Counts(entry, t) = [current |-> c, previous |-> p]
    BY <1>1, <1>6 DEF Counts, Previous
  <2>2. Weighted(entry, t) = c * WindowMs + p * e
    BY <2>1 DEF Weighted
  <2>3. s + WindowMs /= WindowStart(t) /\ ~(s + WindowMs < WindowStart(t))
    BY <1>0, <1>2, <1>6
  <2> QED
    BY <1>2, <1>3, <1>6, <2>1, <2>2, <2>3
<1>7. CASE s + WindowMs = WindowStart(t)
  <2>1. s /= WindowStart(t) /\ s = Minus(WindowStart(t), WindowMs)
    BY <1>0, <1>2, <1>5, <1>7
  <2>2. Counts(entry, t) = [current |-> 0, previous |-> c]
    BY <1>1, <2>1 DEF Counts
  <2>3. Weighted(entry, t) = c * e
    <3>1. Weighted(entry, t) = 0 * WindowMs + c * e
      BY <2>2 DEF Weighted
    <3> DEFINE x == c * e
    <3> HIDE DEF x
    <3>2. Weighted(entry, t) = 0 + x /\ x \in Int
      BY <1>4, <3>1 DEF x
    <3>3. Weighted(entry, t) = x
      BY <3>2
    <3> QED
      BY <3>3 DEF x
  <2>4. ~(s + WindowMs < WindowStart(t))
    BY <1>0, <1>2, <1>7
  <2> QED
    BY <1>2, <1>3, <1>7, <2>1, <2>2, <2>3, <2>4
<1>8. CASE s + WindowMs < WindowStart(t)
  <2>1. s /= WindowStart(t) /\ s /= Minus(WindowStart(t), WindowMs)
        /\ s + WindowMs /= WindowStart(t)
    BY <1>0, <1>2, <1>5, <1>8
  <2>2. Counts(entry, t) = [current |-> 0, previous |-> 0]
    BY <1>1, <2>1 DEF Counts
  <2>3. Weighted(entry, t) = 0
    BY <1>4, <2>2 DEF Weighted
  <2> QED
    BY <1>2, <1>3, <1>8, <2>1, <2>2, <2>3
<1> QED
  BY <1>0, <1>2, <1>3, <1>6, <1>7, <1>8

\* What is counted weighs less and less.
LEMMA WeightedFalls ==
  ASSUME NEW entry \in StorageEntry, NEW t \in Nat, NEW u \in Nat, t <= u, HasBegun(entry, t)
  PROVE  Weighted(entry, u) <= Weighted(entry, t) /\ Weighted(entry, t) \in Nat
<1> DEFINE s == entry.window_start
           c == entry.count
           p == Previous(entry)
<1>1. WindowMs \in Nat \ {0}
  BY QuotaConstants
<1>2. HasBegun(entry, u)
  <2>1. s \in Nat
    BY DEF StorageEntry
  <2> QED
    BY <2>1 DEF HasBegun
<1>3. /\ WindowStart(t) \in Nat /\ WindowStart(u) \in Nat
      /\ WindowEnds(t) \in 1..WindowMs /\ WindowEnds(u) \in 1..WindowMs
      /\ WindowStart(t) = WindowStart(WindowStart(t))
      /\ WindowStart(t) <= t
  BY WindowStartFacts
<1>4. WindowStart(t) = WindowStart(u) \/ WindowStart(t) + WindowMs <= WindowStart(u)
  BY <1>3, NextWindow
<1>5. WindowStart(t) = WindowStart(u) => WindowEnds(u) <= WindowEnds(t)
  BY <1>1, <1>3 DEF WindowEnds
<1> DEFINE et == WindowEnds(t)
           eu == WindowEnds(u)
<1>6. c \in Nat /\ p \in Nat /\ s \in Nat
  BY WeightedIs
<1>7. /\ c * WindowMs \in Nat /\ p * et \in Nat /\ p * eu \in Nat /\ c * et \in Nat
      /\ c * eu \in Nat /\ c * eu <= c * WindowMs
      /\ WindowStart(t) = WindowStart(u) => c * eu <= c * et /\ p * eu <= p * et
  <2>1. et \in Nat /\ eu \in Nat /\ eu <= WindowMs
    BY <1>1, <1>3
  <2>2. WindowStart(t) = WindowStart(u) => eu <= et
    BY <1>5
  <2> HIDE DEF et, eu, c, p
  <2>3. /\ c * WindowMs \in Nat /\ p * et \in Nat /\ p * eu \in Nat /\ c * et \in Nat
        /\ c * eu \in Nat
    BY <1>1, <1>6, <2>1, ScaleNat
  <2>4. c * eu <= c * WindowMs
    BY <1>1, <1>6, <2>1, ScaleMonotone
  <2>5. ASSUME WindowStart(t) = WindowStart(u) PROVE c * eu <= c * et /\ p * eu <= p * et
    BY <1>6, <2>1, <2>2, <2>5, ScaleMonotone
  <2> QED
    BY <2>3, <2>4, <2>5
<1>8. CASE s = WindowStart(t)
  <2>1. Weighted(entry, t) = c * WindowMs + p * et
    BY <1>8, WeightedIs
  <2>2. \/ WindowStart(t) = WindowStart(u) /\ Weighted(entry, u) = c * WindowMs + p * eu
        \/ Weighted(entry, u) = c * eu
        \/ Weighted(entry, u) = 0
    <3>1. CASE WindowStart(t) = WindowStart(u)
      BY <1>2, <1>8, <3>1, WeightedIs
    <3>2. CASE s + WindowMs = WindowStart(u)
      BY <1>2, <3>2, WeightedIs
    <3>3. CASE s + WindowMs < WindowStart(u)
      BY <1>2, <3>3, WeightedIs
    <3> QED
      BY <1>1, <1>3, <1>4, <1>8, <3>1, <3>2, <3>3
  <2> DEFINE x == c * WindowMs
             y == p * et
             y2 == p * eu
             z == c * eu
  <2> HIDE DEF x, y, y2, z
  <2>3. x \in Nat /\ y \in Nat /\ y2 \in Nat /\ z \in Nat /\ z <= x
        /\ (WindowStart(t) = WindowStart(u) => y2 <= y)
    BY <1>7 DEF x, y, y2, z
  <2>4. Weighted(entry, t) = x + y
        /\ \/ WindowStart(t) = WindowStart(u) /\ Weighted(entry, u) = x + y2
           \/ Weighted(entry, u) = z
           \/ Weighted(entry, u) = 0
    BY <2>1, <2>2 DEF x, y, y2, z
  <2> QED
    BY <2>3, <2>4
<1>9. CASE s + WindowMs = WindowStart(t)
  <2>1. Weighted(entry, t) = c * et
    BY <1>9, WeightedIs
  <2>2. \/ WindowStart(t) = WindowStart(u) /\ Weighted(entry, u) = c * eu
        \/ Weighted(entry, u) = 0
    <3>1. CASE WindowStart(t) = WindowStart(u)
      BY <1>2, <1>9, <3>1, WeightedIs
    <3>2. CASE s + WindowMs < WindowStart(u)
      BY <1>2, <3>2, WeightedIs
    <3> QED
      BY <1>1, <1>3, <1>4, <1>9, <3>1, <3>2
  <2> DEFINE y == c * et
             z == c * eu
  <2> HIDE DEF y, z
  <2>3. y \in Nat /\ z \in Nat /\ (WindowStart(t) = WindowStart(u) => z <= y)
    BY <1>7 DEF y, z
  <2>4. Weighted(entry, t) = y
        /\ \/ WindowStart(t) = WindowStart(u) /\ Weighted(entry, u) = z
           \/ Weighted(entry, u) = 0
    BY <2>1, <2>2 DEF y, z
  <2> QED
    BY <2>3, <2>4
<1>10. CASE s + WindowMs < WindowStart(t)
  <2>1. Weighted(entry, t) = 0
    BY <1>10, WeightedIs
  <2>2. s + WindowMs < WindowStart(u)
    BY <1>1, <1>3, <1>4, <1>6, <1>10
  <2>3. Weighted(entry, u) = 0
    BY <1>2, <2>2, WeightedIs
  <2> QED
    BY <2>1, <2>3
<1>11. s = WindowStart(t) \/ s + WindowMs = WindowStart(t) \/ s + WindowMs < WindowStart(t)
  <2>1. s = WindowStart(t) \/ s + WindowMs <= WindowStart(t)
    BY WeightedIs
  <2> QED
    BY <1>1, <1>3, <1>6, <2>1
<1> QED
  BY <1>8, <1>9, <1>10, <1>11

\* Room for a request stays, as long as the entry does.
LEMMA RoomLater ==
  ASSUME NEW alg, NEW t \in Nat, NEW u \in Nat, t <= u, NEW entry, Held(alg, entry, t),
         Room(alg, entry, t)
  PROVE  Held(alg, entry, u) /\ Room(alg, entry, u)
<1>0. entry \in StorageEntry \cup {None}
  BY DEF Held
<1>1. ASSUME alg \in Aligned PROVE HasBegun(entry, u)
  <2>1. HasBegun(entry, t)
    BY <1>1 DEF Held
  <2>2. entry /= None => entry.window_start \in Nat
    BY <1>0 DEF StorageEntry
  <2> QED
    BY <2>1, <2>2 DEF HasBegun
<1>2. ASSUME alg \in Buckets PROVE Unit <= Available(alg, entry, u)
  <2>1. BucketEntry(entry) /\ Unit <= Available(alg, entry, t)
    BY <1>2 DEF Held, Room
  <2>2. Available(alg, entry, t) <= Available(alg, entry, u)
    BY <1>2, <2>1, AvailableMonotone
  <2>3. /\ Available(alg, entry, t) \in 0..MaxTokens /\ Available(alg, entry, u) \in 0..MaxTokens
        /\ MaxTokens \in Nat /\ Unit \in Nat
    BY <1>2, <2>1, AvailableType, QuotaConstants
  <2> QED
    BY <2>1, <2>2, <2>3
<1>3. ASSUME alg = "sliding_log" PROVE Len(InWindow(entry, u)) < MaxRequests
  <2>1. /\ Minus(t, WindowMs) \in Nat /\ Minus(u, WindowMs) \in Nat
        /\ Minus(t, WindowMs) <= Minus(u, WindowMs)
    BY QuotaConstants DEF Minus
  <2>2. Len(InWindow(entry, u)) <= Len(InWindow(entry, t))
    BY <1>0, <2>1, TimestampsType, FilterShrinks DEF InWindow
  <2>3. Len(InWindow(entry, t)) < MaxRequests
    BY <1>3 DEF Room
  <2>4. /\ Len(InWindow(entry, u)) \in Nat /\ Len(InWindow(entry, t)) \in Nat
        /\ MaxRequests \in Nat
    BY <1>0, InWindowType, QuotaConstants
  <2> QED
    BY <2>2, <2>3, <2>4
<1>4. ASSUME alg = "sliding_window" PROVE Weighted(entry, u) < MaxRequests * WindowMs
  <2>1. Weighted(entry, t) < MaxRequests * WindowMs /\ HasBegun(entry, t)
    BY <1>4 DEF Held, Room, Aligned
  <2>2. MaxRequests * WindowMs \in Nat
    BY QuotaConstants, TimesNat
  <2>3. CASE entry = None
    <3>1. Counts(None, u) = [current |-> 0, previous |-> 0]
          /\ Counts(None, t) = [current |-> 0, previous |-> 0]
      BY DEF Counts
    <3>2. 0 * WindowMs = 0 /\ 0 * WindowEnds(u) = 0 /\ 0 * WindowEnds(t) = 0
      BY QuotaConstants, WindowStartFacts
    <3>3. Weighted(entry, u) = 0 /\ Weighted(entry, t) = 0
      BY <2>3, <3>1, <3>2 DEF Weighted
    <3> QED
      BY <2>1, <3>3
  <2>4. CASE entry /= None
    <3>1. entry \in StorageEntry
      BY <1>0, <2>4
    <3>2. Weighted(entry, u) <= Weighted(entry, t) /\ Weighted(entry, t) \in Nat
          /\ Weighted(entry, u) \in Nat
      <4>1. HasBegun(entry, u)
        BY <1>1, <1>4 DEF Aligned
      <4> QED
        BY <2>1, <3>1, <4>1, WeightedFalls
    <3> QED
      BY <2>1, <2>2, <3>2
  <2> QED
    BY <2>3, <2>4
<1>5. ASSUME alg = "fixed_window" PROVE CountAt(entry, u) < MaxRequests
  <2>1. CountAt(entry, t) < MaxRequests /\ HasBegun(entry, t)
    BY <1>5 DEF Held, Room, Aligned
  <2>2. 0 < MaxRequests
    BY QuotaConstants
  <2>3. CASE entry = None \/ entry.window_start /= WindowStart(u)
    BY <2>2, <2>3 DEF CountAt
  <2>4. CASE entry /= None /\ entry.window_start = WindowStart(u)
    <3>1. entry.window_start \in Nat /\ entry.window_start = WindowStart(entry.window_start)
          /\ entry.window_start <= t
      BY <1>0, <2>1, <2>4 DEF HasBegun, StorageEntry
    <3>2. entry.window_start = WindowStart(t)
      BY <2>4, <3>1, WindowBetween
    <3> QED
      BY <2>1, <2>4, <3>2 DEF CountAt
  <2> QED
    BY <2>3, <2>4
<1> QED
  BY <1>0, <1>1, <1>2, <1>3, <1>4, <1>5 DEF Held, Room

\* What a verdict may say.
Plain(verdict, t) ==
  /\ verdict.allowed \in BOOLEAN /\ verdict.remaining \in Int
  /\ verdict.allowed \/ verdict.retry_after = None \/ t + verdict.retry_after \in Nat

LEMMA WholeUnits ==
  ASSUME NEW a \in Nat, NEW u \in Nat \ {0}
  PROVE  a \div u \in Nat /\ (a \div u > 0 => a >= u)
<1>1. a \div u \in Nat
  BY DivisionIsNat
<1>2. a < (a \div u) * u + u
  BY DivisionBounds
<1>3. ASSUME a \div u > 0 PROVE a >= u
  <2> DEFINE q == a \div u
  <2>1. q \in Nat /\ 1 <= q /\ q * u <= a
    BY <1>1, <1>3, DivisionBounds
  <2> HIDE DEF q
  <2>2. 1 * u <= q * u /\ q * u \in Int
    BY <2>1, TimesMonotone
  <2> QED
    BY <2>1, <2>2
<1> QED
  BY <1>1, <1>3

LEMMA LevelType ==
  ASSUME NEW entry, BucketEntry(entry), NEW t \in Nat
  PROVE  Level(entry, t) \in Nat
<1>1. CASE entry = None
  BY <1>1 DEF Level
<1>2. CASE entry /= None
  <2>1. entry \in StorageEntry /\ entry.tokens \in 0..MaxTokens /\ MaxTokens \in Nat
    BY <1>2, QuotaConstants DEF BucketEntry
  <2>2. Refill(entry, t) \in Nat
    BY <2>1, RefillType
  <2>3. entry.tokens /= None
    BY <2>1, NoneAssumption
  <2>4. Level(entry, t) = Minus(entry.tokens, Refill(entry, t))
    BY <1>2, <2>3 DEF Level, Refill
  <2> QED
    BY <2>1, <2>2, <2>4 DEF Minus
<1> QED
  BY <1>1, <1>2

LEMMA NextTokenType ==
  ASSUME NEW n \in Nat
  PROVE  NextToken(n) = None \/ NextToken(n) \in Nat
<1>1. Minus(Unit, n) \in Nat /\ EffectiveRefillRate \in Nat \ {0}
  BY QuotaConstants DEF Minus
<1>2. Minus(Unit, n) \div EffectiveRefillRate \in Nat
  BY <1>1, DivisionIsNat
<1> QED
  BY <1>2 DEF NextToken

LEMMA RoomAfterType ==
  ASSUME NEW n \in Nat, ~(n + Unit <= MaxLevel)
  PROVE  RoomAfter(n) \in Nat
<1>1. n + Unit - MaxLevel \in Nat /\ EffectiveRefillRate \in Nat \ {0}
  BY QuotaConstants
<1> DEFINE excess == n + Unit - MaxLevel
<1>2. RoomAfter(n) = excess \div EffectiveRefillRate
  BY DEF RoomAfter
<1> HIDE DEF excess
<1> QED
  BY <1>1, <1>2, DivisionIsNat DEF excess

\* The reply of the buckets to a peek, and to a request.
LEMMA BucketSays ==
  ASSUME algorithm \in Buckets, NEW entry, BucketEntry(entry), NEW t \in Nat
  PROVE  LET peek   == Peek(entry, t)
             record == Decide(entry, t)
         IN  /\ Plain(peek, t) /\ Plain(record, t)
             /\ peek.allowed <=> Unit <= Available(algorithm, entry, t)
             /\ peek.remaining > 0 => Unit <= Available(algorithm, entry, t)
             /\ record.allowed <=> Unit <= Available(algorithm, entry, t)
             /\ record.remaining > 0 => Unit <= Available(algorithm, record.entry, t)
<1> DEFINE held == Available(algorithm, entry, t)
           peek == Peek(entry, t)
           record == Decide(entry, t)
           after == Available(algorithm, record.entry, t)
<1>0. MaxTokens \in Nat /\ MaxLevel = MaxTokens /\ Unit \in Nat \ {0}
  BY QuotaConstants
<1>1. held \in 0..MaxTokens
  BY AvailableType
<1>2. /\ record.allowed <=> held >= Unit
      /\ after = IF held >= Unit THEN held - Unit ELSE held
  BY BucketRecord
<1>3. after \in Nat
  BY <1>0, <1>1, <1>2
<1>4. held \div Unit \in Nat /\ (held \div Unit > 0 => held >= Unit)
  <2> HIDE DEF held
  <2> QED
    BY <1>0, <1>1, WholeUnits
<1>5. after \div Unit \in Nat /\ (after \div Unit > 0 => after >= Unit)
  <2> HIDE DEF after
  <2> QED
    BY <1>0, <1>3, WholeUnits
<1>6. CASE algorithm = "token_bucket"
  <2>1. held = Refilled(entry, t)
    BY <1>6 DEF Available
  <2>2. Peek(entry, t) = Verdict(held >= Unit, None, held \div Unit, NextToken(held))
    BY <1>6, <2>1 DEF Peek, TokenBucketCheck, TokensLeft
  <2>3. NextToken(held) = None \/ NextToken(held) \in Nat
    BY <1>0, <1>1, NextTokenType
  <2>4. /\ peek.allowed = (held >= Unit) /\ peek.remaining = held \div Unit
        /\ peek.retry_after = NextToken(held)
    BY <2>2 DEF Verdict
  <2> DEFINE left == IF held >= Unit THEN held - Unit ELSE held
  <2>5. left = after /\ left \in Nat
    BY <1>2, <1>3
  <2>6. Decide(entry, t) =
          Verdict(held >= Unit, WithTokens(left, t), left \div Unit, NextToken(left))
    BY <1>6, <2>1 DEF Decide, TokenBucketRecord, TokensLeft
  <2>7. /\ record.allowed = (held >= Unit) /\ record.remaining = left \div Unit
        /\ record.retry_after = NextToken(left)
    BY <2>6 DEF Verdict
  <2>8. NextToken(left) = None \/ NextToken(left) \in Nat
    <3> HIDE DEF left
    <3> QED
      BY <2>5, NextTokenType
  <2> HIDE DEF held, peek, record, left, after
  <2>9. Plain(peek, t)
    BY <1>0, <1>1, <1>4, <2>3, <2>4 DEF Plain
  <2>10. Plain(record, t)
    BY <1>0, <1>1, <1>5, <2>5, <2>7, <2>8 DEF Plain
  <2>11. /\ peek.allowed <=> Unit <= held
         /\ peek.remaining > 0 => Unit <= held
         /\ record.allowed <=> Unit <= held
         /\ record.remaining > 0 => Unit <= after
    BY <1>0, <1>1, <1>3, <1>4, <1>5, <2>4, <2>5, <2>7
  <2> QED
    BY <2>9, <2>10, <2>11 DEF held, peek, record, after
<1>7. CASE algorithm = "leaky_bucket"
  <2> DEFINE level == Level(entry, t)
  <2>1. held = MaxLevel - level /\ level \in Nat
    BY <1>7, LevelType DEF Available
  <2>2. held >= Unit <=> level + Unit <= MaxLevel
    <3> HIDE DEF level, held
    <3> QED
      BY <1>0, <1>1, <2>1
  <2>3. Minus(MaxLevel, level) = held
    <3> HIDE DEF level, held
    <3> QED
      BY <1>0, <1>1, <2>1 DEF Minus
  <2>4. Peek(entry, t) = Verdict(level + Unit <= MaxLevel, None, held \div Unit,
                                 IF level + Unit <= MaxLevel THEN None ELSE RoomAfter(level))
    BY <1>7, <2>3 DEF Peek, LeakyBucketCheck
  <2>5. level + Unit <= MaxLevel \/ RoomAfter(level) \in Nat
    BY <2>1, RoomAfterType
  <2>6. CASE held >= Unit
    <3>0. Peek(entry, t) = Verdict(TRUE, None, held \div Unit, None)
      BY <2>2, <2>4, <2>6
    <3>1. Decide(entry, t) = Verdict(TRUE, WithTokens(level + Unit, t),
                                     (MaxLevel - (level + Unit)) \div Unit, None)
      BY <1>7, <2>2, <2>6 DEF Decide, LeakyBucketRecord
    <3>2. MaxLevel - (level + Unit) = after
      <4> HIDE DEF level, held, after
      <4> QED
        BY <1>0, <1>1, <1>2, <2>1, <2>6
    <3>3. /\ record.allowed = TRUE /\ record.remaining = after \div Unit
          /\ peek.allowed = TRUE /\ peek.remaining = held \div Unit
          /\ peek.allowed \in BOOLEAN /\ record.allowed \in BOOLEAN
      BY <3>0, <3>1, <3>2 DEF Verdict
    <3> HIDE DEF held, peek, record, level, after
    <3>4. Plain(peek, t) /\ Plain(record, t)
      BY <1>0, <1>1, <1>3, <1>4, <1>5, <3>3 DEF Plain
    <3>5. /\ peek.allowed <=> Unit <= held
          /\ peek.remaining > 0 => Unit <= held
          /\ record.allowed <=> Unit <= held
          /\ record.remaining > 0 => Unit <= after
      BY <1>0, <1>1, <1>3, <1>4, <1>5, <2>6, <3>3
    <3> QED
      BY <3>4, <3>5 DEF held, peek, record, after
  <2>7. CASE ~(held >= Unit)
    <3>0. Peek(entry, t) = Verdict(FALSE, None, held \div Unit, RoomAfter(level))
      <4> HIDE DEF held, level
      <4>1. ~(level + Unit <= MaxLevel)
        BY <2>2, <2>7
      <4>2. (level + Unit <= MaxLevel) = FALSE
        BY <4>1
      <4> QED
        BY Zenon, <2>4, <4>1, <4>2
    <3>1. Decide(entry, t) = Verdict(FALSE, WithTokens(level, t), 0, RoomAfter(level))
      BY <1>7, <2>2, <2>7 DEF Decide, LeakyBucketRecord
    <3>2. /\ record.allowed = FALSE /\ record.remaining = 0
          /\ record.retry_after = RoomAfter(level)
          /\ peek.allowed = FALSE /\ peek.remaining = held \div Unit
          /\ peek.retry_after = RoomAfter(level)
          /\ peek.allowed \in BOOLEAN /\ record.allowed \in BOOLEAN
      BY <3>0, <3>1 DEF Verdict
    <3> HIDE DEF held, peek, record, level, after
    <3>3. t + RoomAfter(level) \in Nat
      BY <2>2, <2>5, <2>7
    <3>4. Plain(peek, t) /\ Plain(record, t)
      BY <1>0, <1>1, <1>4, <3>2, <3>3 DEF Plain
    <3>5. /\ peek.allowed <=> Unit <= held
          /\ peek.remaining > 0 => Unit <= held
          /\ record.allowed <=> Unit <= held
          /\ record.remaining > 0 => Unit <= after
      BY <1>0, <1>1, <1>4, <2>7, <3>2
    <3> QED
      BY <3>4, <3>5 DEF held, peek, record, after
  <2> QED
    BY <2>6, <2>7
<1> QED
  BY <1>6, <1>7 DEF Buckets

\* The reply of the sliding log.
LEMMA LogSays ==
  ASSUME algorithm = "sliding_log", NEW entry \in StorageEntry \cup {None}, NEW t \in Nat
  PROVE  LET peek   == Peek(entry, t)
             record == Decide(entry, t)
             used   == Len(InWindow(entry, t))
         IN  /\ Plain(peek, t) /\ Plain(record, t)
             /\ peek.allowed <=> used < MaxRequests
             /\ peek.remaining > 0 => used < MaxRequests
             /\ record.allowed <=> used < MaxRequests
             /\ record.remaining > 0 => Len(InWindow(record.entry, t)) < MaxRequests
<1> DEFINE kept == InWindow(entry, t)
           used == Len(kept)
           peek == Peek(entry, t)
           record == Decide(entry, t)
           oldest == OldestLeaves(kept, t)
<1>0. MaxRequests \in Nat \ {0} /\ WindowMs \in Nat \ {0}
  BY QuotaConstants
<1>1. kept \in Seq(Nat) /\ used \in Nat
  BY InWindowType
<1>2. t + oldest \in Nat
  <2> DEFINE first == IF kept = <<>> THEN t ELSE kept[1]
  <2>1. first \in Nat
    <3> HIDE DEF kept
    <3> QED
      BY <1>1
  <2>2. oldest = first + WindowMs - t
    BY DEF OldestLeaves
  <2> HIDE DEF first, oldest
  <2> QED
    BY <1>0, <2>1, <2>2
<1>3. Peek(entry, t) = SlidingLogCheck(entry, t) /\ Decide(entry, t) = SlidingLogRecord(entry, t)
  BY DEF Peek, Decide
<1>4. CASE used < MaxRequests
  <2> DEFINE new == Append(kept, t)
  <2>1. SlidingLogCheck(entry, t) = Verdict(TRUE, None, Minus(MaxRequests, used), None)
    <3> HIDE DEF used
    <3>1. (used < MaxRequests) = TRUE
      BY <1>4
    <3>2. SlidingLogCheck(entry, t) =
            Verdict(used < MaxRequests, None, Minus(MaxRequests, used),
                    IF used < MaxRequests THEN None ELSE oldest)
      BY DEF SlidingLogCheck, used
    <3> QED
      BY Zenon, <1>4, <3>1, <3>2
  <2>2. SlidingLogRecord(entry, t) =
          Verdict(TRUE, WithTimestamps(new), MaxRequests - used - 1, None)
    BY <1>4 DEF SlidingLogRecord
  <2>3. /\ peek.allowed = TRUE /\ peek.allowed \in BOOLEAN
        /\ peek.remaining = Minus(MaxRequests, used)
        /\ record.allowed = TRUE /\ record.allowed \in BOOLEAN
        /\ record.remaining = MaxRequests - used - 1 /\ record.entry = WithTimestamps(new)
    <3> HIDE DEF new, used
    <3> QED
      BY <1>3, <2>1, <2>2 DEF Verdict
  <2>4. Minus(MaxRequests, used) \in Nat
    <3> HIDE DEF used
    <3> QED
      BY <1>0, <1>1 DEF Minus
  <2>5. new \in Seq(Nat) /\ Len(new) = used + 1
    <3> HIDE DEF kept
    <3> QED
      BY <1>1
  <2>6. Len(InWindow(record.entry, t)) <= used + 1 /\ Len(InWindow(record.entry, t)) \in Nat
    <3>1. Timestamps(record.entry) = new
      <4> HIDE DEF new, record
      <4> QED
        BY <2>3, <2>5, StoredTimes
    <3>2. Minus(t, WindowMs) \in Nat /\ Minus(t, WindowMs) <= Minus(t, WindowMs)
      BY <1>0 DEF Minus
    <3> HIDE DEF new, record, used
    <3>3. Len(FilterWindow(new, Minus(t, WindowMs))) <= Len(new)
      BY <2>5, <3>2, FilterShrinks
    <3>4. Len(FilterWindow(new, Minus(t, WindowMs))) \in Nat
      BY <2>5, <3>2, FilterFacts
    <3> QED
      BY <2>5, <3>1, <3>3, <3>4 DEF InWindow
  <2> HIDE DEF used, peek, record, new
  <2>7. Plain(peek, t) /\ Plain(record, t)
    BY <1>0, <1>1, <2>3, <2>4 DEF Plain
  <2>8. record.remaining > 0 => Len(InWindow(record.entry, t)) < MaxRequests
    BY <1>0, <1>1, <2>3, <2>6
  <2>9. (peek.allowed <=> used < MaxRequests) /\ (record.allowed <=> used < MaxRequests)
    BY <1>4, <2>3
  <2> QED
    BY <1>4, <2>7, <2>8, <2>9 DEF used, peek, record
<1>5. CASE ~(used < MaxRequests)
  <2>1. SlidingLogCheck(entry, t) = Verdict(FALSE, None, Minus(MaxRequests, used), oldest)
    <3> HIDE DEF used
    <3>1. (used < MaxRequests) = FALSE
      BY <1>5
    <3>2. SlidingLogCheck(entry, t) =
            Verdict(used < MaxRequests, None, Minus(MaxRequests, used),
                    IF used < MaxRequests THEN None ELSE oldest)
      BY DEF SlidingLogCheck, used
    <3> QED
      BY Zenon, <1>5, <3>1, <3>2
  <2>2. SlidingLogRecord(entry, t) = Verdict(FALSE, WithTimestamps(kept), 0, oldest)
    BY <1>5 DEF SlidingLogRecord
  <2>3. Minus(MaxRequests, used) = 0
    <3> HIDE DEF used
    <3> QED
      BY <1>0, <1>1, <1>5 DEF Minus
  <2>4. /\ peek.allowed = FALSE /\ peek.allowed \in BOOLEAN
        /\ peek.remaining = 0 /\ peek.retry_after = oldest
        /\ record.allowed = FALSE /\ record.allowed \in BOOLEAN
        /\ record.remaining = 0 /\ record.retry_after = oldest
    <3> HIDE DEF used, kept, oldest
    <3> QED
      BY <1>3, <2>1, <2>2, <2>3 DEF Verdict
  <2> HIDE DEF used, peek, record, oldest
  <2>5. Plain(peek, t) /\ Plain(record, t)
    BY <1>2, <2>4 DEF Plain
  <2>6. (peek.allowed <=> used < MaxRequests) /\ (record.allowed <=> used < MaxRequests)
        /\ ~(peek.remaining > 0) /\ ~(record.remaining > 0)
    BY <1>5, <2>4
  <2> QED
    BY <2>5, <2>6 DEF used, peek, record
<1> QED
  BY <1>4, <1>5

\* An entry weighs a number of requests.
LEMMA WeightedType ==
  ASSUME NEW entry \in StorageEntry \cup {None}, NEW t \in Nat, HasBegun(entry, t)
  PROVE  Weighted(entry, t) \in Nat
<1>1. CASE entry = None
  <2>1. Counts(None, t) = [current |-> 0, previous |-> 0]
    BY DEF Counts
  <2>2. 0 * WindowMs = 0 /\ 0 * WindowEnds(t) = 0
    BY QuotaConstants, WindowStartFacts
  <2> QED
    BY <1>1, <2>1, <2>2 DEF Weighted
<1>2. CASE entry /= None
  BY <1>2, WeightedFalls
<1> QED
  BY <1>1, <1>2

\* The entry of a request that the sliding window lets through weighs one more.
LEMMA NewWeight ==
  ASSUME NEW entry \in StorageEntry \cup {None}, NEW t \in Nat, HasBegun(entry, t)
  PROVE  LET counts == Counts(entry, t)
             new    == [NewEntry(counts.current + 1, WindowStart(t)) EXCEPT
                          !.prev_count = counts.previous, !.last_update = t]
         IN  /\ counts.current \in Nat /\ counts.previous \in Nat
             /\ new \in StorageEntry /\ HasBegun(new, t)
             /\ new.window_start = WindowStart(t)
             /\ new.count = counts.current + 1 /\ Previous(new) = counts.previous
             /\ Weighted(new, t) = Weighted(entry, t) + WindowMs
<1> DEFINE counts == Counts(entry, t)
           cur == counts.current
           prev == counts.previous
           new == [NewEntry(cur + 1, WindowStart(t)) EXCEPT
                     !.prev_count = prev, !.last_update = t]
<1>0. WindowMs \in Nat \ {0} /\ WindowEnds(t) \in Nat /\ WindowStart(t) \in Nat
      /\ WindowStart(t) <= t /\ WindowStart(WindowStart(t)) = WindowStart(t)
  BY QuotaConstants, WindowStartFacts
<1>1. cur \in Nat /\ prev \in Nat
  BY DEF Counts, StorageEntry
<1>2. Weighted(entry, t) = cur * WindowMs + prev * WindowEnds(t)
  BY DEF Weighted
<1> HIDE DEF cur, prev
<1>3. new \in StorageEntry
  <2>1. NewEntry(cur + 1, WindowStart(t)) \in StorageEntry
    BY <1>0, <1>1, EntryTypes
  <2> QED
    BY <1>1, <2>1 DEF StorageEntry
<1>4. new.count = cur + 1 /\ new.window_start = WindowStart(t) /\ new.prev_count = prev
  BY DEF NewEntry
<1>5. Previous(new) = prev
  BY <1>1, <1>4, NoneAssumption DEF Previous
<1> HIDE DEF new
<1>6. HasBegun(new, t)
  BY <1>0, <1>4 DEF HasBegun
<1>7. Weighted(new, t) = (cur + 1) * WindowMs + prev * WindowEnds(t)
  BY <1>3, <1>4, <1>5, <1>6, WeightedIs
<1>8. (cur + 1) * WindowMs = cur * WindowMs + 1 * WindowMs
  BY <1>0, <1>1, TimesSum
<1>9. cur * WindowMs \in Nat /\ prev * WindowEnds(t) \in Nat
  BY <1>0, <1>1, TimesNat
<1> DEFINE x == cur * WindowMs
           y == prev * WindowEnds(t)
<1>10. Weighted(new, t) = x + WindowMs + y /\ Weighted(entry, t) = x + y /\ x \in Nat /\ y \in Nat
  <2>1. 1 * WindowMs = WindowMs
    BY <1>0
  <2> QED
    BY <1>2, <1>7, <1>8, <1>9, <2>1
<1> HIDE DEF x, y
<1>11. Weighted(new, t) = Weighted(entry, t) + WindowMs
  BY <1>0, <1>10
<1> QED
  BY <1>1, <1>3, <1>4, <1>5, <1>6, <1>11 DEF new, cur, prev

\* The reply of the sliding window.
LEMMA SlidingWindowSays ==
  ASSUME algorithm = "sliding_window", NEW entry \in StorageEntry \cup {None}, NEW t \in Nat,
         HasBegun(entry, t)
  PROVE  LET peek   == Peek(entry, t)
             record == Decide(entry, t)
             limit  == MaxRequests * WindowMs
         IN  /\ Plain(peek, t) /\ Plain(record, t)
             /\ peek.allowed <=> Weighted(entry, t) < limit
             /\ peek.remaining > 0 => Weighted(entry, t) < limit
             /\ record.allowed <=> Weighted(entry, t) < limit
             /\ record.remaining > 0 => Weighted(record.entry, t) < limit
             /\ HasBegun(record.entry, t)
<1> DEFINE limit == MaxRequests * WindowMs
           weight == Weighted(entry, t)
           room == Minus(limit, weight)
           counts == Counts(entry, t)
           new == [NewEntry(counts.current + 1, WindowStart(t)) EXCEPT
                     !.prev_count = counts.previous, !.last_update = t]
           kept == IF entry = None THEN NewEntry(counts.current, WindowStart(t)) ELSE entry
           ends == WindowEnds(t)
           peek == Peek(entry, t)
           record == Decide(entry, t)
           more == Minus(room, WindowMs)
<1>0. WindowMs \in Nat \ {0} /\ limit \in Nat /\ ends \in Nat
  <2>1. WindowMs \in Nat \ {0} /\ MaxRequests \in Nat
    BY QuotaConstants
  <2>2. ends \in Nat
    BY <2>1, WindowStartFacts
  <2> QED
    BY <2>1, <2>2, TimesNat
<1>1. weight \in Nat
  BY WeightedType
<1>2. /\ counts.current \in Nat /\ counts.previous \in Nat
      /\ HasBegun(new, t) /\ Weighted(new, t) = weight + WindowMs
  BY NewWeight
<1>3. HasBegun(kept, t)
  <2>1. CASE entry = None
    <3>1. kept.window_start = WindowStart(t)
      BY <2>1 DEF NewEntry
    <3>2. WindowStart(t) <= t /\ WindowStart(WindowStart(t)) = WindowStart(t)
      BY WindowStartFacts
    <3> HIDE DEF kept
    <3> QED
      BY <3>1, <3>2 DEF HasBegun
  <2>2. CASE entry /= None
    BY <2>2
  <2> QED
    BY <2>1, <2>2
<1>4. Peek(entry, t) = SlidingWindowCheck(entry, t) /\ Decide(entry, t) = SlidingWindowRecord(entry, t)
  BY DEF Peek, Decide
<1>5. /\ SlidingWindowCheck(entry, t) =
           Verdict(room > 0, None, room \div WindowMs, IF room > 0 THEN None ELSE ends)
      /\ SlidingWindowRecord(entry, t) =
           IF room > 0 THEN Verdict(TRUE, new, more \div WindowMs, None)
           ELSE Verdict(FALSE, kept, 0, ends)
  BY Zenon DEF SlidingWindowCheck, SlidingWindowRecord
<1> HIDE DEF limit, weight, counts, new, kept, ends, more
<1>6. room \in Nat /\ (room > 0 <=> weight < limit)
  BY <1>0, <1>1 DEF Minus
<1> HIDE DEF room
<1>7. more \in Nat /\ (more >= WindowMs => weight + WindowMs < limit)
  BY <1>0, <1>1, <1>6 DEF more, room, Minus
<1>8. room \div WindowMs \in Nat /\ (room \div WindowMs > 0 => room > 0)
  <2>1. room \div WindowMs \in Nat /\ (room \div WindowMs > 0 => room >= WindowMs)
    BY <1>0, <1>6, WholeUnits
  <2> QED
    BY <1>0, <1>6, <2>1
<1>9. more \div WindowMs \in Nat /\ (more \div WindowMs > 0 => more >= WindowMs)
  BY <1>0, <1>7, WholeUnits
<1>10. CASE room > 0
  <2>1. SlidingWindowCheck(entry, t) = Verdict(TRUE, None, room \div WindowMs, None)
    <3>1. (room > 0) = TRUE
      BY <1>10
    <3> QED
      BY Zenon, <1>5, <1>10, <3>1
  <2>2. SlidingWindowRecord(entry, t) = Verdict(TRUE, new, more \div WindowMs, None)
    BY <1>5, <1>10
  <2>3. /\ peek.allowed = TRUE /\ peek.allowed \in BOOLEAN
        /\ peek.remaining = room \div WindowMs
        /\ record.allowed = TRUE /\ record.allowed \in BOOLEAN
        /\ record.remaining = more \div WindowMs /\ record.entry = new
    BY <1>4, <2>1, <2>2 DEF Verdict
  <2> HIDE DEF peek, record
  <2>4. Plain(peek, t) /\ Plain(record, t)
    BY <1>0, <1>6, <1>7, <1>8, <1>9, <2>3 DEF Plain
  <2>5. /\ peek.allowed <=> weight < limit
        /\ peek.remaining > 0 => weight < limit
        /\ record.allowed <=> weight < limit
    BY <1>6, <1>10, <2>3
  <2>6. record.remaining > 0 => Weighted(record.entry, t) < limit
    BY <1>2, <1>7, <1>9, <2>3
  <2>7. HasBegun(record.entry, t)
    BY <1>2, <2>3
  <2> QED
    BY <2>4, <2>5, <2>6, <2>7 DEF peek, record, weight, limit
<1>11. CASE ~(room > 0)
  <2>1. SlidingWindowCheck(entry, t) = Verdict(FALSE, None, room \div WindowMs, ends)
    <3>1. (room > 0) = FALSE
      BY <1>11
    <3> QED
      BY Zenon, <1>5, <1>11, <3>1
  <2>2. SlidingWindowRecord(entry, t) = Verdict(FALSE, kept, 0, ends)
    BY <1>5, <1>11
  <2>3. /\ peek.allowed = FALSE /\ peek.allowed \in BOOLEAN
        /\ peek.remaining = room \div WindowMs /\ peek.retry_after = ends
        /\ record.allowed = FALSE /\ record.allowed \in BOOLEAN
        /\ record.remaining = 0 /\ record.entry = kept /\ record.retry_after = ends
    BY <1>4, <2>1, <2>2 DEF Verdict
  <2> HIDE DEF peek, record
  <2>4. Plain(peek, t) /\ Plain(record, t)
    BY <1>0, <1>6, <1>8, <2>3 DEF Plain
  <2>5. /\ peek.allowed <=> weight < limit
        /\ peek.remaining > 0 => weight < limit
        /\ record.allowed <=> weight < limit
        /\ ~(record.remaining > 0)
    BY <1>6, <1>8, <1>11, <2>3
  <2>6. HasBegun(record.entry, t)
    BY <1>3, <2>3
  <2> QED
    BY <2>4, <2>5, <2>6 DEF peek, record, weight, limit
<1> QED
  BY <1>10, <1>11

\* The reply of the fixed window to a peek, and to a request.
LEMMA FixedPeekSays ==
  ASSUME algorithm = "fixed_window", NEW entry \in StorageEntry \cup {None}, NEW t \in Nat
  PROVE  LET peek == Peek(entry, t)
         IN  /\ Plain(peek, t)
             /\ peek.allowed <=> CountAt(entry, t) < MaxRequests
             /\ peek.remaining > 0 => CountAt(entry, t) < MaxRequests
             /\ peek.allowed \/ peek.retry_after = WindowEnds(t)
<1> DEFINE count == CountAt(entry, t)
           peek == Peek(entry, t)
           ends == WindowEnds(t)
<1>0. MaxRequests \in Nat /\ ends \in Nat
  BY QuotaConstants, WindowStartFacts
<1>1. count \in Nat
  BY DEF CountAt, StorageEntry
<1>2. Peek(entry, t) = Verdict(count < MaxRequests, None, Minus(MaxRequests, count),
                               IF count < MaxRequests THEN None ELSE ends)
  BY DEF Peek, FixedWindowCheck, CountAt
<1> HIDE DEF count, ends
<1>3. Minus(MaxRequests, count) \in Nat /\ (Minus(MaxRequests, count) > 0 => count < MaxRequests)
  BY <1>0, <1>1 DEF Minus
<1>4. CASE count < MaxRequests
  <2>1. Peek(entry, t) = Verdict(TRUE, None, Minus(MaxRequests, count), None)
    <3>1. (count < MaxRequests) = TRUE
      BY <1>4
    <3> QED
      BY Zenon, <1>2, <1>4, <3>1
  <2>2. /\ peek.allowed = TRUE /\ peek.allowed \in BOOLEAN
        /\ peek.remaining = Minus(MaxRequests, count)
    BY <2>1 DEF Verdict
  <2> HIDE DEF peek
  <2> QED
    BY <1>3, <1>4, <2>2 DEF Plain, peek, count
<1>5. CASE ~(count < MaxRequests)
  <2>1. Peek(entry, t) = Verdict(FALSE, None, Minus(MaxRequests, count), ends)
    <3>1. (count < MaxRequests) = FALSE
      BY <1>5
    <3> QED
      BY Zenon, <1>2, <1>5, <3>1
  <2>2. /\ peek.allowed = FALSE /\ peek.allowed \in BOOLEAN
        /\ peek.remaining = Minus(MaxRequests, count) /\ peek.retry_after = ends
    BY <2>1 DEF Verdict
  <2> HIDE DEF peek
  <2> QED
    BY <1>0, <1>3, <1>5, <2>2 DEF Plain, peek, count, ends
<1> QED
  BY <1>4, <1>5

LEMMA FixedRecordSays ==
  ASSUME NEW count \in Nat, NEW t \in Nat
  PROVE  LET record == FixedWindowRecord(count, t)
         IN  /\ Plain(record, t)
             /\ record.allowed <=> count <= MaxRequests
             /\ record.remaining > 0 => count < MaxRequests
             /\ record.allowed \/ record.retry_after = WindowEnds(t)
<1> DEFINE record == FixedWindowRecord(count, t)
           ends == WindowEnds(t)
<1>0. MaxRequests \in Nat /\ ends \in Nat
  BY QuotaConstants, WindowStartFacts
<1>1. FixedWindowRecord(count, t) =
        Verdict(count <= MaxRequests, None, Minus(MaxRequests, count),
                IF count <= MaxRequests THEN None ELSE ends)
  BY DEF FixedWindowRecord
<1> HIDE DEF ends
<1>2. Minus(MaxRequests, count) \in Nat /\ (Minus(MaxRequests, count) > 0 => count < MaxRequests)
  BY <1>0 DEF Minus
<1>3. CASE count <= MaxRequests
  <2>1. FixedWindowRecord(count, t) = Verdict(TRUE, None, Minus(MaxRequests, count), None)
    <3>1. (count <= MaxRequests) = TRUE
      BY <1>3
    <3> QED
      BY Zenon, <1>1, <1>3, <3>1
  <2>2. /\ record.allowed = TRUE /\ record.allowed \in BOOLEAN
        /\ record.remaining = Minus(MaxRequests, count)
    BY <2>1 DEF Verdict
  <2> HIDE DEF record
  <2> QED
    BY <1>2, <1>3, <2>2 DEF Plain, record
<1>4. CASE ~(count <= MaxRequests)
  <2>1. FixedWindowRecord(count, t) = Verdict(FALSE, None, Minus(MaxRequests, count), ends)
    <3>1. (count <= MaxRequests) = FALSE
      BY <1>4
    <3> QED
      BY Zenon, <1>1, <1>4, <3>1
  <2>2. /\ record.allowed = FALSE /\ record.allowed \in BOOLEAN
        /\ record.remaining = Minus(MaxRequests, count) /\ record.retry_after = ends
    BY <2>1 DEF Verdict
  <2> HIDE DEF record
  <2> QED
    BY <1>0, <1>2, <1>4, <2>2 DEF Plain, record, ends
<1> QED
  BY <1>3, <1>4

\* A peek tells whether there is room.
LEMMA PeekSays ==
  ASSUME algorithm \in Algorithms, NEW t \in Nat, NEW entry, Held(algorithm, entry, t)
  PROVE  LET peek == Peek(entry, t)
         IN  /\ Plain(peek, t)
             /\ peek.allowed <=> Room(algorithm, entry, t)
             /\ peek.remaining > 0 => Room(algorithm, entry, t)
<1>0. entry \in StorageEntry \cup {None}
  BY DEF Held
<1>1. CASE algorithm \in Buckets
  <2>1. BucketEntry(entry)
    BY <1>1 DEF Held
  <2>2. Room(algorithm, entry, t) <=> Unit <= Available(algorithm, entry, t)
    BY <1>1 DEF Room, Buckets
  <2> QED
    BY <1>1, <2>1, <2>2, BucketSays
<1>2. CASE algorithm = "sliding_log"
  <2>1. Room(algorithm, entry, t) <=> Len(InWindow(entry, t)) < MaxRequests
    BY <1>2 DEF Room, Buckets
  <2> QED
    BY <1>0, <1>2, <2>1, LogSays
<1>3. CASE algorithm = "sliding_window"
  <2>1. Room(algorithm, entry, t) <=> Weighted(entry, t) < MaxRequests * WindowMs
    BY <1>3 DEF Room, Buckets
  <2>2. HasBegun(entry, t)
    BY <1>3 DEF Held, Aligned
  <2> QED
    BY <1>0, <1>3, <2>1, <2>2, SlidingWindowSays
<1>4. CASE algorithm = "fixed_window"
  <2>1. Room(algorithm, entry, t) <=> CountAt(entry, t) < MaxRequests
    BY <1>4 DEF Room, Buckets
  <2> QED
    BY <1>0, <1>4, <2>1, FixedPeekSays
<1> QED
  BY <1>1, <1>2, <1>3, <1>4, LimiterAssumption DEF Buckets

\* A request is let through if there is room, and told whether there is more.
LEMMA RecordSays ==
  ASSUME algorithm \in Algorithms \ {"fixed_window"}, NEW t \in Nat, NEW entry,
         Held(algorithm, entry, t)
  PROVE  LET record == Decide(entry, t)
         IN  /\ Plain(record, t)
             /\ Held(algorithm, record.entry, t)
             /\ record.allowed <=> Room(algorithm, entry, t)
             /\ record.remaining > 0 => Room(algorithm, record.entry, t)
<1> DEFINE record == Decide(entry, t)
           after == record.entry
<1>0. entry \in StorageEntry \cup {None} /\ after \in StorageEntry
  BY RecordType DEF Held
<1>1. CASE algorithm \in Buckets
  <2>1. BucketEntry(entry)
    BY <1>1 DEF Held
  <2>2. ASSUME NEW x
        PROVE  Room(algorithm, x, t) <=> Unit <= Available(algorithm, x, t)
    BY <1>1 DEF Room, Buckets
  <2>3. BucketEntry(after)
    BY <1>1, <2>1, BucketRecord
  <2>4. Held(algorithm, after, t)
    BY <1>0, <1>1, <2>3 DEF Held, Buckets, Aligned
  <2> QED
    BY <1>1, <2>1, <2>2, <2>4, BucketSays
<1>2. CASE algorithm = "sliding_log"
  <2>1. ASSUME NEW x
        PROVE  Room(algorithm, x, t) <=> Len(InWindow(x, t)) < MaxRequests
    BY <1>2 DEF Room, Buckets
  <2>2. Held(algorithm, after, t)
    BY <1>0, <1>2 DEF Held, Buckets, Aligned
  <2> QED
    BY <1>0, <1>2, <2>1, <2>2, LogSays
<1>3. CASE algorithm = "sliding_window"
  <2>1. ASSUME NEW x
        PROVE  Room(algorithm, x, t) <=> Weighted(x, t) < MaxRequests * WindowMs
    BY <1>3 DEF Room, Buckets
  <2>2. HasBegun(entry, t)
    BY <1>3 DEF Held, Aligned
  <2>3. HasBegun(after, t)
    BY <1>0, <1>3, <2>2, SlidingWindowSays
  <2>4. Held(algorithm, after, t)
    BY <1>0, <1>3, <2>3 DEF Held, Buckets
  <2> QED
    BY <1>0, <1>3, <2>1, <2>2, <2>4, SlidingWindowSays
<1> QED
  BY <1>1, <1>2, <1>3, LimiterAssumption DEF Buckets

\* Nothing stored is nothing counted.
LEMMA RoomForOne ==
  ASSUME NEW alg, NEW t \in Nat
  PROVE  Held(alg, None, t) /\ Room(alg, None, t)
<1>0. /\ MaxRequests \in Nat \ {0} /\ WindowMs \in Nat \ {0} /\ Unit <= MaxTokens
      /\ MaxTokens \in Nat /\ Unit \in Nat
  BY QuotaConstants
<1>1. BucketEntry(None) /\ HasBegun(None, t)
  BY DEF BucketEntry, HasBegun
<1>2. alg \in Buckets => Unit <= Available(alg, None, t)
  BY <1>0, <1>1, AvailableIs
<1>3. Len(InWindow(None, t)) < MaxRequests
  <2> DEFINE times == Timestamps(None)
             start == Minus(t, WindowMs)
  <2>1. times \in Seq(Nat) /\ Len(times) = 0
    BY DEF Timestamps
  <2>2. start \in Nat /\ start <= start
    BY <1>0 DEF Minus
  <2> HIDE DEF times, start
  <2>3. Len(FilterWindow(times, start)) <= Len(times)
    BY <2>1, <2>2, FilterShrinks
  <2>4. Len(InWindow(None, t)) \in Nat
    BY InWindowType
  <2> QED
    BY <1>0, <2>1, <2>3, <2>4 DEF InWindow, times, start
<1>4. Weighted(None, t) < MaxRequests * WindowMs
  <2>1. Counts(None, t) = [current |-> 0, previous |-> 0]
    BY DEF Counts
  <2>2. 0 * WindowMs = 0 /\ 0 * WindowEnds(t) = 0
    BY <1>0, WindowStartFacts
  <2>3. Weighted(None, t) = 0
    BY <2>1, <2>2 DEF Weighted
  <2>4. 1 * WindowMs <= MaxRequests * WindowMs /\ MaxRequests * WindowMs \in Int
    BY <1>0, TimesMonotone
  <2> QED
    BY <1>0, <2>3, <2>4
<1>5. CountAt(None, t) < MaxRequests
  BY <1>0 DEF CountAt
<1> QED
  BY <1>1, <1>2, <1>3, <1>4, <1>5 DEF Held, Room

(***************************************************************************)
(* What was told of a key is true of what is stored                        *)
(***************************************************************************)
\* RepliesInv of a key that has `internal`, after `reply`; the clock lags by `lag`.
ReplyOK(alg, internal, reply, base, lag) ==
  /\ alg \in Aligned /\ internal /= None => HasBegun(internal.entry, base)
  /\ lag = 0 /\ reply /= None /\ internal /= None =>
       (reply.more => Room(alg, internal.entry, base))
  /\ alg = "fixed_window" /\ reply /= None =>
       (reply.come_back /= None =>
          /\ reply.come_back = WindowStart(reply.come_back)
          /\ internal /= None => internal.entry.window_start < reply.come_back)

RepliesOK(w) ==
  /\ told \in [Keys -> Reply \cup {None}]
  /\ \A k \in Keys : ReplyOK(algorithm, data[k], told[k], Base(w), behind)

\* It stays true while what is stored stays, or goes.
LEMMA ReplyStays ==
  ASSUME NEW alg, NEW internal, NEW kept \in {internal, None}, NEW reply,
         NEW base \in Nat, NEW later \in Nat, base <= later,
         NEW lag \in Nat, NEW lag2 \in Nat, lag <= lag2,
         internal /= None => Held(alg, internal.entry, base),
         ReplyOK(alg, internal, reply, base, lag)
  PROVE  ReplyOK(alg, kept, reply, later, lag2)
<1>1. CASE kept = None
  BY <1>1 DEF ReplyOK
<1>2. CASE kept /= None
  <2>1. kept = internal /\ Held(alg, internal.entry, base)
    BY <1>2
  <2>2. alg \in Aligned => HasBegun(internal.entry, later)
    <3>1. alg \in Aligned => HasBegun(internal.entry, base)
      BY <2>1 DEF Held
    <3>2. internal.entry /= None => internal.entry.window_start \in Nat
      BY <2>1 DEF Held, StorageEntry
    <3> QED
      BY <3>1, <3>2 DEF HasBegun
  <2>3. lag2 = 0 => lag = 0
    OBVIOUS
  <2>4. Room(alg, internal.entry, base) => Room(alg, internal.entry, later)
    BY <2>1, RoomLater
  <2> QED
    BY <2>1, <2>2, <2>3, <2>4 DEF ReplyOK
<1> QED
  BY <1>1, <1>2

\* What the storage holds is what the algorithm can decide on.
LEMMA StoredIsHeld ==
  ASSUME TypeOK, CallsOK, NEW w \in Workers, Inv(w), RepliesOK(w), NEW k \in Keys,
         data[k] /= None
  PROVE  Held(algorithm, data[k].entry, Base(w))
<1>1. data[k].entry \in StorageEntry
  BY DEF TypeOK, StorageTypeOK, InternalEntry
<1>2. ASSUME algorithm \in Buckets PROVE BucketEntry(data[k].entry)
  <2>1. BucketKnows(algorithm, data[k].entry, admitted[k], Base(w), Reading(w))
    BY <1>2 DEF Inv, KeyInv, Knows
  <2>2. data[k].entry.tokens \in 0..MaxTokens
    BY <1>1, <2>1, MemoryStorageAssumption DEF BucketKnows
  <2> QED
    BY <1>1, <2>2 DEF BucketEntry
<1>3. algorithm \in Aligned => HasBegun(data[k].entry, Base(w))
  BY DEF RepliesOK, ReplyOK
<1> QED
  BY <1>1, <1>2, <1>3 DEF Held

\* A step within a call takes entries away, if anything.
LEMMA InternalFacts ==
  ASSUME TypeOK, CallsOK, NEW w \in Workers, Internal(w)
  PROVE  /\ Busy(w) /\ Busy(w)'
         /\ UNCHANGED <<clock, algorithm, behind, now, started, told>>
         /\ \A k \in Keys : data'[k] \in {data[k], None}
<1>1. StorageTypeOK /\ call \in [Workers -> Call]
  BY DEF TypeOK, StorageTypeOK
<1>2. UNCHANGED <<algorithm, behind, now, started, told>>
  BY DEF Internal
<1>3. clock' = clock /\ \A k \in Keys : data'[k] \in {data[k], None}
  BY <1>1, CommonFrame DEF Internal, Load, GetExpired
<1>4. Busy(w)
  BY <1>1, CommonLocals DEF Internal, Load, GetExpired, At, Busy
<1>5. call[w].op \in Calls
  BY <1>4 DEF CallsOK, CallsMade, Calls
<1>6. Busy(w)'
  <2>1. CASE Common(w)
    BY <1>1, <1>5, <2>1, CommonCall
  <2>2. CASE Load(w)
    BY <1>1, <2>2 DEF Load, Busy, Call
  <2>3. CASE GetExpired(w)
    BY <1>1, <2>3 DEF GetExpired, Goto, Busy, Call
  <2> QED
    BY <2>1, <2>2, <2>3 DEF Internal
<1> QED
  BY <1>2, <1>3, <1>4, <1>6

\* A reply as it is told.
LEMMA ToldFacts ==
  ASSUME TypeOK, NEW w \in Workers, told \in [Keys -> Reply \cup {None}],
         NEW j \in Keys, j = call[w].key, NEW verdict, Plain(verdict, now[w]), Tell(w, verdict)
  PROVE  /\ told' \in [Keys -> Reply \cup {None}]
         /\ \A k \in Keys \ {j} : told'[k] = told[k]
         /\ told'[j].allowed <=> verdict.allowed
         /\ told'[j].more <=> verdict.remaining > 0
         /\ told'[j].come_back /= None =>
              ~verdict.allowed /\ told'[j].come_back = now[w] + verdict.retry_after
<1> DEFINE back == IF verdict.allowed \/ verdict.retry_after = None
                     THEN None ELSE now[w] + verdict.retry_after
           more == verdict.remaining > 0
           reply == [allowed |-> verdict.allowed, more |-> more, come_back |-> back]
<1>1. back \in Nat \cup {None}
  BY DEF Plain
<1>2. verdict.allowed \in BOOLEAN /\ more \in BOOLEAN
  BY DEF Plain
<1>3. told' = [told EXCEPT ![j] = reply]
  BY DEF Tell
<1>4. back /= None => ~verdict.allowed /\ back = now[w] + verdict.retry_after
  OBVIOUS
<1> HIDE DEF back, more
<1>5. reply \in Reply
  BY <1>1, <1>2 DEF Reply
<1>6. reply.allowed = verdict.allowed /\ reply.more = more /\ reply.come_back = back
  OBVIOUS
<1> HIDE DEF reply
<1>7. told'[j] = reply /\ told' \in [Keys -> Reply \cup {None}]
      /\ \A k \in Keys \ {j} : told'[k] = told[k]
  BY <1>3, <1>5
<1> QED
  BY <1>4, <1>6, <1>7 DEF more

\* Where a window ends another one starts.
LEMMA EndIsStart ==
  ASSUME NEW t \in Nat
  PROVE  /\ t + WindowEnds(t) \in Nat /\ WindowStart(t) < t + WindowEnds(t)
         /\ t + WindowEnds(t) = WindowStart(t) + WindowMs
         /\ WindowStart(t + WindowEnds(t)) = t + WindowEnds(t)
<1>0. WindowMs \in Nat \ {0} /\ WindowStart(t) \in Nat
  BY QuotaConstants, WindowStartFacts
<1>1. t + WindowEnds(t) = WindowStart(t) + WindowMs
  BY <1>0 DEF WindowEnds
<1> DEFINE q == t \div WindowMs
<1>2. q \in Nat /\ q + 1 \in Nat
  BY <1>0, DivisionIsNat
<1>3. WindowStart(t) + WindowMs = (q + 1) * WindowMs
  <2>1. WindowStart(t) = q * WindowMs
    BY DEF WindowStart
  <2> HIDE DEF q
  <2>2. (q + 1) * WindowMs = q * WindowMs + 1 * WindowMs
    BY <1>0, <1>2, TimesSum
  <2> QED
    BY <1>0, <2>1, <2>2
<1> HIDE DEF q
<1>4. WindowStart((q + 1) * WindowMs) = (q + 1) * WindowMs
  BY <1>2, StartOfMultiple
<1> QED
  BY <1>0, <1>1, <1>3, <1>4

\* What increment makes of an entry, or of none.
LEMMA IncrementedFacts ==
  ASSUME NEW internal \in InternalEntry \cup {None}, NEW t \in Nat, NEW read \in Nat
  PROVE  LET entry == Incremented(internal, 1, WindowStart(t), read)
             held  == IF internal = None THEN None ELSE internal.entry
         IN  /\ entry \in StorageEntry /\ HasBegun(entry, t)
             /\ entry.window_start = WindowStart(t)
             /\ entry.count = CountAt(held, t) + 1 /\ CountAt(held, t) \in Nat
<1> DEFINE entry == Incremented(internal, 1, WindowStart(t), read)
           ws == WindowStart(t)
<1>0. ws \in Nat /\ ws <= t /\ WindowStart(ws) = ws
  BY WindowStartFacts
<1>1. entry \in StorageEntry
  BY <1>0, IncrementedType
<1>2. CASE internal = None
  <2>1. entry.window_start = ws /\ entry.count = 1
    <3> HIDE DEF ws
    <3> QED
      BY <1>2 DEF Incremented, NewEntry, ws
  <2>2. CountAt(None, t) = 0
    BY DEF CountAt
  <2> HIDE DEF entry
  <2> QED
    BY <1>0, <1>1, <1>2, <2>1, <2>2 DEF HasBegun, entry
<1>3. CASE internal /= None
  <2> DEFINE old == internal.entry
  <2>1. old \in StorageEntry /\ old.count \in Nat /\ old /= None
    BY <1>3, MemoryStorageAssumption DEF InternalEntry, StorageEntry
  <2>2. entry = IF old.window_start = ws
                  THEN [old EXCEPT !.count = @ + 1, !.last_update = read]
                  ELSE [old EXCEPT !.prev_count = old.count, !.count = 1,
                                   !.window_start = ws, !.last_update = read]
    BY <1>3 DEF Incremented
  <2>3. CountAt(old, t) = IF old.window_start = ws THEN old.count ELSE 0
    BY <2>1 DEF CountAt
  <2> HIDE DEF old, ws
  <2>4. entry.window_start = ws /\ entry.count = CountAt(old, t) + 1 /\ CountAt(old, t) \in Nat
    <3> HIDE DEF entry
    <3>1. CASE old.window_start = ws
      <4>1. entry = [old EXCEPT !.count = @ + 1, !.last_update = read]
        BY <2>2, <3>1
      <4>2. entry.count = old.count + 1 /\ entry.window_start = old.window_start
        BY <2>1, <4>1 DEF StorageEntry
      <4> QED
        BY <2>1, <2>3, <3>1, <4>2
    <3>2. CASE old.window_start /= ws
      <4>1. entry = [old EXCEPT !.prev_count = old.count, !.count = 1,
                                !.window_start = ws, !.last_update = read]
        BY <2>2, <3>2
      <4>2. entry.count = 1 /\ entry.window_start = ws
        BY <2>1, <4>1 DEF StorageEntry
      <4> QED
        BY <2>3, <3>2, <4>2
    <3> QED
      BY <3>1, <3>2
  <2> HIDE DEF entry
  <2> QED
    BY <1>0, <1>1, <1>3, <2>4 DEF HasBegun, entry, old, ws
<1> QED
  BY <1>2, <1>3

\* The step that decides on a request tells what holds of what it stores.
LEMMA RecordTells ==
  ASSUME TypeOK, CallsOK, NEW w \in Workers, Inv(w), RepliesOK(w),
         NEW j \in Keys, j = call[w].key, Record(w)
  PROVE  /\ told' \in [Keys -> Reply \cup {None}]
         /\ \A k \in Keys \ {j} : data'[k] = data[k] /\ told'[k] = told[k]
         /\ ReplyOK(algorithm, data'[j], told'[j], clock + behind, behind)
         /\ behind = 0 /\ told[j] /= None /\ told[j].more => told'[j].allowed
<1> DEFINE entry == call[w].current
           record == Decide(entry, now[w])
<1>1. /\ At(w, "execute_atomic", "commit") /\ algorithm \in Algorithms
      /\ now[w] \in Nat /\ started[w] \in Nat /\ clock \in Nat /\ behind \in Nat
      /\ clock + behind \in Nat /\ call[w].expires \in Nat
      /\ told \in [Keys -> Reply \cup {None}]
      /\ data \in [Keys -> InternalEntry \cup {None}]
  BY CallFacts DEF Record, ExecuteCommit, TypeOK, StorageTypeOK, Call, RepliesOK
<1>2. algorithm /= "fixed_window" /\ Busy(w)
  BY <1>1 DEF CallsOK, CallsMade, At, Busy
<1>3. /\ Base(w) = started[w] /\ now[w] <= started[w] /\ started[w] <= clock + behind
      /\ algorithm \in Aligned => now[w] = started[w]
      /\ behind = 0 => now[w] = started[w]
  BY <1>1, <1>2 DEF Base, CallsOK, CallsMade, Aligned, Resilient
<1>4. IF entry = None THEN TRUE ELSE data[j] /= None /\ entry = data[j].entry
  BY <1>1 DEF Inv, CallInv
<1>5. Held(algorithm, entry, now[w])
  <2>1. CASE entry = None
    BY <1>1, <2>1, RoomForOne
  <2>2. CASE entry /= None
    <3>1. Held(algorithm, entry, started[w])
      BY <1>3, <1>4, <2>2, StoredIsHeld
    <3> QED
      BY <1>3, <3>1 DEF Held
  <2> QED
    BY <2>1, <2>2
<1>6. /\ Plain(record, now[w])
      /\ Held(algorithm, record.entry, now[w])
      /\ record.allowed <=> Room(algorithm, entry, now[w])
      /\ record.remaining > 0 => Room(algorithm, record.entry, now[w])
  BY <1>1, <1>2, <1>5, RecordSays
<1>7. Tell(w, record)
  BY DEF Record, TellRecorded
<1>8. data' = [data EXCEPT ![j] = [entry |-> record.entry, expires_at |-> call[w].expires]]
  BY DEF Record, ExecuteCommit, Insert
<1> HIDE DEF record
<1>9. /\ told' \in [Keys -> Reply \cup {None}]
      /\ \A k \in Keys \ {j} : told'[k] = told[k]
      /\ told'[j].allowed <=> record.allowed
      /\ told'[j].more <=> record.remaining > 0
  BY <1>1, <1>6, <1>7, ToldFacts
<1>10. data'[j].entry = record.entry /\ \A k \in Keys \ {j} : data'[k] = data[k]
  BY <1>1, <1>8
<1>11. /\ Held(algorithm, record.entry, clock + behind)
       /\ record.remaining > 0 => Room(algorithm, record.entry, clock + behind)
  <2>1. now[w] <= clock + behind
    BY <1>1, <1>3
  <2>2. ASSUME record.remaining > 0 PROVE Room(algorithm, record.entry, clock + behind)
    BY <1>1, <1>6, <2>1, <2>2, RoomLater
  <2>3. Held(algorithm, record.entry, clock + behind)
    <3>1. record.entry /= None => record.entry.window_start \in Nat
      BY <1>6 DEF Held, StorageEntry
    <3> QED
      BY <1>1, <1>6, <2>1, <3>1 DEF Held, HasBegun
  <2> QED
    BY <2>2, <2>3
<1>12. ReplyOK(algorithm, data'[j], told'[j], clock + behind, behind)
  BY <1>2, <1>9, <1>10, <1>11 DEF ReplyOK, Held
<1>13. ASSUME behind = 0, told[j] /= None, told[j].more PROVE told'[j].allowed
  <2>1. Room(algorithm, entry, now[w])
    <3>1. CASE entry = None
      BY <1>1, <3>1, RoomForOne
    <3>2. CASE entry /= None
      <4>1. ReplyOK(algorithm, data[j], told[j], started[w], behind)
        BY <1>3 DEF RepliesOK
      <4> QED
        BY <1>3, <1>4, <1>13, <3>2, <4>1 DEF ReplyOK
    <3> QED
      BY <3>1, <3>2
  <2> QED
    BY <1>6, <1>9, <2>1
<1> QED
  BY <1>9, <1>10, <1>12, <1>13

\* The same of a request that a fixed window counts; and whoever comes back in
\* time is let through.
LEMMA CountTells ==
  ASSUME TypeOK, CallsOK, NEW w \in Workers, Inv(w), RepliesOK(w),
         NEW j \in Keys, j = call[w].key, CountRecord(w)
  PROVE  /\ told' \in [Keys -> Reply \cup {None}]
         /\ \A k \in Keys \ {j} : data'[k] = data[k] /\ told'[k] = told[k]
         /\ ReplyOK(algorithm, data'[j], told'[j], clock + behind, behind)
         /\ behind = 0 /\ told[j] /= None /\ told[j].more => told'[j].allowed
         /\ told[j] /= None /\ told[j].come_back /= None /\ now[w] >= told[j].come_back =>
              told'[j].allowed
<1> DEFINE held == IF data[j] = None THEN None ELSE data[j].entry
           entry == Incremented(data[j], 1, WindowStart(now[w]), call[w].now)
           record == FixedWindowRecord(entry.count, now[w])
<1>1. /\ At(w, "increment", "commit")
      /\ now[w] \in Nat /\ started[w] \in Nat /\ clock \in Nat /\ behind \in Nat
      /\ clock + behind \in Nat /\ call[w].expires \in Nat /\ call[w].now \in Nat
      /\ told \in [Keys -> Reply \cup {None}]
      /\ data \in [Keys -> InternalEntry \cup {None}]
      /\ MaxRequests \in Nat \ {0}
  BY CallFacts, QuotaConstants
  DEF CountRecord, IncrementCommit, TypeOK, StorageTypeOK, Call, RepliesOK
<1>2. algorithm = "fixed_window" /\ Busy(w)
  BY <1>1 DEF CallsOK, CallsMade, At, Busy
<1>3. /\ Base(w) = started[w] /\ now[w] = started[w] /\ started[w] <= clock + behind
  BY <1>1, <1>2 DEF Base, CallsOK, CallsMade, Resilient
<1>4. /\ entry \in StorageEntry /\ HasBegun(entry, now[w])
      /\ entry.window_start = WindowStart(now[w])
      /\ entry.count = CountAt(held, now[w]) + 1 /\ CountAt(held, now[w]) \in Nat
  BY <1>1, IncrementedFacts
<1>5. data' = [data EXCEPT ![j] = [entry |-> entry, expires_at |-> call[w].expires]]
  BY DEF CountRecord, IncrementCommit, Insert
<1>6. Tell(w, record)
  <2>1. data'[j].entry = entry
    BY <1>1, <1>5
  <2> HIDE DEF entry
  <2> QED
    BY <2>1 DEF CountRecord, TellRecorded
<1> HIDE DEF entry, held
<1>7. /\ Plain(record, now[w])
      /\ record.allowed <=> entry.count <= MaxRequests
      /\ record.remaining > 0 => entry.count < MaxRequests
      /\ record.allowed \/ record.retry_after = WindowEnds(now[w])
  BY <1>1, <1>4, FixedRecordSays
<1> HIDE DEF record
<1>8. /\ told' \in [Keys -> Reply \cup {None}]
      /\ \A k \in Keys \ {j} : told'[k] = told[k]
      /\ told'[j].allowed <=> record.allowed
      /\ told'[j].more <=> record.remaining > 0
      /\ told'[j].come_back /= None =>
           ~record.allowed /\ told'[j].come_back = now[w] + record.retry_after
  BY <1>1, <1>6, <1>7, ToldFacts
<1>9. data'[j].entry = entry /\ \A k \in Keys \ {j} : data'[k] = data[k]
  BY <1>1, <1>5
<1>10. Held(algorithm, entry, now[w])
  BY <1>2, <1>4 DEF Held, Buckets
<1>11. record.remaining > 0 => Room(algorithm, entry, clock + behind)
  <2> SUFFICES ASSUME record.remaining > 0 PROVE Room(algorithm, entry, clock + behind)
    OBVIOUS
  <2>1. CountAt(entry, now[w]) < MaxRequests
    BY <1>1, <1>4, <1>7 DEF CountAt
  <2>2. Room(algorithm, entry, now[w])
    BY <1>2, <2>1 DEF Room, Buckets
  <2>3. now[w] <= clock + behind
    BY <1>3
  <2> QED
    BY <1>1, <1>10, <2>2, <2>3, RoomLater
<1>12. HasBegun(entry, clock + behind)
  <2>1. entry.window_start \in Nat /\ now[w] <= clock + behind
    BY <1>3, <1>4 DEF StorageEntry
  <2> QED
    BY <1>1, <1>4, <2>1 DEF HasBegun
<1>13. told'[j].come_back /= None =>
         /\ told'[j].come_back = WindowStart(told'[j].come_back)
         /\ entry.window_start < told'[j].come_back
  BY <1>1, <1>4, <1>7, <1>8, EndIsStart
<1>14. ReplyOK(algorithm, data'[j], told'[j], clock + behind, behind)
  BY <1>8, <1>9, <1>11, <1>12, <1>13 DEF ReplyOK
<1>15. ReplyOK(algorithm, data[j], told[j], now[w], behind)
  BY <1>3 DEF RepliesOK
<1>16. ASSUME behind = 0, told[j] /= None, told[j].more PROVE told'[j].allowed
  <2>1. CountAt(held, now[w]) < MaxRequests
    <3>1. CASE data[j] = None
      BY <1>1, <3>1 DEF held, CountAt
    <3>2. CASE data[j] /= None
      <4>1. Room(algorithm, data[j].entry, now[w])
        BY <1>15, <1>16, <3>2 DEF ReplyOK
      <4> QED
        BY <1>2, <3>2, <4>1 DEF Room, held
    <3> QED
      BY <3>1, <3>2
  <2> QED
    BY <1>1, <1>4, <1>7, <1>8, <2>1
<1>17. ASSUME told[j] /= None, told[j].come_back /= None, now[w] >= told[j].come_back
       PROVE  told'[j].allowed
  <2>1. told[j].come_back \in Nat
    BY <1>1, <1>17 DEF Reply
  <2>2. /\ told[j].come_back = WindowStart(told[j].come_back)
        /\ data[j] /= None => data[j].entry.window_start < told[j].come_back
    BY <1>2, <1>15, <1>17 DEF ReplyOK
  <2>3. told[j].come_back <= WindowStart(now[w]) /\ WindowStart(now[w]) \in Nat
    BY <1>1, <1>17, <2>1, <2>2, WindowStartMonotone, WindowStartType
  <2>4. data[j] /= None => data[j].entry.window_start \in Nat
    BY <1>1 DEF InternalEntry, StorageEntry
  <2>5. CountAt(held, now[w]) = 0
    BY <2>1, <2>2, <2>3, <2>4 DEF CountAt, held
  <2> QED
    BY <1>1, <1>4, <1>7, <1>8, <2>5
<1> QED
  BY <1>8, <1>9, <1>14, <1>16, <1>17

\* A peek tells what holds of what is stored.
LEMMA PeekTells ==
  ASSUME TypeOK, CallsOK, NEW w \in Workers, Inv(w), RepliesOK(w),
         NEW j \in Keys, j = call[w].key, PeekHit(w) \/ PeekMiss(w)
  PROVE  /\ told' \in [Keys -> Reply \cup {None}]
         /\ \A k \in Keys \ {j} : data'[k] = data[k] /\ told'[k] = told[k]
         /\ ReplyOK(algorithm, data'[j], told'[j], clock + behind, behind)
         /\ behind = 0 /\ told[j] /= None /\ told[j].more => told'[j].allowed
         /\ algorithm = "fixed_window" /\ told[j] /= None /\ told[j].come_back /= None
              /\ now[w] >= told[j].come_back => told'[j].allowed
<1> DEFINE entry == IF PeekHit(w) THEN data[j].entry ELSE None
           peek == Peek(entry, now[w])
<1>1. /\ algorithm \in Algorithms /\ call[w].op = "get" /\ Busy(w)
      /\ now[w] \in Nat /\ started[w] \in Nat /\ clock \in Nat /\ behind \in Nat
      /\ clock + behind \in Nat
      /\ told \in [Keys -> Reply \cup {None}]
      /\ data \in [Keys -> InternalEntry \cup {None}]
      /\ MaxRequests \in Nat \ {0}
  BY CallFacts, QuotaConstants
  DEF PeekHit, PeekMiss, GetHit, GetMiss, GetRemove, At, Busy, TypeOK, StorageTypeOK, RepliesOK
<1>2. /\ Base(w) = started[w] /\ now[w] <= started[w] /\ started[w] <= clock + behind
      /\ algorithm \in Aligned => now[w] = started[w]
      /\ behind = 0 => now[w] = started[w]
  BY <1>1 DEF Base, CallsOK, CallsMade, Aligned, Resilient
<1>3. PeekHit(w) => data[j] /= None /\ data' = data
  BY DEF PeekHit, GetHit, LiveAt
<1>4. ~PeekHit(w) => data'[j] = None
  <2>1. GetMiss(w) => data[j] = None /\ data' = data
    BY DEF GetMiss
  <2>2. GetRemove(w) => data' = [data EXCEPT ![j] = None]
    BY DEF GetRemove
  <2>3. GetRemove(w) => data'[j] = None
    BY <1>1, <2>2
  <2> QED
    BY <2>1, <2>3 DEF PeekMiss
<1>5. /\ \A k \in Keys \ {j} : data'[k] = data[k]
      /\ data'[j] \in {data[j], None}
      /\ data'[j] /= None => PeekHit(w) /\ data'[j] = data[j] /\ entry = data[j].entry
  <2>1. data' = data \/ data' = [data EXCEPT ![j] = None]
    BY DEF PeekHit, PeekMiss, GetHit, GetMiss, GetRemove
  <2> QED
    BY <1>1, <1>3, <1>4, <2>1
<1>6. Tell(w, peek)
  <2>1. CASE PeekHit(w)
    BY <2>1 DEF PeekHit
  <2>2. CASE ~PeekHit(w)
    BY <2>2 DEF PeekMiss
  <2> QED
    BY <2>1, <2>2
<1>7. Held(algorithm, entry, now[w])
  <2>1. CASE ~PeekHit(w)
    BY <1>1, <2>1, RoomForOne
  <2>2. CASE PeekHit(w)
    <3>1. Held(algorithm, data[j].entry, started[w])
      BY <1>2, <1>3, <2>2, StoredIsHeld
    <3> QED
      BY <1>2, <2>2, <3>1 DEF Held
  <2> QED
    BY <2>1, <2>2
<1>8. entry = None \/ (data[j] /= None /\ entry = data[j].entry)
  BY <1>3
<1> HIDE DEF entry
<1>9. /\ Plain(peek, now[w])
      /\ peek.allowed <=> Room(algorithm, entry, now[w])
      /\ peek.remaining > 0 => Room(algorithm, entry, now[w])
  BY <1>1, <1>7, PeekSays
<1>10. algorithm = "fixed_window" => peek.allowed \/ peek.retry_after = WindowEnds(now[w])
  BY <1>1, <1>7, FixedPeekSays DEF Held
<1> HIDE DEF peek
<1>11. /\ told' \in [Keys -> Reply \cup {None}]
       /\ \A k \in Keys \ {j} : told'[k] = told[k]
       /\ told'[j].allowed <=> peek.allowed
       /\ told'[j].more <=> peek.remaining > 0
       /\ told'[j].come_back /= None =>
            ~peek.allowed /\ told'[j].come_back = now[w] + peek.retry_after
  BY <1>1, <1>6, <1>9, ToldFacts
<1>12. now[w] <= clock + behind
  BY <1>1, <1>2
<1>13. ReplyOK(algorithm, data'[j], told'[j], clock + behind, behind)
  <2>1. algorithm \in Aligned /\ data'[j] /= None => HasBegun(data'[j].entry, clock + behind)
    <3> SUFFICES ASSUME algorithm \in Aligned, data'[j] /= None
                 PROVE  HasBegun(entry, clock + behind)
      BY <1>5
    <3>1. HasBegun(entry, now[w]) /\ entry \in StorageEntry \cup {None}
      BY <1>7 DEF Held
    <3>2. entry /= None => entry.window_start \in Nat
      BY <3>1 DEF StorageEntry
    <3> QED
      BY <1>1, <1>12, <3>1, <3>2 DEF HasBegun
  <2>2. peek.remaining > 0 => Room(algorithm, entry, clock + behind)
    BY <1>1, <1>7, <1>9, <1>12, RoomLater
  <2>3. algorithm = "fixed_window" /\ told'[j].come_back /= None =>
          /\ told'[j].come_back = WindowStart(told'[j].come_back)
          /\ data'[j] /= None => data'[j].entry.window_start < told'[j].come_back
    <3> SUFFICES ASSUME algorithm = "fixed_window", told'[j].come_back /= None
                 PROVE  /\ told'[j].come_back = WindowStart(told'[j].come_back)
                        /\ data'[j] /= None => data'[j].entry.window_start < told'[j].come_back
      OBVIOUS
    <3>1. told'[j].come_back = now[w] + WindowEnds(now[w])
      BY <1>10, <1>11
    <3>2. /\ now[w] + WindowEnds(now[w]) \in Nat
          /\ WindowStart(now[w]) < now[w] + WindowEnds(now[w])
          /\ WindowStart(now[w] + WindowEnds(now[w])) = now[w] + WindowEnds(now[w])
      BY <1>1, EndIsStart
    <3>3. ASSUME data'[j] /= None PROVE entry.window_start < now[w] + WindowEnds(now[w])
      <4>1. entry \in StorageEntry /\ entry /= None
        <5>1. data[j].entry \in StorageEntry
          BY <1>1, <1>5, <3>3 DEF InternalEntry
        <5> QED
          BY <1>5, <3>3, <5>1, MemoryStorageAssumption
      <4>2. entry.window_start = WindowStart(entry.window_start)
            /\ entry.window_start <= now[w] /\ entry.window_start \in Nat
        BY <1>7, <4>1 DEF Held, HasBegun, Aligned, StorageEntry
      <4>3. WindowStart(entry.window_start) <= WindowStart(now[w])
            /\ WindowStart(now[w]) \in Nat
        BY <1>1, <4>2, WindowStartMonotone, WindowStartType
      <4> QED
        BY <3>2, <4>2, <4>3
    <3> QED
      BY <1>5, <3>1, <3>2, <3>3
  <2> QED
    BY <1>5, <1>11, <2>1, <2>2, <2>3 DEF ReplyOK
<1>14. ReplyOK(algorithm, data[j], told[j], started[w], behind)
  BY <1>2 DEF RepliesOK
<1>15. ASSUME behind = 0, told[j] /= None, told[j].more PROVE told'[j].allowed
  <2>1. Room(algorithm, entry, now[w])
    <3>1. CASE entry = None
      BY <1>1, <3>1, RoomForOne
    <3>2. CASE entry /= None
      BY <1>2, <1>8, <1>14, <1>15, <3>2 DEF ReplyOK
    <3> QED
      BY <3>1, <3>2
  <2> QED
    BY <1>9, <1>11, <2>1
<1>16. ASSUME algorithm = "fixed_window", told[j] /= None, told[j].come_back /= None,
              now[w] >= told[j].come_back
       PROVE  told'[j].allowed
  <2>1. Room(algorithm, entry, now[w])
    <3>1. CASE entry = None
      BY <1>1, <3>1, RoomForOne
    <3>2. CASE entry /= None
      <4>1. told[j].come_back \in Nat
        BY <1>1, <1>16 DEF Reply
      <4>2. /\ told[j].come_back = WindowStart(told[j].come_back)
            /\ entry.window_start < told[j].come_back
        BY <1>8, <1>14, <1>16, <3>2 DEF ReplyOK
      <4>3. told[j].come_back <= WindowStart(now[w]) /\ WindowStart(now[w]) \in Nat
        BY <1>1, <1>16, <4>1, <4>2, WindowStartMonotone, WindowStartType
      <4>4. entry.window_start \in Nat
        BY <1>7, <3>2 DEF Held, StorageEntry
      <4>5. CountAt(entry, now[w]) = 0
        BY <4>1, <4>2, <4>3, <4>4 DEF CountAt
      <4> QED
        BY <1>1, <1>16, <4>5 DEF Room, Buckets
    <3> QED
      BY <3>1, <3>2
  <2> QED
    BY <1>9, <1>11, <2>1
<1> QED
  BY <1>5, <1>11, <1>13, <1>15, <1>16

\* The end of a call, in one: what it tells, and what it makes true.
LEMMA EndingTells ==
  ASSUME TypeOK, CallsOK, NEW w \in Workers, Inv(w), RepliesOK(w), Ending(w)
  PROVE  /\ told' \in [Keys -> Reply \cup {None}]
         /\ call[w].key \in Keys
         /\ \A k \in Keys \ {call[w].key} : data'[k] = data[k] /\ told'[k] = told[k]
         /\ LET j == call[w].key
            IN  /\ ReplyOK(algorithm, data'[j], told'[j], clock + behind, behind)
                /\ told[j] /= None /\ told'[j] /= None =>
                     /\ behind = 0 /\ told[j].more => told'[j].allowed
                     /\ algorithm = "fixed_window" /\ told[j].come_back /= None
                          /\ now[w] >= told[j].come_back => told'[j].allowed
<1>1. call[w].op \in Calls
  BY DEF Ending, Record, CountRecord, PeekHit, PeekMiss, Forget, ExecuteCommit,
         IncrementCommit, GetHit, GetMiss, GetRemove, DeleteCommit, At, Calls
<1>2. PICK j \in Keys : j = call[w].key
  BY <1>1, KeyFacts
<1>3. CASE Record(w)
  <2>1. algorithm /= "fixed_window"
    BY <1>3 DEF Record, ExecuteCommit, At, CallsOK, CallsMade
  <2> QED
    BY <1>2, <1>3, <2>1, RecordTells
<1>4. CASE CountRecord(w)
  BY <1>2, <1>4, CountTells
<1>5. CASE PeekHit(w) \/ PeekMiss(w)
  BY <1>2, <1>5, PeekTells
<1>6. CASE Forget(w)
  <2>1. /\ told' = [told EXCEPT ![j] = None] /\ data' = [data EXCEPT ![j] = None]
    BY <1>2, <1>6 DEF Forget, DeleteCommit
  <2>2. /\ told \in [Keys -> Reply \cup {None}]
        /\ data \in [Keys -> InternalEntry \cup {None}]
    BY DEF RepliesOK, TypeOK, StorageTypeOK
  <2>3. /\ told' \in [Keys -> Reply \cup {None}] /\ told'[j] = None /\ data'[j] = None
        /\ \A k \in Keys \ {j} : data'[k] = data[k] /\ told'[k] = told[k]
    BY <2>1, <2>2
  <2>4. ReplyOK(algorithm, data'[j], told'[j], clock + behind, behind)
    BY <2>3 DEF ReplyOK
  <2> QED
    BY <1>2, <2>3, <2>4
<1> QED
  BY <1>3, <1>4, <1>5, <1>6 DEF Ending

\* Nothing is told, and nothing but time adds to what is stored.
LEMMA NothingTold ==
  ASSUME TypeOK, CallsOK, TypeOK', NEW w \in Workers, Inv(w), RepliesOK(w),
         told' = told, algorithm' = algorithm,
         \A k \in Keys : data'[k] \in {data[k], None},
         Base(w) <= Base(w)', behind <= behind'
  PROVE  RepliesOK(w)'
<1>1. /\ Base(w) \in Nat /\ behind \in Nat
  BY CallFacts
<1>2. /\ clock' \in Nat /\ behind' \in Nat /\ started'[w] \in Nat
  BY LimiterAssumption DEF TypeOK, StorageTypeOK
<1>3. Base(w)' \in Nat
  <2>1. \A a, b \in Nat : a + b \in Nat
    OBVIOUS
  <2>2. clock' + behind' \in Nat
    BY <1>2, <2>1
  <2> QED
    BY <1>2, <2>2 DEF Base
<1>4. ASSUME NEW k \in Keys
      PROVE  ReplyOK(algorithm, data'[k], told[k], Base(w)', behind')
  <2>1. ReplyOK(algorithm, data[k], told[k], Base(w), behind)
    BY DEF RepliesOK
  <2>2. data[k] /= None => Held(algorithm, data[k].entry, Base(w))
    BY StoredIsHeld
  <2>3. data'[k] \in {data[k], None}
    OBVIOUS
  <2> QED
    BY <1>1, <1>2, <1>3, <2>1, <2>2, <2>3, ReplyStays
<1>5. told' \in [Keys -> Reply \cup {None}]
  BY DEF RepliesOK
<1> QED
  BY <1>4, <1>5 DEF RepliesOK

LEMMA RepliesInit ==
  ASSUME Init, NEW w \in Workers
  PROVE  RepliesOK(w)
<1>1. told = [k \in Keys |-> None] /\ data = [k \in Keys |-> None]
  BY DEF Init, StorageInit
<1>2. \A k \in Keys : told[k] = None /\ data[k] = None
  BY <1>1
<1>3. told \in [Keys -> Reply \cup {None}]
  BY <1>1
<1> QED
  BY <1>2, <1>3 DEF RepliesOK, ReplyOK

LEMMA RepliesStep ==
  ASSUME NEW w, Alone(w), TypeOK, CallsOK, TypeOK', Inv(w), RepliesOK(w), [Next]_vars
  PROVE  RepliesOK(w)'
<1>0. w \in Workers
  BY DEF Alone
<1>1. /\ clock \in Nat /\ behind \in Nat /\ clock + behind \in Nat
      /\ Base(w) \in Nat /\ Base(w) <= clock + behind
  BY <1>0, CallFacts
<1>2. ASSUME Time \/ StepBack \/ UNCHANGED vars
      PROVE  RepliesOK(w)'
  <2>1. UNCHANGED <<data, call, algorithm, started, told>>
    BY <1>2 DEF Time, Tick, StepBack, vars, storageVars
  <2>2. clock + behind <= clock' + behind' /\ behind <= behind'
    <3>1. CASE Time
      BY <1>1, <3>1 DEF Time, Tick
    <3>2. CASE StepBack
      <4>1. PICK step \in 1..(MaxStep - behind) :
              clock' = clock - step /\ behind' = behind + step
        BY <3>2 DEF StepBack
      <4>2. MaxStep \in Nat
        BY LimiterAssumption
      <4> QED
        BY <1>1, <4>1, <4>2
    <3>3. CASE UNCHANGED vars
      BY <1>1, <3>3 DEF vars, storageVars
    <3> QED
      BY <1>2, <3>1, <3>2, <3>3
  <2>3. Base(w) <= Base(w)'
    <3>1. Busy(w)' <=> Busy(w)
      BY <2>1 DEF Busy
    <3>2. CASE Busy(w)
      <4>1. Base(w)' = Base(w)
        BY <2>1, <3>1, <3>2 DEF Base
      <4> QED
        BY <1>1, <4>1
    <3>3. CASE ~Busy(w)
      <4>1. Base(w)' = clock' + behind' /\ Base(w) = clock + behind
        BY <3>1, <3>3 DEF Base
      <4> QED
        BY <2>2, <4>1
    <3> QED
      BY <3>2, <3>3
  <2> QED
    BY <1>0, <2>1, <2>2, <2>3, NothingTold
<1>3. ASSUME \E v \in Workers, k \in Keys : StartSome(v, k)
      PROVE  RepliesOK(w)'
  <2>1. PICK j \in Keys : StartSome(w, j)
    BY <1>3 DEF Alone
  <2>2. PICK op \in Operations, ttl \in Nat :
          /\ Begin(w, op, j, ttl) /\ op \in Calls
          /\ started' = [started EXCEPT ![w] = clock + behind]
          /\ UNCHANGED <<algorithm, behind>>
    BY <1>0, <2>1, StartFacts
  <2>3. told' = told
    BY <2>1 DEF StartSome, CheckAndRecord, Check, Reset, Start
  <2>4. ~Busy(w) /\ Busy(w)' /\ data' = data
    BY <1>0, <2>2 DEF Begin, Busy, FirstPhase, Calls, TypeOK, StorageTypeOK
  <2>5. Base(w)' = Base(w)
    <3>1. started'[w] = clock + behind
      BY <1>0, <2>2 DEF TypeOK
    <3> QED
      BY <2>4, <3>1 DEF Base
  <2> QED
    BY <1>0, <1>1, <2>2, <2>3, <2>4, <2>5, NothingTold
<1>4. ASSUME \E v \in Workers : Internal(v) \/ Ending(v)
      PROVE  RepliesOK(w)'
  <2>1. Internal(w) \/ Ending(w)
    BY <1>4 DEF Alone
  <2>2. CASE Internal(w)
    <3>1. /\ Busy(w) /\ Busy(w)'
          /\ UNCHANGED <<clock, algorithm, behind, now, started, told>>
          /\ \A k \in Keys : data'[k] \in {data[k], None}
      BY <1>0, <2>2, InternalFacts
    <3>2. Base(w)' = Base(w)
      BY <3>1 DEF Base
    <3> QED
      BY <1>0, <1>1, <3>1, <3>2, NothingTold
  <2>3. CASE Ending(w)
    <3>1. /\ call' = [call EXCEPT ![w] = NoCall]
          /\ UNCHANGED <<clock, algorithm, behind>>
      BY <1>0, <2>3, EndFacts
    <3>2. ~Busy(w)'
      BY <1>0, <3>1 DEF Busy, NoCall, TypeOK, StorageTypeOK
    <3>3. Base(w)' = clock + behind
      BY <3>1, <3>2 DEF Base
    <3>4. /\ told' \in [Keys -> Reply \cup {None}]
          /\ \A k \in Keys \ {call[w].key} : data'[k] = data[k] /\ told'[k] = told[k]
          /\ ReplyOK(algorithm, data'[call[w].key], told'[call[w].key], clock + behind, behind)
      BY <1>0, <2>3, EndingTells
    <3>5. ASSUME NEW k \in Keys
          PROVE  ReplyOK(algorithm, data'[k], told'[k], clock + behind, behind)
      <4>1. CASE k = call[w].key
        BY <3>4, <4>1
      <4>2. CASE k /= call[w].key
        <5>1. data'[k] = data[k] /\ told'[k] = told[k]
          BY <3>4, <4>2
        <5>2. ReplyOK(algorithm, data[k], told[k], Base(w), behind)
          BY DEF RepliesOK
        <5>3. data[k] /= None => Held(algorithm, data[k].entry, Base(w))
          BY <1>0, StoredIsHeld
        <5>4. ReplyOK(algorithm, data[k], told[k], clock + behind, behind)
          BY <1>1, <5>2, <5>3, ReplyStays
        <5> QED
          BY <5>1, <5>4
      <4> QED
        BY <4>1, <4>2
    <3> QED
      BY <3>1, <3>3, <3>4, <3>5 DEF RepliesOK
  <2> QED
    BY <2>1, <2>2, <2>3
<1> QED
  BY Zenon, <1>2, <1>3, <1>4, NextCases

\* All that holds of the limiter with one worker.
AllOK(w) == TypeOK /\ CallsOK /\ Inv(w) /\ RepliesOK(w)

LEMMA AllHolds == ASSUME NEW v, Alone(v) PROVE Spec => []AllOK(v)
<1>0. v \in Workers
  BY DEF Alone
<1>1. Init => AllOK(v)
  BY <1>0, TypeInit, CallsMadeInit, InvInit, RepliesInit DEF AllOK
<1>2. AllOK(v) /\ [Next]_vars => AllOK(v)'
  <2> SUFFICES ASSUME AllOK(v), [Next]_vars PROVE AllOK(v)'
    OBVIOUS
  <2>0. TypeOK /\ CallsOK /\ Inv(v) /\ RepliesOK(v)
    BY DEF AllOK
  <2>1. TypeOK' /\ CallsOK'
    BY <2>0, TypeStep, CallsMadeStep
  <2>2. Inv(v)'
    BY <2>0, <2>1, InvStep
  <2>3. RepliesOK(v)'
    BY <2>0, <2>1, RepliesStep
  <2> QED
    BY <2>1, <2>2, <2>3 DEF AllOK
<1> QED
  BY <1>1, <1>2, PTL DEF Spec

\* What stands stored on each key is what its caller was told: with more to come
\* there is room for the next request, and whoever is to come back comes to a
\* window in which nobody was counted.
THEOREM RepliesInvariant == ASSUME NEW v, Alone(v) PROVE Spec => []LimiterInv
<1>1. AllOK(v) => LimiterInv
  <2> SUFFICES ASSUME AllOK(v) PROVE LimiterInv
    OBVIOUS
  <2>0. TypeOK /\ CallsOK /\ Inv(v) /\ RepliesOK(v) /\ v \in Workers /\ Workers = {v}
    BY DEF AllOK, Alone
  <2>1. RatesInv
    BY <2>0 DEF RatesInv, Inv, CallsOK
  <2>2. ASSUME NEW k \in Keys
        PROVE  Begun(v, k) /\ MoreToCome(v, k) /\ NewWindow(k)
    <3>0. ReplyOK(algorithm, data[k], told[k], Base(v), behind)
      BY <2>0 DEF RepliesOK
    <3>1. CASE data[k] = None
      BY <3>0, <3>1 DEF ReplyOK, Begun, MoreToCome, NewWindow
    <3>2. CASE data[k] /= None
      <4>1. Held(algorithm, data[k].entry, Base(v))
        BY <2>0, <3>2, StoredIsHeld
      <4>2. Base(v) \in Nat /\ algorithm \in Algorithms
        BY <2>0, CallFacts DEF TypeOK
      <4>3. Peek(data[k].entry, Base(v)).allowed <=> Room(algorithm, data[k].entry, Base(v))
        BY <4>1, <4>2, PeekSays
      <4>4. data[k].entry /= None
        <5>1. data[k].entry \in StorageEntry
          BY <2>0, <3>2 DEF TypeOK, StorageTypeOK, InternalEntry
        <5> QED
          BY <5>1, MemoryStorageAssumption
      <4> QED
        BY <3>0, <4>3, <4>4 DEF ReplyOK, HasBegun, Begun, MoreToCome, NewWindow
    <3> QED
      BY <3>1, <3>2
  <2>3. told \in [Keys -> Reply \cup {None}]
    BY <2>0 DEF RepliesOK
  <2> QED
    BY <2>0, <2>1, <2>2, <2>3 DEF RepliesInv, LimiterInv
<1>2. Spec => []AllOK(v)
  BY AllHolds
<1> QED
  BY <1>1, <1>2, PTL

\* A step that answers a call on k is the last one of the call.
LEMMA AnswersEnd ==
  ASSUME NEW w, Alone(w), TypeOK, CallsOK, [Next]_vars,
         NEW k \in Keys, call[w].key = k, call'[w] = NoCall
  PROVE  Ending(w)
<1>0. w \in Workers /\ None \notin Keys
  BY MemoryStorageAssumption DEF Alone
<1>1. call[w] /= NoCall /\ ~Busy(w)'
  BY <1>0 DEF NoCall, Busy
<1>2. ~(Time \/ StepBack \/ UNCHANGED vars)
  BY <1>1 DEF Time, Tick, StepBack, vars, storageVars
<1>3. ~\E v \in Workers, j \in Keys : StartSome(v, j)
  <2> SUFFICES ASSUME NEW j \in Keys, StartSome(w, j) PROVE FALSE
    BY DEF Alone
  <2>1. PICK op \in Operations, ttl \in Nat : Begin(w, op, j, ttl) /\ op \in Calls
    BY <1>0, StartFacts
  <2>2. Busy(w)'
    <3>1. call'[w].phase \in {"commit", "enter"}
      BY <1>0, <2>1 DEF Begin, FirstPhase, Calls, TypeOK, StorageTypeOK, NoCall
    <3> QED
      BY <3>1 DEF Busy
  <2> QED
    BY <1>1, <2>2
<1>4. ~Internal(w)
  BY <1>0, <1>1, InternalFacts
<1>5. \E v \in Workers : Internal(v) \/ Ending(v)
  BY Zenon, <1>2, <1>3, NextCases
<1> QED
  BY <1>4, <1>5 DEF Alone

\* While a reply said that requests remain, the next request on the key is let
\* through, whether the reply was to a request or to a peek and however late the
\* next comes; for each of the five algorithms.
THEOREM RemainingIsHonoured == ASSUME NEW v, Alone(v) PROVE Spec => RemainingHonoured
<1>1. AllOK(v) /\ [Next]_vars =>
        [\A k \in Keys : Followed(k) /\ told[k].more => told'[k].allowed]_vars
  <2> SUFFICES ASSUME AllOK(v), [Next]_vars, NEW k \in Keys, Followed(k), told[k].more
               PROVE  told'[k].allowed
    OBVIOUS
  <2>0. TypeOK /\ CallsOK /\ Inv(v) /\ RepliesOK(v) /\ v \in Workers
    BY DEF AllOK, Alone
  <2>1. call[v].key = k /\ call'[v] = NoCall
    BY DEF Followed, Alone
  <2>2. Ending(v)
    BY <2>0, <2>1, AnswersEnd
  <2> QED
    BY <2>0, <2>1, <2>2, EndingTells DEF Followed
<1>2. Spec => []AllOK(v)
  BY AllHolds
<1> QED
  BY <1>1, <1>2, PTL DEF Spec, RemainingHonoured

\* With the fixed window, whoever was denied and comes back as late as told is let
\* through.
THEOREM FixedRetryIsHonoured == ASSUME NEW v, Alone(v) PROVE Spec => FixedRetryHonoured
<1>1. AllOK(v) /\ [Next]_vars =>
        [\A k \in Keys :
           algorithm = "fixed_window" /\ Followed(k) /\ told[k].come_back /= None
             /\ (\E w \in Workers : Busy(w) /\ ~Busy(w)' /\ now[w] >= told[k].come_back) =>
               told'[k].allowed]_vars
  <2> SUFFICES ASSUME AllOK(v), [Next]_vars, NEW k \in Keys,
                      algorithm = "fixed_window", Followed(k), told[k].come_back /= None,
                      \E w \in Workers : Busy(w) /\ ~Busy(w)' /\ now[w] >= told[k].come_back
               PROVE  told'[k].allowed
    OBVIOUS
  <2>0. TypeOK /\ CallsOK /\ Inv(v) /\ RepliesOK(v) /\ v \in Workers
    BY DEF AllOK, Alone
  <2>1. call[v].key = k /\ call'[v] = NoCall /\ now[v] >= told[k].come_back
    BY DEF Followed, Alone
  <2>2. Ending(v)
    BY <2>0, <2>1, AnswersEnd
  <2> QED
    BY <2>0, <2>1, <2>2, EndingTells DEF Followed
<1>2. Spec => []AllOK(v)
  BY AllHolds
<1> QED
  BY <1>1, <1>2, PTL DEF Spec, FixedRetryHonoured
=============================================================================
