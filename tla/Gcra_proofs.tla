----------------------------- MODULE Gcra_proofs -----------------------------
(***************************************************************************)
(* Lemmas about the pure part of GCRA, for every quota: the durations are  *)
(* natural numbers, and what a decision makes of the TAT it finds.         *)
(***************************************************************************)
EXTENDS Gcra, Integers, TLAPS

(***************************************************************************)
(* The quota                                                               *)
(***************************************************************************)

\* Truncating division of naturals gives a natural.
LEMMA DivisionIsNat ==
  ASSUME NEW a \in Nat, NEW b \in Nat \ {0}
  PROVE  a \div b \in Nat
  BY SMT

\* GCRA's durations are natural numbers of milliseconds.
LEMMA QuotaTypes == Period \in Nat /\ MaxTatOffset \in Nat /\ Ttl \in Nat
<1>1. EffectiveBurst \in Nat \ {0}
  BY QuotaAssumption DEF EffectiveBurst
<1>2. PeriodNs \in Nat
  <2>1. 2 * MaxRequests \in Nat \ {0}
    BY QuotaAssumption
  <2>2. 2 * WindowMs * NsPerMs \in Nat
    BY QuotaAssumption DEF NsPerMs
  <2>3. 2 * WindowMs * NsPerMs + MaxRequests \in Nat
    BY <2>2, QuotaAssumption
  <2> QED
    BY <2>1, <2>3, DivisionIsNat DEF PeriodNs
<1>3. NsPerMs \in Nat \ {0}
  BY DEF NsPerMs
<1>4. Period \in Nat
  BY <1>2, <1>3, DivisionIsNat DEF Period
<1>5. PeriodNs * (EffectiveBurst - 1) \in Nat
  BY <1>1, <1>2
<1>6. MaxTatOffset \in Nat
  BY <1>5, <1>3, DivisionIsNat DEF MaxTatOffset
<1> QED
  BY <1>4, <1>6 DEF Ttl

\* What a decision is made of, and what it says of the TAT it leaves: at most a
\* burst ahead when the request is let through, otherwise the one it found.
LEMMA DecisionFacts ==
  ASSUME NEW tat \in Nat \cup {None}, NEW t \in Nat
  PROVE  LET d == CalculateDecision(tat, t)
         IN  /\ d \in Decision
             /\ d.allowed => /\ tat \in Nat => d.tat >= tat + Period
                             /\ d.tat >= t + Period
                             /\ d.tat <= t + MaxTatOffset + Period
             /\ ~d.allowed => tat \in Nat /\ d.tat = tat
<1> DEFINE effective == IF tat = None THEN t ELSE tat
           new == Later(effective, t) + Period
<1>1. effective \in Nat /\ (tat \in Nat => effective = tat) /\ (tat \notin Nat => effective = t)
  BY NoneAssumption
<1>2. new \in Nat /\ new >= effective + Period /\ new >= t + Period
  BY <1>1, QuotaTypes DEF Later
<1>3. effective = t => new = t + Period
  BY <1>1 DEF Later
<1>4. CASE new - t <= MaxTatOffset + Period
  <2>1. CalculateDecision(tat, t) = [allowed |-> TRUE, tat |-> new]
    BY <1>4 DEF CalculateDecision
  <2> HIDE DEF effective, new
  <2>2. new <= t + MaxTatOffset + Period
    BY <1>2, <1>4, QuotaTypes
  <2> QED
    BY <1>1, <1>2, <2>1, <2>2 DEF Decision
<1>5. CASE ~(new - t <= MaxTatOffset + Period)
  <2>1. CalculateDecision(tat, t) = [allowed |-> FALSE, tat |-> effective]
    BY <1>5 DEF CalculateDecision
  <2> HIDE DEF effective, new
  <2>2. effective /= t
    BY <1>3, <1>5, QuotaTypes
  <2> QED
    BY <1>1, <2>1, <2>2 DEF Decision
<1> QED
  BY <1>4, <1>5

\* The rule itself: a request is let through unless the TAT is further ahead
\* than the burst tolerance.
LEMMA DecisionRule ==
  ASSUME NEW tat \in Nat \cup {None}, NEW t \in Nat
  PROVE  CalculateDecision(tat, t).allowed <=> tat = None \/ tat <= t + MaxTatOffset
<1> DEFINE effective == IF tat = None THEN t ELSE tat
           later     == Later(effective, t)
           new       == later + Period
<1>1. CalculateDecision(tat, t).allowed <=> new - t <= MaxTatOffset + Period
  BY DEF CalculateDecision
<1>2. effective \in Nat
  BY NoneAssumption
<1> HIDE DEF effective
<1>3. later \in Nat /\ (later <= t + MaxTatOffset <=> effective <= t + MaxTatOffset)
  BY <1>2, QuotaTypes DEF Later
<1> HIDE DEF later
<1>4. new - t <= MaxTatOffset + Period <=> later <= t + MaxTatOffset
  BY <1>3, QuotaTypes
<1>5. effective <= t + MaxTatOffset <=> tat = None \/ tat <= t + MaxTatOffset
  BY QuotaTypes, NoneAssumption DEF effective
<1> QED
  BY <1>1, <1>3, <1>4, <1>5

\* What a denied client is told: to wait until its TAT is within the tolerance.
LEMMA DeniedWait ==
  ASSUME NEW tat \in Nat, NEW t \in Nat, tat > t + MaxTatOffset, NEW d,
         ~d.allowed, d.tat = tat
  PROVE  RetryAfter(d, t) \in Nat /\ t + RetryAfter(d, t) + MaxTatOffset = tat
<1>1. Minus(tat, t) = tat - t
  BY QuotaTypes DEF Minus
<1>2. Minus(tat - t, MaxTatOffset) = tat - t - MaxTatOffset
  BY QuotaTypes DEF Minus
<1>3. tat - t - MaxTatOffset \in Nat \ {0}
  BY QuotaTypes
<1>4. RetryAfter(d, t) = tat - t - MaxTatOffset
  BY <1>1, <1>2, <1>3 DEF RetryAfter
<1> QED
  BY <1>3, <1>4, QuotaTypes

\* An entry made of a TAT is an entry.
LEMMA WithTatType == \A t \in Nat : WithTat(t) \in StorageEntry
  BY DEF WithTat, NewEntry, StorageEntry

(***************************************************************************)
(* What a decision tells                                                   *)
(***************************************************************************)
LEMMA DivisionBounds ==
  ASSUME NEW a \in Nat, NEW b \in Nat \ {0}
  PROVE  b * (a \div b) <= a /\ a < b * (a \div b) + b
  BY SMT

\* The quotient is the largest number of times the divisor goes in.
LEMMA DivisionLargest ==
  ASSUME NEW a \in Nat, NEW b \in Nat \ {0}, NEW q \in Nat, b * q <= a
  PROVE  q <= a \div b
<1> DEFINE d == a \div b
<1>1. d \in Nat /\ a < b * d + b
  BY DivisionIsNat, DivisionBounds
<1> HIDE DEF d
<1>2. b * d + b = b * (d + 1)
  BY <1>1
<1>3. b * q < b * (d + 1)
  BY <1>1, <1>2
<1>4. q < d + 1
  BY <1>1, <1>3
<1> QED
  BY <1>1, <1>4 DEF d

\* A decision about a divisible TAT is told as a Decision.
LEMMA ReplyType ==
  ASSUME NEW d \in Decision, NEW t \in Nat, ~DividesByZero(d, t)
  PROVE  Reply(d, t) \in DecisionInfo
<1>1. d.tat \in Nat /\ d.allowed \in BOOLEAN
  BY DEF Decision
<1>2. EffectiveBurst \in Nat
  BY QuotaAssumption DEF EffectiveBurst
<1>3. \A x, y \in Nat : Minus(x, y) \in Nat
  BY DEF Minus
<1>4. Remaining(d.tat, t) \in Nat
  <2>1. CASE d.tat <= t
    BY <1>2, <2>1 DEF Remaining
  <2>2. CASE ~(d.tat <= t)
    <3>1. Period \in Nat \ {0} /\ d.tat - t \in Nat
      BY <1>1, <2>2, QuotaTypes DEF DividesByZero
    <3>2. (d.tat - t) \div Period \in Nat
      BY <3>1, DivisionIsNat
    <3>3. (d.tat - t) \div Period + 1 \in Nat
      BY <3>2
    <3> QED
      BY <1>2, <1>3, <2>2, <3>3 DEF Remaining
  <2> QED
    BY <2>1, <2>2
<1>5. Later(d.tat, t) \in Nat
  BY <1>1 DEF Later
<1>6. RetryAfter(d, t) \in Nat \cup {None}
  BY <1>1, <1>3, QuotaTypes DEF RetryAfter
<1> QED
  BY <1>1, <1>2, <1>4, <1>5, <1>6 DEF Reply, DecisionInfo

\* The tolerance holds a whole period for each request of the burst but one:
\* truncation to milliseconds takes no less from the period than from it.
LEMMA BurstFits == Period * (EffectiveBurst - 1) <= MaxTatOffset
<1> DEFINE n == EffectiveBurst - 1
           p == Period
<1>1. n \in Nat /\ p \in Nat /\ PeriodNs \in Nat /\ NsPerMs \in Nat \ {0}
  <2>1. EffectiveBurst \in Nat \ {0}
    BY QuotaAssumption DEF EffectiveBurst
  <2>2. PeriodNs \in Nat
    <3>1. 2 * MaxRequests \in Nat \ {0} /\ 2 * WindowMs * NsPerMs \in Nat
      BY QuotaAssumption DEF NsPerMs
    <3>2. 2 * WindowMs * NsPerMs + MaxRequests \in Nat
      BY <3>1, QuotaAssumption
    <3> QED
      BY <3>1, <3>2, DivisionIsNat DEF PeriodNs
  <2> QED
    BY <2>1, <2>2, QuotaTypes DEF NsPerMs
<1>2. NsPerMs * p <= PeriodNs
  BY <1>1, DivisionBounds DEF Period
<1>3. MaxTatOffset = (PeriodNs * n) \div NsPerMs
  BY DEF MaxTatOffset
<1> HIDE DEF n, p
<1>4. /\ NsPerMs * (p * n) = (NsPerMs * p) * n
      /\ (NsPerMs * p) * n <= PeriodNs * n
      /\ p * n \in Nat /\ PeriodNs * n \in Nat
  BY <1>1, <1>2
<1>5. NsPerMs * (p * n) <= PeriodNs * n
  BY <1>4
<1>6. p * n <= (PeriodNs * n) \div NsPerMs
  BY <1>1, <1>4, <1>5, DivisionLargest
<1> QED
  BY <1>3, <1>6 DEF n, p

\* What remains after a request is let through is what there is room for.
LEMMA RemainingFits ==
  ASSUME Period # 0, NEW tat \in Nat, NEW t \in Nat,
         tat >= t + Period, tat <= t + MaxTatOffset + Period
  PROVE  Remaining(tat, t) <= (t + MaxTatOffset + Period - tat) \div Period
<1> DEFINE x    == tat - t
           q    == x \div Period
           room == t + MaxTatOffset + Period - tat
<1>1. Period \in Nat \ {0} /\ MaxTatOffset \in Nat /\ x \in Nat /\ room \in Nat
      /\ room = MaxTatOffset + Period - x /\ ~(tat <= t)
  BY QuotaTypes
<1>2. q \in Nat /\ Period * q <= x
  BY <1>1, DivisionIsNat, DivisionBounds
<1>3. x < Period * q + Period
  BY <1>1, DivisionBounds
<1>4. EffectiveBurst \in Nat \ {0}
  BY QuotaAssumption DEF EffectiveBurst
<1>5. Remaining(tat, t) = Minus(EffectiveBurst, q + 1)
  BY <1>1 DEF Remaining
<1>6. room \div Period \in Nat
  BY <1>1, DivisionIsNat
<1> HIDE DEF x, q, room
<1>7. CASE EffectiveBurst >= q + 1
  <2> DEFINE m == EffectiveBurst - (q + 1)
  <2>1. m \in Nat /\ Minus(EffectiveBurst, q + 1) = m /\ EffectiveBurst - 1 = m + q
    BY <1>2, <1>4, <1>7 DEF Minus
  <2> HIDE DEF m
  <2>2. Period * (m + q) <= MaxTatOffset
    BY <2>1, BurstFits
  <2>3. Period * (m + q) = Period * m + Period * q /\ Period * m \in Nat
        /\ Period * q \in Nat
    BY <1>1, <1>2, <2>1
  <2>4. Period * m <= room
    BY <1>1, <1>2, <1>3, <2>2, <2>3
  <2> QED
    BY <1>1, <1>5, <2>1, <2>4, DivisionLargest DEF room
<1>8. CASE ~(EffectiveBurst >= q + 1)
  BY <1>5, <1>6, <1>8 DEF Minus, room
<1> QED
  BY <1>7, <1>8

(***************************************************************************)
(* Logs of admitted requests, and their debt                               *)
(***************************************************************************)
\* Orders are kept when both sides move by the same duration.
LEMMA Shifted ==
  \A s, t, p \in Nat :
    s <= t => /\ s + p \in Int /\ t + p \in Int /\ s + p <= t + p
              /\ s - p \in Int /\ t - p \in Int /\ s - p <= t - p
  OBVIOUS

LEMMA DebtMonotone ==
  ASSUME NEW log \in Seq(Nat), NEW s \in Int, NEW t \in Int, s <= t, DebtBy(log, s)
  PROVE  DebtBy(log, t)
<1> SUFFICES ASSUME NEW i \in 1..Len(log)
             PROVE  log[i] + (Len(log) - i + 1) * Period <= t
  BY DEF DebtBy
<1>1. log[i] + (Len(log) - i + 1) * Period <= s
  BY DEF DebtBy
<1>2. log[i] + (Len(log) - i + 1) * Period \in Int
  BY QuotaTypes
<1> QED
  BY <1>1, <1>2

\* A request adds one period to the debt, counted from its arrival at least.
LEMMA AppendDebt ==
  ASSUME NEW log \in Seq(Nat), NEW a \in Nat, NEW t \in Int, NEW u \in Int,
         DebtBy(log, t), t + Period <= u, a + Period <= u
  PROVE  DebtBy(Append(log, a), u)
<1> DEFINE new == Append(log, a)
<1>1. /\ new \in Seq(Nat) /\ Len(new) = Len(log) + 1
      /\ \A i \in 1..Len(log) : new[i] = log[i]
      /\ new[Len(new)] = a
  OBVIOUS
<1> SUFFICES ASSUME NEW i \in 1..Len(new)
             PROVE  new[i] + (Len(new) - i + 1) * Period <= u
  BY DEF DebtBy
<1> HIDE DEF new
<1>2. CASE i = Len(new)
  <2>1. (Len(new) - i + 1) * Period = Period
    BY <1>2, QuotaTypes
  <2> QED
    BY <1>1, <1>2, <2>1
<1>3. CASE i /= Len(new)
  <2>1. i \in 1..Len(log) /\ new[i] = log[i] /\ Len(new) = Len(log) + 1
    BY <1>1, <1>3
  <2> DEFINE m == Len(log) - i + 1
  <2>2. m \in Nat /\ Len(new) - i + 1 = m + 1
    BY <2>1
  <2>3. log[i] + m * Period <= t
    BY <2>1 DEF DebtBy
  <2> HIDE DEF m
  <2>4. (m + 1) * Period = m * Period + Period /\ m * Period \in Nat
    BY <2>2, QuotaTypes
  <2>5. log[i] \in Nat
    BY <2>1
  <2> DEFINE p == m * Period
  <2>6. (Len(new) - i + 1) * Period = p + Period
    BY <2>2, <2>4
  <2>7. p \in Nat /\ log[i] + p <= t
    BY <2>3, <2>4
  <2> HIDE DEF p
  <2> QED
    BY SMTT(30), <2>1, <2>5, <2>6, <2>7, QuotaTypes
<1> QED
  BY <1>2, <1>3

\* Debt within the tolerance of an arrival is what spacing from it means.
LEMMA DebtSpaces ==
  ASSUME NEW log \in Seq(Nat), NEW a \in Nat, DebtBy(log, a + MaxTatOffset),
         NEW i \in 1..Len(log)
  PROVE  LET new == Append(log, a)
         IN  (Len(new) - i) * Period <= (new[Len(new)] - new[i]) + MaxTatOffset
<1>1. /\ Append(log, a)[i] = log[i] /\ Len(Append(log, a)) = Len(log) + 1
      /\ Append(log, a)[Len(log) + 1] = a
  OBVIOUS
<1>2. log[i] + (Len(log) - i + 1) * Period <= a + MaxTatOffset
  BY DEF DebtBy
<1>3. (Len(log) + 1) - i = Len(log) - i + 1
  OBVIOUS
<1>4. (Len(log) - i + 1) * Period \in Int /\ log[i] \in Nat
  BY QuotaTypes
<1>5. (Len(log) - i + 1) * Period <= (a - log[i]) + MaxTatOffset
  BY <1>2, <1>4, QuotaTypes
<1> QED
  BY <1>1, <1>3, <1>5

\* Whoever is let through as if for the first time, with the debt past: the new
\* TAT, or the time c at which it is stored, covers the debt.
LEMMA FreshDebt ==
  ASSUME NEW log \in Seq(Nat), NEW a \in Nat, NEW c \in Nat, a <= c, NEW tat \in Nat,
         tat >= a + Period,
         DebtBy(log, a) \/ DebtBy(log, c - Period)
  PROVE  DebtBy(Append(log, a), Later(tat, c))
<1> DEFINE u == Later(tat, c)
<1>1. u \in Int /\ c <= u /\ tat <= u
  BY DEF Later
<1> HIDE DEF u
<1>2. a + Period <= u /\ (c - Period) + Period <= u /\ c - Period \in Int /\ a \in Int
  BY <1>1, QuotaTypes
<1>3. DebtBy(Append(log, a), u)
  BY <1>1, <1>2, AppendDebt
<1> QED
  BY <1>3 DEF u

\* Whoever is let through on a TAT that covers the debt leaves one that does.
LEMMA KnownDebt ==
  ASSUME NEW log \in Seq(Nat), NEW a \in Nat, NEW old \in Nat, NEW tat \in Nat,
         tat >= a + Period, tat >= old + Period, DebtBy(log, Later(old, a))
  PROVE  DebtBy(Append(log, a), tat)
<1> DEFINE s == Later(old, a)
<1>1. s \in Int /\ s + Period <= tat
  BY QuotaTypes DEF Later
<1> HIDE DEF s
<1> QED
  BY <1>1, AppendDebt DEF s

LEMMA EmptyLog == <<>> \in Seq(Nat) /\ \A i \in 1..Len(<<>>) : FALSE
<1>1. <<>> \in Seq(Nat) /\ Len(<<>>) = 0
  OBVIOUS
<1>2. \A i \in 1..0 : FALSE
  OBVIOUS
<1> QED
  BY <1>1, <1>2
=============================================================================
