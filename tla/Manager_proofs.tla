--------------------------- MODULE Manager_proofs ---------------------------
(***************************************************************************)
(* Theorems of Manager, for any clients, routes and quotas: type           *)
(* correctness for any workers, and, for one worker, that each route keeps *)
(* its own quota and that a denied client has used up no quota but that of *)
(* its route.                                                              *)
(***************************************************************************)
EXTENDS Manager, MemoryStorage_proofs, TLAPS

(***************************************************************************)
(* Quotas                                                                  *)
(***************************************************************************)
LEMMA DivisionIsNat ==
  ASSUME NEW a \in Nat, NEW b \in Nat \ {0}
  PROVE  a \div b \in Nat
  BY SMT

\* Under any quota the manager is given, the durations are natural numbers.
LEMMA QuotaNumbers ==
  ASSUME NEW quota, IsQuota(quota)
  PROVE  /\ PeriodOf(quota) \in Nat /\ OffsetOf(quota) \in Nat /\ TtlOf(quota) \in Nat
         /\ TtlOf(quota) = OffsetOf(quota) + PeriodOf(quota) + PeriodOf(quota)
<1> DEFINE a == quota.max_requests
           b == quota.window
           c == quota.burst
           ns == Rate(a, b, c)!PeriodNs
           burst == Rate(a, b, c)!EffectiveBurst
<1>1. a \in Nat \ {0} /\ b \in Nat \ {0} /\ burst \in Nat \ {0}
  BY DEF IsQuota, Rate!EffectiveBurst
<1>2. ns = (2 * b * 1000000 + a) \div (2 * a)
  BY DEF Rate!PeriodNs, Rate!NsPerMs
<1>3. PeriodOf(quota) = ns \div 1000000
  BY DEF PeriodOf, Rate!Period, Rate!NsPerMs
<1>4. OffsetOf(quota) = (ns * (burst - 1)) \div 1000000
  BY DEF OffsetOf, Rate!MaxTatOffset, Rate!NsPerMs
<1>5. TtlOf(quota) = OffsetOf(quota) + 2 * PeriodOf(quota)
  BY DEF TtlOf, OffsetOf, PeriodOf, Rate!Ttl
<1> HIDE DEF ns, burst
<1>6. ns \in Nat
  <2>1. 2 * a \in Nat \ {0} /\ 2 * b * 1000000 + a \in Nat
    BY <1>1
  <2> QED
    BY <1>2, <2>1, DivisionIsNat
<1>7. PeriodOf(quota) \in Nat
  BY <1>3, <1>6, DivisionIsNat
<1>8. OffsetOf(quota) \in Nat
  <2>1. ns * (burst - 1) \in Nat
    BY <1>1, <1>6
  <2> QED
    BY <1>4, <2>1, DivisionIsNat
<1> HIDE DEF a, b, c
<1> QED
  BY <1>5, <1>7, <1>8

LEMMA SlackBounds ==
  ASSUME NEW quota, IsQuota(quota)
  PROVE  /\ Slack(quota) \in Nat /\ Slack(quota) <= PeriodOf(quota)
         /\ Slack(quota) <= MaxLatency /\ MaxLatency \in Nat
         /\ Slack(quota) \in {MaxLatency, PeriodOf(quota)}
  BY QuotaNumbers, ManagerAssumption DEF Slack

LEMMA DecisionUnfolds ==
  ASSUME NEW a, NEW b, NEW c, NEW tat, NEW t, NEW p, NEW m,
         p = Rate(a, b, c)!Period, m = Rate(a, b, c)!MaxTatOffset
  PROVE  Rate(a, b, c)!CalculateDecision(tat, t) =
           LET effective == IF tat = None THEN t ELSE tat
               new == (IF effective >= t THEN effective ELSE t) + p
           IN  IF new - t <= m + p THEN [allowed |-> TRUE, tat |-> new]
               ELSE [allowed |-> FALSE, tat |-> effective]
  BY DEF Rate!CalculateDecision, Rate!Later

LEMMA DecisionOfUnfolds ==
  ASSUME NEW quota, NEW tat, NEW t
  PROVE  DecisionOf(quota, tat, t) =
           LET effective == IF tat = None THEN t ELSE tat
               new == (IF effective >= t THEN effective ELSE t) + PeriodOf(quota)
           IN  IF new - t <= OffsetOf(quota) + PeriodOf(quota) THEN [allowed |-> TRUE, tat |-> new]
               ELSE [allowed |-> FALSE, tat |-> effective]
<1>1. ASSUME NEW a, NEW b, NEW c,
             a = quota.max_requests, b = quota.window, c = quota.burst
      PROVE  DecisionOf(quota, tat, t) =
               LET effective == IF tat = None THEN t ELSE tat
                   new == (IF effective >= t THEN effective ELSE t) + PeriodOf(quota)
               IN  IF new - t <= OffsetOf(quota) + PeriodOf(quota) THEN [allowed |-> TRUE, tat |-> new]
                   ELSE [allowed |-> FALSE, tat |-> effective]
  <2>1. /\ DecisionOf(quota, tat, t) = Rate(a, b, c)!CalculateDecision(tat, t)
        /\ PeriodOf(quota) = Rate(a, b, c)!Period
        /\ OffsetOf(quota) = Rate(a, b, c)!MaxTatOffset
    BY <1>1 DEF DecisionOf, PeriodOf, OffsetOf
  <2> QED
    BY <2>1, DecisionUnfolds
<1> QED
  BY <1>1

\* The decision under a quota: let through unless the TAT is too far ahead, which
\* is then left as it was; otherwise a period is added to it, or to the arrival.
LEMMA DecisionIs ==
  ASSUME NEW quota, IsQuota(quota), NEW tat \in Nat \cup {None}, NEW t \in Nat
  PROVE  LET d == DecisionOf(quota, tat, t)
         IN  /\ d.tat \in Nat /\ d.allowed \in BOOLEAN
             /\ d.allowed <=> tat = None \/ tat <= t + OffsetOf(quota)
             /\ d.allowed /\ tat = None => d.tat = t + PeriodOf(quota)
             /\ d.allowed /\ tat \in Nat =>
                  d.tat = (IF tat >= t THEN tat ELSE t) + PeriodOf(quota)
             /\ ~d.allowed => tat \in Nat /\ d.tat = tat
<1> DEFINE m == OffsetOf(quota)
           p == PeriodOf(quota)
           effective == IF tat = None THEN t ELSE tat
           new == (IF effective >= t THEN effective ELSE t) + p
           d == DecisionOf(quota, tat, t)
<1>1. d = IF new - t <= m + p THEN [allowed |-> TRUE, tat |-> new]
                               ELSE [allowed |-> FALSE, tat |-> effective]
  BY DecisionOfUnfolds
<1>2. effective \in Nat /\ (tat = None => effective = t) /\ (tat /= None => effective = tat)
  OBVIOUS
<1>3. m \in Nat /\ p \in Nat
  BY QuotaNumbers
<1>4. None \notin Nat
  BY NoneAssumption
<1> HIDE DEF m, p, effective
<1>5. /\ new \in Nat /\ (effective >= t => new = effective + p)
      /\ (~(effective >= t) \/ effective = t => new = t + p)
      /\ (new - t <= m + p <=> effective <= t + m)
  BY <1>2, <1>3
<1> HIDE DEF new
<1>6. CASE effective <= t + m
  <2>1. d = [allowed |-> TRUE, tat |-> new]
    BY <1>1, <1>5, <1>6
  <2>2. tat = None => new = t + p
    BY <1>2, <1>5
  <2>3. tat \in Nat => new = (IF tat >= t THEN tat ELSE t) + p
    BY <1>2, <1>4, <1>5
  <2>4. tat = None \/ tat <= t + m
    BY <1>2, <1>6
  <2> HIDE DEF d
  <2> QED
    BY <1>5, <2>1, <2>2, <2>3, <2>4 DEF d, m, p
<1>7. CASE ~(effective <= t + m)
  <2>1. d = [allowed |-> FALSE, tat |-> effective]
    BY <1>1, <1>5, <1>7
  <2>2. effective /= t
    BY <1>3, <1>7
  <2>3. tat \in Nat /\ effective = tat /\ ~(tat = None \/ tat <= t + m)
    BY <1>2, <1>4, <1>7, <2>2
  <2> HIDE DEF d
  <2> QED
    BY <2>1, <2>3 DEF d, m, p
<1> QED
  BY <1>6, <1>7

LEMMA PanicsIs ==
  \A quota, d, t : Panics(quota, d, t) <=> PeriodOf(quota) = 0 /\ d.tat > t
  BY DEF Panics, Rate!DividesByZero, PeriodOf

(***************************************************************************)
(* Routes                                                                  *)
(***************************************************************************)
\* The first pattern that hits is one of the patterns.
LEMMA ConfigKnown ==
  ASSUME NEW m \in Managers, NEW path
  PROVE  GetConfig(m, path) = None \/ GetConfig(m, path) \in Configs(m)
<1>1. CASE path \in DOMAIN m.routes
  BY <1>1 DEF GetConfig, Configs
<1>2. CASE path \notin DOMAIN m.routes /\ Hits(m, path) /= {}
  <2>1. Hits(m, path) \subseteq DOMAIN m.patterns /\ DOMAIN m.patterns \subseteq Nat
    BY ManagerAssumption DEF Hits
  <2>2. Hits(m, path) \in SUBSET Nat
    BY <2>1
  <2>3. PICK n \in Hits(m, path) : \A i \in Hits(m, path) : ~(i < n)
    BY <1>2, <2>2, LeastElement
  <2>4. \A i \in Hits(m, path) : n <= i
    BY <2>2, <2>3
  <2>5. Min(Hits(m, path)) \in Hits(m, path)
    BY <2>4 DEF Min
  <2> QED
    BY <1>2, <2>1, <2>5 DEF GetConfig, Configs
<1>3. CASE path \notin DOMAIN m.routes /\ Hits(m, path) = {}
  BY <1>3 DEF GetConfig
<1> QED
  BY <1>1, <1>2, <1>3

\* What a call works out: a quota the builder accepted, or none, and a key.
LEMMA RoutingFacts ==
  ASSUME manager \in Managers, NEW r \in Requests
  PROVE  /\ QuotaOf(r) = Quota(manager, r.path) /\ KeyOf(r) = StoredKey(manager, r)
         /\ QuotaOf(r) = None \/ IsQuota(QuotaOf(r))
         /\ KeyOf(r) \in Keys /\ Stream(r) \in Keys /\ Stream(r) \in Streams
<1>1. QuotaOf(r) = Quota(manager, r.path) /\ KeyOf(r) = StoredKey(manager, r)
  BY DEF QuotaOf, KeyOf, Routing
<1>2. Stream(r) \in Streams /\ Stream(r) \in Keys
  BY ManagerAssumption DEF Streams
<1>3. CASE GetConfig(manager, r.path) = None
  <2>1. Quota(manager, r.path) = manager.default_quota /\ StoredKey(manager, r) = Stream(r)
    BY <1>3 DEF Quota, Suffix, StoredKey, Stream
  <2> QED
    BY <1>1, <1>2, <2>1, ManagerAssumption
<1>4. CASE GetConfig(manager, r.path) /= None
  <2> DEFINE config == GetConfig(manager, r.path)
  <2>1. config \in Configs(manager)
    BY <1>4, ConfigKnown
  <2>2. /\ IsQuota(config.quota)
        /\ config.key_suffix /= None => <<BaseKey(r), config.key_suffix>> \in Keys
    BY <2>1, ManagerAssumption
  <2>3. /\ Quota(manager, r.path) = config.quota
        /\ StoredKey(manager, r) = <<BaseKey(r), IF config.key_suffix = None
                                                   THEN r.path ELSE config.key_suffix>>
    BY <1>4 DEF Quota, Suffix, StoredKey
  <2> QED
    BY <1>1, <1>2, <2>2, <2>3 DEF Stream
<1> QED
  BY <1>3, <1>4

\* Requests of one client for one path come under one quota and share a key.
LEMMA StreamRouting ==
  ASSUME manager \in Managers, NEW r \in Requests, NEW q \in Requests,
         Stream(r) = Stream(q)
  PROVE  QuotaOf(r) = QuotaOf(q) /\ KeyOf(r) = KeyOf(q)
<1>1. BaseKey(r) = BaseKey(q) /\ r.path = q.path
  BY DEF Stream
<1> QED
  BY <1>1, RoutingFacts DEF StoredKey

\* Without suffixes nobody else is counted on a route's keys.
LEMMA UnsharedAlone ==
  ASSUME manager \in Managers, NEW r \in Requests, Unshared(r.path)
  PROVE  Alone(r)
<1> SUFFICES ASSUME NEW q \in Requests, KeyOf(q) = KeyOf(r)
             PROVE  Stream(q) = Stream(r)
  BY DEF Alone
<1>1. StoredKey(manager, r) = <<BaseKey(r), r.path>>
  BY DEF StoredKey, Unshared
<1>2. StoredKey(manager, q) =
        <<BaseKey(q), IF Suffix(manager, q.path) = None THEN q.path
                                                        ELSE Suffix(manager, q.path)>>
  BY DEF StoredKey
<1>3. StoredKey(manager, q) = StoredKey(manager, r)
  BY RoutingFacts
<1>4. Suffix(manager, q.path) /= r.path
  BY DEF Unshared
<1> QED
  BY <1>1, <1>2, <1>3, <1>4 DEF Stream

(***************************************************************************)
(* Debts                                                                   *)
(***************************************************************************)
\* The TAT of the requests of `log`, one per period, is at most t.
Owes(p, log, t) == \A i \in 1..Len(log) : log[i] + (Len(log) - i + 1) * p <= t

LEMMA DebtIs ==
  \A quota, log, t : DebtBy(quota, log, t) <=> Owes(PeriodOf(quota), log, t)
  BY DEF DebtBy, Rate!DebtBy, Owes, PeriodOf

\* The lengths of a debt are numbers.
LEMMA DebtNumbers ==
  ASSUME NEW p \in Nat, NEW log \in Seq(Nat), NEW i \in 1..Len(log)
  PROVE  /\ log[i] \in Nat /\ (Len(log) - i + 1) * p \in Nat
         /\ (Len(log) + 1 - i + 1) * p = (Len(log) - i + 1) * p + p
<1>1. log[i] \in Nat /\ Len(log) - i + 1 \in Nat
  OBVIOUS
<1> DEFINE n == Len(log) - i + 1
<1>2. Len(log) + 1 - i + 1 = n + 1
  OBVIOUS
<1> HIDE DEF n
<1>3. n \in Nat /\ n * p \in Nat /\ (n + 1) * p = n * p + p
  BY <1>1 DEF n
<1> QED
  BY <1>1, <1>2, <1>3 DEF n

LEMMA DebtMonotone ==
  ASSUME NEW p \in Nat, NEW log \in Seq(Nat), NEW s \in Int, NEW t \in Int,
         s <= t, Owes(p, log, s)
  PROVE  Owes(p, log, t)
<1> SUFFICES ASSUME NEW i \in 1..Len(log)
             PROVE  log[i] + (Len(log) - i + 1) * p <= t
  BY DEF Owes
<1>1. log[i] + (Len(log) - i + 1) * p <= s
  BY DEF Owes
<1> DEFINE x == (Len(log) - i + 1) * p
<1>2. x \in Nat /\ log[i] \in Nat
  BY DebtNumbers
<1> HIDE DEF x
<1> QED
  BY <1>1, <1>2 DEF x

\* An empty log owes nothing.
LEMMA EmptyOwes ==
  /\ <<>> \in Seq(Nat) /\ Len(<<>>) = 0
  /\ \A p, t : Owes(p, <<>>, t)
<1>1. <<>> \in Seq(Nat) /\ Len(<<>>) = 0 /\ 1..Len(<<>>) = {}
  OBVIOUS
<1> QED
  BY <1>1 DEF Owes

LEMMA Appended ==
  ASSUME NEW log \in Seq(Nat), NEW a \in Nat
  PROVE  /\ Append(log, a) \in Seq(Nat) /\ Len(Append(log, a)) = Len(log) + 1
         /\ \A i \in 1..Len(log) : Append(log, a)[i] = log[i]
         /\ Append(log, a)[Len(log) + 1] = a
  OBVIOUS

\* A request adds one period to the debt, counted from its arrival at least.
LEMMA AppendDebt ==
  ASSUME NEW p \in Nat, NEW log \in Seq(Nat), NEW a \in Nat, NEW t \in Int,
         NEW u \in Int, Owes(p, log, t), t + p <= u, a + p <= u
  PROVE  Owes(p, Append(log, a), u)
<1> DEFINE new == Append(log, a)
<1> SUFFICES ASSUME NEW i \in 1..Len(new)
             PROVE  new[i] + (Len(new) - i + 1) * p <= u
  BY DEF Owes
<1>1. Len(new) = Len(log) + 1 /\ Len(log) \in Nat
  BY Appended
<1>2. CASE i = Len(log) + 1
  <2>1. new[i] = a /\ Len(new) - i + 1 = 1
    BY <1>1, <1>2, Appended
  <2> QED
    BY <2>1
<1>3. CASE i \in 1..Len(log)
  <2> DEFINE x == (Len(log) - i + 1) * p
  <2>1. /\ log[i] \in Nat /\ x \in Nat
        /\ (Len(log) + 1 - i + 1) * p = x + p
    BY <1>3, DebtNumbers
  <2>2. new[i] = log[i] /\ (Len(new) - i + 1) * p = x + p
    BY <1>1, <1>3, <2>1, Appended
  <2>3. log[i] + x <= t
    BY <1>3 DEF Owes
  <2> HIDE DEF x, new
  <2> QED
    BY SMTT(30), <2>1, <2>2, <2>3
<1> HIDE DEF new
<1> QED
  BY <1>1, <1>2, <1>3

\* Whoever is let through with its debt within the tolerance keeps the spacing.
LEMMA AppendConforms ==
  ASSUME NEW quota, IsQuota(quota), NEW log \in Seq(Nat), NEW a \in Nat,
         Conforming(quota, log), Owes(PeriodOf(quota), log, a + OffsetOf(quota))
  PROVE  Conforming(quota, Append(log, a))
<1> DEFINE new == Append(log, a)
           p == PeriodOf(quota)
           m == OffsetOf(quota)
<1>0. p \in Nat /\ m \in Nat
  BY QuotaNumbers
<1> SUFFICES ASSUME NEW i \in 1..Len(new), NEW j \in 1..Len(new), i < j
             PROVE  (j - i) * p <= new[j] + m - new[i]
  BY DEF Conforming
<1>1. Len(new) = Len(log) + 1 /\ Len(log) \in Nat
  BY Appended
<1>2. i \in 1..Len(log) /\ new[i] = log[i]
  <2>1. i \in 1..Len(log)
    BY <1>1
  <2> QED
    BY <2>1, Appended
<1>3. CASE j \in 1..Len(log)
  <2>1. new[j] = log[j]
    BY <1>3, Appended
  <2> QED
    BY <1>2, <1>3, <2>1 DEF Conforming
<1>4. CASE j = Len(log) + 1
  <2>1. new[j] = a /\ j - i = Len(log) - i + 1
    BY <1>1, <1>2, <1>4, Appended
  <2> DEFINE x == (Len(log) - i + 1) * p
  <2>2. x \in Nat /\ log[i] \in Nat
    BY <1>0, <1>2, DebtNumbers
  <2>3. log[i] + x <= a + m
    BY <1>2 DEF Owes
  <2>4. (j - i) * p = x
    BY <2>1
  <2> HIDE DEF x, new, m, p
  <2> QED
    BY SMTT(30), <1>0, <1>2, <2>1, <2>2, <2>3, <2>4
<1> HIDE DEF new
<1> QED
  BY <1>1, <1>3, <1>4

(***************************************************************************)
(* Type correctness                                                        *)
(***************************************************************************)
\* The calls that begin, and those that end.
Begun(w) == \E r \in Requests : CheckAndRecord(w, r) \/ Check(w, r) \/ Reset(w, KeyOf(r))

Ended(w) == Record(w) \/ Panic(w) \/ Peek(w) \/ Forget(w)

LEMMA ManagerStays == ASSUME [Next]_vars PROVE manager' = manager
  BY DEF Next, Time, Internal, CheckAndRecord, Check, Reset, Start, Record, Panic, Peek,
         Forget, End, vars

\* While the manager is the same, so is the routing.
LEMMA RoutingStays ==
  ASSUME manager' = manager
  PROVE  /\ \A r : /\ QuotaOf(r)' = QuotaOf(r) /\ KeyOf(r)' = KeyOf(r)
                   /\ Shortened(r)' <=> Shortened(r)
                   /\ Alone(r)' <=> Alone(r)
         /\ Limited' = Limited
<1>1. \A r : QuotaOf(r)' = QuotaOf(r) /\ KeyOf(r)' = KeyOf(r)
  BY DEF QuotaOf, KeyOf
<1>2. \A r : (Shortened(r)' <=> Shortened(r)) /\ (Alone(r)' <=> Alone(r))
  BY <1>1 DEF Shortened, Alone
<1>3. Limited' = Limited
  BY <1>1 DEF Limited
<1> QED
  BY <1>1, <1>2, <1>3

\* Which calls the manager makes: with what operation, key and TTL.
LEMMA BegunFacts ==
  ASSUME TypeOK, NEW w \in Workers, Begun(w)
  PROVE  \E op \in {"execute_atomic", "get", "delete"}, k \in Keys, ttl \in Nat,
            q \in Requests \cup {None} :
           /\ Start(w, op, k, ttl, q)
           /\ op \in {"execute_atomic", "get"} => q \in Limited /\ k = KeyOf(q)
           /\ op = "execute_atomic" => ttl = TtlOf(QuotaOf(q))
<1>1. PICK r \in Requests : CheckAndRecord(w, r) \/ Check(w, r) \/ Reset(w, KeyOf(r))
  BY DEF Begun
<1>2. KeyOf(r) \in Keys /\ (QuotaOf(r) /= None => IsQuota(QuotaOf(r)))
  BY RoutingFacts DEF TypeOK
<1>3. CASE CheckAndRecord(w, r)
  <2>1. r \in Limited /\ TtlOf(QuotaOf(r)) \in Nat
    BY <1>2, <1>3, QuotaNumbers DEF CheckAndRecord, Limited
  <2> QED
    BY <1>2, <1>3, <2>1 DEF CheckAndRecord
<1>4. CASE Check(w, r)
  BY <1>2, <1>4 DEF Check, Limited
<1>5. CASE Reset(w, KeyOf(r))
  BY <1>2, <1>5 DEF Reset
<1> QED
  BY <1>1, <1>3, <1>4, <1>5

\* A finished call leaves its worker idle, and its locals are gone.
LEMMA EndedFrame ==
  ASSUME NEW w \in Workers, Ended(w)
  PROVE  /\ call' = [call EXCEPT ![w] = NoCall]
         /\ now' = [now EXCEPT ![w] = 0] /\ request' = [request EXCEPT ![w] = None]
         /\ UNCHANGED <<clock, gcLock, manager>>
  BY DEF Ended, Record, Panic, Peek, Forget, ExecuteCommit, Insert,
         GetHit, GetMiss, GetRemove, DeleteCommit, Return, End

\* The decision of a worker is one under the quota of its request.
LEMMA OutcomeFacts ==
  ASSUME TypeOK, CallsMade, NEW w \in Workers, At(w, "execute_atomic", "commit")
  PROVE  LET r     == request[w]
             d     == Outcome(w)
             entry == call[w].current
             quota == QuotaOf(r)
             p     == PeriodOf(quota)
         IN  /\ r \in Limited /\ IsQuota(quota) /\ call[w].key = KeyOf(r) /\ KeyOf(r) \in Keys
             /\ call[w].ttl = TtlOf(quota)
             /\ now[w] \in Nat /\ Busy(w)
             /\ d.tat \in Nat /\ d.allowed \in BOOLEAN
             /\ d.allowed /\ entry = None => d.tat = now[w] + p
             /\ d.allowed /\ entry /= None /\ entry.tat \in Nat =>
                  /\ entry.tat <= now[w] + OffsetOf(quota)
                  /\ d.tat = (IF entry.tat >= now[w] THEN entry.tat ELSE now[w]) + p
             /\ ~d.allowed =>
                  /\ entry /= None /\ entry.tat \in Nat /\ d.tat = entry.tat
                  /\ entry.tat > now[w] + OffsetOf(quota)
<1> DEFINE r     == request[w]
           entry == call[w].current
           quota == QuotaOf(r)
           tat   == IF entry = None THEN None ELSE entry.tat
           d     == Outcome(w)
<1>1. r \in Limited /\ call[w].key = KeyOf(r) /\ call[w].ttl = TtlOf(quota)
  BY DEF At, CallsMade
<1>2. r \in Requests /\ IsQuota(quota) /\ KeyOf(r) \in Keys
  BY <1>1, RoutingFacts DEF Limited, TypeOK
<1>3. /\ now[w] \in Nat /\ tat \in Nat \cup {None} /\ Busy(w)
      /\ None \notin Nat /\ (entry = None => tat = None) /\ (entry /= None => tat = entry.tat)
  BY NoneAssumption DEF TypeOK, StorageTypeOK, Call, StorageEntry, Busy, At
<1>4. d = DecisionOf(quota, tat, now[w])
  BY DEF Outcome
<1> HIDE DEF r, entry, quota, tat, d
<1>5. /\ d.tat \in Nat /\ d.allowed \in BOOLEAN
      /\ d.allowed <=> tat = None \/ tat <= now[w] + OffsetOf(quota)
      /\ d.allowed /\ tat = None => d.tat = now[w] + PeriodOf(quota)
      /\ d.allowed /\ tat \in Nat =>
           d.tat = (IF tat >= now[w] THEN tat ELSE now[w]) + PeriodOf(quota)
      /\ ~d.allowed => tat \in Nat /\ d.tat = tat
  BY <1>2, <1>3, <1>4, DecisionIs
<1>6. ~d.allowed => tat > now[w] + OffsetOf(quota)
  BY <1>2, <1>3, <1>5, QuotaNumbers
<1>7. /\ d.allowed /\ entry = None => d.tat = now[w] + PeriodOf(quota)
      /\ d.allowed /\ entry /= None /\ entry.tat \in Nat =>
           /\ entry.tat <= now[w] + OffsetOf(quota)
           /\ d.tat = (IF entry.tat >= now[w] THEN entry.tat ELSE now[w]) + PeriodOf(quota)
      /\ ~d.allowed =>
           /\ entry /= None /\ entry.tat \in Nat /\ d.tat = entry.tat
           /\ entry.tat > now[w] + OffsetOf(quota)
  BY <1>3, <1>5, <1>6
<1> QED
  BY <1>1, <1>2, <1>3, <1>5, <1>7 DEF r, entry, quota, d

LEMMA WithTatType == \A t \in Nat : WithTat(t) \in StorageEntry /\ WithTat(t).tat = t
  BY DEF WithTat, NewEntry, StorageEntry

\* What a step does to the call of any one worker.
LEMMA CallMoves ==
  ASSUME TypeOK, [Next]_vars, NEW v \in Workers
  PROVE  \/ UNCHANGED <<call[v], now[v], request[v]>>
         \/ call'[v] = NoCall
         \/ \E op \in {"execute_atomic", "get", "delete"}, k \in Keys, ttl \in Nat,
               q \in Requests \cup {None} :
              /\ Start(v, op, k, ttl, q)
              /\ op \in {"execute_atomic", "get"} => q \in Limited /\ k = KeyOf(q)
              /\ op = "execute_atomic" => ttl = TtlOf(QuotaOf(q))
         \/ /\ UNCHANGED <<now[v], request[v]>>
            /\ Busy(v)
            /\ call'[v].op = call[v].op /\ call'[v].key = call[v].key
            /\ call'[v].ttl = call[v].ttl
            /\ call'[v].phase = "remove" => call[v].op = "get"
<1> USE DEF TypeOK, StorageTypeOK
<1>1. CASE UNCHANGED vars
  BY <1>1 DEF vars, storageVars
<1>2. CASE Time
  BY <1>2 DEF Time, Tick
<1>3. ASSUME NEW w \in Workers, Begun(w), v /= w
      PROVE  UNCHANGED <<call[v], now[v], request[v]>>
  <2>1. PICK op \in {"execute_atomic", "get", "delete"}, k \in Keys, ttl \in Nat,
             q \in Requests \cup {None} : Start(w, op, k, ttl, q)
    BY <1>3, BegunFacts
  <2> QED
    BY <1>3, <2>1 DEF Start, Begin
<1>4. ASSUME NEW w \in Workers, Internal(w)
      PROVE  \/ UNCHANGED <<call[v], now[v], request[v]>>
             \/ call'[v] = NoCall
             \/ /\ UNCHANGED <<now[v], request[v]>>
                /\ Busy(v)
                /\ call'[v].op = call[v].op /\ call'[v].key = call[v].key
                /\ call'[v].ttl = call[v].ttl
                /\ call'[v].phase = "remove" => call[v].op = "get"
  <2>1. now' = now /\ request' = request
    BY <1>4 DEF Internal
  <2>2. CASE Common(w)
    BY <2>1, <2>2, CommonFrame, CommonLocals
  <2>3. CASE Load(w)
    BY <2>1, <2>3 DEF Load, Call, Busy
  <2>4. CASE GetExpired(w)
    BY <2>1, <2>4 DEF GetExpired, At, Goto, Call, Busy
  <2> QED
    BY <1>4, <2>2, <2>3, <2>4 DEF Internal
<1>5. ASSUME NEW w \in Workers, Ended(w)
      PROVE  UNCHANGED <<call[v], now[v], request[v]>> \/ call'[v] = NoCall
  BY <1>5, EndedFrame
<1>6. ASSUME NEW w \in Workers, Begun(w), v = w
      PROVE  \E op \in {"execute_atomic", "get", "delete"}, k \in Keys, ttl \in Nat,
                q \in Requests \cup {None} :
               /\ Start(v, op, k, ttl, q)
               /\ op \in {"execute_atomic", "get"} => q \in Limited /\ k = KeyOf(q)
               /\ op = "execute_atomic" => ttl = TtlOf(QuotaOf(q))
  BY <1>6, BegunFacts
<1>7. CASE Next
  <2>1. \/ Time
        \/ \E w \in Workers : Begun(w) \/ Internal(w) \/ Ended(w)
    BY <1>7 DEF Next, Begun, Ended
  <2> QED
    BY <1>2, <1>3, <1>4, <1>5, <1>6, <2>1
<1> QED
  BY <1>1, <1>7

LEMMA KeyedStep == TypeOK /\ [Next]_vars => CallsKeyed'
<1> SUFFICES ASSUME TypeOK, [Next]_vars, NEW v \in Workers, call'[v].op \in Keyed
             PROVE  call'[v].key \in Keys
  BY DEF CallsKeyed
<1>1. NoCall.op \notin Keyed
  BY MemoryStorageAssumption DEF NoCall, Keyed
<1>2. CASE UNCHANGED call[v] \/ (call'[v].op = call[v].op /\ call'[v].key = call[v].key)
  BY <1>2 DEF TypeOK, CallsKeyed
<1>3. ASSUME NEW op \in {"execute_atomic", "get", "delete"}, NEW k \in Keys,
             NEW ttl \in Nat, NEW q \in Requests \cup {None}, Start(v, op, k, ttl, q)
      PROVE  call'[v].key \in Keys
  BY <1>3 DEF Start, Begin, NoCall, TypeOK, StorageTypeOK
<1> QED
  BY <1>1, <1>2, <1>3, CallMoves

LEMMA CallsMadeStep == TypeOK /\ CallsMade /\ [Next]_vars => CallsMade'
<1> SUFFICES ASSUME TypeOK, CallsMade, [Next]_vars PROVE CallsMade'
  OBVIOUS
<1>6. manager' = manager
  BY ManagerStays
<1>7. \A v \in Workers :
        /\ KeyOf(request[v])' = KeyOf(request'[v])
        /\ TtlOf(QuotaOf(request[v]))' = TtlOf(QuotaOf(request'[v]))
  BY <1>6 DEF QuotaOf, KeyOf, TtlOf
<1>8. Limited' = Limited
  BY <1>6, RoutingStays
<1> SUFFICES ASSUME NEW v \in Workers
             PROVE  /\ call'[v].op \in {None, "execute_atomic", "get", "delete"}
                    /\ call'[v].phase /= "idle" => call'[v].op /= None
                    /\ call'[v].phase = "remove" => call'[v].op = "get"
                    /\ call'[v].op \in {"execute_atomic", "get"} =>
                         request'[v] \in Limited /\ call'[v].key = KeyOf(request'[v])
                    /\ call'[v].op = "execute_atomic" =>
                         call'[v].ttl = TtlOf(QuotaOf(request'[v]))
  BY <1>7, <1>8 DEF CallsMade, Busy
<1>0. None \notin Operations
  BY MemoryStorageAssumption
<1>1. CASE UNCHANGED <<call[v], now[v], request[v]>>
  BY <1>1 DEF CallsMade, Busy
<1>2. CASE call'[v] = NoCall
  BY <1>0, <1>2 DEF NoCall, Operations
<1>3. ASSUME NEW op \in {"execute_atomic", "get", "delete"}, NEW k \in Keys,
             NEW ttl \in Nat, NEW q \in Requests \cup {None}, Start(v, op, k, ttl, q),
             op \in {"execute_atomic", "get"} => q \in Limited /\ k = KeyOf(q),
             op = "execute_atomic" => ttl = TtlOf(QuotaOf(q))
      PROVE  /\ call'[v].op = op /\ call'[v].key = k /\ call'[v].ttl = ttl
             /\ request'[v] = q /\ call'[v].phase \in {"commit", "enter"}
  BY <1>3 DEF Start, Begin, NoCall, FirstPhase, TypeOK, StorageTypeOK
<1>4. CASE \E op \in {"execute_atomic", "get", "delete"}, k \in Keys, ttl \in Nat,
              q \in Requests \cup {None} :
             /\ Start(v, op, k, ttl, q)
             /\ op \in {"execute_atomic", "get"} => q \in Limited /\ k = KeyOf(q)
             /\ op = "execute_atomic" => ttl = TtlOf(QuotaOf(q))
  BY <1>0, <1>3, <1>4 DEF Operations
<1>5. CASE /\ UNCHANGED <<now[v], request[v]>>
           /\ Busy(v)
           /\ call'[v].op = call[v].op /\ call'[v].key = call[v].key
           /\ call'[v].ttl = call[v].ttl
           /\ call'[v].phase = "remove" => call[v].op = "get"
  BY <1>5 DEF CallsMade
<1> QED
  BY <1>1, <1>2, <1>4, <1>5, CallMoves

\* What Record stores, and what it adds to the history.
LEMMA RecordFacts ==
  ASSUME TypeOK, CallsMade, NEW w \in Workers, Record(w)
  PROVE  LET r == request[w]
             k == KeyOf(r)
             d == Outcome(w)
         IN  /\ At(w, "execute_atomic", "commit")
             /\ ~(PeriodOf(QuotaOf(r)) = 0 /\ d.tat > now[w])
             /\ data' = [data EXCEPT ![k] = [entry |-> WithTat(d.tat),
                                             expires_at |-> call[w].expires]]
             /\ data'[k] /= None /\ data'[k].entry.tat = d.tat
             /\ data'[k].expires_at = call[w].expires /\ call[w].expires \in Nat
             /\ admitted' = IF d.allowed /\ PeriodOf(QuotaOf(r)) > 0
                              THEN [admitted EXCEPT ![Stream(r)] = Append(@, now[w])]
                              ELSE admitted
             /\ Stream(r) \in Streams
<1> DEFINE r == request[w]
           k == KeyOf(r)
           d == Outcome(w)
<1>1. At(w, "execute_atomic", "commit")
  BY DEF Record
<1>2. r \in Requests /\ call[w].key = k /\ k \in Keys /\ d.tat \in Nat
  BY <1>1, OutcomeFacts DEF Limited
<1>3. Stream(r) \in Streams
  BY <1>2 DEF Streams
<1>4. ~(PeriodOf(QuotaOf(r)) = 0 /\ d.tat > now[w])
  BY PanicsIs DEF Record
<1>5. data' = [data EXCEPT ![k] = [entry |-> WithTat(d.tat), expires_at |-> call[w].expires]]
  BY <1>2 DEF Record, ExecuteCommit, Insert
<1>6. data'[k] = [entry |-> WithTat(d.tat), expires_at |-> call[w].expires]
  BY <1>2, <1>5 DEF TypeOK, StorageTypeOK
<1>7. call[w].expires \in Nat
  BY DEF TypeOK, StorageTypeOK, Call
<1>8. data'[k] \in InternalEntry /\ data'[k].entry.tat = d.tat
  BY <1>2, <1>6, <1>7, WithTatType DEF InternalEntry
<1>9. data'[k] /= None
  BY <1>8, MemoryStorageAssumption
<1>10. admitted' = IF d.allowed /\ PeriodOf(QuotaOf(r)) > 0
                     THEN [admitted EXCEPT ![Stream(r)] = Append(@, now[w])]
                     ELSE admitted
  BY DEF Record
<1> HIDE DEF r, k, d
<1>11. data'[k].expires_at = call[w].expires
  BY <1>6
<1> QED
  BY <1>1, <1>3, <1>4, <1>5, <1>7, <1>8, <1>9, <1>10, <1>11 DEF r, k, d

LEMMA TypeStep == TypeOK /\ CallsMade /\ [Next]_vars => TypeOK'
<1> SUFFICES ASSUME TypeOK, CallsMade, [Next]_vars
             PROVE  /\ StorageTypeOK'
                    /\ now' \in [Workers -> Nat]
                    /\ request' \in [Workers -> Requests \cup {None}]
                    /\ admitted' \in [Streams -> Seq(Nat)]
  BY KeyedStep, ManagerStays DEF TypeOK
<1> USE DEF TypeOK
<1>0. clock \in Nat
  BY DEF StorageTypeOK
<1>1. CASE UNCHANGED vars
  BY <1>1 DEF vars, storageVars, StorageTypeOK
<1>2. CASE Time
  BY <1>2, TickType DEF Time
<1>3. ASSUME NEW w \in Workers, Begun(w)
      PROVE  /\ StorageTypeOK'
             /\ now' \in [Workers -> Nat]
             /\ request' \in [Workers -> Requests \cup {None}]
             /\ admitted' \in [Streams -> Seq(Nat)]
  <2>1. PICK op \in {"execute_atomic", "get", "delete"}, k \in Keys, ttl \in Nat,
             q \in Requests \cup {None} : Start(w, op, k, ttl, q)
    BY <1>3, BegunFacts
  <2>2. StorageTypeOK'
    <3>1. op \in Operations
      BY DEF Operations
    <3> QED
      BY <2>1, <3>1, BeginType DEF Start
  <2> QED
    BY <1>0, <2>1, <2>2 DEF Start
<1>4. ASSUME NEW w \in Workers, Internal(w)
      PROVE  StorageTypeOK' /\ UNCHANGED <<now, request, admitted>>
  BY <1>4, CommonType, ReadType DEF Internal
<1>5. ASSUME NEW w \in Workers, Ended(w)
      PROVE  StorageTypeOK' /\ admitted' \in [Streams -> Seq(Nat)]
  <2>1. CASE Record(w)
    <3>1. /\ Stream(request[w]) \in Streams
          /\ \/ admitted' = [admitted EXCEPT ![Stream(request[w])] = Append(@, now[w])]
             \/ admitted' = admitted
      BY <2>1, RecordFacts
    <3>2. WithTat(Outcome(w).tat) \in StorageEntry
      BY <2>1, OutcomeFacts, WithTatType DEF Record
    <3>3. StorageTypeOK'
      BY <2>1, <3>2, WriteType DEF Record, ExecuteCommit
    <3>4. now[w] \in Nat /\ admitted \in [Streams -> Seq(Nat)]
      OBVIOUS
    <3>5. [admitted EXCEPT ![Stream(request[w])] = Append(@, now[w])]
            \in [Streams -> Seq(Nat)]
      <4> DEFINE s == Stream(request[w])
      <4>1. s \in Streams
        BY <3>1
      <4> HIDE DEF s
      <4>2. admitted[s] \in Seq(Nat)
        BY <3>4, <4>1
      <4>3. Append(admitted[s], now[w]) \in Seq(Nat)
        BY <3>4, <4>2, Appended
      <4>4. [admitted EXCEPT ![s] = Append(@, now[w])] \in [Streams -> Seq(Nat)]
        BY <3>4, <4>1, <4>3
      <4> QED
        BY <4>4 DEF s
    <3> QED
      BY <3>1, <3>3, <3>5
  <2>2. CASE Panic(w)
    BY <2>2, NoCallType DEF Panic, Return, StorageTypeOK
  <2>3. CASE Peek(w)
    BY <2>3, ReadType, WriteType DEF Peek
  <2>4. CASE Forget(w)
    <3>1. StorageTypeOK'
      BY <2>4, WriteType DEF Forget
    <3>2. \A s \in Streams : admitted'[s] = <<>> \/ admitted'[s] = admitted[s]
      BY <2>4 DEF Forget
    <3>3. admitted' = [s \in Streams |-> admitted'[s]]
      BY <2>4 DEF Forget
    <3>4. <<>> \in Seq(Nat)
      BY EmptyOwes
    <3> QED
      BY <3>1, <3>2, <3>3, <3>4
  <2> QED
    BY <1>5, <2>1, <2>2, <2>3, <2>4 DEF Ended
<1>6. ASSUME NEW w \in Workers, Ended(w)
      PROVE  now' \in [Workers -> Nat] /\ request' \in [Workers -> Requests \cup {None}]
  <2>1. now' = [now EXCEPT ![w] = 0] /\ request' = [request EXCEPT ![w] = None]
    BY <1>6, EndedFrame
  <2>2. now \in [Workers -> Nat] /\ request \in [Workers -> Requests \cup {None}]
    OBVIOUS
  <2> QED
    BY <2>1, <2>2
<1>7. CASE Next
  <2>1. \/ Time
        \/ \E w \in Workers : Begun(w) \/ Internal(w) \/ Ended(w)
    BY <1>7 DEF Next, Begun, Ended
  <2> QED
    BY <1>2, <1>3, <1>4, <1>5, <1>6, <2>1
<1> QED
  BY <1>1, <1>7

LEMMA TypeInit == Init => TypeOK /\ CallsMade
<1> SUFFICES ASSUME Init PROVE TypeOK /\ CallsMade
  OBVIOUS
<1>1. StorageTypeOK
  BY NoCallType, MemoryStorageAssumption DEF Init, StorageInit, StorageTypeOK
<1>2. CallsKeyed
  BY MemoryStorageAssumption DEF Init, StorageInit, CallsKeyed, Keyed, NoCall
<1>3. admitted \in [Streams -> Seq(Nat)]
  BY EmptyOwes DEF Init
<1>4. TypeOK
  BY <1>1, <1>2, <1>3 DEF Init, TypeOK
<1>5. CallsMade
  BY MemoryStorageAssumption DEF Init, StorageInit, CallsMade, NoCall, Busy, Operations
<1> QED
  BY <1>4, <1>5

\* For any number of workers: every reachable state has the types the code
\* declares, and each decision under way is about a request that has a quota, on
\* the key its route gives it and with the TTL of that quota.
THEOREM ManagerTypes == Spec => [](TypeOK /\ CallsMade)
<1>1. Init => TypeOK /\ CallsMade
  BY TypeInit
<1>2. TypeOK /\ CallsMade /\ [Next]_vars => (TypeOK /\ CallsMade)'
  BY TypeStep, CallsMadeStep
<1> QED
  BY <1>1, <1>2, PTL DEF Spec

(***************************************************************************)
(* Debts, entries and time                                                 *)
(***************************************************************************)
\* What Settled and Remembered say, of the numbers they are about: a quota's
\* period p, tolerance m and slack s, a log, the base b, the clock c, an entry's
\* TAT and expiry.
Quiet(p, m, s, log, b, c) ==
  Owes(p, log, b) \/ (Owes(p, log, b + m) /\ Owes(p, log, c - s))

Kept(p, m, s, log, b, tat, expires) ==
  \/ Owes(p, log, b)
  \/ Owes(p, log, tat) /\ Owes(p, log, b + m + p) /\ Owes(p, log, expires - s)

LEMMA QuietMonotone ==
  ASSUME NEW p \in Nat, NEW m \in Nat, NEW s \in Nat, NEW log \in Seq(Nat),
         NEW b \in Nat, NEW c \in Nat, NEW b1 \in Nat, NEW c1 \in Nat,
         b <= b1, c <= c1, Quiet(p, m, s, log, b, c)
  PROVE  Quiet(p, m, s, log, b1, c1)
<1>1. CASE Owes(p, log, b)
  BY <1>1, DebtMonotone DEF Quiet
<1>2. CASE Owes(p, log, b + m) /\ Owes(p, log, c - s)
  <2>1. /\ b + m \in Int /\ b1 + m \in Int /\ b + m <= b1 + m
        /\ c - s \in Int /\ c1 - s \in Int /\ c - s <= c1 - s
    OBVIOUS
  <2>2. Owes(p, log, b1 + m)
    BY <1>2, <2>1, DebtMonotone
  <2>3. Owes(p, log, c1 - s)
    BY <1>2, <2>1, DebtMonotone
  <2> QED
    BY <2>2, <2>3 DEF Quiet
<1> QED
  BY <1>1, <1>2 DEF Quiet

LEMMA KeptMonotone ==
  ASSUME NEW p \in Nat, NEW m \in Nat, NEW s \in Nat, NEW log \in Seq(Nat),
         NEW b \in Nat, NEW b1 \in Nat, NEW tat \in Nat, NEW expires \in Nat,
         b <= b1, Kept(p, m, s, log, b, tat, expires)
  PROVE  Kept(p, m, s, log, b1, tat, expires)
<1>1. CASE Owes(p, log, b)
  BY <1>1, DebtMonotone DEF Kept
<1>2. CASE Owes(p, log, tat) /\ Owes(p, log, b + m + p) /\ Owes(p, log, expires - s)
  <2>1. b + m + p \in Int /\ b1 + m + p \in Int /\ b + m + p <= b1 + m + p
    OBVIOUS
  <2>2. Owes(p, log, b1 + m + p)
    BY <1>2, <2>1, DebtMonotone
  <2> QED
    BY <1>2, <2>2 DEF Kept
<1> QED
  BY <1>1, <1>2 DEF Kept

\* What an expired entry knew is past, for a call that has not outlasted it.
LEMMA KeptExpires ==
  ASSUME NEW p \in Nat, NEW m \in Nat, NEW s \in Nat, NEW log \in Seq(Nat),
         NEW b \in Nat, NEW c \in Nat, NEW tat \in Nat, NEW expires \in Nat,
         NEW latency \in Nat,
         Kept(p, m, s, log, b, tat, expires), expires <= c, c <= b + latency,
         s \in {latency, p}, p > 0 => latency <= m + p, p = 0 => log = <<>>
  PROVE  Quiet(p, m, s, log, b, c)
<1>1. CASE Owes(p, log, b)
  BY <1>1 DEF Quiet
<1>2. CASE p = 0
  BY <1>2, EmptyOwes DEF Quiet
<1>3. CASE Owes(p, log, expires - s) /\ p > 0
  <2>1. /\ expires - s \in Int /\ c - s \in Int /\ expires - s <= c - s
        /\ b + m \in Int /\ c - s <= b + m
    BY <1>3
  <2>2. Owes(p, log, c - s)
    BY <1>3, <2>1, DebtMonotone
  <2>3. Owes(p, log, b + m)
    BY <2>1, <2>2, DebtMonotone
  <2> QED
    BY <2>2, <2>3 DEF Quiet
<1>4. p = 0 \/ p > 0
  OBVIOUS
<1> QED
  BY <1>1, <1>2, <1>3, <1>4 DEF Kept

\* A request that arrived at a, on a log with no debt but what is past: it is
\* within the quota, and the entry that says a + p knows of its debt.
LEMMA QuietAppended ==
  ASSUME NEW p \in Nat, NEW m \in Nat, NEW s \in Nat, NEW log \in Seq(Nat),
         NEW a \in Nat, NEW c \in Nat, NEW expires \in Nat, NEW latency \in Nat,
         Quiet(p, m, s, log, a, c), a <= c, c <= a + latency,
         s \in {latency, p}, s <= p, expires >= a + m + p + p
  PROVE  /\ Owes(p, log, a + m)
         /\ Kept(p, m, s, Append(log, a), c, a + p, expires)
<1> DEFINE new == Append(log, a)
<1>0. new \in Seq(Nat)
  BY Appended
<1>1. Owes(p, log, a + m)
  <2>1. a + m \in Int /\ a <= a + m
    OBVIOUS
  <2> QED
    BY <2>1, DebtMonotone DEF Quiet
<1>2. CASE Owes(p, log, a)
  <2>1. /\ a + p \in Int /\ c + m + p \in Int /\ expires - s \in Int
        /\ a + p <= c + m + p /\ a + p <= expires - s
    OBVIOUS
  <2>2. Owes(p, new, a + p)
    BY <1>2, <2>1, AppendDebt
  <2>3. Owes(p, new, c + m + p) /\ Owes(p, new, expires - s)
    BY <1>0, <2>1, <2>2, DebtMonotone
  <2> QED
    BY <1>1, <2>2, <2>3 DEF Kept
<1>3. CASE Owes(p, log, c - s) /\ c - s <= a
  <2>1. c - s \in Int
    OBVIOUS
  <2>2. Owes(p, log, a)
    BY <1>3, <2>1, DebtMonotone
  <2> QED
    BY <1>2, <2>2
<1>4. CASE Owes(p, log, c - s) /\ ~(c - s <= a)
  <2>1. c - s \in Int /\ c - s + p <= c /\ a + p <= c
    BY <1>4
  <2>2. Owes(p, new, c)
    BY <1>4, <2>1, AppendDebt
  <2> QED
    BY <1>1, <2>2 DEF Kept
<1> QED
  BY <1>2, <1>3, <1>4 DEF Quiet

\* The same for one that found an entry within the tolerance.
LEMMA KeptAppended ==
  ASSUME NEW p \in Nat, NEW m \in Nat, NEW s \in Nat, NEW log \in Seq(Nat),
         NEW a \in Nat, NEW c \in Nat, NEW expires \in Nat,
         NEW tat \in Nat, NEW was \in Nat, NEW t \in Nat,
         Kept(p, m, s, log, a, tat, was), a <= c, tat <= a + m,
         t = IF tat >= a THEN tat ELSE a,
         s <= p, expires >= a + m + p + p
  PROVE  /\ Owes(p, log, a + m)
         /\ Kept(p, m, s, Append(log, a), c, t + p, expires)
<1> DEFINE new == Append(log, a)
<1>0. new \in Seq(Nat)
  BY Appended
<1>1. Owes(p, log, t)
  <2>1. a <= t /\ tat <= t
    OBVIOUS
  <2> QED
    BY <2>1, DebtMonotone DEF Kept
<1>2. /\ a + m \in Int /\ t <= a + m
      /\ t + p \in Int /\ c + m + p \in Int /\ expires - s \in Int
      /\ a + p <= t + p /\ t + p <= c + m + p /\ t + p <= expires - s
  OBVIOUS
<1>3. Owes(p, log, a + m)
  BY <1>1, <1>2, DebtMonotone
<1>4. Owes(p, new, t + p)
  BY <1>1, <1>2, AppendDebt
<1>5. Owes(p, new, c + m + p) /\ Owes(p, new, expires - s)
  BY <1>0, <1>2, <1>4, DebtMonotone
<1> QED
  BY <1>3, <1>4, <1>5 DEF Kept

\* Somebody else's decision, or a denial, on a log with no debt but what is past.
LEMMA QuietShared ==
  ASSUME NEW p \in Nat, NEW m \in Nat, NEW s \in Nat, NEW log \in Seq(Nat),
         NEW a \in Nat, NEW c \in Nat, NEW tat, NEW expires,
         Quiet(p, m, s, log, a, c), a <= c
  PROVE  Kept(p, m, s, log, c, tat, expires)
<1>1. c - s \in Int /\ c - s <= c
  OBVIOUS
<1>2. Owes(p, log, c)
  BY <1>1, DebtMonotone DEF Quiet
<1> QED
  BY <1>2 DEF Kept

\* Somebody else's decision, or a denial, on an entry: it knows no less and does
\* not expire too early.
LEMMA KeptShared ==
  ASSUME NEW p \in Nat, NEW m \in Nat, NEW s \in Nat, NEW log \in Seq(Nat),
         NEW a \in Nat, NEW c \in Nat, NEW expires \in Nat,
         NEW tat \in Nat, NEW was \in Nat, NEW t \in Nat,
         Kept(p, m, s, log, a, tat, was), a <= c,
         \/ tat <= t /\ expires >= a + m + p + s
         \/ tat <= a
  PROVE  Kept(p, m, s, log, c, t, expires)
<1>1. CASE Owes(p, log, a)
  BY <1>1, DebtMonotone DEF Kept
<1>2. CASE Owes(p, log, tat) /\ tat <= a
  BY <1>2, DebtMonotone DEF Kept
<1>3. CASE /\ Owes(p, log, tat) /\ Owes(p, log, a + m + p)
           /\ tat <= t /\ expires >= a + m + p + s
  <2>1. /\ a + m + p \in Int /\ c + m + p \in Int /\ expires - s \in Int
        /\ a + m + p <= c + m + p /\ a + m + p <= expires - s
    BY <1>3
  <2>2. Owes(p, log, t)
    BY <1>3, DebtMonotone
  <2>3. Owes(p, log, c + m + p) /\ Owes(p, log, expires - s)
    BY <1>3, <2>1, DebtMonotone
  <2> QED
    BY <2>2, <2>3 DEF Kept
<1> QED
  BY <1>1, <1>2, <1>3 DEF Kept

(***************************************************************************)
(* One worker                                                              *)
(***************************************************************************)
\* One worker serves the requests, and no call takes longer than a burst and a
\* period of any quota it may come under.
Single(w) ==
  /\ Workers = {w}
  /\ \A m \in Managers, r \in Requests :
       LET quota == Quota(m, r.path)
       IN  quota /= None /\ PeriodOf(quota) > 0 =>
             MaxLatency <= OffsetOf(quota) + PeriodOf(quota)

LEMMA Numbers ==
  ASSUME ManagerInv, NEW w \in Workers, Single(w), NEW r \in Limited
  PROVE  LET quota == QuotaOf(r)
             p == PeriodOf(quota)
             m == OffsetOf(quota)
             s == Slack(quota)
         IN  /\ r \in Requests /\ IsQuota(quota)
             /\ p \in Nat /\ m \in Nat /\ s \in Nat /\ MaxLatency \in Nat
             /\ s \in {MaxLatency, p} /\ s <= p
             /\ p > 0 => MaxLatency <= m + p
             /\ p = 0 => admitted[Stream(r)] = <<>>
             /\ admitted[Stream(r)] \in Seq(Nat)
             /\ KeyOf(r) \in Keys /\ Stream(r) \in Streams
<1>1. r \in Requests /\ QuotaOf(r) /= None
  BY DEF Limited
<1>2. /\ manager \in Managers /\ admitted \in [Streams -> Seq(Nat)]
      /\ PeriodOf(QuotaOf(r)) = 0 => admitted[Stream(r)] = <<>>
  BY DEF ManagerInv, TypeOK
<1>3. /\ IsQuota(QuotaOf(r)) /\ KeyOf(r) \in Keys /\ Stream(r) \in Streams
      /\ QuotaOf(r) = Quota(manager, r.path)
  BY <1>1, <1>2, RoutingFacts
<1>4. PeriodOf(QuotaOf(r)) > 0 => MaxLatency <= OffsetOf(QuotaOf(r)) + PeriodOf(QuotaOf(r))
  BY <1>1, <1>2, <1>3 DEF Single
<1> QED
  BY <1>1, <1>2, <1>3, <1>4, QuotaNumbers, SlackBounds

LEMMA Times ==
  ASSUME ManagerInv, NEW w \in Workers
  PROVE  /\ clock \in Nat /\ Base(w) \in Nat /\ now[w] \in Nat
         /\ Base(w) <= clock /\ clock <= Base(w) + MaxLatency
         /\ Busy(w) => Base(w) = now[w]
         /\ ~Busy(w) => Base(w) = clock
<1>1. clock \in Nat /\ now[w] \in Nat /\ MaxLatency \in Nat
  BY ManagerAssumption DEF ManagerInv, TypeOK, StorageTypeOK
<1>2. Busy(w) => now[w] <= clock /\ clock <= now[w] + MaxLatency
  BY DEF ManagerInv, CallInv
<1> QED
  BY <1>1, <1>2 DEF Base

\* Nothing moves back.
LEMMA BaseMoves ==
  ASSUME ManagerInv, NEW w \in Workers, Single(w), [Next]_vars
  PROVE  /\ Base(w)' \in Nat /\ Base(w) <= Base(w)'
         /\ clock' \in Nat /\ clock <= clock'
<1> USE DEF TypeOK, StorageTypeOK
<1>0. TypeOK /\ clock \in Nat /\ Base(w) \in Nat /\ Base(w) <= clock
      /\ (Busy(w) => Base(w) = now[w])
  BY Times DEF ManagerInv
<1>1. CASE UNCHANGED vars
  BY <1>0, <1>1 DEF vars, storageVars, Base, Busy
<1>2. CASE Time
  BY <1>0, <1>2 DEF Time, Tick, Base, Busy
<1>3. CASE Begun(w)
  <2>1. PICK op \in {"execute_atomic", "get", "delete"}, k \in Keys, ttl \in Nat,
             q \in Requests \cup {None} : Start(w, op, k, ttl, q)
    BY <1>0, <1>3, BegunFacts
  <2>2. clock' = clock /\ now'[w] = clock
    BY <1>0, <2>1 DEF Start, Begin
  <2> QED
    BY <1>0, <2>2 DEF Base
<1>4. CASE Internal(w)
  <2>1. clock' = clock /\ now' = now
    BY <1>0, <1>4, CommonFrame DEF Internal, Load, GetExpired
  <2>2. Busy(w)
    BY <1>0, <1>4, CommonLocals DEF Internal, Load, GetExpired, At, Busy
  <2> QED
    BY <1>0, <2>1, <2>2 DEF Base
<1>5. CASE Ended(w)
  <2>1. /\ clock' = clock /\ call' = [call EXCEPT ![w] = NoCall]
        /\ now' = [now EXCEPT ![w] = 0]
    BY <1>5, EndedFrame
  <2>2. ~Busy(w)'
    BY <1>0, <2>1 DEF Busy, NoCall
  <2> QED
    BY <1>0, <2>1, <2>2 DEF Base
<1>6. CASE Next
  <2>1. Time \/ Begun(w) \/ Internal(w) \/ Ended(w)
    BY <1>6 DEF Next, Begun, Ended, Single
  <2> QED
    BY <1>2, <1>3, <1>4, <1>5, <2>1
<1> QED
  BY <1>1, <1>6

LEMMA SettledIs ==
  \A w, r :
    Settled(w, r) <=> Quiet(PeriodOf(QuotaOf(r)), OffsetOf(QuotaOf(r)), Slack(QuotaOf(r)),
                            admitted[Stream(r)], Base(w), clock)
  BY DebtIs DEF Settled, Quiet

LEMMA RememberedIs ==
  \A w, r :
    Remembered(w, r) <=>
      Kept(PeriodOf(QuotaOf(r)), OffsetOf(QuotaOf(r)), Slack(QuotaOf(r)),
           admitted[Stream(r)], Base(w),
           data[KeyOf(r)].entry.tat, data[KeyOf(r)].expires_at)
  BY DebtIs DEF Remembered, Kept

LEMMA SettledPrimed ==
  ASSUME manager' = manager
  PROVE  \A w, r :
           Settled(w, r)' <=>
             Quiet(PeriodOf(QuotaOf(r)), OffsetOf(QuotaOf(r)), Slack(QuotaOf(r)),
                   admitted'[Stream(r)], Base(w)', clock')
<1>1. \A r : QuotaOf(r)' = QuotaOf(r)
  BY DEF QuotaOf
<1> QED
  BY <1>1, DebtIs DEF Settled, Quiet

LEMMA RememberedPrimed ==
  ASSUME manager' = manager
  PROVE  \A w, r :
           Remembered(w, r)' <=>
             Kept(PeriodOf(QuotaOf(r)), OffsetOf(QuotaOf(r)), Slack(QuotaOf(r)),
                  admitted'[Stream(r)], Base(w)',
                  data'[KeyOf(r)].entry.tat, data'[KeyOf(r)].expires_at)
<1>1. \A r : QuotaOf(r)' = QuotaOf(r) /\ KeyOf(r)' = KeyOf(r)
  BY DEF QuotaOf, KeyOf
<1> QED
  BY <1>1, DebtIs DEF Remembered, Kept

LEMMA OwnDebtPrimed ==
  ASSUME manager' = manager
  PROVE  \A w, r :
           OwnDebt(w, r)' <=>
             LET log == admitted'[Stream(r)]
                 tat == data'[KeyOf(r)].entry.tat
                 p   == PeriodOf(QuotaOf(r))
             IN  data'[KeyOf(r)] /= None /\ Alone(r) =>
                   IF p = 0 THEN tat <= Base(w)'
                   ELSE \E i \in 1..Len(log) : tat <= log[i] + (Len(log) - i + 1) * p
<1>1. \A r : QuotaOf(r)' = QuotaOf(r) /\ KeyOf(r)' = KeyOf(r) /\ (Alone(r)' <=> Alone(r))
  BY RoutingStays
<1> QED
  BY <1>1 DEF OwnDebt

\* What is settled stays so while nobody adds to the log.
LEMMA SettledStays ==
  ASSUME ManagerInv, NEW w \in Workers, Single(w), [Next]_vars, NEW r \in Limited,
         Settled(w, r), admitted'[Stream(r)] = admitted[Stream(r)]
  PROVE  Settled(w, r)'
<1> DEFINE p == PeriodOf(QuotaOf(r))
           m == OffsetOf(QuotaOf(r))
           s == Slack(QuotaOf(r))
           log == admitted[Stream(r)]
<1>1. p \in Nat /\ m \in Nat /\ s \in Nat /\ log \in Seq(Nat)
  BY Numbers
<1>2. /\ Base(w) \in Nat /\ clock \in Nat /\ Base(w)' \in Nat /\ clock' \in Nat
      /\ Base(w) <= Base(w)' /\ clock <= clock'
  BY Times, BaseMoves
<1>3. Quiet(p, m, s, log, Base(w), clock)
  BY SettledIs
<1> HIDE DEF p, m, s, log
<1>4. Quiet(p, m, s, log, Base(w)', clock')
  BY <1>1, <1>2, <1>3, QuietMonotone
<1> QED
  BY <1>4, ManagerStays, SettledPrimed DEF p, m, s, log

\* An entry that expired during a call has nothing left to remember.
LEMMA ExpiredSettled ==
  ASSUME ManagerInv, NEW w \in Workers, Single(w), NEW r \in Limited,
         data[KeyOf(r)] /= None, data[KeyOf(r)].expires_at <= clock
  PROVE  Settled(w, r) \/ Shortened(r)
<1> SUFFICES ASSUME ~Shortened(r)
             PROVE  Settled(w, r)
  OBVIOUS
<1> DEFINE p == PeriodOf(QuotaOf(r))
           m == OffsetOf(QuotaOf(r))
           s == Slack(QuotaOf(r))
           log == admitted[Stream(r)]
           held == data[KeyOf(r)]
<1>1. /\ p \in Nat /\ m \in Nat /\ s \in Nat /\ log \in Seq(Nat) /\ MaxLatency \in Nat
      /\ s \in {MaxLatency, p}
      /\ p > 0 => MaxLatency <= m + p
      /\ p = 0 => log = <<>>
      /\ KeyOf(r) \in Keys
  BY Numbers
<1>2. Base(w) \in Nat /\ clock \in Nat /\ clock <= Base(w) + MaxLatency
  BY Times
<1>3. held.entry.tat \in Nat /\ held.expires_at \in Nat
  BY <1>1 DEF ManagerInv, TypeOK, StorageTypeOK, InternalEntry
<1>4. Remembered(w, r)
  BY DEF ManagerInv, DebtKept
<1>5. Kept(p, m, s, log, Base(w), held.entry.tat, held.expires_at)
  BY <1>4, RememberedIs
<1> HIDE DEF p, m, s, log
<1>6. Quiet(p, m, s, log, Base(w), clock)
  BY <1>1, <1>2, <1>3, <1>5, KeptExpires
<1> QED
  BY <1>6, SettledIs DEF p, m, s, log

\* What a step keeps that writes neither r's log nor, but to drop what is past,
\* its entry.
LEMMA DebtStays ==
  ASSUME ManagerInv, NEW w \in Workers, Single(w), [Next]_vars, NEW r \in Limited,
         admitted'[Stream(r)] = admitted[Stream(r)],
         \/ data'[KeyOf(r)] = data[KeyOf(r)]
         \/ data'[KeyOf(r)] = None /\ (Settled(w, r) \/ Shortened(r))
  PROVE  DebtKept(w, r)' /\ OwnDebt(w, r)'
<1> DEFINE p == PeriodOf(QuotaOf(r))
           m == OffsetOf(QuotaOf(r))
           s == Slack(QuotaOf(r))
           log == admitted[Stream(r)]
           held == data[KeyOf(r)]
<1>1. p \in Nat /\ m \in Nat /\ s \in Nat /\ log \in Seq(Nat) /\ KeyOf(r) \in Keys
  BY Numbers
<1>2. /\ Base(w) \in Nat /\ Base(w)' \in Nat /\ Base(w) <= Base(w)'
  BY Times, BaseMoves
<1>3. manager' = manager
  BY ManagerStays
<1>4. /\ QuotaOf(r)' = QuotaOf(r) /\ KeyOf(r)' = KeyOf(r)
      /\ (Shortened(r)' <=> Shortened(r)) /\ (Alone(r)' <=> Alone(r))
  BY <1>3, RoutingStays
<1>5. DebtKept(w, r) /\ OwnDebt(w, r)
  BY DEF ManagerInv
<1>6. CASE data'[KeyOf(r)] = None
  <2>1. Settled(w, r) \/ Shortened(r)
    BY <1>5, <1>6 DEF DebtKept
  <2>2. Settled(w, r)' \/ Shortened(r)'
    BY <1>4, <2>1, SettledStays
  <2> QED
    BY <1>4, <1>6, <2>2 DEF DebtKept, OwnDebt
<1>7. CASE data'[KeyOf(r)] /= None
  <2>1. data'[KeyOf(r)] = held /\ held /= None
    BY <1>7
  <2>2. held.entry.tat \in Nat /\ held.expires_at \in Nat
    BY <1>1, <2>1 DEF ManagerInv, TypeOK, StorageTypeOK, InternalEntry
  <2>3. ASSUME Remembered(w, r) PROVE Remembered(w, r)'
    <3>1. Kept(p, m, s, log, Base(w), held.entry.tat, held.expires_at)
      BY <2>3, RememberedIs
    <3> HIDE DEF p, m, s, log, held
    <3>2. Kept(p, m, s, log, Base(w)', held.entry.tat, held.expires_at)
      BY <1>1, <1>2, <2>2, <3>1, KeptMonotone
    <3> QED
      BY <1>3, <2>1, <3>2, RememberedPrimed DEF p, m, s, log, held
  <2>4. DebtKept(w, r)'
    BY <1>4, <1>5, <1>7, <2>1, <2>3 DEF DebtKept
  <2>5. ASSUME Alone(r)
        PROVE  IF p = 0 THEN held.entry.tat <= Base(w)'
               ELSE \E i \in 1..Len(log) :
                      held.entry.tat <= log[i] + (Len(log) - i + 1) * p
    <3>1. IF p = 0 THEN held.entry.tat <= Base(w)
          ELSE \E i \in 1..Len(log) :
                 held.entry.tat <= log[i] + (Len(log) - i + 1) * p
      BY <1>5, <2>1, <2>5 DEF OwnDebt
    <3> HIDE DEF p, log, held
    <3> QED
      BY <1>2, <2>2, <3>1
  <2>6. OwnDebt(w, r)'
    BY <1>3, <2>1, <2>5, OwnDebtPrimed
  <2> QED
    BY <2>4, <2>6
<1> QED
  BY <1>6, <1>7

(***************************************************************************)
(* The step that decides                                                   *)
(***************************************************************************)
\* What a decision finds and leaves when it is stored.
LEMMA CommitFacts ==
  ASSUME ManagerInv, NEW w \in Workers, Single(w), Record(w)
  PROVE  LET q     == request[w]
             k     == KeyOf(q)
             quota == QuotaOf(q)
             entry == call[w].current
             d     == Outcome(w)
             a     == now[w]
             p     == PeriodOf(quota)
             m     == OffsetOf(quota)
         IN  /\ q \in Limited /\ k \in Keys /\ p \in Nat /\ m \in Nat
             /\ a \in Nat /\ clock \in Nat /\ a <= clock /\ clock <= a + MaxLatency
             /\ Base(w) = a /\ Base(w)' = clock /\ clock' = clock
             /\ manager' = manager
             /\ data'[k] /= None /\ data'[k].entry.tat = d.tat
             /\ data'[k].expires_at \in Nat
             /\ data'[k].expires_at >= a + m + p + p
             /\ d.tat \in Nat /\ d.allowed \in BOOLEAN
             /\ p = 0 => d.tat <= a
             /\ entry = None => AllSettled(w) /\ d.allowed /\ d.tat = a + p
             /\ entry /= None =>
                  /\ data[k] /= None /\ entry = data[k].entry /\ entry.tat \in Nat
                  /\ d.allowed => /\ entry.tat <= a + m
                                  /\ d.tat = (IF entry.tat >= a THEN entry.tat ELSE a) + p
                  /\ ~d.allowed => d.tat = entry.tat /\ entry.tat > a + m
<1> DEFINE q     == request[w]
           k     == KeyOf(q)
           quota == QuotaOf(q)
           entry == call[w].current
           d     == Outcome(w)
           a     == now[w]
           p     == PeriodOf(quota)
           m     == OffsetOf(quota)
<1>1. TypeOK /\ CallsMade /\ CallInv(w)
  BY DEF ManagerInv
<1>2. /\ At(w, "execute_atomic", "commit") /\ ~(p = 0 /\ d.tat > a)
      /\ data'[k] /= None /\ data'[k].entry.tat = d.tat
      /\ data'[k].expires_at = call[w].expires /\ call[w].expires \in Nat
  BY <1>1, RecordFacts
<1>3. /\ q \in Limited /\ IsQuota(quota) /\ call[w].key = k /\ k \in Keys
      /\ call[w].ttl = TtlOf(quota)
      /\ Busy(w) /\ d.tat \in Nat /\ d.allowed \in BOOLEAN
      /\ d.allowed /\ entry = None => d.tat = a + p
      /\ d.allowed /\ entry /= None /\ entry.tat \in Nat =>
           entry.tat <= a + m /\ d.tat = (IF entry.tat >= a THEN entry.tat ELSE a) + p
      /\ ~d.allowed => /\ entry /= None /\ entry.tat \in Nat /\ d.tat = entry.tat
                       /\ entry.tat > a + m
  BY <1>1, <1>2, OutcomeFacts
<1>4. /\ a \in Nat /\ clock \in Nat /\ a <= clock /\ clock <= a + MaxLatency
      /\ Base(w) = a
  BY <1>3, Times
<1>5. manager' = manager /\ clock' = clock /\ Base(w)' = clock
  <2>1. /\ call' = [call EXCEPT ![w] = NoCall] /\ clock' = clock /\ manager' = manager
    BY EndedFrame DEF Ended
  <2> QED
    BY <1>1, <2>1 DEF Base, Busy, NoCall, TypeOK, StorageTypeOK
<1>6. p \in Nat /\ m \in Nat /\ TtlOf(quota) = m + p + p
  BY <1>3, QuotaNumbers
<1>7. call[w].expires >= a + m + p + p
  <2>1. call[w].expires >= a + TtlOf(quota)
    BY <1>1, <1>2, <1>3 DEF CallInv, At
  <2> HIDE DEF a, m, p, quota
  <2> QED
    BY <1>2, <1>4, <1>6, <2>1
<1>8. /\ entry = None => AllSettled(w)
      /\ entry /= None => data[k] /= None /\ entry = data[k].entry
  BY <1>1, <1>2, <1>3 DEF CallInv
<1>9. entry /= None => entry.tat \in Nat
  BY <1>3, <1>8 DEF ManagerInv
<1> HIDE DEF q, k, quota, entry, d, a, p, m
<1>10. p = 0 => d.tat <= a
  BY <1>2, <1>3, <1>4
<1>11. /\ entry = None => d.allowed /\ d.tat = a + p
       /\ entry /= None =>
            /\ d.allowed => /\ entry.tat <= a + m
                            /\ d.tat = (IF entry.tat >= a THEN entry.tat ELSE a) + p
            /\ ~d.allowed => d.tat = entry.tat /\ entry.tat > a + m
  BY <1>3, <1>9
<1> QED
  BY <1>2, <1>3, <1>4, <1>5, <1>6, <1>7, <1>8, <1>9, <1>10, <1>11
  DEF q, k, quota, entry, d, a, p, m

\* What was known of r before the decision, of the numbers.
LEMMA FoundAtCommit ==
  ASSUME ManagerInv, NEW w \in Workers, Single(w), Record(w), NEW r \in Limited,
         KeyOf(r) = KeyOf(request[w]), ~Shortened(r)
  PROVE  LET p   == PeriodOf(QuotaOf(r))
             m   == OffsetOf(QuotaOf(r))
             s   == Slack(QuotaOf(r))
             log == admitted[Stream(r)]
             held == data[KeyOf(r)]
         IN  /\ call[w].current = None => Quiet(p, m, s, log, now[w], clock)
             /\ call[w].current /= None =>
                  /\ Kept(p, m, s, log, now[w], call[w].current.tat, held.expires_at)
                  /\ held.expires_at \in Nat
<1>1. /\ KeyOf(r) \in Keys /\ Base(w) = now[w] /\ call[w].key = KeyOf(r)
  <2>1. KeyOf(request[w]) \in Keys /\ Base(w) = now[w]
    BY CommitFacts
  <2>2. call[w].key = KeyOf(request[w])
    BY OutcomeFacts DEF ManagerInv, Record
  <2> QED
    BY <2>1, <2>2
<1>2. CASE call[w].current = None
  <2>1. AllSettled(w)
    BY <1>2, CommitFacts
  <2>2. Settled(w, r)
    BY <1>1, <2>1 DEF AllSettled
  <2> QED
    BY <1>1, <1>2, <2>2, SettledIs
<1>3. CASE call[w].current /= None
  <2>1. data[KeyOf(r)] /= None /\ call[w].current = data[KeyOf(r)].entry
    BY <1>3, CommitFacts
  <2>2. Remembered(w, r)
    BY <2>1 DEF ManagerInv, DebtKept
  <2>3. data[KeyOf(r)].expires_at \in Nat
    BY <1>1, <2>1 DEF ManagerInv, TypeOK, StorageTypeOK, InternalEntry
  <2> QED
    BY <1>1, <1>3, <2>1, <2>2, <2>3, RememberedIs
<1> QED
  BY <1>2, <1>3

\* A request let through is within its quota, and the entry it leaves knows of it.
LEMMA AppendedKey ==
  ASSUME ManagerInv, NEW w \in Workers, Single(w), Record(w), Outcome(w).allowed,
         NEW r \in Limited, Stream(r) = Stream(request[w]), ~Shortened(r),
         admitted'[Stream(r)] = Append(admitted[Stream(r)], now[w])
  PROVE  /\ Owes(PeriodOf(QuotaOf(r)), admitted[Stream(r)], now[w] + OffsetOf(QuotaOf(r)))
         /\ Remembered(w, r)'
<1> DEFINE q       == request[w]
           a       == now[w]
           p       == PeriodOf(QuotaOf(r))
           m       == OffsetOf(QuotaOf(r))
           s       == Slack(QuotaOf(r))
           log     == admitted[Stream(r)]
           held    == data[KeyOf(r)]
           held1   == data'[KeyOf(r)]
           entry   == call[w].current
           tat     == Outcome(w).tat
<1>1. q \in Limited /\ r \in Requests /\ q \in Requests /\ manager \in Managers
  BY CommitFacts DEF Limited, ManagerInv, TypeOK
<1>2. QuotaOf(r) = QuotaOf(q) /\ KeyOf(r) = KeyOf(q)
  BY <1>1, StreamRouting
<1>3. /\ p \in Nat /\ m \in Nat /\ s \in Nat /\ log \in Seq(Nat) /\ MaxLatency \in Nat
      /\ s \in {MaxLatency, p} /\ s <= p
  BY Numbers
<1>4. /\ a \in Nat /\ clock \in Nat /\ a <= clock /\ clock <= a + MaxLatency
      /\ Base(w)' = clock /\ manager' = manager
      /\ held1.entry.tat = tat /\ held1.expires_at \in Nat
      /\ held1.expires_at >= a + m + p + p
      /\ entry = None => tat = a + p
      /\ entry /= None =>
           /\ entry.tat \in Nat /\ entry.tat <= a + m
           /\ tat = (IF entry.tat >= a THEN entry.tat ELSE a) + p
  BY <1>2, CommitFacts
<1>5. /\ entry = None => Quiet(p, m, s, log, a, clock)
      /\ entry /= None =>
           /\ Kept(p, m, s, log, a, entry.tat, held.expires_at)
           /\ held.expires_at \in Nat
  BY <1>2, FoundAtCommit
<1> HIDE DEF q, a, p, m, s, log, held, held1, entry, tat
<1>6. /\ Owes(p, log, a + m)
      /\ Kept(p, m, s, Append(log, a), clock, tat, held1.expires_at)
  <2>1. CASE entry = None
    <3>1. Quiet(p, m, s, log, a, clock) /\ tat = a + p
      BY <1>4, <1>5, <2>1
    <3>2. /\ a \in Nat /\ clock \in Nat /\ a <= clock /\ clock <= a + MaxLatency
          /\ held1.expires_at \in Nat /\ held1.expires_at >= a + m + p + p
      BY <1>4
    <3>3. /\ Owes(p, log, a + m)
          /\ Kept(p, m, s, Append(log, a), clock, a + p, held1.expires_at)
      BY <1>3, <3>1, <3>2, QuietAppended
    <3> QED
      BY <3>1, <3>3
  <2>2. CASE entry /= None
    <3> DEFINE t == IF entry.tat >= a THEN entry.tat ELSE a
    <3>1. t \in Nat /\ tat = t + p
      BY <1>4, <2>2
    <3>2. t = IF entry.tat >= a THEN entry.tat ELSE a
      OBVIOUS
    <3> HIDE DEF t
    <3>3. /\ Owes(p, log, a + m)
          /\ Kept(p, m, s, Append(log, a), clock, t + p, held1.expires_at)
      BY <1>3, <1>4, <1>5, <2>2, <3>1, <3>2, KeptAppended
    <3> QED
      BY <3>1, <3>3
  <2> QED
    BY <2>1, <2>2
<1> QED
  BY <1>4, <1>6, RememberedPrimed DEF a, p, m, s, log, held1

\* Whoever else is counted on the key loses nothing by the decision, nor does the
\* one it denies.
LEMMA SharedKey ==
  ASSUME ManagerInv, NEW w \in Workers, Single(w), Record(w), NEW r \in Limited,
         KeyOf(r) = KeyOf(request[w]), ~Shortened(r),
         admitted'[Stream(r)] = admitted[Stream(r)]
  PROVE  Remembered(w, r)'
<1> DEFINE q       == request[w]
           a       == now[w]
           p       == PeriodOf(QuotaOf(r))
           m       == OffsetOf(QuotaOf(r))
           s       == Slack(QuotaOf(r))
           p1      == PeriodOf(QuotaOf(q))
           m1      == OffsetOf(QuotaOf(q))
           log     == admitted[Stream(r)]
           held    == data[KeyOf(r)]
           held1   == data'[KeyOf(r)]
           entry   == call[w].current
           tat     == Outcome(w).tat
<1>1. q \in Limited /\ q \in Requests /\ QuotaOf(q) /= None
  BY CommitFacts DEF Limited
<1>2. KeptLongEnough(QuotaOf(q), QuotaOf(r))
  BY <1>1 DEF Shortened
<1>3. /\ p \in Nat /\ m \in Nat /\ s \in Nat /\ log \in Seq(Nat)
  BY Numbers
<1>4. p1 = 0 \/ m1 + p1 + p1 >= m + p + s
  BY <1>1, <1>2, QuotaNumbers, Numbers DEF KeptLongEnough
<1>5. /\ a \in Nat /\ clock \in Nat /\ a <= clock /\ p1 \in Nat /\ m1 \in Nat
      /\ Base(w)' = clock /\ manager' = manager
      /\ held1.entry.tat = tat /\ held1.expires_at \in Nat
      /\ held1.expires_at >= a + m1 + p1 + p1
      /\ tat \in Nat
      /\ p1 = 0 => tat <= a
      /\ entry /= None =>
           /\ entry.tat \in Nat
           /\ Outcome(w).allowed => tat = (IF entry.tat >= a THEN entry.tat ELSE a) + p1
           /\ ~Outcome(w).allowed => tat = entry.tat
  BY CommitFacts
<1>6. /\ entry = None => Quiet(p, m, s, log, a, clock)
      /\ entry /= None =>
           /\ Kept(p, m, s, log, a, entry.tat, held.expires_at)
           /\ held.expires_at \in Nat
  BY FoundAtCommit
<1> HIDE DEF q, a, p, m, s, p1, m1, log, held, held1, entry, tat
<1>7. Kept(p, m, s, log, clock, tat, held1.expires_at)
  <2>1. CASE entry = None
    BY <1>3, <1>5, <1>6, <2>1, QuietShared
  <2>2. CASE entry /= None
    <3>1. entry.tat <= tat
      BY <1>5, <2>2
    <3>2. \/ entry.tat <= tat /\ held1.expires_at >= a + m + p + s
          \/ entry.tat <= a
      <4>1. CASE p1 = 0
        BY <1>5, <2>2, <3>1, <4>1
      <4>2. CASE m1 + p1 + p1 >= m + p + s
        BY <1>3, <1>5, <3>1, <4>2
      <4> QED
        BY <1>4, <4>1, <4>2
    <3>3. /\ Kept(p, m, s, log, a, entry.tat, held.expires_at)
          /\ held.expires_at \in Nat /\ entry.tat \in Nat /\ tat \in Nat
          /\ held1.expires_at \in Nat /\ a \in Nat /\ clock \in Nat /\ a <= clock
      BY <1>5, <1>6, <2>2
    <3> QED
      BY <1>3, <3>2, <3>3, KeptShared
  <2> QED
    BY <2>1, <2>2
<1> QED
  BY <1>5, <1>7, RememberedPrimed DEF p, m, s, log, held1

\* The TAT of a key that is not shared grows by the periods of its own log.
LEMMA OwnKey ==
  ASSUME ManagerInv, NEW w \in Workers, Single(w), Record(w), NEW r \in Limited,
         KeyOf(r) = KeyOf(request[w]), Alone(r)
  PROVE  LET p   == PeriodOf(QuotaOf(r))
             log == admitted'[Stream(r)]
             tat == data'[KeyOf(r)].entry.tat
         IN  IF p = 0 THEN tat <= Base(w)'
             ELSE \E i \in 1..Len(log) : tat <= log[i] + (Len(log) - i + 1) * p
<1> DEFINE q     == request[w]
           a     == now[w]
           p     == PeriodOf(QuotaOf(r))
           log   == admitted[Stream(r)]
           n     == Len(log)
           entry == call[w].current
           tat   == Outcome(w).tat
<1>1. q \in Requests /\ r \in Requests /\ manager \in Managers
  BY CommitFacts DEF Limited, ManagerInv, TypeOK
<1>2. Stream(q) = Stream(r)
  BY <1>1 DEF Alone
<1>3. QuotaOf(r) = QuotaOf(q)
  BY <1>1, <1>2, StreamRouting
<1>4. /\ p \in Nat /\ log \in Seq(Nat) /\ Stream(r) \in Streams /\ n \in Nat
  BY Numbers
<1>5. /\ a \in Nat /\ clock \in Nat /\ a <= clock
      /\ Base(w)' = clock
      /\ data'[KeyOf(r)].entry.tat = tat
      /\ tat \in Nat /\ Outcome(w).allowed \in BOOLEAN
      /\ p = 0 => tat <= a
      /\ entry = None => Outcome(w).allowed /\ tat = a + p
      /\ entry /= None =>
           /\ data[KeyOf(r)] /= None /\ entry = data[KeyOf(r)].entry /\ entry.tat \in Nat
           /\ Outcome(w).allowed => tat = (IF entry.tat >= a THEN entry.tat ELSE a) + p
           /\ ~Outcome(w).allowed => tat = entry.tat
  BY <1>3, CommitFacts
<1>6. entry /= None /\ p /= 0 =>
        \E i \in 1..n : entry.tat <= log[i] + (n - i + 1) * p
  BY <1>5 DEF ManagerInv, OwnDebt
<1>7. admitted'[Stream(r)] = IF Outcome(w).allowed /\ p > 0 THEN Append(log, a) ELSE log
  <2>1. admitted' = IF Outcome(w).allowed /\ PeriodOf(QuotaOf(q)) > 0
                      THEN [admitted EXCEPT ![Stream(q)] = Append(@, now[w])]
                      ELSE admitted
    BY RecordFacts DEF ManagerInv
  <2>2. admitted \in [Streams -> Seq(Nat)]
    BY DEF ManagerInv, TypeOK
  <2> QED
    BY <1>2, <1>3, <1>4, <2>1, <2>2
<1>8. CASE p = 0
  <2>1. tat <= Base(w)'
    <3> HIDE DEF a, p, tat
    <3> QED
      BY <1>5, <1>8
  <2> QED
    BY <1>5, <1>8, <2>1
<1>9. CASE p /= 0 /\ Outcome(w).allowed
  <2> DEFINE new == Append(log, a)
  <2>1. /\ Len(new) = n + 1 /\ new[n + 1] = a
        /\ \A i \in 1..n : new[i] = log[i]
    BY <1>4, <1>5, Appended
  <2>2. \E i \in 1..(n + 1) : tat <= new[i] + (n + 1 - i + 1) * p
    <3>1. CASE tat = a + p
      <4>1. n + 1 \in 1..(n + 1) /\ (n + 1 - (n + 1) + 1) * p = p
        BY <1>4
      <4>2. tat <= new[n + 1] + (n + 1 - (n + 1) + 1) * p
        BY <1>4, <1>5, <2>1, <3>1, <4>1
      <4> QED
        BY <4>1, <4>2
    <3>2. CASE entry /= None /\ tat = entry.tat + p
      <4>1. PICK i \in 1..n : entry.tat <= log[i] + (n - i + 1) * p
        BY <1>6, <1>9, <3>2
      <4> DEFINE x == (n - i + 1) * p
      <4>2. /\ log[i] \in Nat /\ x \in Nat /\ (n + 1 - i + 1) * p = x + p
        BY <1>4, DebtNumbers
      <4>3. entry.tat \in Nat /\ entry.tat <= log[i] + x
        BY <1>5, <3>2, <4>1
      <4>4. new[i] = log[i] /\ i \in 1..(n + 1)
        BY <1>4, <2>1
      <4> HIDE DEF x, new, n, log, entry, tat, p
      <4>5. tat <= new[i] + (n + 1 - i + 1) * p
        BY SMTT(30), <1>4, <3>2, <4>2, <4>3, <4>4
      <4> QED
        BY <4>4, <4>5
    <3> HIDE DEF new, n, log, a, p, entry, tat
    <3>3. tat = a + p \/ (entry /= None /\ tat = entry.tat + p)
      BY <1>5, <1>9
    <3> QED
      BY <3>1, <3>2, <3>3
  <2>3. admitted'[Stream(r)] = new
    <3>1. p > 0
      BY <1>4, <1>9
    <3> QED
      BY <1>7, <1>9, <3>1
  <2>4. \E i \in 1..Len(new) : tat <= new[i] + (Len(new) - i + 1) * p
    <3>1. PICK i \in 1..(n + 1) : tat <= new[i] + (n + 1 - i + 1) * p
      BY <2>2
    <3>2. Len(new) - i + 1 = n + 1 - i + 1 /\ i \in 1..Len(new)
      BY <2>1
    <3> HIDE DEF new, n, tat, p
    <3>3. tat <= new[i] + (Len(new) - i + 1) * p
      BY <3>1, <3>2, Zenon
    <3> QED
      BY <3>2, <3>3
  <2> HIDE DEF new, tat, p
  <2>5. LET log1 == admitted'[Stream(r)]
        IN  \E i \in 1..Len(log1) :
              data'[KeyOf(r)].entry.tat <= log1[i] + (Len(log1) - i + 1) * p
    BY <1>5, <2>3, <2>4
  <2> QED
    BY <1>9, <2>5 DEF p
<1>10. CASE p /= 0 /\ ~Outcome(w).allowed
  <2>1. admitted'[Stream(r)] = log /\ entry /= None /\ tat = entry.tat
    BY <1>5, <1>7, <1>10
  <2> QED
    BY <1>5, <1>6, <1>10, <2>1
<1> QED
  BY <1>8, <1>9, <1>10

(***************************************************************************)
(* The other steps                                                         *)
(***************************************************************************)
\* The actions of the one worker.
LEMMA StepCases ==
  ASSUME NEW w \in Workers, Single(w), [Next]_vars
  PROVE  UNCHANGED vars \/ Time \/ Begun(w) \/ Internal(w) \/ Ended(w)
  BY DEF Next, Begun, Ended, Single

\* The steps that neither decide nor forget leave the history alone, and drop an
\* entry only when it has nothing left to remember.
LEMMA QuietStep ==
  ASSUME ManagerInv, NEW w \in Workers, Single(w), [Next]_vars, ~Record(w), ~Forget(w)
  PROVE  /\ admitted' = admitted
         /\ \A k \in Keys : data'[k] \in {data[k], None}
         /\ \A r \in Limited :
              \/ data'[KeyOf(r)] = data[KeyOf(r)]
              \/ data'[KeyOf(r)] = None /\ (Settled(w, r) \/ Shortened(r))
<1> DEFINE Dropped(r) == data'[KeyOf(r)] = None /\ (Settled(w, r) \/ Shortened(r))
           Goal == /\ admitted' = admitted
                   /\ \A k \in Keys : data'[k] \in {data[k], None}
                   /\ \A r \in Limited : data'[KeyOf(r)] = data[KeyOf(r)] \/ Dropped(r)
<1>0. /\ TypeOK /\ StorageTypeOK /\ CallsMade /\ CallInv(w)
      /\ \A r \in Limited : KeyOf(r) \in Keys
  BY Numbers DEF ManagerInv, TypeOK
<1>1. CASE UNCHANGED vars
  BY <1>1 DEF vars, storageVars
<1>2. CASE Time
  BY <1>2 DEF Time, Tick
<1>3. CASE Begun(w)
  <2>1. PICK op \in {"execute_atomic", "get", "delete"}, k \in Keys, ttl \in Nat,
             q \in Requests \cup {None} : Start(w, op, k, ttl, q)
    BY <1>0, <1>3, BegunFacts
  <2> QED
    BY <2>1 DEF Start, Begin
<1>4. CASE Internal(w)
  <2>1. admitted' = admitted
    BY <1>4 DEF Internal
  <2>2. CASE Common(w)
    <3>1. \A k \in Keys : data'[k] \in {data[k], None}
      BY <1>0, <2>2, CommonFrame
    <3>2. ASSUME NEW r \in Limited, data'[KeyOf(r)] /= data[KeyOf(r)]
          PROVE  Dropped(r)
      <4>1. /\ data'[KeyOf(r)] = None /\ data[KeyOf(r)] /= None
            /\ ~LiveAt(data[KeyOf(r)], call[w].gcNow)
        BY <1>0, <2>2, <3>2, CommonDrops
      <4>2. call[w].gcNow \in Nat /\ call[w].gcNow <= clock /\ clock \in Nat
            /\ data[KeyOf(r)].expires_at \in Nat
        BY <1>0, <4>1 DEF StorageTypeOK, Call, CallInv, InternalEntry
      <4>3. data[KeyOf(r)].expires_at <= clock
        BY <4>1, <4>2 DEF LiveAt
      <4> QED
        BY <4>1, <4>3, ExpiredSettled
    <3> QED
      BY <2>1, <3>1, <3>2
  <2>3. CASE Load(w) \/ GetExpired(w)
    BY <2>1, <2>3 DEF Load, GetExpired
  <2> QED
    BY <1>4, <2>2, <2>3 DEF Internal
<1>5. CASE Panic(w)
  BY <1>5 DEF Panic
<1>6. CASE Peek(w)
  <2>1. admitted' = admitted
    BY <1>6 DEF Peek
  <2>2. CASE GetHit(w) \/ GetMiss(w)
    BY <2>1, <2>2 DEF GetHit, GetMiss
  <2>3. CASE GetRemove(w)
    <3>1. /\ At(w, "get", "remove")
          /\ data' = [data EXCEPT ![call[w].key] = None]
      BY <2>3 DEF GetRemove
    <3>2. AllSettled(w)
      BY <1>0, <3>1 DEF CallInv
    <3>3. \A k \in Keys : /\ data'[k] \in {data[k], None}
                          /\ k /= call[w].key => data'[k] = data[k]
      BY <1>0, <3>1 DEF StorageTypeOK
    <3>4. ASSUME NEW r \in Limited
          PROVE  data'[KeyOf(r)] = data[KeyOf(r)] \/ Dropped(r)
      <4>1. CASE KeyOf(r) = call[w].key
        <5>1. Settled(w, r) \/ Shortened(r)
          BY <3>2, <4>1 DEF AllSettled
        <5> QED
          BY <1>0, <3>3, <5>1
      <4>2. CASE KeyOf(r) /= call[w].key
        BY <1>0, <3>3, <4>2
      <4> QED
        BY <4>1, <4>2
    <3> QED
      BY <2>1, <3>3, <3>4
  <2> QED
    BY <1>6, <2>2, <2>3 DEF Peek
<1> QED
  BY <1>1, <1>2, <1>3, <1>4, <1>5, <1>6, StepCases DEF Ended

\* What a decision does to the log of each request.
LEMMA RecordLog ==
  ASSUME ManagerInv, NEW w \in Workers, Single(w), Record(w), NEW r \in Limited
  PROVE  \/ /\ Stream(r) = Stream(request[w])
            /\ Outcome(w).allowed /\ PeriodOf(QuotaOf(r)) > 0
            /\ admitted'[Stream(r)] = Append(admitted[Stream(r)], now[w])
         \/ admitted'[Stream(r)] = admitted[Stream(r)]
<1>1. /\ admitted' = IF Outcome(w).allowed /\ PeriodOf(QuotaOf(request[w])) > 0
                       THEN [admitted EXCEPT ![Stream(request[w])] = Append(@, now[w])]
                       ELSE admitted
  BY RecordFacts DEF ManagerInv
<1>2. /\ admitted \in [Streams -> Seq(Nat)] /\ Stream(r) \in Streams
      /\ r \in Requests /\ request[w] \in Requests /\ manager \in Managers
  BY Numbers, CommitFacts DEF ManagerInv, TypeOK, Limited
<1>3. CASE Stream(r) = Stream(request[w])
  <2>1. QuotaOf(r) = QuotaOf(request[w])
    BY <1>2, <1>3, StreamRouting
  <2> QED
    BY <1>1, <1>2, <1>3, <2>1
<1>4. CASE Stream(r) /= Stream(request[w])
  BY <1>1, <1>2, <1>4
<1> QED
  BY <1>3, <1>4

LEMMA RecordedDebt ==
  ASSUME ManagerInv, NEW w \in Workers, Single(w), [Next]_vars, Record(w), NEW r \in Limited
  PROVE  DebtKept(w, r)' /\ OwnDebt(w, r)'
<1>1. manager' = manager
  BY ManagerStays
<1>2. /\ QuotaOf(r)' = QuotaOf(r) /\ KeyOf(r)' = KeyOf(r)
      /\ (Shortened(r)' <=> Shortened(r))
  BY <1>1, RoutingStays
<1>3. KeyOf(r) \in Keys /\ KeyOf(request[w]) \in Keys
  BY Numbers, CommitFacts
<1>4. CASE KeyOf(r) = KeyOf(request[w])
  <2>1. data'[KeyOf(r)] /= None
    BY <1>4, CommitFacts
  <2>2. Remembered(w, r)' \/ Shortened(r)
    BY <1>4, RecordLog, AppendedKey, SharedKey
  <2>3. DebtKept(w, r)'
    BY <1>2, <2>1, <2>2 DEF DebtKept
  <2>4. OwnDebt(w, r)'
    BY <1>1, <1>4, OwnKey, OwnDebtPrimed
  <2> QED
    BY <2>3, <2>4
<1>5. CASE KeyOf(r) /= KeyOf(request[w])
  <2>1. data'[KeyOf(r)] = data[KeyOf(r)]
    <3>1. data' = [data EXCEPT ![KeyOf(request[w])] =
                     [entry |-> WithTat(Outcome(w).tat), expires_at |-> call[w].expires]]
      BY RecordFacts DEF ManagerInv
    <3> QED
      BY <1>3, <1>5, <3>1 DEF ManagerInv, TypeOK, StorageTypeOK
  <2>2. admitted'[Stream(r)] = admitted[Stream(r)]
    <3>1. Stream(r) /= Stream(request[w])
      BY <1>5, CommitFacts, StreamRouting DEF ManagerInv, TypeOK, Limited
    <3> QED
      BY <3>1, RecordLog
  <2> QED
    BY <2>1, <2>2, DebtStays
<1> QED
  BY <1>4, <1>5

\* A reset forgets the logs of all it concerns with their entry.
LEMMA ForgottenLog ==
  ASSUME ManagerInv, NEW w \in Workers, Single(w), Forget(w), NEW r \in Limited
  PROVE  IF KeyOf(r) = call[w].key
           THEN admitted'[Stream(r)] = <<>> /\ data'[KeyOf(r)] = None
           ELSE /\ admitted'[Stream(r)] = admitted[Stream(r)]
                /\ data'[KeyOf(r)] = data[KeyOf(r)]
<1> DEFINE forgotten == {Stream(q) : q \in {q \in Requests : KeyOf(q) = call[w].key}}
<1>1. /\ admitted' = [s \in Streams |-> IF s \in forgotten THEN <<>> ELSE admitted[s]]
      /\ data' = [data EXCEPT ![call[w].key] = None]
  BY DEF Forget, DeleteCommit
<1>2. /\ r \in Requests /\ Stream(r) \in Streams /\ KeyOf(r) \in Keys
      /\ manager \in Managers
      /\ data \in [Keys -> InternalEntry \cup {None}]
  BY Numbers DEF ManagerInv, TypeOK, StorageTypeOK
<1>3. CASE KeyOf(r) = call[w].key
  <2>1. Stream(r) \in forgotten
    BY <1>2, <1>3
  <2> QED
    BY <1>1, <1>2, <1>3, <2>1
<1>4. CASE KeyOf(r) /= call[w].key
  <2>1. Stream(r) \notin forgotten
    BY <1>2, <1>4, StreamRouting
  <2> QED
    BY <1>1, <1>2, <1>4, <2>1
<1> QED
  BY <1>3, <1>4

LEMMA ForgottenDebt ==
  ASSUME ManagerInv, NEW w \in Workers, Single(w), [Next]_vars, Forget(w), NEW r \in Limited
  PROVE  DebtKept(w, r)' /\ OwnDebt(w, r)'
<1>1. manager' = manager
  BY ManagerStays
<1>2. CASE KeyOf(r) = call[w].key
  <2>1. admitted'[Stream(r)] = <<>> /\ data'[KeyOf(r)] = None
    BY <1>2, ForgottenLog
  <2>2. Settled(w, r)'
    BY <1>1, <2>1, EmptyOwes, SettledPrimed DEF Quiet
  <2>3. KeyOf(r)' = KeyOf(r)
    BY <1>1, RoutingStays
  <2> QED
    BY <2>1, <2>2, <2>3 DEF DebtKept, OwnDebt
<1>3. CASE KeyOf(r) /= call[w].key
  BY <1>3, ForgottenLog, DebtStays
<1> QED
  BY <1>2, <1>3

LEMMA DebtsStep ==
  ASSUME ManagerInv, NEW w \in Workers, Single(w), [Next]_vars, NEW r \in Limited
  PROVE  DebtKept(w, r)' /\ OwnDebt(w, r)'
<1>1. CASE Record(w)
  BY <1>1, RecordedDebt
<1>2. CASE Forget(w)
  BY <1>2, ForgottenDebt
<1>3. CASE ~Record(w) /\ ~Forget(w)
  BY <1>3, QuietStep, DebtStays
<1> QED
  BY <1>1, <1>2, <1>3

LEMMA LogsStep ==
  ASSUME ManagerInv, NEW w \in Workers, Single(w), [Next]_vars, NEW r \in Limited
  PROVE  /\ PeriodOf(QuotaOf(r)) = 0 => admitted'[Stream(r)] = <<>>
         /\ Conforming(QuotaOf(r), admitted'[Stream(r)]) \/ Shortened(r)
<1> DEFINE log == admitted[Stream(r)]
<1>1. /\ PeriodOf(QuotaOf(r)) = 0 => log = <<>>
      /\ Conforming(QuotaOf(r), log) \/ Shortened(r)
  BY DEF ManagerInv
<1>2. /\ IsQuota(QuotaOf(r)) /\ log \in Seq(Nat) /\ r \in Requests
  BY Numbers
<1>3. CASE admitted'[Stream(r)] = log
  BY <1>1, <1>3
<1>4. CASE Record(w)
  <2>1. SUFFICES ASSUME /\ Stream(r) = Stream(request[w])
                        /\ Outcome(w).allowed /\ PeriodOf(QuotaOf(r)) > 0
                        /\ admitted'[Stream(r)] = Append(log, now[w]),
                        ~Shortened(r)
                 PROVE  Conforming(QuotaOf(r), admitted'[Stream(r)])
    BY <1>3, <1>4, RecordLog
  <2>2. Owes(PeriodOf(QuotaOf(r)), log, now[w] + OffsetOf(QuotaOf(r)))
    BY <1>4, <2>1, AppendedKey
  <2>3. now[w] \in Nat
    BY Times
  <2>4. Conforming(QuotaOf(r), Append(log, now[w]))
    BY <1>1, <1>2, <2>1, <2>2, <2>3, AppendConforms
  <2> QED
    BY <2>1, <2>4
<1>5. CASE Forget(w)
  <2>1. CASE admitted'[Stream(r)] = <<>>
    BY <2>1, EmptyOwes DEF Conforming
  <2> QED
    BY <1>3, <1>5, <2>1, ForgottenLog
<1>6. CASE ~Record(w) /\ ~Forget(w)
  BY <1>3, <1>6, QuietStep
<1> QED
  BY <1>4, <1>5, <1>6

LEMMA TatsStep ==
  ASSUME ManagerInv, NEW w \in Workers, Single(w), [Next]_vars,
         NEW k \in Keys, data'[k] /= None
  PROVE  data'[k].entry.tat \in Nat
<1>1. CASE data'[k] \in {data[k], None}
  BY <1>1 DEF ManagerInv
<1>2. CASE Record(w)
  <2>1. CASE k = KeyOf(request[w])
    BY <1>2, <2>1, CommitFacts
  <2>2. CASE k /= KeyOf(request[w])
    <3>1. data' = [data EXCEPT ![KeyOf(request[w])] =
                     [entry |-> WithTat(Outcome(w).tat), expires_at |-> call[w].expires]]
      BY <1>2, RecordFacts DEF ManagerInv
    <3> QED
      BY <1>1, <2>2, <3>1 DEF ManagerInv, TypeOK, StorageTypeOK
  <2> QED
    BY <2>1, <2>2
<1>3. CASE Forget(w)
  BY <1>1, <1>3 DEF Forget, DeleteCommit, ManagerInv, TypeOK, StorageTypeOK
<1>4. CASE ~Record(w) /\ ~Forget(w)
  BY <1>1, <1>4, QuietStep
<1> QED
  BY <1>2, <1>3, <1>4

(***************************************************************************)
(* What a call has read and computed, and the invariant                    *)
(***************************************************************************)
LEMMA AllSettledStays ==
  ASSUME ManagerInv, NEW w \in Workers, Single(w), [Next]_vars, AllSettled(w),
         call'[w].key = call[w].key, admitted' = admitted
  PROVE  AllSettled(w)'
<1>1. /\ Limited' = Limited
      /\ \A r : KeyOf(r)' = KeyOf(r) /\ (Shortened(r)' <=> Shortened(r))
  BY ManagerStays, RoutingStays
<1>2. ASSUME NEW r \in Limited, KeyOf(r) = call[w].key
      PROVE  Settled(w, r)' \/ Shortened(r)
  <2>1. Settled(w, r) \/ Shortened(r)
    BY <1>2 DEF AllSettled
  <2> QED
    BY <2>1, SettledStays
<1> QED
  BY <1>1, <1>2 DEF AllSettled

\* A common step computes an expiry, or leaves the one computed.
LEMMA CommonExpires ==
  ASSUME StorageTypeOK, NEW w \in Workers, Common(w), call[w].op = "execute_atomic"
  PROVE  \/ call'[w].phase \notin {"now", "load", "commit"}
         \/ call'[w].expires = clock + call[w].ttl
         \/ call[w].phase = "now" /\ call'[w].expires = call[w].expires
<1> USE DEF StorageTypeOK, Call
<1>0. AfterGc(w).phase = "expires"
  BY DEF AfterGc
<1>1. CASE CountRequest(w)
  BY <1>0, <1>1 DEF CountRequest
<1>2. CASE TryGcLock(w)
  <2>1. CASE gcLock = None
    BY <1>2, <2>1 DEF TryGcLock, Goto
  <2>2. CASE gcLock /= None
    BY <1>0, <1>2, <2>2 DEF TryGcLock
  <2> QED
    BY <2>1, <2>2
<1>3. CASE StartSweep(w)
  BY <1>3 DEF StartSweep
<1>4. CASE \E k \in Keys : SweepKey(w, k)
  BY <1>4 DEF SweepKey
<1>5. CASE EndSweep(w)
  BY <1>0, <1>5 DEF EndSweep
<1>6. CASE ComputeExpiry(w)
  BY <1>6 DEF ComputeExpiry
<1>7. CASE ReadNow(w)
  BY <1>7 DEF ReadNow
<1> QED
  BY <1>1, <1>2, <1>3, <1>4, <1>5, <1>6, <1>7 DEF Common

\* A worker between calls has computed nothing.
LEMMA IdleCall ==
  ASSUME NEW w \in Workers, call'[w] = NoCall, clock' \in Nat
  PROVE  CallInv(w)'
<1>1. None \notin Operations
  BY MemoryStorageAssumption
<1> QED
  BY <1>1 DEF CallInv, Busy, At, NoCall, Operations

LEMMA CommonCall ==
  ASSUME ManagerInv, NEW w \in Workers, Single(w), Common(w), now' = now
  PROVE  CallInv(w)'
<1>0. /\ StorageTypeOK /\ CallInv(w) /\ CallsMade /\ now[w] \in Nat
      /\ call[w] \in Call /\ clock \in Nat /\ clock' = clock
  BY CommonFrame DEF ManagerInv, TypeOK, StorageTypeOK
<1>1. CASE call'[w] = NoCall
  BY <1>0, <1>1, IdleCall
<1>2. CASE call'[w] /= NoCall
  <2>1. /\ call'[w].op = call[w].op /\ call'[w].ttl = call[w].ttl
    BY <1>0, <1>2, CommonFrame
  <2>2. /\ Busy(w)
        /\ call'[w].phase \notin {"idle", "remove"}
        /\ call'[w].phase = "commit" => call[w].op \in {"set", "increment"}
        /\ call'[w].now \in {call[w].now, clock}
        /\ call'[w].gcNow \in {call[w].gcNow, clock, 0}
    BY <1>0, <1>2, CommonLocals
  <2>3. now[w] <= clock /\ clock <= now[w] + MaxLatency
    BY <1>0, <2>2 DEF CallInv
  <2>4. call'[w].now <= clock /\ call'[w].gcNow <= clock
    BY <1>0, <2>2 DEF CallInv
  <2>5. call[w].op = "execute_atomic" /\ call'[w].phase \in {"now", "load", "commit"} =>
          call'[w].expires >= now[w] + call[w].ttl
    <3>1. call[w].ttl \in Nat
      BY <1>0 DEF Call
    <3>2. SUFFICES ASSUME call[w].op = "execute_atomic",
                          call'[w].phase \in {"now", "load", "commit"}
                   PROVE  call'[w].expires >= now[w] + call[w].ttl
      OBVIOUS
    <3>3. CASE call'[w].expires = clock + call[w].ttl
      BY <1>0, <2>3, <3>1, <3>3
    <3>4. CASE call[w].phase = "now" /\ call'[w].expires = call[w].expires
      BY <1>0, <3>2, <3>4 DEF CallInv
    <3> QED
      BY <1>0, <3>2, <3>3, <3>4, CommonExpires
  <2> QED
    BY <1>0, <2>1, <2>2, <2>3, <2>4, <2>5 DEF CallInv, At
<1> QED
  BY <1>1, <1>2

LEMMA LoadCall ==
  ASSUME ManagerInv, NEW w \in Workers, Single(w), [Next]_vars, Load(w), Internal(w)
  PROVE  CallInv(w)'
<1> DEFINE k    == call[w].key
           held == data[k]
           live == LiveAt(held, call[w].now)
<1>0. /\ TypeOK /\ CallInv(w) /\ CallsMade /\ now[w] \in Nat /\ call[w] \in Call
      /\ clock \in Nat /\ data \in [Keys -> InternalEntry \cup {None}]
  BY DEF ManagerInv, TypeOK, StorageTypeOK
<1>1. /\ call[w].op = "execute_atomic" /\ call[w].phase = "load" /\ k \in Keys /\ Busy(w)
      /\ clock' = clock /\ now' = now /\ data' = data /\ admitted' = admitted
  BY <1>0 DEF Load, CallsMade, TypeOK, CallsKeyed, Keyed, Operations, Internal, Busy
<1>2. call'[w] = [call[w] EXCEPT !.phase = "commit",
                                 !.current = IF live THEN held.entry ELSE None]
  BY <1>0 DEF Load, TypeOK, StorageTypeOK
<1>3. /\ call'[w].phase = "commit" /\ call'[w].op = "execute_atomic"
      /\ call'[w].key = k /\ call'[w].ttl = call[w].ttl
      /\ call'[w].expires = call[w].expires /\ call'[w].now = call[w].now
      /\ call'[w].gcNow = call[w].gcNow
      /\ call'[w].current = IF live THEN held.entry ELSE None
  BY <1>0, <1>1, <1>2 DEF Call
<1>4. /\ now[w] <= clock /\ clock <= now[w] + MaxLatency
      /\ call[w].now <= clock /\ call[w].gcNow <= clock
      /\ call[w].expires >= now[w] + call[w].ttl
  BY <1>0, <1>1 DEF CallInv
<1>5. CASE live
  <2>1. held \in InternalEntry /\ held.entry \in StorageEntry
    BY <1>0, <1>1, <1>5 DEF LiveAt, InternalEntry
  <2>2. held /= None /\ call'[w].current = held.entry /\ held.entry /= None
    BY <1>3, <1>5, <2>1, MemoryStorageAssumption DEF LiveAt
  <2> QED
    BY <1>1, <1>3, <1>4, <2>2 DEF CallInv, At
<1>6. CASE ~live
  <2>1. ASSUME NEW r \in Limited, KeyOf(r) = k
        PROVE  Settled(w, r) \/ Shortened(r)
    <3>1. CASE held = None
      BY <2>1, <3>1 DEF ManagerInv, DebtKept
    <3>2. CASE held /= None
      <4>1. held.expires_at \in Nat /\ call[w].now \in Nat
        BY <1>0, <1>1, <3>2 DEF Call, InternalEntry
      <4>2. held.expires_at <= clock
        BY <1>0, <1>4, <1>6, <3>2, <4>1 DEF LiveAt
      <4> QED
        BY <2>1, <3>2, <4>2, ExpiredSettled
    <3> QED
      BY <3>1, <3>2
  <2>2. AllSettled(w)
    BY <2>1 DEF AllSettled
  <2>3. AllSettled(w)'
    BY <1>1, <1>3, <2>2, AllSettledStays
  <2>4. call'[w].current = None
    BY <1>3, <1>6
  <2> QED
    BY <1>1, <1>3, <1>4, <2>3, <2>4 DEF CallInv, At
<1> QED
  BY <1>5, <1>6

LEMMA ExpiredCall ==
  ASSUME ManagerInv, NEW w \in Workers, Single(w), [Next]_vars, GetExpired(w), Internal(w)
  PROVE  CallInv(w)'
<1> DEFINE k    == call[w].key
           held == data[k]
<1>0. /\ TypeOK /\ CallInv(w) /\ CallsMade /\ now[w] \in Nat /\ call[w] \in Call
      /\ clock \in Nat /\ data \in [Keys -> InternalEntry \cup {None}]
  BY DEF ManagerInv, TypeOK, StorageTypeOK
<1>1. /\ call[w].op = "get" /\ call[w].phase = "load" /\ k \in Keys /\ Busy(w)
      /\ clock' = clock /\ now' = now /\ admitted' = admitted
      /\ held /= None /\ ~LiveAt(held, call[w].now)
  BY <1>0 DEF GetExpired, At, TypeOK, CallsKeyed, Keyed, Operations, Internal, Busy
<1>2. /\ call'[w].phase = "remove" /\ call'[w].op = "get" /\ call'[w].key = k
      /\ call'[w].now = call[w].now /\ call'[w].gcNow = call[w].gcNow
  BY <1>0, <1>1 DEF GetExpired, Goto, TypeOK, StorageTypeOK, Call
<1>3. /\ now[w] <= clock /\ clock <= now[w] + MaxLatency
      /\ call[w].now <= clock /\ call[w].gcNow <= clock
  BY <1>0, <1>1 DEF CallInv
<1>4. held.expires_at <= clock
  <2>1. held.expires_at \in Nat /\ call[w].now \in Nat
    BY <1>0, <1>1 DEF Call, InternalEntry
  <2> QED
    BY <1>0, <1>1, <1>3, <2>1 DEF LiveAt
<1>5. AllSettled(w)
  BY <1>1, <1>4, ExpiredSettled DEF AllSettled
<1>6. AllSettled(w)'
  BY <1>1, <1>2, <1>5, AllSettledStays
<1> QED
  BY <1>1, <1>2, <1>3, <1>6 DEF CallInv, At

LEMMA CallStep ==
  ASSUME ManagerInv, NEW w \in Workers, Single(w), [Next]_vars
  PROVE  CallInv(w)'
<1>0. /\ TypeOK /\ StorageTypeOK /\ CallInv(w) /\ now[w] \in Nat /\ clock \in Nat
      /\ MaxLatency \in Nat /\ call[w] \in Call
  BY ManagerAssumption DEF ManagerInv, TypeOK, StorageTypeOK
<1>1. CASE UNCHANGED <<call, now, admitted, data>>
           /\ clock' \in Nat /\ clock <= clock'
           /\ (Busy(w) => clock' <= now[w] + MaxLatency)
  <2>1. /\ call'[w] = call[w] /\ now'[w] = now[w] /\ data' = data /\ admitted' = admitted
    BY <1>1
  <2>2. AllSettled(w) => AllSettled(w)'
    BY <2>1, AllSettledStays
  <2>3. /\ Busy(w) => now[w] <= clock' /\ clock' <= now[w] + MaxLatency
        /\ call[w].now <= clock' /\ call[w].gcNow <= clock'
    BY <1>0, <1>1 DEF CallInv, Call
  <2> QED
    BY <1>0, <2>1, <2>2, <2>3 DEF CallInv, At, Busy
<1>2. CASE UNCHANGED vars
  <2>1. /\ UNCHANGED <<call, now, admitted, data>> /\ clock' = clock
        /\ (Busy(w) => clock <= now[w] + MaxLatency)
    BY <1>0, <1>2 DEF vars, storageVars, CallInv
  <2> QED
    BY <1>0, <1>1, <2>1
<1>3. CASE Time
  <2>1. /\ UNCHANGED <<call, now, admitted, data>> /\ clock' = clock + 1
        /\ (Busy(w) => clock < now[w] + MaxLatency)
    BY <1>3 DEF Time, Tick
  <2> QED
    BY <1>0, <1>1, <2>1
<1>4. CASE Begun(w)
  <2>1. PICK op \in {"execute_atomic", "get", "delete"}, k \in Keys, ttl \in Nat,
             q \in Requests \cup {None} : Start(w, op, k, ttl, q)
    BY <1>0, <1>4, BegunFacts
  <2>2. /\ now'[w] = clock /\ clock' = clock
        /\ call'[w].op = op /\ call'[w].phase = FirstPhase(op)
        /\ call'[w].now = 0 /\ call'[w].gcNow = 0
    BY <1>0, <2>1 DEF Start, Begin, NoCall, TypeOK, StorageTypeOK
  <2>3. op \in {"execute_atomic", "get"} => FirstPhase(op) = "enter"
    BY DEF FirstPhase
  <2> QED
    BY <1>0, <2>2, <2>3 DEF CallInv, At
<1>5. CASE Internal(w)
  <2>1. now' = now
    BY <1>5 DEF Internal
  <2> QED
    BY <1>5, <2>1, CommonCall, LoadCall, ExpiredCall DEF Internal
<1>6. CASE Ended(w)
  <2>1. call'[w] = NoCall /\ clock' = clock
    BY <1>0, <1>6, EndedFrame DEF StorageTypeOK
  <2> QED
    BY <1>0, <2>1, IdleCall
<1> QED
  BY <1>2, <1>3, <1>4, <1>5, <1>6, StepCases

LEMMA ManagerInvInit ==
  ASSUME NEW w \in Workers, Single(w), Init
  PROVE  ManagerInv
<1>1. TypeOK /\ CallsMade
  BY TypeInit
<1>2. /\ call[w] = NoCall /\ clock = 0 /\ now[w] = 0 /\ manager \in Managers
      /\ \A k \in Keys : data[k] = None
      /\ \A s \in Streams : admitted[s] = <<>>
  BY DEF Init, StorageInit
<1>3. CallInv(w)
  BY <1>2, MemoryStorageAssumption DEF CallInv, Busy, At, NoCall, Operations
<1>4. ASSUME NEW r \in Limited
      PROVE  /\ DebtKept(w, r) /\ OwnDebt(w, r)
             /\ admitted[Stream(r)] = <<>> /\ Conforming(QuotaOf(r), admitted[Stream(r)])
  <2>1. KeyOf(r) \in Keys /\ Stream(r) \in Streams
    BY <1>2, RoutingFacts DEF Limited
  <2>2. data[KeyOf(r)] = None /\ admitted[Stream(r)] = <<>>
    BY <1>2, <2>1
  <2>3. Settled(w, r)
    BY <2>2, EmptyOwes, SettledIs DEF Quiet
  <2>4. Conforming(QuotaOf(r), admitted[Stream(r)])
    BY <2>2, EmptyOwes DEF Conforming
  <2> QED
    BY <2>2, <2>3, <2>4 DEF DebtKept, OwnDebt
<1>5. Workers = {w}
  BY DEF Single
<1> QED
  BY <1>1, <1>2, <1>3, <1>4, <1>5 DEF ManagerInv

LEMMA ManagerInvStep ==
  ASSUME ManagerInv, NEW w \in Workers, Single(w), [Next]_vars
  PROVE  ManagerInv'
<1>1. TypeOK' /\ CallsMade'
  BY TypeStep, CallsMadeStep DEF ManagerInv
<1>2. \A k \in Keys : data'[k] /= None => data'[k].entry.tat \in Nat
  BY TatsStep
<1>3. CallInv(w)' /\ \A r \in Limited : DebtKept(w, r)' /\ OwnDebt(w, r)'
  BY CallStep, DebtsStep
<1>4. \A r \in Limited :
        /\ PeriodOf(QuotaOf(r)) = 0 => admitted'[Stream(r)] = <<>>
        /\ Conforming(QuotaOf(r), admitted'[Stream(r)]) \/ Shortened(r)
  BY LogsStep
<1>5. /\ Limited' = Limited
      /\ \A r : QuotaOf(r)' = QuotaOf(r) /\ (Shortened(r)' <=> Shortened(r))
  BY ManagerStays, RoutingStays
<1>6. \A r \in Limited' :
        /\ PeriodOf(QuotaOf(r)') = 0 => admitted'[Stream(r)] = <<>>
        /\ Conforming(QuotaOf(r)', admitted'[Stream(r)]) \/ Shortened(r)'
  BY <1>4, <1>5
<1>7. \A v \in Workers : CallInv(v)' /\ \A r \in Limited' : DebtKept(v, r)' /\ OwnDebt(v, r)'
  BY <1>3, <1>5 DEF Single
<1> QED
  BY <1>1, <1>2, <1>6, <1>7 DEF ManagerInv

\* For one worker, between any two steps: whoever wrote a key's entry last, the
\* entry remembers the debt of every request that is counted on it, of a route's
\* own quota, and no other where nobody shares the key.
THEOREM ManagerInvariant ==
  ASSUME NEW w \in Workers, Single(w)
  PROVE  Spec => []ManagerInv
<1>1. Init => ManagerInv
  BY ManagerInvInit
<1>2. ManagerInv /\ [Next]_vars => ManagerInv'
  BY ManagerInvStep
<1> QED
  BY <1>1, <1>2, PTL DEF Spec

LEMMA RouteIsLimited ==
  ASSUME manager \in Managers, NEW r \in Requests, r.path \in DOMAIN manager.routes
  PROVE  r \in Limited /\ QuotaOf(r) = manager.routes[r.path].quota
<1>1. GetConfig(manager, r.path) = manager.routes[r.path]
  BY DEF GetConfig
<1>2. manager.routes[r.path] \in Configs(manager)
  BY DEF Configs
<1>3. /\ manager.routes[r.path] /= None /\ IsQuota(manager.routes[r.path].quota)
  BY <1>2, ManagerAssumption
<1>4. QuotaOf(r) = manager.routes[r.path].quota
  BY <1>1, <1>3, RoutingFacts DEF Quota
<1> QED
  BY <1>3, <1>4 DEF Limited, IsQuota

\* One worker, any routes, patterns, suffixes and clients: what a client gets
\* through an exact route keeps the spacing of that very route's quota, unless
\* the route shares its key with one whose entries are not kept for long enough.
THEOREM RoutesKeepTheirQuota ==
  ASSUME NEW w \in Workers, Single(w)
  PROVE  Spec => []RouteQuotaKept
<1>1. ManagerInv => RouteQuotaKept
  BY RouteIsLimited DEF ManagerInv, TypeOK, RouteQuotaKept
<1> QED
  BY <1>1, ManagerInvariant, PTL

\* A denial is of the client's own making.
LEMMA DenialIsOwn ==
  ASSUME ManagerInv, NEW w \in Workers, Single(w),
         At(w, "execute_atomic", "commit"), ~Outcome(w).allowed,
         Unshared(request[w].path)
  PROVE  ~Conforming(QuotaOf(request[w]), Append(admitted[Stream(request[w])], now[w]))
<1> DEFINE r     == request[w]
           a     == now[w]
           p     == PeriodOf(QuotaOf(r))
           m     == OffsetOf(QuotaOf(r))
           log   == admitted[Stream(r)]
           n     == Len(log)
           new   == Append(log, a)
           entry == call[w].current
<1> SUFFICES ASSUME Conforming(QuotaOf(r), new) PROVE FALSE
  OBVIOUS
<1>1. /\ r \in Limited /\ r \in Requests /\ call[w].key = KeyOf(r) /\ Busy(w)
      /\ entry /= None /\ entry.tat \in Nat /\ entry.tat > a + m
  BY OutcomeFacts DEF ManagerInv, Limited
<1>2. /\ p \in Nat /\ m \in Nat /\ log \in Seq(Nat) /\ n \in Nat
  BY <1>1, Numbers
<1>3. a \in Nat /\ Base(w) = a
  BY <1>1, Times
<1>4. data[KeyOf(r)] /= None /\ entry = data[KeyOf(r)].entry
  BY <1>1 DEF ManagerInv, CallInv
<1>5. Alone(r)
  BY <1>1, UnsharedAlone DEF ManagerInv, TypeOK
<1>6. IF p = 0 THEN entry.tat <= a
      ELSE \E i \in 1..n : entry.tat <= log[i] + (n - i + 1) * p
  BY <1>1, <1>3, <1>4, <1>5 DEF ManagerInv, OwnDebt
<1>7. CASE p = 0
  <2>1. entry.tat <= a
    BY <1>6, <1>7
  <2> HIDE DEF a, m, entry
  <2> QED
    BY <1>1, <1>2, <1>3, <2>1
<1>8. CASE p /= 0
  <2>1. PICK i \in 1..n : entry.tat <= log[i] + (n - i + 1) * p
    BY <1>6, <1>8
  <2> DEFINE x == (n - i + 1) * p
  <2>2. log[i] \in Nat /\ x \in Nat
    BY <1>2, DebtNumbers
  <2> DEFINE j == n + 1
  <2>3. Len(new) = n + 1 /\ new[i] = log[i] /\ new[j] = a
    BY <1>2, <1>3, Appended
  <2>4. (j - i) * p <= new[j] + m - new[i]
    <3>1. i \in 1..Len(new) /\ j \in 1..Len(new) /\ i < j
      BY <1>2, <2>3
    <3>2. \A h \in 1..Len(new) : i < h => (h - i) * p <= new[h] + m - new[i]
      BY <3>1 DEF Conforming
    <3> HIDE DEF new, n, p, m, j
    <3> QED
      BY <3>1, <3>2, Zenon
  <2>5. j - i = n - i + 1
    BY <1>2
  <2>6. (j - i) * p = x
    BY <2>5
  <2>7. x <= a + m - log[i]
    BY <2>3, <2>4, <2>6
  <2>8. entry.tat <= log[i] + x
    BY <2>1
  <2> HIDE DEF x, log, a, m, entry, n, new, p, j
  <2> QED
    BY SMTT(30), <1>1, <1>2, <1>3, <2>2, <2>7, <2>8
<1> QED
  BY <1>7, <1>8

\* One worker: a client that is denied, on a route whose keys no suffix shares,
\* has asked for more than that route's quota allows, whatever other clients do
\* and whatever it does on other routes.
THEOREM DenialsAreOwn ==
  ASSUME NEW v \in Workers, Single(v)
  PROVE  Spec => OwnQuotaOnly
<1>1. ManagerInv /\ [Next]_vars =>
        [\A w \in Workers :
           At(w, "execute_atomic", "commit") /\ ~Busy(w)' /\ ~Outcome(w).allowed
             /\ Unshared(request[w].path) =>
               ~Conforming(QuotaOf(request[w]),
                           Append(admitted[Stream(request[w])], now[w]))]_vars
  BY DenialIsOwn DEF Single
<1>2. Spec => []ManagerInv
  BY ManagerInvariant
<1> QED
  BY <1>1, <1>2, PTL DEF Spec, OwnQuotaOnly
=============================================================================
