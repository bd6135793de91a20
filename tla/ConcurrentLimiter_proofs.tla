---------------------- MODULE ConcurrentLimiter_proofs ----------------------
(***************************************************************************)
(* Theorems of ConcurrentLimiter, for any number of tasks and any limit:   *)
(* no permit is lost or made up, the counter stays within the limit, no    *)
(* permit lies idle in front of a queue, and every step is one of the pool *)
(* of places.                                                              *)
(***************************************************************************)
EXTENDS ConcurrentLimiter, FiniteSetTheorems, SequenceTheorems, TLAPS

(***************************************************************************)
(* Removing from a sequence                                                *)
(***************************************************************************)
\* Unlinking the waiter in the i-th place leaves the others in their order.
LEMMA RemoveAtFacts ==
  ASSUME NEW S, NEW s \in Seq(S), NEW i \in 1..Len(s)
  PROVE  /\ RemoveAt(s, i) \in Seq(S)
         /\ Len(RemoveAt(s, i)) = Len(s) - 1
         /\ \A j \in 1..(Len(s) - 1) :
              RemoveAt(s, i)[j] = IF j < i THEN s[j] ELSE s[j + 1]
<1> DEFINE before == SubSeq(s, 1, i - 1)
           after  == SubSeq(s, i + 1, Len(s))
<1>0. Len(s) \in Nat /\ i \in Int /\ 1 <= i /\ i <= Len(s)
  BY LenProperties
<1>1. \A j \in 1..Len(s) : s[j] \in S
  BY ElementOfSeq
<1>2. /\ before \in Seq(S) /\ Len(before) = i - 1
      /\ \A j \in 1..(i - 1) : before[j] = s[j]
  <2>1. \A j \in 1..(i - 1) : s[j] \in S
    BY <1>0, <1>1
  <2>2. /\ before \in Seq(S)
        /\ Len(before) = IF 1 <= i - 1 THEN (i - 1) - 1 + 1 ELSE 0
        /\ \A j \in 1..((i - 1) - 1 + 1) : before[j] = s[1 + j - 1]
    <3>1. i - 1 \in Int /\ 1 \in Int
      BY <1>0
    <3> QED
      BY <2>1, <3>1, SubSeqProperties
  <2> HIDE DEF before
  <2> QED
    BY <1>0, <2>2
<1>3. /\ after \in Seq(S) /\ Len(after) = Len(s) - i
      /\ \A j \in 1..(Len(s) - i) : after[j] = s[i + j]
  <2>1. \A j \in (i + 1)..Len(s) : s[j] \in S
    BY <1>0, <1>1
  <2>2. /\ after \in Seq(S)
        /\ Len(after) = IF i + 1 <= Len(s) THEN Len(s) - (i + 1) + 1 ELSE 0
        /\ \A j \in 1..(Len(s) - (i + 1) + 1) : after[j] = s[(i + 1) + j - 1]
    <3>1. i + 1 \in Int /\ Len(s) \in Int
      BY <1>0
    <3> QED
      BY <2>1, <3>1, SubSeqProperties
  <2> HIDE DEF after
  <2> QED
    BY <1>0, <2>2
<1> HIDE DEF before, after
<1>4. /\ before \o after \in Seq(S)
      /\ Len(before \o after) = Len(before) + Len(after)
      /\ \A j \in 1..(Len(before) + Len(after)) :
           (before \o after)[j] = IF j <= Len(before) THEN before[j]
                                                      ELSE after[j - Len(before)]
  BY <1>2, <1>3, ConcatProperties
<1>5. RemoveAt(s, i) = before \o after
  BY DEF RemoveAt, before, after
<1>6. ASSUME NEW j \in 1..(Len(s) - 1)
      PROVE  (before \o after)[j] = IF j < i THEN s[j] ELSE s[j + 1]
  <2>1. CASE j < i
    <3>1. j \in 1..(i - 1) /\ j <= Len(before) /\ j \in 1..(Len(before) + Len(after))
      BY <1>0, <1>2, <1>3, <2>1
    <3> QED
      BY <1>2, <1>4, <2>1, <3>1
  <2>2. CASE ~(j < i)
    <3>1. /\ ~(j <= Len(before)) /\ j \in 1..(Len(before) + Len(after))
          /\ j - Len(before) \in 1..(Len(s) - i)
          /\ i + (j - Len(before)) = j + 1
      BY <1>0, <1>2, <1>3, <2>2
    <3> QED
      BY <1>3, <1>4, <2>2, <3>1
  <2> QED
    BY <2>1, <2>2
<1> QED
  BY <1>0, <1>2, <1>3, <1>4, <1>5, <1>6

(***************************************************************************)
(* Counting tasks by their place                                           *)
(***************************************************************************)
\* A task that goes to another place joins and leaves the sets of tasks that
\* are told apart by place.
LEMMA Census ==
  ASSUME pc \in [Tasks -> Places], NEW t \in Tasks, NEW place, Go(t, place), NEW P
  PROVE  /\ In(P)' = IF place \in P THEN In(P) \cup {t} ELSE In(P) \ {t}
         /\ IsFiniteSet(In(P)) /\ IsFiniteSet(In(P)')
         /\ Cardinality(In(P)) \in Nat
         /\ Cardinality(In(P)') =
              Cardinality(In(P)) + (IF place \in P THEN 1 ELSE 0)
                                 - (IF pc[t] \in P THEN 1 ELSE 0)
<1>1. In(P)' = IF place \in P THEN In(P) \cup {t} ELSE In(P) \ {t}
  BY DEF In, Go
<1>2. In(P) \in SUBSET Tasks
  BY DEF In
<1>3. IsFiniteSet(In(P)) /\ Cardinality(In(P)) \in Nat
  BY <1>2, LimiterAssumption, FS_Subset, FS_CardinalityType
<1>4. t \in In(P) <=> pc[t] \in P
  BY DEF In
<1>5. CASE place \in P
  BY <1>1, <1>3, <1>4, <1>5, FS_AddElement
<1>6. CASE place \notin P
  BY <1>1, <1>3, <1>4, <1>6, FS_RemoveElement
<1> QED
  BY <1>1, <1>3, <1>5, <1>6

\* The tasks with a permit assigned are finitely many.
LEMMA AssignedFinite ==
  ASSUME assigned \subseteq Tasks
  PROVE  IsFiniteSet(assigned) /\ Cardinality(assigned) \in Nat
  BY LimiterAssumption, FS_Subset, FS_CardinalityType

(***************************************************************************)
(* The queue                                                               *)
(***************************************************************************)
\* A task that is not in the queue goes to its end.
LEMMA Joined ==
  ASSUME queue \in Seq(Tasks), Distinct, NEW t \in Tasks, ~Queued(t),
         queue' = Append(queue, t)
  PROVE  /\ queue' \in Seq(Tasks) /\ queue' /= <<>> /\ Distinct'
         /\ \A u \in Tasks : Queued(u)' <=> Queued(u) \/ u = t
<1>1. /\ Len(queue) \in Nat /\ DOMAIN queue = 1..Len(queue)
      /\ queue' \in Seq(Tasks) /\ queue' /= <<>> /\ Len(queue') = Len(queue) + 1
      /\ \A i \in 1..Len(queue) : queue'[i] = queue[i]
      /\ queue'[Len(queue) + 1] = t
  BY LenProperties, AppendProperties
<1>2. DOMAIN queue' = 1..(Len(queue) + 1)
  BY <1>1, LenProperties
<1>3. Distinct'
  BY <1>1, <1>2 DEF Distinct, Queued
<1>4. ASSUME NEW u \in Tasks
      PROVE  Queued(u)' <=> Queued(u) \/ u = t
  BY <1>1, <1>2 DEF Queued
<1> QED
  BY <1>1, <1>3, <1>4

\* The first in the queue leaves it.
LEMMA Served ==
  ASSUME queue \in Seq(Tasks), Distinct, queue /= <<>>, queue' = Tail(queue)
  PROVE  /\ queue' \in Seq(Tasks) /\ Distinct'
         /\ Head(queue) \in Tasks /\ Queued(Head(queue))
         /\ \A u \in Tasks : Queued(u)' <=> Queued(u) /\ u /= Head(queue)
<1>1. /\ Len(queue) \in Nat \ {0} /\ DOMAIN queue = 1..Len(queue)
      /\ queue' \in Seq(Tasks) /\ Len(queue') = Len(queue) - 1
      /\ \A i \in 1..Len(queue') : queue'[i] = queue[i + 1]
      /\ Head(queue) \in Tasks
  BY EmptySeq, LenProperties, HeadTailProperties
<1>2. Head(queue) = queue[1]
  OBVIOUS
<1>3. DOMAIN queue' = 1..(Len(queue) - 1)
  BY <1>1, LenProperties
<1>4. Distinct'
  BY <1>1, <1>3 DEF Distinct
<1>5. ASSUME NEW u \in Tasks
      PROVE  Queued(u)' <=> Queued(u) /\ u /= Head(queue)
  <2>1. ASSUME NEW i \in 1..Len(queue), queue[i] = u, u /= Head(queue)
        PROVE  Queued(u)'
    <3>1. i - 1 \in 1..(Len(queue) - 1) /\ (i - 1) + 1 = i
      BY <1>1, <1>2, <2>1
    <3>2. queue'[i - 1] = u
      BY <1>1, <2>1, <3>1
    <3> QED
      BY <1>3, <3>1, <3>2 DEF Queued
  <2>2. ASSUME NEW i \in 1..(Len(queue) - 1), queue'[i] = u
        PROVE  Queued(u) /\ u /= Head(queue)
    <3>1. i + 1 \in 1..Len(queue) /\ i + 1 /= 1 /\ 1 \in 1..Len(queue)
      BY <1>1
    <3>2. queue[i + 1] = u
      BY <1>1, <2>2
    <3> QED
      BY <1>1, <1>2, <3>1, <3>2 DEF Queued, Distinct
  <2> QED
    BY <1>1, <1>3, <2>1, <2>2 DEF Queued
<1> QED
  BY <1>1, <1>2, <1>4, <1>5 DEF Queued

\* A waiter leaves the queue from anywhere.
LEMMA Unlinked ==
  ASSUME queue \in Seq(Tasks), Distinct, NEW i \in DOMAIN queue,
         queue' = RemoveAt(queue, i)
  PROVE  /\ queue' \in Seq(Tasks) /\ Distinct' /\ queue /= <<>>
         /\ \A u \in Tasks : Queued(u)' <=> Queued(u) /\ u /= queue[i]
<1>1. Len(queue) \in Nat /\ DOMAIN queue = 1..Len(queue) /\ i \in 1..Len(queue)
  BY LenProperties
<1>2. /\ queue' \in Seq(Tasks) /\ Len(queue') = Len(queue) - 1
      /\ \A j \in 1..(Len(queue) - 1) :
           queue'[j] = IF j < i THEN queue[j] ELSE queue[j + 1]
  BY <1>1, RemoveAtFacts
<1>3. DOMAIN queue' = 1..(Len(queue) - 1)
  BY <1>2, LenProperties
<1>4. Distinct'
  <2> SUFFICES ASSUME NEW a \in 1..(Len(queue) - 1), NEW b \in 1..(Len(queue) - 1),
                      queue'[a] = queue'[b]
               PROVE  a = b
    BY <1>3 DEF Distinct
  <2> DEFINE from(j) == IF j < i THEN j ELSE j + 1
  <2>1. from(a) \in 1..Len(queue) /\ from(b) \in 1..Len(queue)
    BY <1>1
  <2>2. queue[from(a)] = queue[from(b)]
    BY <1>2
  <2>3. from(a) = from(b)
    BY <1>1, <2>1, <2>2 DEF Distinct
  <2> QED
    BY <1>1, <2>3
<1>5. ASSUME NEW u \in Tasks
      PROVE  Queued(u)' <=> Queued(u) /\ u /= queue[i]
  <2>1. ASSUME NEW j \in 1..Len(queue), queue[j] = u, u /= queue[i]
        PROVE  Queued(u)'
    <3>1. CASE j < i
      BY <1>1, <1>2, <1>3, <2>1, <3>1 DEF Queued
    <3>2. CASE j > i
      <4>1. j - 1 \in 1..(Len(queue) - 1) /\ ~(j - 1 < i) /\ (j - 1) + 1 = j
        BY <1>1, <3>2
      <4> QED
        BY <1>2, <1>3, <2>1, <4>1 DEF Queued
    <3> QED
      BY <1>1, <2>1, <3>1, <3>2
  <2>2. ASSUME NEW j \in 1..(Len(queue) - 1), queue'[j] = u
        PROVE  Queued(u) /\ u /= queue[i]
    BY <1>1, <1>2, <2>2 DEF Queued, Distinct
  <2> QED
    BY <1>1, <1>3, <2>1, <2>2 DEF Queued
<1> QED
  BY <1>1, <1>2, <1>4, <1>5

\* A permit that comes back, with A the waiters that keep theirs: it goes to
\* the first in the queue or to the pool, and is there once either way.
LEMMA PassedOn ==
  ASSUME TypeOK, Distinct, NoIdlePermit, NEW STATE A, A \subseteq Tasks,
         \A u \in Tasks : ~(Queued(u) /\ u \in A),
         IF queue = <<>>
           THEN permits' = permits + 1 /\ assigned' = A /\ queue' = queue
           ELSE assigned' = A \cup {Head(queue)} /\ queue' = Tail(queue) /\ permits' = permits
  PROVE  /\ permits' \in Nat /\ queue' \in Seq(Tasks) /\ assigned' \subseteq Tasks
         /\ Distinct' /\ NoIdlePermit'
         /\ \A u \in Tasks : Queued(u)' \/ u \in assigned' <=> Queued(u) \/ u \in A
         /\ \A u \in Tasks : ~(Queued(u)' /\ u \in assigned')
         /\ permits' + Cardinality(assigned') = permits + Cardinality(A) + 1
<1>1. permits \in Nat /\ queue \in Seq(Tasks)
  BY DEF TypeOK
<1>2. IsFiniteSet(A) /\ Cardinality(A) \in Nat
  BY LimiterAssumption, FS_Subset, FS_CardinalityType
<1>3. CASE queue = <<>>
  <2>1. permits' = permits + 1 /\ assigned' = A /\ queue' = queue
    BY <1>3
  <2>2. Distinct' /\ \A u \in Tasks : Queued(u)' <=> Queued(u)
    BY <2>1 DEF Distinct, Queued
  <2> QED
    BY <1>1, <1>2, <1>3, <2>1, <2>2 DEF NoIdlePermit
<1>4. CASE queue /= <<>>
  <2>1. assigned' = A \cup {Head(queue)} /\ queue' = Tail(queue) /\ permits' = permits
    BY <1>4
  <2>2. /\ queue' \in Seq(Tasks) /\ Distinct'
        /\ Head(queue) \in Tasks /\ Queued(Head(queue))
        /\ \A u \in Tasks : Queued(u)' <=> Queued(u) /\ u /= Head(queue)
    BY <1>1, <1>4, <2>1, Served
  <2>3. Head(queue) \notin A
    BY <2>2
  <2>4. Cardinality(assigned') = Cardinality(A) + 1
    BY <1>2, <2>1, <2>3, FS_AddElement
  <2>5. permits = 0
    BY <1>4 DEF NoIdlePermit
  <2>6. NoIdlePermit'
    BY <2>1, <2>5 DEF NoIdlePermit
  <2>7. \A u \in Tasks : /\ Queued(u)' \/ u \in assigned' <=> Queued(u) \/ u \in A
                         /\ ~(Queued(u)' /\ u \in assigned')
    BY <2>1, <2>2
  <2> QED
    BY <1>1, <1>2, <2>1, <2>2, <2>4, <2>6, <2>7
<1> QED
  BY <1>3, <1>4

(***************************************************************************)
(* The inductive invariant                                                 *)
(***************************************************************************)
\* The books of permits and counter, over a step that takes t from one place to
\* another: both counts move with it, or neither does.
LEMMA Balanced ==
  ASSUME TypeOK, PermitsConserved, counts = Cardinality(In({"holding"})),
         NEW t \in Tasks, NEW place \in Places, Go(t, place),
         permits' \in Nat, IsFiniteSet(assigned'),
         permits' + Cardinality(assigned')
             + (IF place \in {"counting", "holding", "releasing"} THEN 1 ELSE 0)
           = permits + Cardinality(assigned)
             + (IF pc[t] \in {"counting", "holding", "releasing"} THEN 1 ELSE 0),
         counts' = counts + (IF place = "holding" THEN 1 ELSE 0)
                          - (IF pc[t] = "holding" THEN 1 ELSE 0)
  PROVE  PermitsConserved' /\ counts' = Cardinality(In({"holding"}))' /\ counts' \in Nat
<1> DEFINE Active == {"counting", "holding", "releasing"}
<1>1. pc \in [Tasks -> Places] /\ permits \in Nat /\ counts \in Nat /\ MaxConcurrent \in Nat
  BY LimiterAssumption DEF TypeOK
<1>2. Cardinality(assigned) \in Nat /\ Cardinality(assigned') \in Nat
  BY AssignedFinite, FS_CardinalityType DEF TypeOK
<1>3. /\ Cardinality(In(Active)) \in Nat
      /\ Cardinality(In(Active)') =
           Cardinality(In(Active)) + (IF place \in Active THEN 1 ELSE 0)
                                   - (IF pc[t] \in Active THEN 1 ELSE 0)
  <2> HIDE DEF Active
  <2> QED
    BY <1>1, Census
<1>4. /\ IsFiniteSet(In({"holding"})')
      /\ Cardinality(In({"holding"})') =
           counts + (IF place \in {"holding"} THEN 1 ELSE 0)
                  - (IF pc[t] \in {"holding"} THEN 1 ELSE 0)
  BY <1>1, Census
<1>5. counts' = Cardinality(In({"holding"})') /\ counts' \in Nat
  BY <1>4, FS_CardinalityType
<1>6. permits + Cardinality(assigned) + Cardinality(In(Active)) = MaxConcurrent
  BY DEF PermitsConserved
<1>7. permits' + Cardinality(assigned') + Cardinality(In(Active)') = MaxConcurrent
  <2> DEFINE b == IF place \in Active THEN 1 ELSE 0
             a == IF pc[t] \in Active THEN 1 ELSE 0
  <2>1. a \in Int /\ b \in Int
    OBVIOUS
  <2>2. permits' + Cardinality(assigned') + b = permits + Cardinality(assigned) + a
    OBVIOUS
  <2>3. Cardinality(In(Active)') = Cardinality(In(Active)) + b - a
    BY <1>3
  <2> HIDE DEF a, b, Active
  <2> QED
    BY <1>1, <1>2, <1>3, <1>6, <2>1, <2>2, <2>3
<1> QED
  BY <1>5, <1>7 DEF PermitsConserved

\* A task that moves leaves the others where they are.
LEMMA Moved ==
  ASSUME pc \in [Tasks -> Places], NEW t \in Tasks, NEW place \in Places, Go(t, place)
  PROVE  /\ pc' \in [Tasks -> Places] /\ pc'[t] = place
         /\ \A u \in Tasks : u /= t => pc'[u] = pc[u]
  BY DEF Go

LEMMA LimiterInit == Init => LimiterInv
<1> SUFFICES ASSUME Init PROVE LimiterInv
  OBVIOUS
<1>1. TypeOK
  BY LimiterAssumption, EmptySeq DEF Init, TypeOK, Places
<1>2. DOMAIN queue = {}
  BY DEF Init
<1>3. Distinct /\ WaitersInv
  BY <1>2 DEF Init, Distinct, WaitersInv, Queued
<1>4. /\ In({"counting", "holding", "releasing"}) = {} /\ In({"holding"}) = {}
      /\ assigned = {}
  BY DEF Init, In
<1>5. PermitsConserved /\ counts = Cardinality(In({"holding"}))
  <2>1. Cardinality({}) = 0
    BY FS_EmptySet
  <2>2. permits = MaxConcurrent /\ counts = 0 /\ MaxConcurrent \in Nat
    BY LimiterAssumption DEF Init
  <2>3. permits + Cardinality({}) + Cardinality({}) = MaxConcurrent
    BY <2>1, <2>2
  <2> QED
    BY <1>4, <2>1, <2>2, <2>3 DEF PermitsConserved
<1> QED
  BY <1>1, <1>3, <1>5 DEF Init, LimiterInv, NoIdlePermit

LEMMA LimiterStep == LimiterInv /\ [Next]_vars => LimiterInv'
<1> SUFFICES ASSUME LimiterInv, [Next]_vars PROVE LimiterInv'
  OBVIOUS
<1> USE DEF LimiterInv
<1>0. /\ permits \in Nat /\ queue \in Seq(Tasks) /\ assigned \subseteq Tasks
      /\ counts \in Nat /\ pc \in [Tasks -> Places]
  BY DEF TypeOK
<1>1. IsFiniteSet(assigned) /\ Cardinality(assigned) \in Nat
  BY <1>0, AssignedFinite
<1>2. CASE UNCHANGED vars
  BY <1>2 DEF vars, TypeOK, Distinct, WaitersInv, Queued, NoIdlePermit, PermitsConserved, In
<1>3. ASSUME UNCHANGED queue
      PROVE  queue' \in Seq(Tasks) /\ Distinct' /\ \A u \in Tasks : Queued(u)' <=> Queued(u)
  BY <1>0, <1>3 DEF Distinct, Queued
<1>4. ASSUME NEW t \in Tasks, Take(t)
      PROVE  LimiterInv'
  <2>1. /\ pc[t] = "idle" /\ permits > 0 /\ permits' = permits - 1
        /\ Go(t, "counting") /\ UNCHANGED <<queue, assigned, counts>>
    BY <1>4 DEF Take
  <2>2. PermitsConserved' /\ counts' = Cardinality(In({"holding"}))' /\ counts' \in Nat
    BY <1>0, <1>1, <2>1, Balanced DEF Places
  <2>3. TypeOK'
    BY <1>0, <2>1, <2>2, Moved DEF TypeOK, Places
  <2>4. Distinct' /\ WaitersInv'
    BY <1>0, <1>3, <2>1, Moved DEF WaitersInv, Places
  <2>5. NoIdlePermit'
    BY <1>0, <2>1 DEF NoIdlePermit
  <2> QED
    BY <2>2, <2>3, <2>4, <2>5
<1>5. ASSUME NEW t \in Tasks, Wait(t)
      PROVE  LimiterInv'
  <2>1. PICK place \in {"waiting", "timed"} : Go(t, place)
    BY <1>5 DEF Wait
  <2>2. /\ pc[t] = "idle" /\ permits = 0 /\ queue' = Append(queue, t)
        /\ UNCHANGED <<permits, assigned, counts>> /\ place \in Places
    BY <1>5, <2>1 DEF Wait, Places
  <2>3. ~Queued(t) /\ t \notin assigned
    BY <2>2 DEF WaitersInv
  <2>4. /\ queue' \in Seq(Tasks) /\ Distinct'
        /\ \A u \in Tasks : Queued(u)' <=> Queued(u) \/ u = t
    BY <1>0, <2>2, <2>3, Joined
  <2>5. PermitsConserved' /\ counts' = Cardinality(In({"holding"}))' /\ counts' \in Nat
    BY <1>0, <1>1, <2>1, <2>2, Balanced
  <2>6. TypeOK'
    BY <1>0, <2>1, <2>2, <2>4, <2>5, Moved DEF TypeOK
  <2>7. WaitersInv'
    BY <1>0, <2>1, <2>2, <2>3, <2>4, Moved DEF WaitersInv
  <2>8. NoIdlePermit'
    BY <2>2 DEF NoIdlePermit
  <2> QED
    BY <2>4, <2>5, <2>6, <2>7, <2>8
<1>6. ASSUME NEW t \in Tasks, Wake(t)
      PROVE  LimiterInv'
  <2>1. /\ pc[t] \in {"waiting", "timed"} /\ t \in assigned /\ assigned' = assigned \ {t}
        /\ Go(t, "counting") /\ UNCHANGED <<permits, queue, counts>>
    BY <1>6 DEF Wake
  <2>2. IsFiniteSet(assigned') /\ Cardinality(assigned') = Cardinality(assigned) - 1
    BY <1>1, <2>1, FS_RemoveElement
  <2>3. PermitsConserved' /\ counts' = Cardinality(In({"holding"}))' /\ counts' \in Nat
    <3>1. permits' + Cardinality(assigned') + 1 = permits + Cardinality(assigned) + 0
      BY <1>0, <1>1, <2>1, <2>2
    <3>2. /\ pc[t] \notin {"counting", "holding", "releasing"} /\ pc[t] /= "holding"
          /\ permits' \in Nat /\ counts' = counts + 0 - 0
      BY <1>0, <2>1
    <3> QED
      BY <1>0, <1>1, <2>1, <2>2, <3>1, <3>2, Balanced DEF Places
  <2>4. TypeOK'
    BY <1>0, <2>1, <2>3, Moved DEF TypeOK, Places
  <2>5. Distinct' /\ WaitersInv'
    BY <1>0, <1>3, <2>1, Moved DEF WaitersInv, Places
  <2>6. NoIdlePermit'
    BY <2>1 DEF NoIdlePermit
  <2> QED
    BY <2>3, <2>4, <2>5, <2>6
<1>7. ASSUME NEW t \in Tasks, Expire(t)
      PROVE  LimiterInv'
  <2>1. /\ pc[t] = "timed" /\ Go(t, "expired") /\ UNCHANGED <<permits, queue, assigned, counts>>
    BY <1>7 DEF Expire
  <2>2. PermitsConserved' /\ counts' = Cardinality(In({"holding"}))' /\ counts' \in Nat
    BY <1>0, <1>1, <2>1, Balanced DEF Places
  <2>3. TypeOK'
    BY <1>0, <2>1, <2>2, Moved DEF TypeOK, Places
  <2>4. Distinct' /\ WaitersInv'
    BY <1>0, <1>3, <2>1, Moved DEF WaitersInv, Places
  <2> QED
    BY <2>1, <2>2, <2>3, <2>4 DEF NoIdlePermit
<1>8. ASSUME NEW t \in Tasks, Abandon(t), t \in assigned
      PROVE  LimiterInv'
  <2> DEFINE A == assigned \ {t}
  <2>1. /\ pc[t] = "expired" /\ Go(t, "idle") /\ UNCHANGED counts
        /\ IF queue = <<>>
             THEN permits' = permits + 1 /\ assigned' = A /\ queue' = queue
             ELSE assigned' = A \cup {Head(queue)} /\ queue' = Tail(queue) /\ permits' = permits
    BY <1>8 DEF Abandon
  <2>2. ~Queued(t)
    BY <1>8 DEF WaitersInv
  <2>3. A \subseteq Tasks /\ \A u \in Tasks : ~(Queued(u) /\ u \in A)
    BY <1>0 DEF WaitersInv
  <2>4. /\ permits' \in Nat /\ queue' \in Seq(Tasks) /\ assigned' \subseteq Tasks
        /\ Distinct' /\ NoIdlePermit'
        /\ \A u \in Tasks : Queued(u)' \/ u \in assigned' <=> Queued(u) \/ u \in A
        /\ \A u \in Tasks : ~(Queued(u)' /\ u \in assigned')
        /\ permits' + Cardinality(assigned') = permits + Cardinality(A) + 1
    <3> HIDE DEF A
    <3> QED
      BY <2>1, <2>3, PassedOn
  <2>5. Cardinality(A) = Cardinality(assigned) - 1
    BY <1>1, <1>8, FS_RemoveElement
  <2>6. PermitsConserved' /\ counts' = Cardinality(In({"holding"}))' /\ counts' \in Nat
    <3>1. permits' + Cardinality(assigned') + 0 = permits + Cardinality(assigned) + 0
      <4> HIDE DEF A
      <4> QED
        BY <1>0, <1>1, <2>4, <2>5
    <3>2. IsFiniteSet(assigned') /\ counts' = counts + 0 - 0
      BY <1>0, <2>1, <2>4, LimiterAssumption, FS_Subset
    <3> QED
      BY <1>0, <2>1, <2>4, <3>1, <3>2, Balanced DEF Places
  <2>7. TypeOK'
    BY <1>0, <2>1, <2>4, <2>6, Moved DEF TypeOK, Places
  <2>8. WaitersInv'
    BY <1>0, <2>1, <2>2, <2>4, Moved DEF WaitersInv, Places
  <2> QED
    BY <2>4, <2>6, <2>7, <2>8
<1>9. ASSUME NEW t \in Tasks, Abandon(t), t \notin assigned
      PROVE  LimiterInv'
  <2>1. /\ pc[t] = "expired" /\ Go(t, "idle") /\ UNCHANGED <<permits, assigned, counts>>
    BY <1>9 DEF Abandon
  <2>2. PICK i \in DOMAIN queue : queue[i] = t /\ queue' = RemoveAt(queue, i)
    BY <1>9 DEF Abandon
  <2>3. /\ queue' \in Seq(Tasks) /\ Distinct' /\ queue /= <<>>
        /\ \A u \in Tasks : Queued(u)' <=> Queued(u) /\ u /= t
    BY <1>0, <2>2, Unlinked
  <2>4. PermitsConserved' /\ counts' = Cardinality(In({"holding"}))' /\ counts' \in Nat
    BY <1>0, <1>1, <2>1, Balanced DEF Places
  <2>5. TypeOK'
    BY <1>0, <2>1, <2>3, <2>4, Moved DEF TypeOK, Places
  <2>6. WaitersInv'
    BY <1>0, <1>9, <2>1, <2>3, Moved DEF WaitersInv, Places
  <2>7. NoIdlePermit'
    BY <2>1, <2>3 DEF NoIdlePermit
  <2> QED
    BY <2>3, <2>4, <2>5, <2>6, <2>7
<1>10. ASSUME NEW t \in Tasks, Count(t)
       PROVE  LimiterInv'
  <2>1. /\ pc[t] = "counting" /\ Go(t, "holding") /\ counts' = counts + 1
        /\ UNCHANGED <<permits, queue, assigned>>
    BY <1>10 DEF Count
  <2>2. PermitsConserved' /\ counts' = Cardinality(In({"holding"}))' /\ counts' \in Nat
    <3>1. counts' = counts + 1 - 0
      BY <1>0, <2>1
    <3> QED
      BY <1>0, <1>1, <2>1, <3>1, Balanced DEF Places
  <2>3. TypeOK'
    BY <1>0, <2>1, <2>2, Moved DEF TypeOK, Places
  <2>4. Distinct' /\ WaitersInv'
    BY <1>0, <1>3, <2>1, Moved DEF WaitersInv, Places
  <2> QED
    BY <2>1, <2>2, <2>3, <2>4 DEF NoIdlePermit
<1>11. ASSUME NEW t \in Tasks, DropPermit(t)
       PROVE  LimiterInv'
  <2>1. /\ pc[t] = "holding" /\ Go(t, "releasing")
        /\ counts' = IF counts > 0 THEN counts - 1 ELSE 0
        /\ UNCHANGED <<permits, queue, assigned>>
    BY <1>11 DEF DropPermit
  <2>2. counts > 0
    <3>1. In({"holding"}) \in SUBSET Tasks /\ t \in In({"holding"})
      BY <2>1 DEF In
    <3> QED
      BY <1>0, <3>1, LimiterAssumption, FS_Subset, FS_EmptySet
  <2>3. PermitsConserved' /\ counts' = Cardinality(In({"holding"}))' /\ counts' \in Nat
    <3>1. counts' = counts + 0 - 1
      BY <1>0, <2>1, <2>2
    <3> QED
      BY <1>0, <1>1, <2>1, <3>1, Balanced DEF Places
  <2>4. TypeOK'
    BY <1>0, <2>1, <2>3, Moved DEF TypeOK, Places
  <2>5. Distinct' /\ WaitersInv'
    BY <1>0, <1>3, <2>1, Moved DEF WaitersInv, Places
  <2> QED
    BY <2>1, <2>3, <2>4, <2>5 DEF NoIdlePermit
<1>12. ASSUME NEW t \in Tasks, Release(t)
       PROVE  LimiterInv'
  <2>1. /\ pc[t] = "releasing" /\ Go(t, "idle") /\ UNCHANGED counts
        /\ IF queue = <<>>
             THEN permits' = permits + 1 /\ assigned' = assigned /\ queue' = queue
             ELSE /\ assigned' = assigned \cup {Head(queue)}
                  /\ queue' = Tail(queue) /\ permits' = permits
    BY <1>12 DEF Release, GiveBack
  <2>2. \A u \in Tasks : ~(Queued(u) /\ u \in assigned)
    BY DEF WaitersInv
  <2>3. /\ permits' \in Nat /\ queue' \in Seq(Tasks) /\ assigned' \subseteq Tasks
        /\ Distinct' /\ NoIdlePermit'
        /\ \A u \in Tasks : Queued(u)' \/ u \in assigned' <=> Queued(u) \/ u \in assigned
        /\ \A u \in Tasks : ~(Queued(u)' /\ u \in assigned')
        /\ permits' + Cardinality(assigned') = permits + Cardinality(assigned) + 1
    BY <1>0, <2>1, <2>2, PassedOn
  <2>4. PermitsConserved' /\ counts' = Cardinality(In({"holding"}))' /\ counts' \in Nat
    <3>1. IsFiniteSet(assigned') /\ counts' = counts + 0 - 0
      BY <1>0, <2>1, <2>3, LimiterAssumption, FS_Subset
    <3>2. Cardinality(assigned') \in Nat
      BY <3>1, FS_CardinalityType
    <3>3. permits' + Cardinality(assigned') + 0 = permits + Cardinality(assigned) + 1
      BY <1>0, <1>1, <2>3, <3>2
    <3> QED
      BY <1>0, <2>1, <2>3, <3>1, <3>3, Balanced DEF Places
  <2>5. TypeOK'
    BY <1>0, <2>1, <2>3, <2>4, Moved DEF TypeOK, Places
  <2>6. WaitersInv'
    BY <1>0, <2>1, <2>3, Moved DEF WaitersInv, Places
  <2> QED
    BY <2>3, <2>4, <2>5, <2>6
<1> QED
  BY <1>2, <1>4, <1>5, <1>6, <1>7, <1>8, <1>9, <1>10, <1>11, <1>12 DEF Next, Advance

LEMMA LimiterInvariant == Spec => []LimiterInv
  BY LimiterInit, LimiterStep, PTL DEF Spec

(***************************************************************************)
(* The theorems                                                            *)
(***************************************************************************)
\* What the queue, the assigned permits and the counter say of the tasks: each
\* waits in one place only, and the counter counts those that hold a permit.
THEOREM LimiterIsConsistent == Spec => []LimiterInv
  BY LimiterInvariant

\* For any number of tasks, no permit is lost or made up, whichever way a
\* timeout races with a release.
THEOREM PermitsAreConserved == Spec => []PermitsConserved
<1>1. LimiterInv => PermitsConserved
  BY DEF LimiterInv
<1> QED
  BY <1>1, LimiterInvariant, PTL

LEMMA CountBound == LimiterInv => CountWithinLimit
<1> SUFFICES ASSUME LimiterInv PROVE counts <= MaxConcurrent
  BY DEF CountWithinLimit
<1> DEFINE active == In({"counting", "holding", "releasing"})
           holding == In({"holding"})
<1>1. active \in SUBSET Tasks /\ holding \in SUBSET active
  BY DEF In
<1>2. IsFiniteSet(active) /\ Cardinality(active) \in Nat
  BY <1>1, LimiterAssumption, FS_Subset, FS_CardinalityType
<1>3. IsFiniteSet(holding) /\ Cardinality(holding) <= Cardinality(active)
  BY <1>1, <1>2, FS_Subset
<1>4. Cardinality(holding) \in Nat
  BY <1>3, FS_CardinalityType
<1>5. Cardinality(assigned) \in Nat /\ permits \in Nat
  BY AssignedFinite DEF LimiterInv, TypeOK
<1>6. permits + Cardinality(assigned) + Cardinality(active) = MaxConcurrent
  BY DEF LimiterInv, PermitsConserved
<1>7. counts = Cardinality(holding)
  BY DEF LimiterInv
<1> HIDE DEF active, holding
<1> QED
  BY <1>2, <1>3, <1>4, <1>5, <1>6, <1>7

\* current_count, which is not updated together with the semaphore, still never
\* exceeds max_concurrent.
THEOREM CountIsWithinLimit == Spec => []CountWithinLimit
  BY CountBound, LimiterInvariant, PTL

\* Nobody waits while a permit is free.
THEOREM PermitsAreNotIdle == Spec => []NoIdlePermit
<1>1. LimiterInv => NoIdlePermit
  BY DEF LimiterInv
<1> QED
  BY <1>1, LimiterInvariant, PTL

(***************************************************************************)
(* The pool of places                                                      *)
(***************************************************************************)
\* The holders of the pool are the permits the semaphore does not have.
LEMMA HoldersCounted ==
  ASSUME LimiterInv
  PROVE  permits + Cardinality(Holders) = MaxConcurrent /\ Cardinality(Holders) \in Nat
<1> DEFINE active == In({"counting", "holding", "releasing"})
<1>1. active \in SUBSET Tasks /\ assigned \in SUBSET Tasks
  BY DEF In, LimiterInv, TypeOK
<1>2. IsFiniteSet(active) /\ IsFiniteSet(assigned)
  BY <1>1, LimiterAssumption, FS_Subset
<1>3. assigned \cap active = {}
  BY <1>1 DEF LimiterInv, WaitersInv, In
<1>4. Cardinality(assigned \cap active) = 0
  BY <1>3, FS_EmptySet
<1>5. /\ IsFiniteSet(assigned \cup active)
      /\ Cardinality(assigned \cup active) = Cardinality(assigned) + Cardinality(active) - 0
  BY <1>2, <1>4, FS_Union
<1>6. permits + Cardinality(assigned) + Cardinality(active) = MaxConcurrent
  BY DEF LimiterInv, PermitsConserved
<1>7. Cardinality(assigned) \in Nat /\ Cardinality(active) \in Nat /\ permits \in Nat
  BY <1>2, FS_CardinalityType DEF LimiterInv, TypeOK
<1>8. Holders = assigned \cup active
  BY DEF Holders
<1> HIDE DEF active
<1> QED
  BY <1>5, <1>6, <1>7, <1>8

\* The instance's copies of two library operators are the operators.
LEMMA PoolOperators ==
  /\ \A S : Pool!Cardinality(S) = Cardinality(S)
  /\ \A s, i : Pool!RemoveAt(s, i) = RemoveAt(s, i)
<1>1. \A S : Pool!Cardinality(S) = Cardinality(S)
  BY Zenon DEF Pool!Cardinality, Cardinality, Pool!IsFiniteSet, IsFiniteSet
<1>2. \A s, i : Pool!RemoveAt(s, i) = RemoveAt(s, i)
  BY Zenon DEF Pool!RemoveAt, RemoveAt
<1> QED
  BY <1>1, <1>2

LEMMA PoolInit == ASSUME Init PROVE Pool!Init
  BY DEF Init, Pool!Init, Holders, In

\* Every step is one of the pool, or leaves holders and line alone.
LEMMA PoolStep ==
  ASSUME LimiterInv, [Next]_vars
  PROVE  [Pool!Next]_(Pool!vars)
<1> USE DEF LimiterInv
<1>0. /\ permits \in Nat /\ queue \in Seq(Tasks) /\ assigned \subseteq Tasks
      /\ pc \in [Tasks -> Places] /\ MaxConcurrent \in Nat
  BY LimiterAssumption DEF TypeOK
<1>1. permits + Cardinality(Holders) = MaxConcurrent /\ Cardinality(Holders) \in Nat
  BY HoldersCounted
<1>2. CASE UNCHANGED vars
  BY <1>2 DEF vars, Pool!vars, Holders, In
<1>3. ASSUME NEW t \in Tasks, Take(t)
      PROVE  Pool!Enter(t)
  <2>1. /\ pc[t] = "idle" /\ permits > 0 /\ Go(t, "counting")
        /\ UNCHANGED <<queue, assigned>>
    BY <1>3 DEF Take
  <2>2. queue = <<>> /\ Cardinality(Holders) < MaxConcurrent
    BY <1>0, <1>1, <2>1 DEF NoIdlePermit
  <2>3. t \notin Holders /\ Holders' = Holders \cup {t}
    BY <1>0, <2>1 DEF Holders, In, Go, WaitersInv
  <2> QED
    BY <2>1, <2>2, <2>3, PoolOperators DEF Pool!Enter
<1>4. ASSUME NEW t \in Tasks, Wait(t)
      PROVE  Pool!Join(t)
  <2>1. PICK place \in {"waiting", "timed"} : Go(t, place)
    BY <1>4 DEF Wait
  <2>2. /\ pc[t] = "idle" /\ permits = 0 /\ queue' = Append(queue, t)
        /\ UNCHANGED assigned
    BY <1>4 DEF Wait
  <2>3. Cardinality(Holders) = MaxConcurrent
    BY <1>1, <2>2
  <2>4. t \notin Holders /\ ~Queued(t)
    BY <2>2 DEF Holders, In, WaitersInv
  <2>5. Holders' = Holders
    BY <1>0, <2>1, <2>2 DEF Holders, In, Go
  <2> QED
    BY <2>2, <2>3, <2>4, <2>5, PoolOperators DEF Pool!Join, Pool!InLine, Queued
<1>5. ASSUME NEW t \in Tasks, Wake(t) \/ Expire(t) \/ Count(t) \/ DropPermit(t)
      PROVE  UNCHANGED <<Holders, queue>>
  <2>1. CASE Wake(t)
    BY <1>0, <2>1 DEF Wake, Holders, In, Go
  <2>2. CASE Expire(t)
    BY <1>0, <2>2 DEF Expire, Holders, In, Go
  <2>3. CASE Count(t)
    BY <1>0, <2>3 DEF Count, Holders, In, Go
  <2>4. CASE DropPermit(t)
    BY <1>0, <2>4 DEF DropPermit, Holders, In, Go
  <2> QED
    BY <1>5, <2>1, <2>2, <2>3, <2>4
<1>6. ASSUME NEW t \in Tasks, Abandon(t), t \in assigned
      PROVE  Pool!Leave(t)
  <2>1. pc[t] = "expired" /\ Go(t, "idle")
    BY <1>6 DEF Abandon
  <2>2. t \in Holders
    BY <1>6 DEF Holders
  <2>3. CASE queue = <<>>
    <3>1. assigned' = assigned \ {t} /\ queue' = queue
      BY <1>6, <2>3 DEF Abandon
    <3>2. Holders' = Holders \ {t}
      BY <1>0, <2>1, <3>1 DEF Holders, In, Go
    <3> QED
      BY <2>2, <2>3, <3>1, <3>2 DEF Pool!Leave
  <2>4. CASE queue /= <<>>
    <3>1. assigned' = (assigned \ {t}) \cup {Head(queue)} /\ queue' = Tail(queue)
      BY <1>6, <2>4 DEF Abandon
    <3>2. Holders' = (Holders \ {t}) \cup {Head(queue)}
      BY <1>0, <2>1, <3>1 DEF Holders, In, Go
    <3> QED
      BY <2>2, <2>4, <3>1, <3>2 DEF Pool!Leave
  <2> QED
    BY <2>3, <2>4
<1>7. ASSUME NEW t \in Tasks, Abandon(t), t \notin assigned
      PROVE  Pool!GiveUp(t)
  <2>1. /\ pc[t] = "expired" /\ Go(t, "idle") /\ assigned' = assigned
        /\ \E i \in DOMAIN queue : queue[i] = t /\ queue' = RemoveAt(queue, i)
    BY <1>7 DEF Abandon
  <2>2. Holders' = Holders
    BY <1>0, <2>1 DEF Holders, In, Go
  <2> QED
    BY <2>1, <2>2, PoolOperators DEF Pool!GiveUp
<1>8. ASSUME NEW t \in Tasks, Release(t)
      PROVE  Pool!Leave(t)
  <2>1. pc[t] = "releasing" /\ Go(t, "idle") /\ GiveBack
    BY <1>8 DEF Release
  <2>2. t \in Holders /\ t \notin assigned
    BY <2>1 DEF Holders, In, WaitersInv
  <2>3. CASE queue = <<>>
    <3>1. assigned' = assigned /\ queue' = queue
      BY <2>1, <2>3 DEF GiveBack
    <3>2. Holders' = Holders \ {t}
      BY <1>0, <2>1, <2>2, <3>1 DEF Holders, In, Go
    <3> QED
      BY <2>2, <2>3, <3>1, <3>2 DEF Pool!Leave
  <2>4. CASE queue /= <<>>
    <3>1. assigned' = assigned \cup {Head(queue)} /\ queue' = Tail(queue)
      BY <2>1, <2>4 DEF GiveBack
    <3>2. Holders' = (Holders \ {t}) \cup {Head(queue)}
      BY <1>0, <2>1, <2>2, <3>1 DEF Holders, In, Go
    <3> QED
      BY <2>2, <2>4, <3>1, <3>2 DEF Pool!Leave
  <2> QED
    BY <2>3, <2>4
<1> QED
  BY <1>2, <1>3, <1>4, <1>5, <1>6, <1>7, <1>8 DEF Next, Advance, Pool!Next, Pool!vars

\* Step by step the limiter is the pool of places: a place that falls free goes
\* to the first in line in the same step, and nobody overtakes.  (That holders
\* leave, which ImplementsPool adds, is fairness, and left to TLC.)
THEOREM LimiterKeepsPool == Spec => Pool!Safety
<1>1. Init => Pool!Init
  BY PoolInit
<1>2. LimiterInv /\ [Next]_vars => [Pool!Next]_(Pool!vars)
  BY PoolStep
<1> QED
  BY <1>1, <1>2, LimiterInvariant, PTL DEF Spec, Pool!Safety
=============================================================================
