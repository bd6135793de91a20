---------------------------- MODULE GcraAdmission ---------------------------
(***************************************************************************)
(* GcraMemory seen from its callers: the replies they get, and, as history *)
(* variables, what those replies amount to.  It adds no behaviour: each    *)
(* action is one of GcraMemory together with what the caller learns.       *)
(***************************************************************************)
EXTENDS GcraMemory, Integers, Sequences

VARIABLES
  reply,      \* per worker: the Decision of its last call, with that call's key
              \* and time; None for a reset, a collection, a panic, or a call
              \* under way
  admitted,   \* history, per key: arrival times of the requests let through
  retryAt     \* history, per key: when the last denied request may come back,
              \* None once a request was let through

callerVars == <<reply, admitted, retryAt>>
allVars == <<vars, callerVars>>

AdmissionInit ==
  /\ Init
  /\ reply = [w \in Workers |-> None]
  /\ admitted = [k \in Keys |-> <<>>]
  /\ retryAt = [k \in Keys |-> None]

\* The caller of w gets the reply to a decision on its key.
Answer(w, decision) ==
  reply' = [reply EXCEPT ![w] = [key      |-> call[w].key,
                                 now      |-> now[w],
                                 decision |-> Reply(decision, now[w])]]

Began(w) ==
  /\ StartSome(w)
  /\ reply' = [reply EXCEPT ![w] = None]
  /\ UNCHANGED <<admitted, retryAt>>

Recorded(w) ==
  LET k == call[w].key
  IN  /\ Record(w)
      /\ Answer(w, Outcome(w))
      /\ IF Outcome(w).allowed
           THEN /\ admitted' = [admitted EXCEPT ![k] = Append(@, now[w])]
                /\ retryAt' = [retryAt EXCEPT ![k] = None]
           ELSE /\ retryAt' = [retryAt EXCEPT ![k] =
                                 now[w] + RetryAfter(Outcome(w), now[w])]
                /\ UNCHANGED admitted

PeekAnswer(w, entry) ==
  LET decision == CalculateDecision(Tat(entry), now[w])
  IN  /\ IF DividesByZero(decision, now[w])
           THEN UNCHANGED reply ELSE Answer(w, decision)
      /\ UNCHANGED <<admitted, retryAt>>

Peeked(w) ==
  \/ PeekHit(w) /\ PeekAnswer(w, data[call[w].key].entry)
  \/ PeekMiss(w) /\ PeekAnswer(w, None)

Forgot(w) ==
  /\ Forget(w)
  /\ admitted' = [admitted EXCEPT ![call[w].key] = <<>>]
  /\ retryAt' = [retryAt EXCEPT ![call[w].key] = None]
  /\ UNCHANGED reply

AdmissionNext ==
  \/ Time /\ UNCHANGED callerVars
  \/ \E w \in Workers :
       \/ Began(w)
       \/ (Internal(w) \/ Panic(w)) /\ UNCHANGED callerVars
       \/ Recorded(w) \/ Peeked(w) \/ Forgot(w)

AdmissionSpec == AdmissionInit /\ [][AdmissionNext]_allVars

-----------------------------------------------------------------------------
(***************************************************************************)
(* Properties                                                              *)
(***************************************************************************)
Contract == INSTANCE RateContract

\* Any two admitted requests of a key are as far apart as the quota says, less
\* the burst tolerance, across expiry, collection, peeks and stalls of up to
\* MaxLatency.  Holds for one worker; two can overwrite each other's entry.
Conforms == \A k \in Keys : Contract!ConformingLog(admitted[k])

\* The limiter implements the abstract promise: it admits in arrival order,
\* forgets only on reset, and never admits what RateContract would not.
RefinesContract == Contract!Spec

\* A denied client's retry_after is exact: until then it is denied, from then
\* on, unless somebody else was let through, it is admitted; a peek in between
\* foretells the same.
AnswersAsTold ==
  \A w \in Workers :
    LET r == reply'[w]
    IN  r /= reply[w] /\ r /= None /\ retryAt[r.key] /= None =>
          (r.decision.allowed <=> r.now >= retryAt[r.key])

RetryHonoured == [][AnswersAsTold]_allVars

\* How many more requests GCRA would let through at the time of the reply.
Capacity(r) == (r.now + MaxTatOffset + Period - r.decision.reset_at) \div Period

\* A client that sends no more than `remaining` further requests at once is
\* never refused.
RemainingIsSafe ==
  \A w \in Workers :
    reply[w] /= None /\ reply[w].decision.allowed =>
      reply[w].decision.remaining <= Capacity(reply[w])

-----------------------------------------------------------------------------
(***************************************************************************)
(* Inductive invariant of Conforms and RetryHonoured, for one worker       *)
(***************************************************************************)
\* No request yet to be decided arrived before this.
Base(w) == IF Busy(w) THEN now[w] ELSE clock

\* w may decide on k as if for the first time: the log is within the tolerance
\* and its debt is past, at w's arrival or at any rate a period ago; and who was
\* denied has waited as long as told.
Settled(w, k) ==
  /\ DebtBy(admitted[k], Base(w) + MaxTatOffset)
  /\ DebtBy(admitted[k], Base(w)) \/ DebtBy(admitted[k], clock - Period)
  /\ retryAt[k] /= None => retryAt[k] <= Base(w)

\* The stored entry knows of all debt that is not past, is within the burst,
\* expires no sooner than a period after its TAT, and is what the last denial
\* was about.
Remembered(w, k) ==
  LET tat == data[k].entry.tat
  IN  /\ tat \in Nat
      /\ DebtBy(admitted[k], Later(tat, Base(w)))
      /\ tat + Period <= data[k].expires_at
      /\ tat <= Base(w) + MaxTatOffset + Period
      /\ retryAt[k] /= None => retryAt[k] + MaxTatOffset = tat

KeyInv(w, k) ==
  /\ admitted[k] \in Seq(Nat)
  /\ \A i \in 1..Len(admitted[k]) : admitted[k][i] <= Base(w)
  /\ IF data[k] = None THEN Settled(w, k) ELSE Remembered(w, k)

\* What w has read and computed so far.
CallInv(w) ==
  /\ Busy(w) => now[w] <= clock /\ clock <= now[w] + MaxLatency
  /\ call[w].now <= clock /\ call[w].gcNow <= clock
  /\ call[w].op = "execute_atomic" =>
       /\ call[w].ttl = Ttl
       /\ call[w].phase \in {"now", "load", "commit"} =>
            call[w].expires >= now[w] + Ttl
       /\ call[w].phase = "commit" =>
            LET held == data[call[w].key]
            IN  IF call[w].current = None
                  THEN Settled(w, call[w].key)
                  ELSE held /= None /\ call[w].current = held.entry
  /\ call[w].op = "get" /\ call[w].phase = "remove" => Settled(w, call[w].key)

\* A Decision and the call it answers.
Answers == [key : Keys, now : Nat, decision : DecisionInfo]

AdmissionTypes ==
  /\ DOMAIN reply = Workers
  /\ \A w \in Workers : reply[w] /= None => reply[w] \in Answers
  /\ admitted \in [Keys -> Seq(Nat)]
  /\ retryAt \in [Keys -> Nat \cup {None}]

AdmissionInv ==
  /\ TypeOK /\ CallsMade /\ AdmissionTypes
  /\ \A w \in Workers : CallInv(w) /\ \A k \in Keys : KeyInv(w, k)
  /\ Conforms
=============================================================================
