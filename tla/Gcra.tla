-------------------------------- MODULE Gcra --------------------------------
(***************************************************************************)
(* The pure part of the Generic Cell Rate Algorithm                        *)
(* (src/algorithm/gcra.rs): what one request at time `now` does to the     *)
(* stored theoretical arrival time (TAT), and what the caller is told.     *)
(* Times are milliseconds.  `current_tat` is None for a first request.     *)
(***************************************************************************)
EXTENDS Quota

Decision == [allowed : BOOLEAN, tat : Nat]

\* Mutant: the tolerance is one millisecond too wide.
ToleranceOffByOne(current_tat, now) ==
  LET effective_tat == IF current_tat = None THEN now ELSE current_tat
      new_tat       == Later(effective_tat, now) + Period
  IN  IF new_tat - now <= MaxTatOffset + Period + 1
        THEN [allowed |-> TRUE,  tat |-> new_tat]
        ELSE [allowed |-> FALSE, tat |-> effective_tat]

\* Mutant: a denied request is charged for as well.
DeniedIsCharged(current_tat, now) ==
  LET effective_tat == IF current_tat = None THEN now ELSE current_tat
      new_tat       == Later(effective_tat, now) + Period
  IN  [allowed |-> new_tat - now <= MaxTatOffset + Period, tat |-> new_tat]

CalculateDecision(current_tat, now) ==
  LET effective_tat == IF current_tat = None THEN now ELSE current_tat
      new_tat       == Later(effective_tat, now) + Period
  IN  IF new_tat - now <= MaxTatOffset + Period
        THEN [allowed |-> TRUE,  tat |-> new_tat]
        ELSE [allowed |-> FALSE, tat |-> effective_tat]

\* `tat_offset / period_ms` in build_info divides by zero.
DividesByZero(decision, now) == Period = 0 /\ decision.tat > now

\* Mutant: a started period is not counted as used.
RemainingRoundedUp(tat, now) ==
  IF tat <= now THEN EffectiveBurst ELSE Minus(EffectiveBurst, (tat - now) \div Period)

Remaining(tat, now) ==
  IF tat <= now THEN EffectiveBurst
  ELSE Minus(EffectiveBurst, (tat - now) \div Period + 1)

\* Mutant: the wait is counted to the TAT itself, as if there were no burst.
RetryAtTat(decision, now) ==
  LET wait == Minus(decision.tat, now)
  IN  IF decision.allowed \/ wait = 0 THEN None ELSE wait

\* Option<Duration> of a denied request; None where the code sets none.
RetryAfter(decision, now) ==
  LET wait == Minus(Minus(decision.tat, now), MaxTatOffset)
  IN  IF decision.allowed \/ wait = 0 THEN None ELSE wait

\* What a Decision tells.
DecisionInfo == [allowed : BOOLEAN, limit : Nat, remaining : Nat, reset_at : Nat,
                 retry_after : Nat \cup {None}]

\* The Decision handed to the caller: build_info and Decision::allowed/denied.
Reply(decision, now) ==
  [allowed     |-> decision.allowed,
   limit       |-> EffectiveBurst,
   remaining   |-> Remaining(decision.tat, now),
   reset_at    |-> Later(decision.tat, now),
   retry_after |-> RetryAfter(decision, now)]

\* Mutant: the entry is kept for exactly one burst.
TtlOfOneBurst == MaxTatOffset + Period

\* How long check_and_record asks the storage to keep the entry.
Ttl == MaxTatOffset + 2 * Period

\* With a TAT that was never forgotten, the TAT of the requests let through at
\* the times of `log` would be at most t.
DebtBy(log, t) ==
  \A i \in 1..Len(log) : log[i] + (Len(log) - i + 1) * Period <= t
=============================================================================
