------------------------------- MODULE Quota --------------------------------
(***************************************************************************)
(* A rate-limiting quota (src/quota.rs) and the two durations GCRA derives *)
(* from it.  The code keeps durations in nanoseconds and rounds there, but *)
(* every caller takes `as_millis()`, which truncates: the truncation is    *)
(* part of the model, the floating-point noise below a nanosecond is not.  *)
(***************************************************************************)
EXTENDS StorageEntry      \* for None

CONSTANTS
  MaxRequests,   \* max_requests
  WindowMs,      \* window, in milliseconds
  Burst          \* burst : Option<u64>

\* try_new refuses a zero quota and a zero window.  Nothing refuses a burst
\* of zero, which makes `burst - 1` wrap: that configuration is left out.
ASSUME QuotaAssumption ==
  /\ MaxRequests \in Nat \ {0}
  /\ WindowMs \in Nat \ {0}
  /\ Burst \in (Nat \ {0}) \cup {None}

\* u64::max
Later(s, t) == IF s >= t THEN s ELSE t

\* u64::saturating_sub
Minus(s, t) == IF s >= t THEN s - t ELSE 0

NsPerMs == 1000000

EffectiveBurst == IF Burst = None THEN MaxRequests ELSE Burst

\* Duration::from_secs_f64(window / max_requests), to the nearest nanosecond.
PeriodNs == (2 * WindowMs * NsPerMs + MaxRequests) \div (2 * MaxRequests)

\* quota.period().as_millis(): zero for more than a thousand requests a second.
Period == PeriodNs \div NsPerMs

\* quota.max_tat_offset().as_millis()
MaxTatOffset == (PeriodNs * (EffectiveBurst - 1)) \div NsPerMs

\* What an algorithm makes of a request, or of a peek: the entry to store, and
\* the Decision for the caller (src/decision.rs).
Verdict(allowed, entry, remaining, retry_after) ==
  [allowed |-> allowed, entry |-> entry,
   remaining |-> remaining, retry_after |-> retry_after]
=============================================================================
