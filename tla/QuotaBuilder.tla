---------------------------- MODULE QuotaBuilder ----------------------------
(***************************************************************************)
(* The constructors of Quota and QuotaBuilder (src/quota.rs).  A quota is  *)
(* a record, its window in milliseconds; None is a configuration that is   *)
(* refused, by a panic of `new` or by an error of `try_new` and `build`.   *)
(***************************************************************************)
EXTENDS Integers

CONSTANT None

Plain(max_requests, window) ==
  [max_requests |-> max_requests, window |-> window, burst |-> None, refill_rate |-> None]

TryNewQuota(max_requests, window) ==
  IF max_requests = 0 \/ window = 0 THEN None ELSE Plain(max_requests, window)

\* Quota::new checks the same, and panics.
NewQuota(max_requests, window) == TryNewQuota(max_requests, window)

PerSecond(n) == NewQuota(n, 1000)
PerMinute(n) == NewQuota(n, 60 * 1000)
PerHour(n)   == NewQuota(n, 3600 * 1000)
PerDay(n)    == NewQuota(n, 86400 * 1000)

DefaultQuota == PerMinute(60)

SimpleQuota(period) == NewQuota(1, period)

\* Neither looks at the value.
WithBurst(quota, burst) == [quota EXCEPT !.burst = burst]
WithRefillRate(quota, rate) == [quota EXCEPT !.refill_rate = rate]

PeriodAndBurst(period, burst) == WithBurst(SimpleQuota(period), burst)

\* QuotaBuilder::build, for a builder whose fields may be None.
BuildQuota(builder) ==
  IF builder.max_requests = None \/ builder.window = None
       \/ TryNewQuota(builder.max_requests, builder.window) = None
    THEN None
    ELSE WithRefillRate(WithBurst(TryNewQuota(builder.max_requests, builder.window),
                                  builder.burst),
                        builder.refill_rate)

\* burst - 1 of max_tat_offset, in `width` bits: how many periods ahead of the
\* clock a TAT may be.
PeriodsAhead(quota, width) ==
  LET burst == IF quota.burst = None THEN quota.max_requests ELSE quota.burst
  IN  (burst - 1) % 2^width
=============================================================================
