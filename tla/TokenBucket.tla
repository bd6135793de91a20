----------------------------- MODULE TokenBucket ----------------------------
(***************************************************************************)
(* The pure part of the token bucket (src/algorithm/token_bucket.rs).  The *)
(* code counts tokens in f64; here a token is WindowMs units, so that a    *)
(* refill rate of so many tokens per window is as many units a millisecond *)
(* and nothing is rounded.  Conversions to u64 truncate, as in the code.   *)
(***************************************************************************)
EXTENDS Quota

CONSTANTS
  MinTtl,       \* the shortest TTL of a bucket: 1000 ms in the code
  RefillRate    \* refill_rate : Option<f64>, here in tokens per window

ASSUME TokenBucketAssumption ==
  /\ MinTtl \in Nat
  /\ RefillRate \in (Nat \ {0}) \cup {None}

Unit == WindowMs

\* f64::min
Lesser(s, t) == IF s <= t THEN s ELSE t

MaxTokens == EffectiveBurst * Unit

EffectiveRefillRate == IF RefillRate = None THEN MaxRequests ELSE RefillRate

\* Mutant: the distance to the last update counts, not what has passed since.
RefilledByDistance(entry, now) ==
  IF entry = None THEN MaxTokens
  ELSE LET elapsed == Minus(now, entry.last_update) + Minus(entry.last_update, now)
       IN  Lesser(entry.tokens + elapsed * EffectiveRefillRate, MaxTokens)

\* The tokens of `entry` at time `now`.
Refilled(entry, now) ==
  LET tokens == IF entry = None \/ entry.tokens = None THEN MaxTokens ELSE entry.tokens
      refill == IF entry = None THEN 0
                ELSE Minus(now, entry.last_update) * EffectiveRefillRate
  IN  IF refill > 0 THEN Lesser(tokens + refill, MaxTokens) ELSE tokens

\* retry_after of build_info, which does not ask whether the request passed.
NextToken(tokens) ==
  LET wait == Minus(Unit, tokens) \div EffectiveRefillRate
  IN  IF tokens \div Unit = 0 /\ wait > 0 THEN wait ELSE None

\* Mutant: `remaining` rounds up.
TokensLeftRoundedUp(tokens) == (tokens + Unit - 1) \div Unit

\* tokens.floor() as u64
TokensLeft(tokens) == tokens \div Unit

TokenBucketRecord(entry, now) ==
  LET tokens == Refilled(entry, now)
      left   == IF tokens >= Unit THEN tokens - Unit ELSE tokens
  IN  Verdict(tokens >= Unit, WithTokens(left, now), TokensLeft(left), NextToken(left))

TokenBucketCheck(entry, now) ==
  LET tokens == Refilled(entry, now)
  IN  Verdict(tokens >= Unit, None, TokensLeft(tokens), NextToken(tokens))

\* Twice the time to fill the bucket; the leaky bucket's is the same.
BucketTtl == Later((2 * MaxTokens) \div EffectiveRefillRate, MinTtl)
=============================================================================
