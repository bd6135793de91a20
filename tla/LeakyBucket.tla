----------------------------- MODULE LeakyBucket ----------------------------
(***************************************************************************)
(* The pure part of the leaky bucket (src/algorithm/leaky_bucket.rs).      *)
(* `tokens` of the entry is the level, in the units of TokenBucket, and    *)
(* leaks at the rate at which a token bucket fills.                        *)
(***************************************************************************)
EXTENDS TokenBucket

MaxLevel == EffectiveBurst * Unit

Level(entry, now) ==
  LET level == IF entry = None \/ entry.tokens = None THEN 0 ELSE entry.tokens
  IN  IF entry = None THEN level
      ELSE Minus(level, Minus(now, entry.last_update) * EffectiveRefillRate)

\* When there is room for another request.
RoomAfter(level) == (level + Unit - MaxLevel) \div EffectiveRefillRate

LeakyBucketRecord(entry, now) ==
  LET level == Level(entry, now)
      full  == level + Unit
  IN  IF full <= MaxLevel
        THEN Verdict(TRUE, WithTokens(full, now), (MaxLevel - full) \div Unit, None)
        ELSE Verdict(FALSE, WithTokens(level, now), 0, RoomAfter(level))

LeakyBucketCheck(entry, now) ==
  LET level   == Level(entry, now)
      allowed == level + Unit <= MaxLevel
  IN  Verdict(allowed, None, Minus(MaxLevel, level) \div Unit,
              IF allowed THEN None ELSE RoomAfter(level))
=============================================================================
