------------------------------- MODULE Windows ------------------------------
(***************************************************************************)
(* The pure part of the two algorithms with aligned windows:               *)
(* src/algorithm/fixed_window.rs, a counter that storage increments, and   *)
(* src/algorithm/sliding_window.rs, which weighs in the previous window.   *)
(* The weight is an f64 in the code; here everything is times WindowMs,    *)
(* which makes it exact.                                                   *)
(***************************************************************************)
EXTENDS Quota

WindowStart(now) == (now \div WindowMs) * WindowMs

\* Mutant: the window is a millisecond short.
WindowEndsEarly(now) == WindowStart(now) + WindowMs - 1 - now

WindowEnds(now) == WindowStart(now) + WindowMs - now

\* Mutant: the count is compared as if the request were not yet in it.
FixedWindowCountsLate(count, now) ==
  Verdict(count <= MaxRequests + 1, None, Minus(MaxRequests, count),
          IF count <= MaxRequests + 1 THEN None ELSE WindowEnds(now))

\* The reply to a request that increment has counted as the count-th.
FixedWindowRecord(count, now) ==
  Verdict(count <= MaxRequests, None, Minus(MaxRequests, count),
          IF count <= MaxRequests THEN None ELSE WindowEnds(now))

FixedWindowCheck(entry, now) ==
  LET count == IF entry /= None /\ entry.window_start = WindowStart(now)
                 THEN entry.count ELSE 0
  IN  Verdict(count < MaxRequests, None, Minus(MaxRequests, count),
              IF count < MaxRequests THEN None ELSE WindowEnds(now))

\* The counts of the current and of the previous window, as `entry` knows them.
Counts(entry, now) ==
  CASE entry /= None /\ entry.window_start = WindowStart(now) ->
         [current  |-> entry.count,
          previous |-> IF entry.prev_count = None THEN 0 ELSE entry.prev_count]
    [] entry /= None /\ entry.window_start /= WindowStart(now)
         /\ entry.window_start = Minus(WindowStart(now), WindowMs) ->
         [current |-> 0, previous |-> entry.count]
    [] OTHER -> [current |-> 0, previous |-> 0]

\* Mutant: the previous window weighs in by how much of this one has passed.
WeightedReversed(entry, now) ==
  Counts(entry, now).current * WindowMs
    + Counts(entry, now).previous * (now - WindowStart(now))

\* weighted_count, times WindowMs
Weighted(entry, now) ==
  Counts(entry, now).current * WindowMs + Counts(entry, now).previous * WindowEnds(now)

SlidingWindowRecord(entry, now) ==
  LET counts == Counts(entry, now)
      room   == Minus(MaxRequests * WindowMs, Weighted(entry, now))
  IN  IF room > 0
        THEN Verdict(TRUE,
                     [NewEntry(counts.current + 1, WindowStart(now)) EXCEPT
                        !.prev_count = counts.previous, !.last_update = now],
                     Minus(room, WindowMs) \div WindowMs, None)
        ELSE Verdict(FALSE,
                     IF entry = None THEN NewEntry(counts.current, WindowStart(now)) ELSE entry,
                     0, WindowEnds(now))

SlidingWindowCheck(entry, now) ==
  LET room == Minus(MaxRequests * WindowMs, Weighted(entry, now))
  IN  Verdict(room > 0, None, room \div WindowMs,
              IF room > 0 THEN None ELSE WindowEnds(now))

\* Two windows, for the sliding log as well.
WindowTtl == 2 * WindowMs
=============================================================================
