----------------------------- MODULE SlidingLog -----------------------------
(***************************************************************************)
(* The pure part of the sliding log (src/algorithm/sliding_log.rs): the    *)
(* arrival times of the requests let through, those of the last window.    *)
(***************************************************************************)
EXTENDS Quota

\* Mutant: a request exactly one window old has left the window.
FilterOpenWindow(timestamps, window_start) ==
  SelectSeq(timestamps, LAMBDA ts : ts > window_start)

\* The times at or after window_start, in their order: Vec::retain, as a function
\* of how many it has visited.
FilterWindow(timestamps, window_start) ==
  LET kept[n \in 0..Len(timestamps)] ==
        IF n = 0 THEN <<>>
        ELSE IF timestamps[n] >= window_start THEN Append(kept[n - 1], timestamps[n])
        ELSE kept[n - 1]
  IN  kept[Len(timestamps)]

\* The times an entry, if there is one, remembers.
Timestamps(entry) == IF entry = None \/ entry.timestamps = None THEN <<>> ELSE entry.timestamps

InWindow(entry, now) == FilterWindow(Timestamps(entry), Minus(now, WindowMs))

\* When the oldest request of the window is a window old.
OldestLeaves(log, now) == (IF log = <<>> THEN now ELSE log[1]) + WindowMs - now

SlidingLogRecord(entry, now) ==
  LET log == InWindow(entry, now)
  IN  IF Len(log) < MaxRequests
        THEN Verdict(TRUE, WithTimestamps(Append(log, now)),
                     MaxRequests - Len(log) - 1, None)
        ELSE Verdict(FALSE, WithTimestamps(log), 0, OldestLeaves(log, now))

SlidingLogCheck(entry, now) ==
  LET log     == InWindow(entry, now)
      allowed == Len(log) < MaxRequests
  IN  Verdict(allowed, None, Minus(MaxRequests, Len(log)),
              IF allowed THEN None ELSE OldestLeaves(log, now))
=============================================================================
