------------------------------- MODULE Limiter ------------------------------
(***************************************************************************)
(* The other five algorithms on MemoryStorage, seen from their callers     *)
(* (src/algorithm/mod.rs and one file each).  `algorithm` stands for the   *)
(* type parameter of the code, which is chosen once: what a call does to   *)
(* the storage and what it replies depend on it, the protocol of a call    *)
(* does not.  As in GcraMemory, `now` is read before the storage reads the *)
(* clock again.                                                            *)
(*                                                                         *)
(* SystemTime may be set back at any moment, between two readings of one   *)
(* call as well as between calls.  `behind` is by how much it lags since;  *)
(* what is let through is logged in true time, which never goes back.      *)
(***************************************************************************)
EXTENDS LeakyBucket, SlidingLog, Windows, MemoryStorage, Integers

CONSTANTS
  Algorithms,    \* Algorithm::name() of those that may be in use
  MaxLatency,    \* bound: longest time from a call's start to its end
  MaxStep,       \* bound: the clock is set back by no more than this, in all
  MaxCount,      \* bound: the counter of a fixed window is not driven past it
  MaxAdmitted    \* bound: no requests on a key once so many were let through

ASSUME LimiterAssumption ==
  /\ Algorithms \subseteq {"token_bucket", "leaky_bucket", "sliding_log",
                           "sliding_window", "fixed_window"}
  /\ MaxLatency \in Nat
  /\ MaxStep \in Nat
  /\ MaxCount \in Nat
  /\ MaxAdmitted \in Nat

VARIABLES
  algorithm,     \* the one in use
  behind,        \* true time is clock + behind
  now,           \* per worker: the clock when its call started, 0 outside of calls
  started,       \* history, per worker: the true time of that, 0 outside of calls
  admitted,      \* history, per key: true arrival times of the requests let through
  told           \* history, per key: what the last reply about it promised, None after
                 \* a reset

vars == <<storageVars, algorithm, behind, now, started, admitted, told>>

Ttl == IF algorithm \in {"token_bucket", "leaky_bucket"} THEN BucketTtl ELSE WindowTtl

\* The closure of check_and_record.
Decide(entry, t) ==
  CASE algorithm = "token_bucket"   -> TokenBucketRecord(entry, t)
    [] algorithm = "leaky_bucket"   -> LeakyBucketRecord(entry, t)
    [] algorithm = "sliding_log"    -> SlidingLogRecord(entry, t)
    [] algorithm = "sliding_window" -> SlidingWindowRecord(entry, t)

\* check, on the entry that get returned.
Peek(entry, t) ==
  CASE algorithm = "token_bucket"   -> TokenBucketCheck(entry, t)
    [] algorithm = "leaky_bucket"   -> LeakyBucketCheck(entry, t)
    [] algorithm = "sliding_log"    -> SlidingLogCheck(entry, t)
    [] algorithm = "sliding_window" -> SlidingWindowCheck(entry, t)
    [] algorithm = "fixed_window"   -> FixedWindowCheck(entry, t)

TypeOK ==
  /\ StorageTypeOK
  /\ CallsKeyed
  /\ algorithm \in Algorithms
  /\ behind \in 0..MaxStep
  /\ now \in [Workers -> Nat]
  /\ started \in [Workers -> Nat]
  /\ admitted \in [Keys -> Seq(Nat)]

Init ==
  /\ StorageInit
  /\ algorithm \in Algorithms
  /\ behind = 0
  /\ now = [w \in Workers |-> 0]
  /\ started = now
  /\ admitted = [k \in Keys |-> <<>>]
  /\ told = [k \in Keys |-> None]

Start(w, op, k, ttl) ==
  /\ Begin(w, op, k, ttl)
  /\ now' = [now EXCEPT ![w] = clock]
  /\ started' = [started EXCEPT ![w] = clock + behind]
  /\ UNCHANGED <<algorithm, behind, admitted, told>>

CheckAndRecord(w, k) ==
  /\ data[k] /= None => data[k].entry.count < MaxCount
  /\ Len(admitted[k]) < MaxAdmitted
  /\ Start(w, IF algorithm = "fixed_window" THEN "increment" ELSE "execute_atomic", k, Ttl)

Check(w, k) == Start(w, "get", k, 0)
Reset(w, k) == Start(w, "delete", k, 0)

\* The caller of w learns the verdict on its key: whether more would be let
\* through, and, if it is denied, when to come back.
Tell(w, verdict) ==
  told' = [told EXCEPT ![call[w].key] =
             [allowed   |-> verdict.allowed,
              more      |-> verdict.remaining > 0,
              come_back |-> IF verdict.allowed \/ verdict.retry_after = None
                              THEN None ELSE now[w] + verdict.retry_after]]

\* The call of w is over, and its locals are gone.
Done(w) ==
  /\ now' = [now EXCEPT ![w] = 0]
  /\ started' = [started EXCEPT ![w] = 0]
  /\ UNCHANGED <<algorithm, behind>>

\* The verdict on a request that counts.
TellRecorded(w, verdict) ==
  /\ Tell(w, verdict)
  /\ admitted' = IF verdict.allowed
                   THEN [admitted EXCEPT ![call[w].key] = Append(@, started[w])]
                   ELSE admitted
  /\ Done(w)

Record(w) ==
  LET verdict == Decide(call[w].current, now[w])
  IN  /\ ExecuteCommit(w, verdict.entry)
      /\ TellRecorded(w, verdict)

CountRecord(w) ==
  /\ IncrementCommit(w, 1, WindowStart(now[w]))
  /\ TellRecorded(w, FixedWindowRecord(data'[call[w].key].entry.count, now[w]))

PeekHit(w) ==
  /\ GetHit(w)
  /\ Tell(w, Peek(data[call[w].key].entry, now[w]))
  /\ UNCHANGED admitted
  /\ Done(w)

PeekMiss(w) ==
  /\ GetMiss(w) \/ GetRemove(w)
  /\ Tell(w, Peek(None, now[w]))
  /\ UNCHANGED admitted
  /\ Done(w)

Forget(w) ==
  /\ DeleteCommit(w)
  /\ admitted' = [admitted EXCEPT ![call[w].key] = <<>>]
  /\ told' = [told EXCEPT ![call[w].key] = None]
  /\ Done(w)

Internal(w) ==
  /\ Common(w) \/ Load(w) \/ GetExpired(w)
  /\ UNCHANGED <<algorithm, behind, now, started, admitted, told>>

\* No call lasts more than MaxLatency milliseconds; true time is bounded, too.
Time ==
  /\ \A w \in Workers : Busy(w) => clock + behind < started[w] + MaxLatency
  /\ clock + behind < MaxClock
  /\ Tick
  /\ UNCHANGED <<algorithm, behind, now, started, admitted, told>>

\* The algorithms that promise something of a clock that is set back: the other
\* two start an earlier window again, with a new count.
Resilient == {"token_bucket", "leaky_bucket", "sliding_log"}

\* The system's clock is set back.
StepBack ==
  /\ algorithm \in Resilient
  /\ \E step \in 1..(MaxStep - behind) :
       /\ step <= clock
       /\ clock' = clock - step
       /\ behind' = behind + step
  /\ UNCHANGED <<data, requests, gcLock, call, algorithm, now, started, admitted, told>>

Next ==
  \/ Time
  \/ StepBack
  \/ \E w \in Workers :
       \/ \E k \in Keys : CheckAndRecord(w, k) \/ Check(w, k) \/ Reset(w, k)
       \/ Internal(w)
       \/ Record(w) \/ CountRecord(w) \/ PeekHit(w) \/ PeekMiss(w) \/ Forget(w)

Spec == Init /\ [][Next]_vars

-----------------------------------------------------------------------------
(***************************************************************************)
(* Properties                                                              *)
(***************************************************************************)
\* The pairs of requests of a key, the first no later than the second, and how
\* many were let through from the one to the other.
Spans(k) == {p \in (1..Len(admitted[k])) \X (1..Len(admitted[k])) : p[1] <= p[2]}
Size(p) == p[2] - p[1] + 1
Length(k, p) == admitted[k][p[2]] - admitted[k][p[1]]

\* Token and leaky bucket: between any two requests, no more are let through
\* than one burst and what the rate gives in the true time between them,
\* across expiry, collection, denials, stalls, and a clock that is set back.
RateKept ==
  algorithm \in {"token_bucket", "leaky_bucket"} =>
    \A k \in Keys : \A p \in Spans(k) :
      Size(p) * Unit <= EffectiveBurst * Unit + Length(k, p) * EffectiveRefillRate

\* Sliding log: no interval of a window's length, ends included, has more than
\* max_requests, although entries expire, old times are filtered out, and the
\* clock may be set back.
LogKept ==
  algorithm = "sliding_log" =>
    \A k \in Keys : \A p \in Spans(k) : Length(k, p) <= WindowMs => Size(p) <= MaxRequests

\* Fixed and sliding window: no aligned window has more than max_requests.
WindowKept ==
  algorithm \in {"fixed_window", "sliding_window"} =>
    \A k \in Keys : \A p \in Spans(k) :
      WindowStart(admitted[k][p[1]]) = WindowStart(admitted[k][p[2]]) =>
        Size(p) <= MaxRequests

\* The requests of p are of one window, and those of q of the next.
Adjacent(k, p, q) ==
  LET start(i) == WindowStart(admitted[k][i])
  IN  /\ p[2] < q[1]
      /\ start(p[1]) = start(p[2]) /\ start(q[1]) = start(q[2])
      /\ start(q[2]) = start(p[1]) + WindowMs

\* Sliding window: the requests of the previous window weigh on this one, in
\* proportion to what is left of it when the last of them is let through, so that
\* at the boundary itself nothing beyond max_requests gets through.
BoundaryKept ==
  algorithm = "sliding_window" =>
    \A k \in Keys : \A p, q \in Spans(k) : Adjacent(k, p, q) =>
      Size(q) * WindowMs + Size(p) * WindowEnds(admitted[k][q[2]])
        < (MaxRequests + 1) * WindowMs

\* A reply about a key of which an earlier one is known, with the clock never
\* set back.
Followed(k) ==
  /\ behind = 0 /\ told[k] /= None /\ told'[k] /= None
  /\ \E w \in Workers : call[w].key = k /\ call'[w] = NoCall

\* While a reply said that requests remain, the next is let through, whether
\* the reply was to a request or to a peek, and however late the next comes.
RemainingHonoured ==
  [][\A k \in Keys : Followed(k) /\ told[k].more => told'[k].allowed]_vars

\* With the fixed window, whoever was denied and waits as long as told is let
\* through, after the counter was reset as after it expired.
FixedRetryHonoured ==
  [][\A k \in Keys :
       algorithm = "fixed_window" /\ Followed(k) /\ told[k].come_back /= None
         /\ (\E w \in Workers : Busy(w) /\ ~Busy(w)' /\ now[w] >= told[k].come_back) =>
           told'[k].allowed]_vars

-----------------------------------------------------------------------------
(***************************************************************************)
(* Inductive invariant, for one worker.  `log` are the true times of the   *)
(* requests let through on a key, `base` is a true time that no request    *)
(* yet to be decided precedes, `reading` what the clock showed then.       *)
(***************************************************************************)
Buckets == {"token_bucket", "leaky_bucket"}
Aligned == {"fixed_window", "sliding_window"}

\* The requests of `log` came one after the other, and none after `base`.
Ordered(log, base) ==
  \A j \in 1..Len(log) : log[j] <= base /\ \A i \in 1..j : log[i] <= log[j]

\* The requests of `log` from the i-th on.
Since(log, i) == Len(log) - i + 1

\* Each request has taken a token, and the rate has given some back since: what
\* is owed of a full bucket, counted at time 0, is never more than `amount`.
Owed(log, amount) ==
  \A i \in 1..Len(log) : log[i] * EffectiveRefillRate + Since(log, i) * Unit <= amount

\* The tokens in the bucket, or the room that is left in it.
Available(alg, entry, t) ==
  IF alg = "token_bucket" THEN Refilled(entry, t) ELSE MaxLevel - Level(entry, t)

\* What `entry`, or its absence, has to say of `log` to decide on a request.
BucketKnows(alg, entry, log, base, reading) ==
  /\ entry /= None => entry.tokens \in 0..MaxTokens
  /\ Owed(log, base * EffectiveRefillRate + MaxTokens - Available(alg, entry, reading))

WindowKnows(entry, log, base) ==
  \A i \in 1..Len(log) : WindowStart(log[i]) = WindowStart(base) =>
    /\ entry /= None
    /\ entry.window_start = WindowStart(base)
    /\ Since(log, i) <= entry.count

\* What `entry` knows of the window before.
PreviousKnows(entry, log, base) ==
  \A l \in 1..Len(log) : \A i \in 1..l :
    WindowStart(log[i]) = WindowStart(log[l])
      /\ WindowStart(log[i]) + WindowMs = WindowStart(base) =>
        l - i + 1 <= Counts(entry, base).previous

LogKnows(entry, log, base, reading) ==
  LET times == Timestamps(entry)
  IN  \A i \in 1..Len(log) : base <= log[i] + WindowMs =>
        /\ Since(log, i) <= Len(times)
        /\ times[Len(times) - Since(log, i) + 1] + base - reading >= log[i]

Knows(alg, entry, log, base, reading) ==
  /\ alg \in Buckets => BucketKnows(alg, entry, log, base, reading)
  /\ alg \in Aligned => WindowKnows(entry, log, base)
  /\ alg = "sliding_window" => PreviousKnows(entry, log, base)
  /\ alg = "sliding_log" => LogKnows(entry, log, base, reading)

\* A request may be decided on as if it were the first.  Of a bucket: there is a
\* token, and all that is owed is paid, at `base` or, with one to spare, by `time`.
\* Of a sliding window: the window before is empty, or a slow call is the last one
\* of its window, and did not come at its beginning.
Settled(alg, log, base, time) ==
  /\ alg \in Buckets =>
       /\ Owed(log, base * EffectiveRefillRate + MaxTokens - Unit)
       /\ \/ Owed(log, base * EffectiveRefillRate)
          \/ Owed(log, time * EffectiveRefillRate - Unit)
  /\ alg \in Aligned => WindowKnows(None, log, base)
  /\ alg = "sliding_window" =>
       \/ PreviousKnows(None, log, base)
       \/ WindowStart(base) < base /\ base + WindowEnds(base) <= time
  /\ alg = "sliding_log" => LogKnows(None, log, base, base)

\* An entry that expires at the true time `expiry` is kept as long as it matters.
Outlives(alg, log, expiry) ==
  IF alg \in Buckets
    THEN Owed(log, MaxTokens + (expiry - BucketTtl) * EffectiveRefillRate)
    ELSE \A i \in 1..Len(log) : log[i] + WindowTtl <= expiry

Base(w)    == IF Busy(w) THEN started[w] ELSE clock + behind
Reading(w) == IF Busy(w) THEN now[w] ELSE clock

Free(w, k) == Settled(algorithm, admitted[k], Base(w), clock + behind)

KeyInv(w, k) ==
  /\ Ordered(admitted[k], Base(w))
  /\ IF data[k] = None
       THEN Free(w, k)
       ELSE /\ Knows(algorithm, data[k].entry, admitted[k], Base(w), Reading(w))
            /\ Outlives(algorithm, admitted[k], data[k].expires_at + behind)

\* w has read the clock, and may take the entry for expired.
Stale(w, k) ==
  /\ data[k] /= None
  /\ data[k].expires_at <= call[w].now \/ data[k].expires_at <= call[w].gcNow

\* The calls that algorithms make, and when they began.
CallsMade(w) ==
  /\ Busy(w) <=> call[w].op /= None
  /\ call[w].op \in {"execute_atomic", "increment", "get", "delete", None}
  /\ call[w].op = "execute_atomic" => algorithm /= "fixed_window"
  /\ call[w].op = "increment" => algorithm = "fixed_window"
  /\ call[w].op \in {"execute_atomic", "increment"} => call[w].ttl = Ttl
  /\ Busy(w) => /\ started[w] <= clock + behind
                /\ clock + behind <= started[w] + MaxLatency
                /\ now[w] <= started[w] /\ started[w] <= now[w] + behind
  /\ algorithm \notin Resilient => behind = 0

\* What w holds is still true of the map.
CallInv(w) ==
  /\ call[w].op \in {"execute_atomic", "increment"}
       /\ call[w].phase \in {"now", "load", "commit"} =>
         started[w] + Ttl <= call[w].expires + behind
  /\ Busy(w) => \A k \in Keys : Stale(w, k) => Free(w, k)
  /\ call[w].phase = "remove" => Free(w, call[w].key)
  /\ At(w, "execute_atomic", "commit") =>
       IF call[w].current = None
         THEN Free(w, call[w].key)
         ELSE /\ data[call[w].key] /= None
              /\ call[w].current = data[call[w].key].entry

RatesInv ==
  /\ TypeOK
  /\ \A w \in Workers : CallsMade(w) /\ CallInv(w) /\ \A k \in Keys : KeyInv(w, k)

(***************************************************************************)
(* What was told of a key stays true, for one worker                       *)
(***************************************************************************)
\* What callers are told.
Reply == [allowed : BOOLEAN, more : BOOLEAN, come_back : Nat \cup {None}]

\* The entries of the aligned windows begin with a window that has begun.
Begun(w, k) ==
  algorithm \in Aligned /\ data[k] /= None =>
    LET start == data[k].entry.window_start
    IN  start = WindowStart(start) /\ start <= Base(w)

\* What is stored lets the next request through if more were promised.
MoreToCome(w, k) ==
  behind = 0 /\ told[k] /= None /\ data[k] /= None =>
    (told[k].more => Peek(data[k].entry, Base(w)).allowed)

\* Whoever is to come back comes to a window that nobody was counted in.
NewWindow(k) ==
  algorithm = "fixed_window" /\ told[k] /= None =>
    (told[k].come_back /= None =>
       /\ told[k].come_back = WindowStart(told[k].come_back)
       /\ data[k] /= None => data[k].entry.window_start < told[k].come_back)

RepliesInv ==
  /\ told \in [Keys -> Reply \cup {None}]
  /\ \A w \in Workers : \A k \in Keys : Begun(w, k) /\ MoreToCome(w, k) /\ NewWindow(k)

LimiterInv == RatesInv /\ RepliesInv
=============================================================================
