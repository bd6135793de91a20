# skp-ratelimit in TLA+

TLA+ models of the rate limiter in `src/`, the TLC runs that check them on small
instances, and proofs that TLAPS checks. `PROJECT.json` lists the runs, the definitions'
source lines (`map`), the hazards the properties are for, and the findings.

## The system

A caller (middleware, `RateLimitManager`, or the application) asks an *algorithm*
whether a request may pass. The algorithm turns a *quota* and the *entry* a
*storage* keeps for the key into a *decision* and a new entry. The algorithms hold
no state: everything shared is in the storage.

| Component | Source | State | Operations | Hard because |
|---|---|---|---|---|
| Quota | `src/quota.rs` | none | constructors, builder; period, burst, TAT offset, refill rate | truncation to milliseconds, a burst of 0 |
| StorageEntry | `src/storage/entry.rs` | one record for all algorithms | constructors | fields are shared by algorithms |
| MemoryStorage | `src/storage/memory_gc.rs` | sharded map with expiry, request counter, GC lock | get, set, delete, increment, execute_atomic, compare_and_swap, run_gc, clear; the background task; drop | several locks per operation; collection inside requests and beside them; shutdown |
| RedisStorage | `src/storage/redis_cluster.rs` | the server's keys, a connection pool | the same six | commands fail, answers get lost, futures are dropped, several clients |
| GCRA | `src/algorithm/gcra.rs` | a TAT per key | check_and_record, check, reset | two clocks, boundaries, forgetting |
| Token bucket, leaky bucket | `src/algorithm/{token,leaky}_bucket.rs` | fractional tokens or level, last update | the same | refill across expiry, rounding |
| Sliding log, sliding window, fixed window | `src/algorithm/...` | timestamps; counts of one or two windows | the same | window boundaries |
| ConcurrentLimiter | `src/algorithm/concurrent.rs` | a semaphore and a counter per key | try_acquire, acquire, acquire_timeout, drop | timeouts racing with releases |
| RateLimitManager | `src/manager.rs` | routes, patterns | check_and_record, check, reset | which quota, which key |
| Key extractors | `src/key/` | none | extract | requests without a key |
| Axum and Actix middleware | `src/middleware/` | none | call | fails open; clients disconnect; seconds are rounded |
| Policies, headers, errors | `src/policy.rs`, `src/headers.rs`, ... | none | pure | arithmetic at the edges |

What makes each of them correct: GCRA spaces admitted requests by a period, less the
burst; the buckets admit one burst and the rate; the windows admit `max_requests`
each; what a reply promises (`remaining`, `retry_after`) is kept; storage loses only
what has expired, a counter never counts what was not sent, locks and connections come
back, and what a storage starts ends with it; permits are neither lost nor made up, and
nobody waits beside a free one or overtakes who waits; a client gets the quota of its
route, no more and no less, and every HTTP request is answered.

## Modules

    StorageEntry ── Quota ─┬─ Gcra ──────────┬─ GcraMemory ── GcraAdmission ─> RateContract
          │                ├─ TokenBucket    │
          │                │   └ LeakyBucket │
          │                ├─ SlidingLog     │
          │                └─ Windows ───────┼─ Limiter
          ├─ MemoryStorage ──────────────────┴─ Manager (with Keys) ── MCManager
          │       └─ MemoryOps ── MemoryLifecycle (MCMemoryOps)        (with QuotaBuilder,
          │                                                             ManagerBuilder)
          └─ RedisStorage ─┬─ RedisOps (MCRedisOps)
                           └─ GcraRedis (with Gcra) ── Middleware ── MCMiddleware (with Policies)
    ConcurrentLimiter ─> PermitPool

* **StorageEntry, Quota**: the entry, its constructors, and the durations derived from a
  quota, rounded to nanoseconds and truncated to milliseconds like the code does.
* **Gcra, TokenBucket, LeakyBucket, SlidingLog, Windows**: the pure part of each
  algorithm, from an entry and a time to a new entry and a reply. Where the code has
  an `f64`, the unit is chosen so that the fraction is a natural number (a token is
  `WindowMs` units, a weighted count is multiplied by `WindowMs`); casts truncate.
* **MemoryStorage**: one action per access to shared memory. A worker is a thread in one
  call (`call[w]` is its program counter and locals); `clock` moves between any two
  steps. A keyed call goes through `maybe_run_gc` (`CountRequest`, `TryGcLock`,
  `StartSweep`, `SweepKey` once per key, `EndSweep`), computes `expires_at`, reads
  `now`, and then does what its operation does; `execute_atomic` and
  `compare_and_swap` are a `Load` and a separate write, as the shard's lock is
  released between them.
* **MemoryOps** drives it with arbitrary calls (`Clients` says which operations each
  worker may call). **MemoryLifecycle** puts them between `with_gc` and `drop`: a
  behaviour starts with one of `Deployments`, the kind of `GcInterval` and its callers.
  With a duration the background task runs beside the workers (`Wait`, `WakeUp`,
  `Sweep`) on the map it was given, `clone`, and requests collect nothing (`PassGc`).
  `Drop` needs that no call borrows the storage; what it notifies is a waiting task
  only. `select!` drops the losing future, and with it a notification. `GcInterval::
  Manual` is the absence of both, and `run_gc` is an operation like any other.
* **GcraMemory** drives it with GCRA's calls (MCGcraMemory with those of two quotas),
  **GcraAdmission** adds what callers see (replies, the log of admitted
  requests, when a denied client may return), **Limiter** does both for the other five
  algorithms: a behaviour starts with one of `Algorithms` and keeps it, as the code's type
  parameter does. There the clock may also be set back between any two readings
  (`StepBack`); `behind` is the difference, and `admitted` is in true time.
* **RateContract** is the abstract promise: a log of admission times per key, no storage.
  `GcraAdmission` refines it (`RefinesContract`); the mapping is the identity on
  `clock` and `admitted`.
* **QuotaBuilder** and **ManagerBuilder** are the builders, as operators from one
  configuration to the next; MCManager makes its managers with them.
* **RedisStorage**: one action per command; every command can fail before it takes effect
  (`Fail`) or after (`SetUnanswered`, `DeleteUnanswered`); a dropped future looks the
  same to the server. Connections come from a pool. **RedisOps** drives it with
  arbitrary calls, **GcraRedis** has GCRA's.
* **Keys** has the extractors: a key is a sequence of parts, a request without one is
  `None`. **Manager** is the manager over MemoryStorage, with GCRA under the quota of
  each route: `GetConfig` chooses (exact route, first pattern that matches, default),
  `StoredKey` names the entry, and the history `admitted` is kept per client and path,
  not per key, so that what shares a key can be told apart. `Managers` are what a builder
  may have built; a behaviour keeps one. `Routing` is what each call works out anew.
* **Middleware** is both HTTP front ends over GcraRedis: a request arrives (`Arrive`),
  waits for the limiter (`stage` "limit"), and is passed on, answered with 429, or
  passed on because the storage failed (`Pass`, `Deny`, `FailOpen`); at either await the
  client may disconnect, which drops the future (`Drop`). The history `comeBack` holds
  the time at which the wait a 429 told its client is over.
  What passes because the storage failed is beyond any quota, and not in `admitted`.
* **Policies** has an operator per method of each policy. Nothing in the crate calls a
  policy, so that MCMiddleware only checks what they return, as assumptions.
* **ConcurrentLimiter**: one key, the tokio semaphore as an external FIFO, the counter
  beside it, and every point where a task can be overtaken.
* **PermitPool** is what ConcurrentLimiter promises: `Limit` holders and a line. The
  mapping: the holders are those whose permit it is, whether they have seen it
  (`assigned`) or not yet given it back (`releasing`); the line is the semaphore's queue.
  Take, Wait and Release are Enter, Join and Leave; Abandon is GiveUp, or a Leave when
  the release has won the race; Wake, Expire, Count and DropPermit stutter.

* **Gcra_proofs, MemoryStorage_proofs, GcraAdmission_proofs, MemoryLifecycle_proofs,
  Limiter_proofs, Manager_proofs, Redis_proofs, ConcurrentLimiter_proofs**: the
  theorems about the module of that name; GcraAdmission_proofs has those about GcraMemory
  too, Redis_proofs those about RedisOps, GcraRedis and Middleware. The first two hold the
  lemmas about GCRA's arithmetic and about one call on the storage that the others share.

Definitions marked *Mutant* are wrong on purpose and used by nothing: each replaces
the definition after it to show that a property notices.

## Runs

One passing run per question (the `about` field of each says which):

| Run | Instance | Bounds and why they suffice |
|---|---|---|
| MCGcraAdmission | 1 worker, 1 request per 2 ms, burst 2, GC every 2 requests | a call may last 4 ms, the longest the theorem allows (`MaxTatOffset + Period`); 8 ms cover a burst, denials, expiry and a second burst |
| MCGcraMemory | 2 workers; 1 request per ms, burst 2, or 2 requests per ms | two workers exhibit each race of pairs; one key, as keys meet only in sweeps; the fast quota's period is 0, so that requests panic; liveness under `FairSpec`; a clock of 3 covers a burst, expiry and a second entry |
| MCMemoryOps | 1 worker calling everything, or 2 racing, with collection by requests; or 1 that sets and reads beside the background task, which sleeps 1 ms | TTL 1 ms and a clock of 3, so that entries expire, are collected, and are renewed; two windows, counts up to 2; the storage may be dropped between any two calls |
| MCLimiter | five algorithms, 1 worker, 2 requests per 3 ms, a refill rate of 4 per 3 ms, clock to 6 ms and set back by 1 | two window boundaries and a bucket drained and refilled, with expiry and GC between; at most 4 requests through, a burst and a second one |
| MCConcurrentLimiter | 4 tasks, 2 permits | two hold, two wait: a timeout, a release and a second waiter at once; no bound, the state is finite |
| MCRedisOps | 1 task calling everything; or 2 racing to increment, one of which deletes; or 3 sharing the 2 connections to read, to write and to do both; seconds of 2 ms, TTLs of 1 and 2 ms, which are 0 and 1 second | all operations, refused and not; the pool exhausted; increments that cross each other, a delete and an expiry, in two windows, with counts up to 2 |
| MCMiddleware | 1 task, Axum or Actix, a client with and without a proxy, seconds of 3 ms, 1 request per 4 ms, calls of 2 ms, clock to 11 ms | the TTL of 8 ms is cut to 6, which is exactly what RedisConforms asks; entries expire while a request waits; Retry-After of zero and one seconds |
| MCManager | 1 worker, three managers: an exact route of a request in 2 ms that a laxer pattern matches too; two routes that share a suffix, without a default, of a request in 2 ms and of one per ms; and the same with a burst of two and with two requests per ms, a period of 0. Three requests of two clients | calls take no time (`MaxLatency` 0): stalls are the subject of MCGcraAdmission; a clock of 3 lets entries expire and quotas return |

The bounds are `MaxClock` (the clock stops), `MaxLatency` (a call's longest duration),
`MaxStep` (how far the clock is set back in all), `MaxCount` (counters are not driven
on), `MaxAdmitted` (no requests on a key once so many were let through). At `MaxClock`
everything else goes on, a sleep takes no time any more, and a storage that is dropped,
its task gone, stutters (`Gone`): no run deadlocks, and deadlock is checked in all.

The pure modules are checked when TLC evaluates the assumptions of the MC modules:
keys, patterns, quotas and policies against the cases of the repository's tests
(`...AsTested`), `BurstsReach` and `PenaltiesCharge` for every number of eight bits.

Scaled constants: `MinTtl` is 1000 ms in the code and 2 in the runs, `MsPerSecond` is
1000 and a few milliseconds in the runs. `GcThreshold` is 10000 by default and 2 in the
runs (0 in MCManager, where requests collect nothing); the counter is kept modulo the
threshold.

Four *violation* runs show where the code departs from its documentation; `findings`
quotes the lines:

* MCGcraRace: `execute_atomic` of the memory storage is a read and a separate write, so
  that two workers let through more than the quota. Hence the properties about admitted
  requests are checked, and proved, for one worker; LockoutBounded, ExpiryCoversDebt,
  GcExclusive, OnlyExpiredVanish (without `get`) and NeverOvercounted hold for several.
  The same race is in `increment` of the fixed window's storage
  (`memory_gc.rs:314`, `:282`) and in every read and write on Redis
  (`redis_cluster.rs:235`): this run is the only one to show it.
* MCRedisZeroTtl: Redis truncates TTLs to seconds; below one second every request fails.
* MCGcTask: `start_gc_task` clones the map, and a clone of a DashMap is a copy, made
  before there is an entry: the background task collects an empty map, and what it
  should remove stays (`memory_gc.rs:164`).
* MCRetryAfter: `Retry-After` is rounded down to seconds (`layer.rs:230`, `actix.rs:160`,
  `decision.rs:130`), so that a client that waits as long as it says is denied again,
  though `headers.rs:16` and DOCS.md:149 speak of the seconds until it may retry.

Other departures seen in the models, which change a bound or a property of the above and
are not among the runs:

* `compare_and_swap` of both storages may replace what its caller did not expect
  (`memory_gc.rs:350`), against `mod.rs:106`; nothing in the crate calls it, and no property
  is stated of it. `get` of the memory storage may remove an entry stored after the
  expired one it saw (`memory_gc.rs:245`). MCMemoryOps leaves both calls to a caller that
  is alone, MCRedisOps `compare_and_swap` and `set`.
* An `increment` that comes late sets the fixed window back (`memory_gc.rs:282`); on Redis
  two that cross each other lose one. NeverOvercounted, of any number of tasks, says that
  none is made up; IncrementsCounted, that one task loses none.
* Redis forgets debt that is not past where the TTL, cut to seconds, does not cover a burst,
  a period, and the shorter of a period and the longest call (`redis_cluster.rs:232`): most
  quotas whose period is well below a second, such as a TTL of 1.5 s that is cut to one.
  The pool's size is not configured (`redis_cluster.rs:89`).
* Above a thousand requests a second the period truncates to 0 ms (`gcra.rs:70`): no
  request moves the TAT, and GCRA limits nothing. A request whose `now` lies behind the
  TAT another one stored divides by zero and panics (`Fast` in MCGcraMemory is such a quota).
* `retry_after` of the sliding log ends while the oldest request still counts
  (`sliding_log.rs:31`, `:79`). It is short in the sliding window (`sliding_window.rs:83`) and rounded down in
  the token bucket (`token_bucket.rs:37`), where an allowed request may carry one, too
  (line 56).
* `remaining` of GCRA is one too low when the debt is a whole number of periods
  (`gcra.rs:103`; never too high, which is RemainingIsSafe), and the example at
  `gcra.rs:21` is denied, not allowed.
* A collection keeps expired entries that are younger than `max_age`
  (`memory_gc.rs:229`).
* A storage dropped in the moment its task sweeps, or has yet to wait again, leaves the
  task running for ever: `notify_waiters` keeps nothing for later (`memory_gc.rs:218`).
  Hence ShutdownHeard is about a drop while the task sleeps.
* The Axum layer never asks its key extractor (`layer.rs:175`): with `GlobalKey`, "the same
  limit to all requests" (`key/mod.rs:51`), each path has a limit of its own.
* A burst of 0 wraps (`quota.rs:191`): with GCRA it limits nothing (BurstsReach). A penalty
  multiplier of 0 wraps, too, and gives a token for each error (PenaltiesCharge). Debug
  builds panic instead.
* When the clock is set back over a boundary, the windows begin an earlier window anew
  (`memory_gc.rs:282`, `sliding_window.rs:58`), and admit up to `max_requests` again.
* The manager counts a request without a key under `unknown` (`manager.rs:102`), where
  `key/mod.rs:34` speaks of allowing it. `reset` takes the stored key, base key and
  suffix or path; the base key alone names nothing. `**` does not match zero segments.
  Routes that share a suffix but not a quota share a TAT: a denied request on the fast
  one stores the entry with its own TTL, and if that is shorter than the slow one's
  burst and period, the slow one forgets debt that is not past (`Shortened`; RouteQuotaKept
  leaves such routes out, and the runs have none). If the fast one has a period of 0, its
  requests panic instead while the slow one's debt lasts (`Manager!Panic`), and
  RouteQuotaKept holds of the slow one.
* A slow call of the sliding window may find the entry expired (`sliding_window.rs:54`)
  though it came while the window before still weighed, and is let through without that
  weight. With one worker this does not break BoundaryKept: it is the last of its window.
* Actix calls the inner service before the limiter has decided (`actix.rs:139`); its
  future is polled only afterwards, so that only what a service does before it returns
  its future happens for denied requests. The 429 of Axum has no `Retry-After` header
  where there is no time, only the body's 60.

### Fairness

* `GcraMemory!FairSpec`, and the same in MCGcraMemory: weak fairness of each worker's steps inside a call. Threads in a
  call are scheduled by the OS, and no step of theirs waits: `try_lock` returns, a
  shard's lock is held for one map access. Nothing makes callers call.
* `RedisOps!OpsSpec`: weak fairness of a task that has its connection (a command ends, with
  an answer or an error), strong fairness of taking one, as deadpool hands them out in
  order of arrival. Nothing makes callers call, commands fail, or a task that waits for a
  connection give up.
* `Middleware!FrontSpec`: the same for a task with a request, whose inner service ends.
  Nothing makes requests arrive, clients leave, or commands fail.
* `MemoryLifecycle!LifeSpec`: weak fairness of time and of the background task, which the
  tokio runtime polls when it is woken; a task that is notified is polled before its
  sleep ends as well, which a runtime that is not a whole interval late does. (`select!`
  would take either branch, and lose the notification.) Nothing makes callers call or drop
  the storage.
* `ConcurrentLimiter!Spec`: weak fairness of woken tasks, timeouts, `drop`, and of callers
  finishing their request, without which a waiter may rightly wait for ever.
  `PermitPool!Spec` asks for less: that holders leave.

## Proofs

Everything here holds for all values of the constants: any keys, any quota with a
positive maximum, window and burst, any collection threshold and age, any length of the
run. "One worker" is needed wherever a property is about what is let through, as two of
them race (MCGcraRace): these theorems say nothing of concurrent requests on a key. `MaxLatency` bounds how long a call may take; the code has no such
bound, so each theorem says how long is short enough.

| Theorem | Says | Assumes |
|---|---|---|
| TypeCorrect | TypeOK of GcraMemory | – |
| LockoutIsBounded | a stored TAT is at most a burst and a period ahead of the clock | – |
| CollectionIsExclusive | gc_lock is held exactly by the worker collecting for a request | – |
| ExpiryIsSafe, MemoryIsConsistent | an entry expires no sooner than its TAT; the invariant behind it, MemoryInv | `MaxLatency <= Period` |
| AdmissionConforms, AdmissionInvariant | admitted requests keep the quota's spacing; the invariant behind it | one worker, `MaxLatency <= MaxTatOffset + Period` |
| AdmissionRefines | GcraAdmission implements RateContract | the same |
| RetryIsHonoured | who comes back at retry_after is let through, if nobody else was | the same |
| RemainingIsNoPromiseTooMuch | what a decision says remains may be let through at once | `Period /= 0`; any number of workers |
| StorageIsConsistent | LifeInv: map, calls, lock, background task and drop fit together | – |
| NothingLiveVanishes | only expired entries vanish from keys nobody deletes or clears | those who `get` are alone |
| LimiterTypes | TypeOK of Limiter, five algorithms | – ; any number of workers |
| LimiterInvariant, RepliesInvariant | RatesInv: what is stored answers for what was let through; LimiterInv: and for what callers were told | one worker, `Timely` |
| BucketsKeepTheRate | RateKept: one burst and what the rate gives, in any span | the same |
| SlidingLogKeepsItsWindow | LogKept: `max_requests` in any interval of a window's length | the same |
| WindowsKeepTheirCount | WindowKept: `max_requests` in each aligned window | the same |
| SlidingWindowKeepsBoundary | BoundaryKept: across a boundary the requests of the window before weigh on those of the next | the same |
| RemainingIsHonoured | RemainingHonoured: while requests remain by the last reply, the next one is let through | the same |
| FixedRetryIsHonoured | FixedRetryHonoured: who comes back to the fixed window as late as told is let through | the same |
| ManagerTypes | types of Manager, and that each call is on the key, with the TTL, of its route | – ; any number of workers |
| ManagerInvariant, RoutesKeepTheirQuota | ManagerInv, and with it RouteQuotaKept: a client gets no more through an exact route than that route's quota | one worker, `MaxLatency <= MaxTatOffset + Period` of every quota that has a period |
| DenialsAreOwn | OwnQuotaOnly: who is denied on a route that shares its key with no other has used up that route's quota | the same |
| LimiterIsConsistent, PermitsAreConserved, CountIsWithinLimit, PermitsAreNotIdle | the invariants of ConcurrentLimiter: its queue and tasks agree, no permit is lost or made up, the counter stays within the limit, none is free beside one who waits | – |
| LimiterKeepsPool | every step of ConcurrentLimiter is one of PermitPool or a stutter | – |
| RedisIsConsistent | types, connections and calls of RedisOps | – ; any number of tasks |
| RedisInvariant, CountersNeverOvercount | OpsInv, and with it NeverOvercounted: a counter shows no more than its window was sent | – ; any number of tasks |
| CountersCount | IncrementsCounted: a counter shows at least what was acknowledged | a task that calls alone: `acked` is 0 after an increment by any other |
| FrontIsConsistent | types, connections and tasks of the middleware on Redis | – ; any number of tasks |
| DebtIsOutlived | a key on Redis does not expire before its TAT | `MaxTatOffset + Period <= TtlMs(Ttl)`: what is left of the TTL in whole seconds covers the debt |
| FrontInvariant, RedisConforms | the inductive invariant; what GCRA admits on Redis keeps the quota's spacing | one task, `MaxLatency <= MaxTatOffset + Period`, and a cut TTL that still covers the debt and Slack: `MaxTatOffset + Period + Slack <= TtlMs(Ttl)` |

`Slack` is the shorter of `Period` and `MaxLatency`. The TTL GCRA asks for is
`MaxTatOffset + 2 * Period`, so that the assumption of RedisConforms holds where the cut,
which is less than a second, takes no more than what `Period` is longer than Slack: of a
TTL of whole seconds, and of any other if a period is a second longer than the longest
call. It fails for most quotas of several requests per second, of which nothing is proved.

`Timely` is: a call is shorter than a window, and a bucket's entry is kept, less the
longest call, until a token has come, and either until the bucket is full or, without
that allowance, a token longer. As the TTL is twice the time to fill the bucket,
`ShortCallsAreTimely` proves that it is enough for calls to be a millisecond shorter than
a window and than that time. MCLimiter's constants satisfy `Timely` by its first form. The theorems of Manager are for
every set of managers, requests, clients and extractors that ManagerAssumption allows: it
asks that quotas are what the constructors return, and nothing of routes and patterns.

### The arguments

*GCRA.* LockoutBounded is not inductive: a worker carries a copy of an entry in `current`
and may write it back much later. `LockoutInv` bounds the copies too, and the clock only
helps. ExpiryCoversDebt needs in addition that a worker's planned expiry is a TTL past its
start (`ExpiryPlanned`); the TTL's second period pays for the time between GCRA's reading
of the clock and the storage's. Conforms needs to know what the stored entry remembers of
the log: `Remembered` says the TAT covers the debt of all admitted requests that is not
past, `Settled` says that where no entry is left (expired, collected, removed) all debt is
past by the time a pending request arrived, and `CallInv` carries both through the phases
of a call. `AdmissionInv` joins them. The lemmas `AppendDebt`, `DebtSpaces` and
`AppendConforms` are the arithmetic: a log whose debt is within a TAT stays spaced when a
request within the tolerance is appended. On Redis (`FrontInv`) the same invariant also
speaks of answers that were lost: a TAT the server has and no caller knows of only makes
the debt larger. There `Remembered` also keeps an entry longer than its TAT, by Slack: a
call that finds it expired may have arrived `MaxLatency` before; it does no harm if all
debt was past by its arrival, or a period before it reads, as it charges one period anew.

*The other algorithms* (RatesInv). For the buckets a log of true arrival times is turned
into a debt: `Owed(log, amount)` says that the tokens taken since any request, less what the
rate has given back, fit into `amount`. `BucketKnows` keeps that equal to what the entry says is
missing from a full bucket at `Base`, the true time before which no request will be
decided on. A request with a token left (`Admissible`) then keeps RateKept to every
earlier one. Where there is no entry, `Settled` says that a full bucket is right; one that is
still there `Outlives` what it owes. For the windows an entry's count is at least the
number of requests of the window `Base` is in; for the log the last so many of its times
are those of the requests that are not yet a window old, each as far from the reading
of the clock as the request from true time. A clock that is set back changes `Reading` and never
`Base`, which is why the buckets and the log survive it. That a filtered log still ends
in the times that matter (`FilterFacts`) is an induction over a recursive function, done
by its least counterexample (`LeastElement`).

*The boundary* (BoundaryKept). `PreviousKnows` is about the window before the one a request
comes in: the entry's previous count, or its current one if it has not been rolled over,
is at least the number of requests of that window. What is let through at a time keeps
BoundaryKept then (`LeavesRoom`): its weighed sum is below the maximum before it is
counted. The hard case is an entry that is gone. If the call did not come too late, the
previous window is empty or weighs nothing. If it did, the time it takes has brought the
clock to the end of its window, so that with one worker it is the last of that window;
and as it does not come at the window's very beginning, the whole window before weighs
less than `max_requests` (`Settled`).

*Replies* (RepliesInv). What a reply says is about a moment, and who asks next comes later.
`MoreToCome`: the entry as it is stored still lets a request through at `Base`, because
the room of each algorithm only grows with time: tokens come, levels sink, a log only
loses times, the weight of a window falls. Where no entry is left there is room in any
case. For the fixed window, whoever is told to come back is told the end of the window;
`NewWindow` says that whatever is stored is of an earlier one until somebody else is
counted.

*Manager*. The invariant of GCRA again, but for each request instead of each key: a key's
entry is the work of all who share it, of different quotas. The TAT of one route, read
under another's quota, is still a time up to which all have borrowed, and what it
remembers (`Remembered`) of one request's log survives the decisions of others as no
decision lowers it. It is the TTL that the others do not keep for it, hence `Shortened`.
`AllSettled` lets one call that found no entry settle for all of them. For OwnQuotaOnly the
other direction is needed: `OwnDebt` says that the TAT of an unshared key is no further
than some request let through there took it; a denial then exhibits the request with
which this one would break the spacing.

*MemoryLifecycle.* NothingLiveVanishes: whatever removes a key, at the moment it does, has
seen it expired with a `now` that is past, and nobody has renewed it since, because the
only removal that is not one access is that of `get`. The lock is part of the invariant
(`LockKept`), as a sweep ends by giving it back.

*RedisOps.* A read and the write after it are two commands, between which other tasks
write and delete, the entry may expire, and the connection may be lost. That no count is
made up must hold of the copies, too: `AllSent` says that what the server holds, expired or
not, and what each task has read of it show no more than was sent. So `sent` is never
reset: who read before a delete may write back after it. Each increment adds one to a
copy and to `sent`, which keeps the bound whatever the order; lost answers only make
`sent` grow. The lower bound needs a task that is alone: `ReadStands` says that what it read is
what the server holds, or that has expired since, and `CountsKept` bounds what is held, live
or not, by `acked`.

*ConcurrentLimiter.* Each permit is at one place: free, with a holder, with a woken task
that has not looked, or with one on its way out. The queue holds exactly the waiting
tasks, once each, and is empty while a permit is free. The mapping to PermitPool needs
just that to match `Release` to a place taken by the first of the line.

### What stays with TLC

* Liveness (CallsEnd, WaitersServed, ShutdownHeard, RequestsEnd, the fairness part of
  ImplementsPool): out of the prover's reach.
* The pure checks in the assumptions of the MC modules, and the violations, which are
  counterexamples.

## Not modelled

* Floating-point rounding: fractions are exact. `u64` overflow but for a burst of 0 and a
  multiplier of 0; burst 0 in the limiters themselves.
* A clock that is set back for GCRA (its theorems assume it goes forward) and on Redis.
* Headers other than Retry-After, `FnKey` (any function) and custom separators; errors,
  extensions and re-exports, which have no behaviour.
* Text: a client's key that, with a colon in it, reads like another client's key and path.
* Redis: the connection test in `new`, entries that fail to deserialize, eviction.

## Plan

1. *Done*: storage in memory from its constructor to its drop, GCRA on it, the abstract
   contract and its proofs; the other algorithms, with a clock that is set back; the
   concurrent limiter and the pool it implements; Redis; the manager, its builder and
   keys, the middleware; quotas and policies.
2. *Done*: the proofs above.
   Every invariant and action property that a passing run checks is a theorem; MCGcraMemory
   checks those of GcraMemory by instances of it, one for each of its two quotas.
3. Abstract specifications for the buckets and the windows (rate contracts on the log,
   like RateContract) which `Limiter` implements, per algorithm; one for the manager, a
   contract per route.
