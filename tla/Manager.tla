------------------------------- MODULE Manager ------------------------------
(***************************************************************************)
(* RateLimitManager (src/manager.rs) with GCRA on MemoryStorage: which     *)
(* quota a request comes under, which key it is counted on, and what the   *)
(* requests of different routes and clients do to each other.              *)
(*                                                                         *)
(* Requests and their paths are those of Keys.  A stored key, "client:tail"*)
(* in the code, is the pair of the client's key and a path or suffix; a    *)
(* value that reads like a client and a tail is left out.                  *)
(***************************************************************************)
EXTENDS MemoryStorage, Integers, FiniteSetsExt

CONSTANTS
  Managers,     \* the managers that may be in use, see the assumption
  Requests,     \* what is asked
  First(_),     \* see Keys
  Extract(_),   \* the key extractor
  MaxLatency    \* bound: longest time from a call's start to its end

VARIABLES
  manager,      \* the one in use, as its builder left it
  now,          \* per worker: when its call started
  request,      \* per worker: the request of its call, None in a reset
  admitted      \* history, per client and path: arrival times of the requests
                \* let through, where the quota has a period to keep

vars == <<storageVars, manager, now, request, admitted>>

INSTANCE Keys

\* GCRA under any quota.
Rate(MaxRequests, WindowMs, Burst) == INSTANCE Gcra

PeriodOf(quota) == Rate(quota.max_requests, quota.window, quota.burst)!Period
OffsetOf(quota) == Rate(quota.max_requests, quota.window, quota.burst)!MaxTatOffset
TtlOf(quota) == Rate(quota.max_requests, quota.window, quota.burst)!Ttl
DebtBy(quota, log, t) ==
  Rate(quota.max_requests, quota.window, quota.burst)!DebtBy(log, t)
DecisionOf(quota, tat, t) ==
  Rate(quota.max_requests, quota.window, quota.burst)!CalculateDecision(tat, t)
Panics(quota, decision, t) ==
  Rate(quota.max_requests, quota.window, quota.burst)!DividesByZero(decision, t)

BaseKey(r) == IF Extract(r) = None THEN <<"unknown">> ELSE Extract(r)

\* Whose request it is, and for which path.
Stream(r) == <<BaseKey(r), r.path>>
Streams == {Stream(r) : r \in Requests}

\* try_new refuses a zero quota and a zero window; see Quota for the burst.
IsQuota(quota) ==
  /\ quota /= None
  /\ quota.max_requests \in Nat \ {0}
  /\ quota.window \in Nat \ {0}
  /\ quota.burst \in (Nat \ {0}) \cup {None}

Configs(m) == {m.routes[path] : path \in DOMAIN m.routes}
                \cup {m.patterns[i].config : i \in DOMAIN m.patterns}

ASSUME ManagerAssumption ==
  /\ MaxLatency \in Nat
  /\ None \notin Requests
  /\ Streams \subseteq Keys
  /\ \A m \in Managers :
       /\ m.default_quota /= None => IsQuota(m.default_quota)
       /\ DOMAIN m.patterns \subseteq Nat
       /\ \A config \in Configs(m) :
            /\ config /= None /\ IsQuota(config.quota)
            /\ config.key_suffix /= None =>
                 \A r \in Requests : <<BaseKey(r), config.key_suffix>> \in Keys

\* pattern_matches: `*` stands for one segment, `**` for one or more, whatever
\* comes after it.
PatternMatches(pattern, path) ==
  LET p == Parts(pattern)
      a == Parts(path)
      AgreeUpTo(n) == \A i \in 1..n : p[i] = "*" \/ p[i] = a[i]
  IN  \/ \E i \in DOMAIN p \cap DOMAIN a : p[i] = "**" /\ AgreeUpTo(i - 1)
      \/ Len(p) = Len(a) /\ AgreeUpTo(Len(p))

\* The patterns that match, by their place.
Hits(m, path) == {i \in DOMAIN m.patterns : PatternMatches(m.patterns[i].pattern, path)}

\* Mutant: a pattern goes before an exact route.
PatternsFirst(m, path) ==
  IF Hits(m, path) /= {} THEN m.patterns[Min(Hits(m, path))].config
  ELSE IF path \in DOMAIN m.routes THEN m.routes[path]
  ELSE None

GetConfig(m, path) ==
  IF path \in DOMAIN m.routes THEN m.routes[path]
  ELSE IF Hits(m, path) /= {} THEN m.patterns[Min(Hits(m, path))].config
  ELSE None

\* None lets the request through at once, and changes nothing.
Quota(m, path) ==
  IF GetConfig(m, path) = None THEN m.default_quota ELSE GetConfig(m, path).quota

Suffix(m, path) ==
  IF GetConfig(m, path) = None THEN None ELSE GetConfig(m, path).key_suffix

\* Mutant: the path is not part of the key.
KeyWithoutPath(m, r) ==
  <<BaseKey(r), IF Suffix(m, r.path) = None THEN <<"*">> ELSE Suffix(m, r.path)>>

StoredKey(m, r) ==
  <<BaseKey(r), IF Suffix(m, r.path) = None THEN r.path ELSE Suffix(m, r.path)>>

\* What each call works out anew.
Routing == [m \in Managers |-> [r \in Requests |-> [quota |-> Quota(m, r.path),
                                                   key   |-> StoredKey(m, r)]]]

QuotaOf(r) == Routing[manager][r].quota
KeyOf(r)   == Routing[manager][r].key

TypeOK ==
  /\ StorageTypeOK
  /\ CallsKeyed
  /\ manager \in Managers
  /\ now \in [Workers -> Nat]
  /\ request \in [Workers -> Requests \cup {None}]
  /\ admitted \in [Streams -> Seq(Nat)]

Init ==
  /\ StorageInit
  /\ manager \in Managers
  /\ now = [w \in Workers |-> 0]
  /\ request = [w \in Workers |-> None]
  /\ admitted = [s \in Streams |-> <<>>]

Start(w, op, k, ttl, r) ==
  /\ Begin(w, op, k, ttl)
  /\ now' = [now EXCEPT ![w] = clock]
  /\ request' = [request EXCEPT ![w] = r]
  /\ UNCHANGED <<manager, admitted>>

CheckAndRecord(w, r) ==
  /\ QuotaOf(r) /= None
  /\ Start(w, "execute_atomic", KeyOf(r), TtlOf(QuotaOf(r)), r)

Check(w, r) ==
  /\ QuotaOf(r) /= None
  /\ Start(w, "get", KeyOf(r), 0, r)

\* reset takes the key as it is stored.
Reset(w, k) == Start(w, "delete", k, 0, None)

\* The call is over, its locals are gone.
End(w) ==
  /\ now' = [now EXCEPT ![w] = 0]
  /\ request' = [request EXCEPT ![w] = None]
  /\ UNCHANGED manager

\* The decision on w's request, on the entry it read.
Outcome(w) ==
  LET entry == call[w].current
  IN  DecisionOf(QuotaOf(request[w]), IF entry = None THEN None ELSE entry.tat, now[w])

Record(w) ==
  /\ At(w, "execute_atomic", "commit")
  /\ ~Panics(QuotaOf(request[w]), Outcome(w), now[w])
  /\ ExecuteCommit(w, WithTat(Outcome(w).tat))
  /\ admitted' = IF Outcome(w).allowed /\ PeriodOf(QuotaOf(request[w])) > 0
                   THEN [admitted EXCEPT ![Stream(request[w])] = Append(@, now[w])]
                   ELSE admitted
  /\ End(w)

\* A quota of more than a thousand requests a second meets a TAT ahead of the
\* clock, which only a slower route that shares the key can have left: build_info
\* panics, nothing is inserted.
Panic(w) ==
  /\ At(w, "execute_atomic", "commit")
  /\ Panics(QuotaOf(request[w]), Outcome(w), now[w])
  /\ Return(w)
  /\ End(w)
  /\ UNCHANGED <<clock, data, requests, gcLock, admitted>>

\* A peek changes nothing, whether it answers or panics.
Peek(w) ==
  /\ GetHit(w) \/ GetMiss(w) \/ GetRemove(w)
  /\ End(w)
  /\ UNCHANGED admitted

Forget(w) ==
  /\ DeleteCommit(w)
  /\ LET forgotten == {Stream(r) : r \in {q \in Requests : KeyOf(q) = call[w].key}}
     IN  admitted' = [s \in Streams |-> IF s \in forgotten THEN <<>> ELSE admitted[s]]
  /\ End(w)

Internal(w) ==
  /\ Common(w) \/ Load(w) \/ GetExpired(w)
  /\ UNCHANGED <<manager, now, request, admitted>>

\* No call lasts more than MaxLatency milliseconds.
Time ==
  /\ \A w \in Workers : Busy(w) => clock < now[w] + MaxLatency
  /\ Tick
  /\ UNCHANGED <<manager, now, request, admitted>>

Next ==
  \/ Time
  \/ \E w \in Workers :
       \/ \E r \in Requests : CheckAndRecord(w, r) \/ Check(w, r) \/ Reset(w, KeyOf(r))
       \/ Internal(w)
       \/ Record(w) \/ Panic(w) \/ Peek(w) \/ Forget(w)

Spec == Init /\ [][Next]_vars

-----------------------------------------------------------------------------
(***************************************************************************)
(* Properties                                                              *)
(***************************************************************************)
\* A log that keeps a quota's spacing, as RateContract has it.
Conforming(quota, log) ==
  \A i, j \in 1..Len(log) :
    i < j => (j - i) * PeriodOf(quota) <= log[j] + OffsetOf(quota) - log[i]

\* What a call that takes its time may cost an entry's age: see GcraAdmission.
Slack(quota) == IF MaxLatency <= PeriodOf(quota) THEN MaxLatency ELSE PeriodOf(quota)

\* An entry stored under `other` is kept until any debt under `quota` is past.
KeptLongEnough(other, quota) ==
  PeriodOf(other) = 0 \/ TtlOf(other) >= OffsetOf(quota) + PeriodOf(quota) + Slack(quota)

\* Another route may store r's key and not keep it for long enough.
Shortened(r) ==
  \E q \in Requests :
    /\ KeyOf(q) = KeyOf(r) /\ QuotaOf(q) /= None
    /\ ~KeptLongEnough(QuotaOf(q), QuotaOf(r))

\* A client gets no more through a route than the quota of that very route
\* allows, whichever patterns match it as well, whatever other routes share its
\* key, panics included, and whoever else is counted, expires or is reset.  But
\* a route that shares its key must not be much faster: when it denies, it keeps
\* the slower route's TAT for its own, shorter TTL.
RouteQuotaKept ==
  \A r \in Requests :
    r.path \in DOMAIN manager.routes =>
      Conforming(manager.routes[r.path].quota, admitted[Stream(r)]) \/ Shortened(r)

\* No suffix makes another route share the key of this one.
Unshared(path) ==
  Suffix(manager, path) = None /\ \A r \in Requests : Suffix(manager, r.path) /= path

\* A client that is denied on a route has used up that route's quota itself:
\* neither its requests on other routes nor those of other clients count, but
\* where a suffix makes routes share.
OwnQuotaOnly ==
  [][\A w \in Workers :
       At(w, "execute_atomic", "commit") /\ ~Busy(w)' /\ ~Outcome(w).allowed
         /\ Unshared(request[w].path) =>
           ~Conforming(QuotaOf(request[w]),
                       Append(admitted[Stream(request[w])], now[w]))]_vars

-----------------------------------------------------------------------------
(***************************************************************************)
(* Inductive invariant, for one worker                                     *)
(***************************************************************************)
\* No request yet to be decided arrived before this.
Base(w) == IF Busy(w) THEN now[w] ELSE clock

\* Who has a quota to keep.
Limited == {r \in Requests : QuotaOf(r) /= None}

\* The calls on their way, of any number of workers.
CallsMade ==
  \A w \in Workers :
    /\ call[w].op \in {None, "execute_atomic", "get", "delete"}
    /\ Busy(w) => call[w].op /= None
    /\ call[w].phase = "remove" => call[w].op = "get"
    /\ call[w].op \in {"execute_atomic", "get"} =>
         request[w] \in Limited /\ call[w].key = KeyOf(request[w])
    /\ call[w].op = "execute_atomic" => call[w].ttl = TtlOf(QuotaOf(request[w]))

\* w may decide for r as if for the first time.
Settled(w, r) ==
  LET quota == QuotaOf(r)
      log   == admitted[Stream(r)]
  IN  \/ DebtBy(quota, log, Base(w))
      \/ /\ DebtBy(quota, log, Base(w) + OffsetOf(quota))
         /\ DebtBy(quota, log, clock - Slack(quota))

\* The entry of r's key, whoever of those that share it wrote it last, knows of
\* all debt of r that is not past and expires when it is.
Remembered(w, r) ==
  LET quota == QuotaOf(r)
      log   == admitted[Stream(r)]
      held  == data[KeyOf(r)]
  IN  \/ DebtBy(quota, log, Base(w))
      \/ /\ DebtBy(quota, log, held.entry.tat)
         /\ DebtBy(quota, log, Base(w) + OffsetOf(quota) + PeriodOf(quota))
         /\ DebtBy(quota, log, held.expires_at - Slack(quota))

DebtKept(w, r) ==
  \/ IF data[KeyOf(r)] = None THEN Settled(w, r) ELSE Remembered(w, r)
  \/ Shortened(r)

\* So it may for all who are counted on w's key.
AllSettled(w) ==
  \A r \in Limited : KeyOf(r) = call[w].key => Settled(w, r) \/ Shortened(r)

\* Nobody else is counted on r's key.
Alone(r) == \A q \in Requests : KeyOf(q) = KeyOf(r) => Stream(q) = Stream(r)

\* The entry of a key that is not shared knows of no debt but its own.
OwnDebt(w, r) ==
  LET quota == QuotaOf(r)
      log   == admitted[Stream(r)]
      tat   == data[KeyOf(r)].entry.tat
  IN  data[KeyOf(r)] /= None /\ Alone(r) =>
        IF PeriodOf(quota) = 0
          THEN tat <= Base(w)
          ELSE \E i \in 1..Len(log) : tat <= log[i] + (Len(log) - i + 1) * PeriodOf(quota)

\* What w has read and computed so far.
CallInv(w) ==
  /\ Busy(w) => now[w] <= clock /\ clock <= now[w] + MaxLatency
  /\ call[w].now <= clock /\ call[w].gcNow <= clock
  /\ call[w].op = "execute_atomic" /\ call[w].phase \in {"now", "load", "commit"} =>
       call[w].expires >= now[w] + call[w].ttl
  /\ At(w, "execute_atomic", "commit") =>
       LET held == data[call[w].key]
       IN  IF call[w].current = None
             THEN AllSettled(w)
             ELSE held /= None /\ call[w].current = held.entry
  /\ At(w, "get", "remove") => AllSettled(w)

ManagerInv ==
  /\ TypeOK /\ CallsMade
  /\ \A k \in Keys : data[k] /= None => data[k].entry.tat \in Nat
  /\ \A w \in Workers :
       CallInv(w) /\ \A r \in Limited : DebtKept(w, r) /\ OwnDebt(w, r)
  /\ \A r \in Limited :
       /\ PeriodOf(QuotaOf(r)) = 0 => admitted[Stream(r)] = <<>>
       /\ Conforming(QuotaOf(r), admitted[Stream(r)]) \/ Shortened(r)
=============================================================================
