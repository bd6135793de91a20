------------------------------ MODULE GcraRedis -----------------------------
(***************************************************************************)
(* GCRA on RedisStorage: tasks that serve check_and_record, check and      *)
(* reset, over a server that can fail at any command.  Middleware drives   *)
(* it, failures included; SafeSpec is the storage alone, without them.     *)
(***************************************************************************)
EXTENDS Gcra, RedisStorage, Integers

CONSTANT MaxLatency   \* bound: longest time from a call's start to its end

ASSUME GcraRedisAssumption == MaxLatency \in Nat

VARIABLES
  now,            \* per task: when its current or last call started
  outcome,        \* per task: how its last call ended, None before and during
  admitted        \* history, per key: arrival times of the requests let through

vars == <<redisVars, now, outcome, admitted>>

Contract == INSTANCE RateContract

TypeOK ==
  /\ RedisTypeOK
  /\ now \in [Workers -> Nat]
  /\ outcome \in [Workers -> {"ok", "error", None}]
  /\ admitted \in [Keys -> Seq(Nat)]

Init ==
  /\ RedisInit
  /\ now = [w \in Workers |-> 0]
  /\ outcome = [w \in Workers |-> None]
  /\ admitted = [k \in Keys |-> <<>>]

Start(w, op, k, ttl) ==
  /\ Begin(w, op, k, ttl)
  /\ now' = [now EXCEPT ![w] = clock]
  /\ outcome' = [outcome EXCEPT ![w] = None]
  /\ UNCHANGED admitted

CheckAndRecord(w, k) == Start(w, "execute_atomic", k, Ttl)
Check(w, k)          == Start(w, "get", k, 0)
Reset(w, k)          == Start(w, "delete", k, 0)

End(w, result) == outcome' = [outcome EXCEPT ![w] = result] /\ UNCHANGED now

Tat(entry) == IF entry = None THEN None ELSE entry.tat

Outcome(w) == CalculateDecision(Tat(call[w].current), now[w])

\* The entry is stored and the decision returned; or the server refuses the
\* entry's TTL, and the caller gets an error.
Record(w) ==
  /\ SetAnswered(w, WithTat(Outcome(w).tat))
  /\ End(w, IF Refused(w) THEN "error" ELSE "ok")
  /\ admitted' = IF Outcome(w).allowed /\ ~Refused(w)
                   THEN [admitted EXCEPT ![call[w].key] = Append(@, now[w])]
                   ELSE admitted

\* The entry is stored, the caller gets an error: charged, not let through.
RecordUnanswered(w) ==
  /\ SetUnanswered(w, WithTat(Outcome(w).tat))
  /\ End(w, "error")
  /\ UNCHANGED admitted

PeekDone(w) == GetDone(w) /\ End(w, "ok") /\ UNCHANGED admitted

Forget(w) ==
  /\ DeleteDone(w)
  /\ End(w, "ok")
  /\ admitted' = [admitted EXCEPT ![call[w].key] = <<>>]

\* The entry is gone, the caller does not know.
ForgetUnanswered(w) ==
  /\ DeleteUnanswered(w)
  /\ End(w, "error")
  /\ admitted' = [admitted EXCEPT ![call[w].key] = <<>>]

\* An error of the pool or of the connection.
Failure(w) == Fail(w) /\ End(w, "error") /\ UNCHANGED admitted

Advance(w) == (Connect(w) \/ Read(w)) /\ UNCHANGED <<now, outcome, admitted>>

Time ==
  /\ \A w \in Workers : Busy(w) => clock < now[w] + MaxLatency
  /\ Tick
  /\ UNCHANGED <<now, outcome, admitted>>

\* Without failures of the server or the connection.
SafeNext ==
  \/ Time
  \/ \E w \in Workers :
       \/ \E k \in Keys : CheckAndRecord(w, k) \/ Check(w, k) \/ Reset(w, k)
       \/ Advance(w) \/ Record(w) \/ PeekDone(w) \/ Forget(w)

SafeSpec == Init /\ [][SafeNext]_vars

-----------------------------------------------------------------------------
\* What is admitted conforms to the quota although commands fail, before or
\* after they take effect, and calls are given up between GET and SETEX, and the
\* TTL is cut to whole seconds.  For one task, and a TTL that is cut so little
\* that it still covers a burst, a period and Slack: a shorter one forgets debt.
Conforms == \A k \in Keys : Contract!ConformingLog(admitted[k])

\* An entry outlives the debt it records.
ExpiryCoversDebt ==
  \A k \in Keys : store[k] /= None => store[k].entry.tat <= store[k].expires_at

\* Without failures of the server, no call fails.
CallsSucceed == \A w \in Workers : outcome[w] /= "error"

-----------------------------------------------------------------------------
(***************************************************************************)
(* Inductive invariants                                                    *)
(***************************************************************************)
\* What the calls under way are, and when they began.
CallsMade ==
  \A w \in Workers :
    /\ ~Busy(w) => call[w] = NoCall
    /\ Busy(w) => /\ call[w].key \in Keys
                  /\ call[w].op \in {"execute_atomic", "get", "delete"}
                  /\ clock <= now[w] + MaxLatency
    /\ call[w].op = "execute_atomic" => call[w].ttl = Ttl
    /\ call[w].phase = "read" => call[w].op \in {"execute_atomic", "get"}
    /\ call[w].phase = "write" => call[w].op \in {"execute_atomic", "delete"}
    /\ now[w] <= clock

WithinBurst(entry) ==
  entry.tat \in Nat /\ entry.tat <= clock + MaxTatOffset + Period

\* No TAT is more than a burst ahead of the clock, whoever writes what he read.
DebtInv ==
  /\ \A k \in Keys : store[k] /= None => WithinBurst(store[k].entry)
  /\ \A w \in Workers : call[w].current /= None => WithinBurst(call[w].current)

\* What w read is still what the server has, if w is alone.
StillStored(w) ==
  LET held == store[call[w].key]
  IN  call[w].op = "execute_atomic" /\ call[w].current /= None =>
        held /= None /\ call[w].current = held.entry

\* No request of w yet to be decided arrived before this.
Base(w) == IF Busy(w) THEN now[w] ELSE clock

\* w may decide on k as if for the first time: the log is within the tolerance,
\* and its debt is past, at w's arrival or at any rate a period ago.
Settled(w, k) ==
  /\ DebtBy(admitted[k], Base(w) + MaxTatOffset)
  /\ DebtBy(admitted[k], Base(w)) \/ DebtBy(admitted[k], clock - Period)

\* How long an entry must outlive its debt: a call that finds it expired may have
\* arrived that much earlier, or else charges a period more than what has passed.
Slack == IF MaxLatency <= Period THEN MaxLatency ELSE Period

\* The stored entry knows of all debt that is not past, and outlives it.
Remembered(w, k) ==
  LET tat == store[k].entry.tat
  IN  DebtBy(admitted[k], Later(tat, Base(w))) /\ tat + Slack <= store[k].expires_at

KeyInv(w, k) == IF store[k] = None THEN admitted[k] = <<>> ELSE Remembered(w, k)

\* For w alone, and a TTL that covers a burst, a period and Slack when it is cut.
LogInv(w) ==
  /\ \A k \in Keys : KeyInv(w, k)
  /\ call[w].op = "execute_atomic" /\ call[w].phase = "write" /\ call[w].current = None =>
       Settled(w, call[w].key)
=============================================================================
