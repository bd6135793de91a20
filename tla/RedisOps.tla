------------------------------ MODULE RedisOps -----------------------------
(***************************************************************************)
(* RedisStorage under arbitrary callers: every operation of the Storage    *)
(* trait from every task, any of which can fail or be dropped.             *)
(***************************************************************************)
EXTENDS RedisStorage

CONSTANTS
  Clients,    \* who calls what: sets of operations, per task
  Ttls,       \* the TTLs they ask for
  Windows,    \* the window starts they pass to increment
  MaxCount    \* bound: counters are not driven past it

ASSUME OpsAssumption ==
  /\ Clients \subseteq [Workers -> SUBSET Operations]
  /\ Ttls \subseteq Nat
  /\ Windows \subseteq Nat
  /\ MaxCount \in Nat

VARIABLES
  ops,        \* per task: the operations it calls
  arg,        \* per task: the arguments of its call
  acked,      \* history, per key: what its caller knows the counter has counted,
              \* 0 after an increment by a task that is not alone
  sent        \* history, per key and window: the increments the server has
              \* carried out, and the count of any entry it was given

opsVars == <<redisVars, ops, arg, acked, sent>>

Entries == {NewEntry(c, ws) : c \in 1..MaxCount, ws \in Windows}

\* The windows there are entries of; Operation below makes them of window 0.
AllWindows == Windows \cup {0}

Argument == [new : StorageEntry \cup {None}, expected : StorageEntry \cup {None},
             window_start : Nat]

NoArg == [new |-> None, expected |-> None, window_start |-> 0]

Arguments(op) ==
  CASE op = "set" -> {[NoArg EXCEPT !.new = e] : e \in Entries}
    [] op = "increment" -> {[NoArg EXCEPT !.window_start = ws] : ws \in Windows}
    [] op = "compare_and_swap" -> [new : Entries, expected : Entries \cup {None},
                                   window_start : {0}]
    [] OTHER -> {NoArg}

OpsInit ==
  /\ RedisInit
  /\ ops \in Clients
  /\ arg = [w \in Workers |-> NoArg]
  /\ acked = [k \in Keys |-> 0]
  /\ sent = [k \in Keys |-> [t \in AllWindows |-> 0]]

OpsStart(w, op, k) ==
  /\ \E ttl \in Ttls : Begin(w, op, k, ttl)
  /\ \E a \in Arguments(op) :
       /\ op = "increment" => sent[k][a.window_start] < MaxCount
       /\ arg' = [arg EXCEPT ![w] = a]
  /\ UNCHANGED <<ops, acked, sent>>

\* The closure of execute_atomic: count one more than was read.
Operation(current) ==
  NewEntry(IF current = None \/ current.count >= MaxCount THEN 1 ELSE current.count + 1, 0)

\* The entry the operation of w writes.
Written(w) ==
  LET op == call[w].op
  IN  CASE op = "increment" -> Incremented(call[w].current, 1, arg[w].window_start, clock)
        [] op = "execute_atomic" -> Operation(call[w].current)
        [] OTHER -> arg[w].new

\* The others call nothing.
Lone(w) == \A v \in Workers \ {w} : ops[v] = {}

InWindow(entry, w) == entry /= None /\ entry.window_start = arg[w].window_start

\* The histories after a write by w, answered or not.  What was sent stays sent,
\* whatever becomes of the entry: a read before it was deleted or expired may be
\* written back after that.
Account(w, answered) ==
  LET k   == call[w].key
      new == Written(w)
      One == IF answered THEN 1 ELSE 0
      Known(n) == IF Lone(w) THEN One + (IF InWindow(Live(k), w) THEN n ELSE 0) ELSE 0
  IN  IF call[w].op = "increment"
        THEN /\ acked' = [acked EXCEPT ![k] = Known(@)]
             /\ sent'  = [sent EXCEPT ![k][new.window_start] = @ + 1]
        ELSE /\ acked' = [acked EXCEPT ![k] = new.count]
             /\ sent'  = [sent EXCEPT ![k][new.window_start] = IF @ < new.count THEN new.count ELSE @]

WriteDone(w) ==
  /\ call[w].op = "compare_and_swap" => CasMatches(call[w].current, arg[w].expected)
  /\ SetAnswered(w, Written(w))
  /\ IF Refused(w) THEN UNCHANGED <<acked, sent>> ELSE Account(w, TRUE)

WriteUnanswered(w) ==
  /\ call[w].op = "compare_and_swap" => CasMatches(call[w].current, arg[w].expected)
  /\ SetUnanswered(w, Written(w))
  /\ Account(w, FALSE)

Other(w) ==
  /\ \/ Connect(w) \/ Read(w) \/ GetDone(w) \/ DeleteDone(w) \/ DeleteUnanswered(w)
     \/ CasMismatch(w, arg[w].expected)
     \/ Fail(w)
  /\ UNCHANGED <<acked, sent>>

OpsStep(w) ==
  /\ WriteDone(w) \/ WriteUnanswered(w) \/ Other(w)
  /\ arg' = IF Busy(w)' THEN arg ELSE [arg EXCEPT ![w] = NoArg]
  /\ UNCHANGED ops

OpsNext ==
  \/ Tick /\ UNCHANGED <<ops, arg, acked, sent>>
  \/ \E w \in Workers : OpsStep(w) \/ \E op \in ops[w], k \in Keys : OpsStart(w, op, k)

\* A command that is sent ends, with an answer or an error; the pool hands its
\* connections out in order of arrival, so that no task waits for ever while
\* others come and go.  A task that waits for a connection need not give up.
OpsSpec ==
  /\ OpsInit /\ [][OpsNext]_opsVars
  /\ \A w \in Workers :
       /\ WF_opsVars(call[w].phase /= "connect" /\ OpsStep(w))
       /\ SF_opsVars(Connect(w) /\ OpsStep(w))

-----------------------------------------------------------------------------
OpsTypeOK ==
  /\ RedisTypeOK
  /\ ops \in Clients
  /\ arg \in [Workers -> Argument]
  /\ acked \in [Keys -> Nat]
  /\ sent \in [Keys -> [AllWindows -> Nat]]

\* However many tasks race between GET and SETEX, stall past an expiry, and lose
\* answers, a counter never shows more than its window was sent: a race forgets
\* increments and never makes them up.
NeverOvercounted ==
  \A k \in Keys :
    Live(k) /= None => Live(k).count <= sent[k][Live(k).window_start]

\* Nor does it forget one that was acknowledged in its window since it last
\* expired, although increments fail after they took effect and stall past the
\* expiry, if the task that increments is alone: racing, they do get lost.
IncrementsCounted == \A k \in Keys : Live(k) /= None => Live(k).count >= acked[k]

\* Every call ends, though any can fail or be dropped at any point: each gives
\* its connection back, and a task holds one at most, so that the pool is not
\* exhausted by tasks that wait for it.
CallsEnd == \A w \in Workers : Busy(w) ~> ~Busy(w)

-----------------------------------------------------------------------------
(***************************************************************************)
(* Inductive invariant                                                     *)
(***************************************************************************)
\* The calls on their way, with the arguments of their operation.
OpsCalls ==
  \A w \in Workers :
    /\ ~Busy(w) => call[w].op = None
    /\ Busy(w) => /\ call[w].op \in ops[w]
                  /\ call[w].key \in Keys
                  /\ arg[w] \in Arguments(call[w].op)
    /\ call[w].phase = "read" => call[w].op \notin {"set", "delete"}
    /\ call[w].phase = "write" => call[w].op /= "get"

\* An entry that shows no more than was sent.
WasSent(k, entry) ==
  entry.window_start \in AllWindows /\ entry.count <= sent[k][entry.window_start]

\* What the server holds, expired or not, and what tasks have read of it.
AllSent ==
  /\ \A k \in Keys : store[k] /= None => WasSent(k, store[k].entry)
  /\ \A w \in Workers :
       Busy(w) /\ call[w].current /= None => WasSent(call[w].key, call[w].current)

\* What the server holds has counted what it should, expired or not.
CountsKept == \A k \in Keys : store[k] /= None => store[k].entry.count >= acked[k]

\* What a task that is alone goes on from is what the server has, but that it
\* may have expired.
ReadStands ==
  \A w \in Workers :
    call[w].phase = "write" /\ call[w].op \notin {"set", "delete"} /\ Lone(w) =>
      IF call[w].current = None
        THEN Live(call[w].key) = None
        ELSE /\ store[call[w].key] /= None
             /\ store[call[w].key].entry = call[w].current

OpsInv == OpsTypeOK /\ PoolKept /\ OpsCalls /\ AllSent /\ CountsKept /\ ReadStands
=============================================================================
