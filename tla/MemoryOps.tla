------------------------------ MODULE MemoryOps -----------------------------
(***************************************************************************)
(* MemoryStorage under arbitrary callers: every operation of the Storage   *)
(* trait and of the type itself, from every worker, with any arguments.    *)
(* `written` remembers what a map that never collected would hold.         *)
(* MemoryLifecycle has the storage's beginning and end, and the            *)
(* specification of the whole.                                             *)
(***************************************************************************)
EXTENDS MemoryStorage

CONSTANTS
  Clients,    \* who calls what: sets of operations, per worker
  Ttls,       \* the TTLs they ask for
  Windows,    \* the window starts they pass to increment
  MaxCount    \* bound: counters are not driven past it

ASSUME OpsAssumption ==
  /\ Clients \subseteq [Workers -> SUBSET Operations]
  /\ Ttls \subseteq Nat /\ Windows \subseteq Nat /\ MaxCount \in Nat

VARIABLES
  ops,        \* per worker: the operations it calls
  arg,        \* per worker: the arguments of its call
  written     \* history, per key: the entry last written, None once deleted

vars == <<storageVars, ops, arg, written>>

Entries == {NewEntry(c, ws) : c \in 1..MaxCount, ws \in Windows}

\* What is stored without looking.
Fresh == {NewEntry(1, ws) : ws \in Windows}

NoArg == [new |-> None, expected |-> None, window_start |-> 0]

Arguments(op) ==
  CASE op = "set" -> {[NoArg EXCEPT !.new = e] : e \in Fresh}
    [] op = "increment" -> {[NoArg EXCEPT !.window_start = ws] : ws \in Windows}
    [] op = "compare_and_swap" -> [new : Fresh, expected : Entries \cup {None},
                                 window_start : {0}]
    [] OTHER -> {NoArg}

Init ==
  /\ StorageInit
  /\ ops \in Clients
  /\ arg = [w \in Workers |-> NoArg]
  /\ written = [k \in Keys |-> None]

Start(w, op, k) ==
  /\ ~(op = "increment" /\ data[k] /= None /\ data[k].entry.count >= MaxCount)
  /\ \E ttl \in Ttls : Begin(w, op, k, ttl)
  /\ \E a \in Arguments(op) : arg' = [arg EXCEPT ![w] = a]
  /\ UNCHANGED <<ops, written>>

\* The closure of the crate's own tests: count one more than was read.
Operation(current) ==
  NewEntry(IF current = None \/ current.count >= MaxCount THEN 1 ELSE current.count + 1, 0)

Write(w) ==
  /\ \/ SetCommit(w, arg[w].new)
     \/ IncrementCommit(w, 1, arg[w].window_start)
     \/ ExecuteCommit(w, Operation(call[w].current))
     \/ CasSwap(w, arg[w].expected, arg[w].new)
     \/ DeleteCommit(w)
  /\ written' = [written EXCEPT ![call[w].key] = data'[call[w].key]]

Clear(w, k) == ClearKey(w, k) /\ written' = [written EXCEPT ![k] = None]

ReadOnly(w) ==
  /\ \/ Common(w) \/ Load(w)
     \/ GetHit(w) \/ GetMiss(w) \/ GetExpired(w) \/ GetRemove(w)
     \/ CasFail(w, arg[w].expected)
  /\ UNCHANGED written

Step(w) ==
  /\ Write(w) \/ ReadOnly(w) \/ \E k \in Keys : Clear(w, k)
  /\ arg' = IF Busy(w)' THEN arg ELSE [arg EXCEPT ![w] = NoArg]
  /\ UNCHANGED ops

-----------------------------------------------------------------------------
(***************************************************************************)
(* Properties                                                              *)
(***************************************************************************)
TypeOK ==
  /\ StorageTypeOK
  /\ CallsKeyed
  /\ ops \in Clients
  /\ written \in [Keys -> InternalEntry \cup {None}]

\* Collection is invisible: what the map holds is what was last written, or
\* nothing once that has expired.  Collection by requests, run_gc and clear
\* may overlap each other and every write.  A worker that calls get must be
\* alone: get removes what others write between its two steps.
OnlyExpiredVanish ==
  \A k \in Keys :
    \/ data[k] = written[k]
    \/ data[k] = None /\ ~LiveAt(written[k], clock)

-----------------------------------------------------------------------------
(***************************************************************************)
(* Inductive invariant                                                     *)
(***************************************************************************)
\* No one else calls anything.
OnlyCaller(w) == \A v \in Workers \ {w} : ops[v] = {}

\* What w has been given and has read so far; what it found expired is still so
\* if it is alone.
CallInv(w) ==
  /\ ~Busy(w) => call[w] = NoCall
  /\ Busy(w) => call[w].op \in ops[w] /\ call[w].key \in Keys
  /\ call[w].now <= clock /\ call[w].gcNow <= clock
  /\ call[w].op \in {"set", "compare_and_swap"} => arg[w].new \in StorageEntry
  /\ call[w].op = "increment" => arg[w].window_start \in Nat
  /\ OnlyCaller(w) /\ At(w, "get", "remove") => ~LiveAt(data[call[w].key], clock)

\* gc_lock is held by the worker that collects for a request, and by nobody
\* else; run_gc and clear, which overlap it, do nothing but sweep.
LockKept ==
  \A w \in Workers :
    /\ gcLock = w <=> /\ call[w].phase \in {"gc", "sweep"}
                      /\ call[w].op \notin {"run_gc", "clear"}
    /\ call[w].op \in {"run_gc", "clear"} => call[w].phase \in {"gc", "sweep"}
=============================================================================
