-------------------------- MODULE MemoryLifecycle ---------------------------
(***************************************************************************)
(* MemoryStorage from its constructor to its drop, with the background     *)
(* task that GcInterval::Duration starts (src/storage/memory_gc.rs).  The  *)
(* task runs beside the workers: it collects whenever its sleep is over,   *)
(* until the storage is dropped.  It has the map it was given, a clone.    *)
(*                                                                         *)
(* In front of each wait the task makes a `Notified` future, and           *)
(* notify_waiters reaches the futures that exist at that moment only.      *)
(***************************************************************************)
EXTENDS MemoryOps

CONSTANTS
  Deployments,  \* the kind of GcInterval ("requests" or "duration"), and who
                \* calls what, that may come together
  GcEvery       \* GcInterval::Duration(GcEvery), in milliseconds

ASSUME LifecycleAssumption ==
  Deployments \subseteq {"requests", "duration"} \X Clients /\ GcEvery \in Nat

VARIABLES
  interval,     \* gc_config.interval, its kind
  task,         \* where the background task is, "none" if there is none
  clone,        \* the map the task was given
  wake,         \* when its sleep is over
  dropped,      \* the storage is no more
  notified,     \* the task's Notified future has been woken
  heard         \* history: when the storage was dropped the task was waiting,
                \* and its sleep not over

lifeVars == <<interval, task, clone, wake, dropped, notified, heard>>
allVars == <<vars, lifeVars>>

LifeTypeOK ==
  /\ TypeOK
  /\ <<interval, ops>> \in Deployments
  /\ task \in {"none", "loop", "select", "sweep", "ended"}
  /\ clone \in [Keys -> InternalEntry \cup {None}]
  /\ wake \in Nat
  /\ {dropped, notified, heard} \subseteq BOOLEAN

\* with_gc: the task is spawned while the map is empty.
LifeInit ==
  /\ Init
  /\ \E d \in Deployments : interval = d[1] /\ ops = d[2]
  /\ task = IF interval = "duration" THEN "loop" ELSE "none"
  /\ clone = data
  /\ wake = 0
  /\ dropped = FALSE /\ notified = FALSE /\ heard = FALSE

-----------------------------------------------------------------------------
(***************************************************************************)
(* The callers                                                             *)
(***************************************************************************)
\* maybe_run_gc counts nothing unless collection goes by requests.
PassGc(w) ==
  /\ interval = "duration"
  /\ call[w].phase = "enter"
  /\ call' = [call EXCEPT ![w] = AfterGc(w)]
  /\ UNCHANGED <<clock, data, requests, gcLock, ops, arg, written>>

Use(w) ==
  /\ \/ interval = "requests" /\ Step(w)
     \/ interval = "duration" /\ call[w].phase /= "enter" /\ Step(w)
     \/ PassGc(w)
     \/ ~dropped /\ \E op \in ops[w], k \in Keys : Start(w, op, k)
  /\ UNCHANGED lifeVars

\* Mutant: the destructor leaves the task alone.
DropSilently ==
  /\ ~dropped /\ \A w \in Workers : ~Busy(w)
  /\ dropped' = TRUE
  /\ notified' = notified
  /\ heard' = (task = "select" /\ clock < wake)
  /\ data' = [k \in Keys |-> None] /\ written' = [k \in Keys |-> None]
  /\ UNCHANGED <<clock, requests, gcLock, call, ops, arg, interval, task, clone, wake>>

\* The last owner lets go of the storage, and no call borrows it.
Drop ==
  /\ ~dropped /\ \A w \in Workers : ~Busy(w)
  /\ dropped' = TRUE
  /\ notified' = (task = "select")
  /\ heard' = (task = "select" /\ clock < wake)
  /\ data' = [k \in Keys |-> None] /\ written' = [k \in Keys |-> None]
  /\ UNCHANGED <<clock, requests, gcLock, call, ops, arg, interval, task, clone, wake>>

-----------------------------------------------------------------------------
(***************************************************************************)
(* The background task                                                     *)
(***************************************************************************)
Sooner(s, t) == IF s <= t THEN s ELSE t

\* It starts to sleep, and to listen.  Beyond the bound no sleep takes time.
Wait ==
  /\ task = "loop"
  /\ task' = "select"
  /\ wake' = Sooner(clock + GcEvery, MaxClock)
  /\ UNCHANGED <<vars, interval, clone, dropped, notified, heard>>

\* select! takes either branch when both are ready; the other future is gone.
WakeUp ==
  /\ task = "select"
  /\ \/ clock >= wake /\ task' = "sweep"
     \/ notified /\ task' = "ended"
  /\ notified' = FALSE
  /\ UNCHANGED <<vars, interval, clone, wake, dropped, heard>>

\* run_gc_on_map, which nothing can come between: no one else has this map.
Sweep ==
  /\ task = "sweep"
  /\ task' = "loop"
  /\ clone' = [k \in Keys |->
                 IF clone[k] /= None /\ ~Keep(clone[k], clock) THEN None ELSE clone[k]]
  /\ UNCHANGED <<vars, interval, wake, dropped, notified, heard>>

Task == Wait \/ WakeUp \/ Sweep

\* Nothing is left to happen: the storage is gone, and its task.
Gone == dropped /\ task \in {"none", "ended"} /\ UNCHANGED allVars

\* Assumed of the runtime: it polls a task that is notified before that task's
\* sleep ends as well.
Time ==
  /\ notified => clock + 1 < wake
  /\ Tick
  /\ UNCHANGED <<ops, arg, written, lifeVars>>

LifeNext ==
  \/ Time
  \/ \E w \in Workers : Use(w)
  \/ Drop
  \/ Task
  \/ Gone

\* Time passes, and the runtime polls a task that is woken.
LifeSpec == LifeInit /\ [][LifeNext]_allVars /\ WF_allVars(Time) /\ WF_allVars(Task)

-----------------------------------------------------------------------------
(***************************************************************************)
(* Properties                                                              *)
(***************************************************************************)
\* The task ends when the storage is dropped while it sleeps, whatever it did
\* before; a drop in any other moment it does not notice.
ShutdownHeard == heard ~> task = "ended"

\* An entry the collection is there to remove.
Garbage(k) == data[k] /= None /\ ~Keep(data[k], clock)

\* "Run GC at fixed time intervals": what a collection should take does not
\* stay for ever when collection goes by time.
GarbageCollected ==
  \A k \in Keys : interval = "duration" /\ Garbage(k) ~> ~Garbage(k)

\* Types, what each call under way relies on, and the lock of the collections
\* that requests run.
LifeInv ==
  /\ LifeTypeOK
  /\ DOMAIN arg = Workers
  /\ \A w \in Workers : CallInv(w)
  /\ LockKept
=============================================================================
