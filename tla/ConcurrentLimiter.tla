-------------------------- MODULE ConcurrentLimiter -------------------------
(***************************************************************************)
(* ConcurrentLimiter (src/algorithm/concurrent.rs) on one key: a tokio     *)
(* semaphore that decides, and beside it a counter that reports.  Keys do  *)
(* not interact, each has a semaphore and a counter of its own.            *)
(*                                                                         *)
(* The semaphore is external.  It is modelled by what acquire relies on:   *)
(* waiters queue in order; a released permit goes to the first of them     *)
(* before anyone else can take it; a waiter whose future is dropped gives  *)
(* back what it was assigned; try_acquire_owned never waits.               *)
(***************************************************************************)
EXTENDS Naturals, FiniteSets, SequencesExt

CONSTANTS
  Tasks,            \* the requests that ask for a permit
  MaxConcurrent     \* max_concurrent

ASSUME LimiterAssumption == IsFiniteSet(Tasks) /\ MaxConcurrent \in Nat

VARIABLES
  permits,          \* semaphore: permits nobody holds or was assigned
  queue,            \* semaphore: the waiters, first come first
  assigned,         \* waiters given a permit they have not yet seen
  counts,           \* the counter current_count and remaining report
  pc                \* where each task is

vars == <<permits, queue, assigned, counts, pc>>

Places == {"idle",
           "waiting",    \* in acquire, awaiting acquire_owned
           "timed",      \* the same, under acquire_timeout
           "expired",    \* the timeout has fired, the future is not yet dropped
           "counting",   \* has the permit, is about to count it
           "holding",    \* has the ConcurrentPermit
           "releasing"}  \* ConcurrentPermit::drop has run, _permit is dropped next

TypeOK ==
  /\ permits \in Nat
  /\ queue \in Seq(Tasks)
  /\ assigned \subseteq Tasks
  /\ counts \in Nat
  /\ pc \in [Tasks -> Places]

Init ==
  /\ permits = MaxConcurrent
  /\ queue = <<>>
  /\ assigned = {}
  /\ counts = 0
  /\ pc = [t \in Tasks |-> "idle"]

Go(t, place) == pc' = [pc EXCEPT ![t] = place]

\* Mutant: a permit goes to the pool over the heads of the waiters.
GiveToPool == permits' = permits + 1 /\ UNCHANGED <<queue, assigned>>

\* A permit comes back: to the first waiter, or else to the pool.
GiveBack ==
  IF queue = <<>>
    THEN permits' = permits + 1 /\ UNCHANGED <<queue, assigned>>
    ELSE /\ assigned' = assigned \cup {Head(queue)}
         /\ queue' = Tail(queue)
         /\ UNCHANGED permits

\* Mutant: a permit is handed out without asking the semaphore.
TakeUnchecked(t) ==
  /\ pc[t] = "idle"
  /\ permits' = permits - 1
  /\ Go(t, "counting")
  /\ UNCHANGED <<queue, assigned, counts>>

\* try_acquire, and the first poll of acquire, when a permit is free.
Take(t) ==
  /\ pc[t] = "idle"
  /\ permits > 0
  /\ permits' = permits - 1
  /\ Go(t, "counting")
  /\ UNCHANGED <<queue, assigned, counts>>

\* acquire and acquire_timeout when none is.  try_acquire returns None: no step.
Wait(t) ==
  /\ pc[t] = "idle"
  /\ permits = 0
  /\ queue' = Append(queue, t)
  /\ \E place \in {"waiting", "timed"} : Go(t, place)
  /\ UNCHANGED <<permits, assigned, counts>>

\* The waiter is polled and finds its permit.  A timeout polls the inner future
\* first: the permit wins over a deadline that has passed.
Wake(t) ==
  /\ pc[t] \in {"waiting", "timed"}
  /\ t \in assigned
  /\ assigned' = assigned \ {t}
  /\ Go(t, "counting")
  /\ UNCHANGED <<permits, queue, counts>>

\* The waiter is polled, has nothing, and its deadline has passed.
Expire(t) ==
  /\ pc[t] = "timed"
  /\ t \notin assigned
  /\ Go(t, "expired")
  /\ UNCHANGED <<permits, queue, assigned, counts>>

\* Its future is dropped; a permit assigned meanwhile is passed on.
Abandon(t) ==
  /\ pc[t] = "expired"
  /\ IF t \in assigned
       THEN IF queue = <<>>
              THEN permits' = permits + 1 /\ assigned' = assigned \ {t} /\ UNCHANGED queue
              ELSE /\ assigned' = (assigned \ {t}) \cup {Head(queue)}
                   /\ queue' = Tail(queue)
                   /\ UNCHANGED permits
       ELSE /\ \E i \in DOMAIN queue : queue[i] = t /\ queue' = RemoveAt(queue, i)
            /\ UNCHANGED <<permits, assigned>>
  /\ Go(t, "idle")
  /\ UNCHANGED counts

\* *counts.entry(key).or_insert(0) += 1
Count(t) ==
  /\ pc[t] = "counting"
  /\ counts' = counts + 1
  /\ Go(t, "holding")
  /\ UNCHANGED <<permits, queue, assigned>>

\* Mutant: drop leaves the counter alone.
DropUncounted(t) ==
  /\ pc[t] = "holding"
  /\ Go(t, "releasing")
  /\ UNCHANGED <<permits, queue, assigned, counts>>

\* ConcurrentPermit::drop: the counter goes down first ...
DropPermit(t) ==
  /\ pc[t] = "holding"
  /\ counts' = IF counts > 0 THEN counts - 1 ELSE 0
  /\ Go(t, "releasing")
  /\ UNCHANGED <<permits, queue, assigned>>

\* Mutant: the semaphore's permit is forgotten.
ReleaseForgotten(t) ==
  /\ pc[t] = "releasing"
  /\ Go(t, "idle")
  /\ UNCHANGED <<permits, queue, assigned, counts>>

\* ... then, with the fields, the semaphore's permit is released.
Release(t) ==
  /\ pc[t] = "releasing"
  /\ GiveBack
  /\ Go(t, "idle")
  /\ UNCHANGED counts

Advance(t) ==
  Wake(t) \/ Expire(t) \/ Abandon(t) \/ Count(t) \/ DropPermit(t) \/ Release(t)

Next == \E t \in Tasks : Take(t) \/ Wait(t) \/ Advance(t)

\* Woken tasks are polled, drop runs to its end, timeouts fire, and callers do
\* finish their request and drop the permit.
Spec == Init /\ [][Next]_vars /\ \A t \in Tasks : WF_vars(Advance(t))

-----------------------------------------------------------------------------
In(places) == {t \in Tasks : pc[t] \in places}

\* No permit is lost or made up, whichever way the race between a timeout and
\* a release goes.
PermitsConserved ==
  permits + Cardinality(assigned) + Cardinality(In({"counting", "holding", "releasing"}))
    = MaxConcurrent

\* current_count never exceeds the limit, so `remaining` never needs to
\* saturate: the counter goes up after the permit is taken and down before it
\* is given back.
CountWithinLimit == counts <= MaxConcurrent

\* A free permit is never left lying while somebody waits.
NoIdlePermit == queue /= <<>> => permits = 0

\* Whoever waits gets a permit or times out: timeouts of others, racing with
\* the release of a permit, never strand it.
WaitersServed == \A t \in Tasks : pc[t] = "waiting" ~> pc[t] = "holding"

\* Whose permit it is: also the waiter's who has yet to see it, and the
\* caller's whose drop has not reached the semaphore.
Holders == assigned \cup In({"counting", "holding", "releasing"})

Pool == INSTANCE PermitPool WITH
          Limit <- MaxConcurrent, holders <- Holders, line <- queue

\* Semaphore, counter, timeouts and drops together are a pool of places with a
\* line in front of it: nobody overtakes who waits, and a timeout that loses
\* against a release passes the place on.
ImplementsPool == Pool!Spec

-----------------------------------------------------------------------------
(***************************************************************************)
(* Inductive invariant                                                     *)
(***************************************************************************)
Queued(t) == \E i \in DOMAIN queue : queue[i] = t

\* A task is in the queue at most once, ...
Distinct == \A i, j \in DOMAIN queue : queue[i] = queue[j] => i = j

\* ... never with a permit assigned as well, and it is in one of the two
\* exactly while its future waits.
WaitersInv ==
  \A t \in Tasks :
    /\ ~(Queued(t) /\ t \in assigned)
    /\ Queued(t) \/ t \in assigned <=> pc[t] \in {"waiting", "timed", "expired"}

\* Together with the queue, what the counter stands for: the tasks between
\* their two updates of it.
LimiterInv ==
  /\ TypeOK
  /\ Distinct /\ WaitersInv
  /\ NoIdlePermit
  /\ PermitsConserved
  /\ counts = Cardinality(In({"holding"}))
=============================================================================
