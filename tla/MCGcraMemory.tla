---------------------------- MODULE MCGcraMemory ----------------------------
(***************************************************************************)
(* GcraMemory for TLC, under either of two quotas: one with a burst, and   *)
(* one so fast that its period truncates to 0 ms, under which requests may *)
(* panic inside the storage.  A behaviour keeps the quota it starts with.  *)
(***************************************************************************)
CONSTANTS None, Keys, Workers, GcThreshold, MaxAge, MaxClock, MaxLatency

VARIABLES
  clock, data, requests, gcLock, call, now,   \* as in GcraMemory
  fast                                        \* which of the quotas it is

Bursty == INSTANCE GcraMemory WITH MaxRequests <- 1, WindowMs <- 1, Burst <- 2
Fast   == INSTANCE GcraMemory WITH MaxRequests <- 2, WindowMs <- 1, Burst <- 1

vars == <<clock, data, requests, gcLock, call, now, fast>>

Init == Bursty!Init /\ fast \in BOOLEAN

Next ==
  \/ ~fast /\ Bursty!Next /\ UNCHANGED fast
  \/ fast /\ Fast!Next /\ UNCHANGED fast

\* A step of w inside a call.
Progress(w) ==
  \/ ~fast /\ (Bursty!Internal(w) \/ Bursty!Finish(w)) /\ UNCHANGED fast
  \/ fast /\ (Fast!Internal(w) \/ Fast!Finish(w)) /\ UNCHANGED fast

\* FairSpec of GcraMemory.
FairSpec == Init /\ [][Next]_vars /\ \A w \in Workers : WF_vars(Progress(w))

-----------------------------------------------------------------------------
\* The stored TAT is at most one burst ahead of the clock, however many workers
\* overwrite each other's entry (execute_atomic is a read and a write).
LockoutBounded == IF fast THEN Fast!LockoutBounded ELSE Bursty!LockoutBounded

\* An entry outlives the debt it records, though GCRA and the storage read the
\* clock at different times: for calls no longer than a period.
ExpiryCoversDebt == ~fast => Bursty!ExpiryCoversDebt

\* gc_lock is held by who collects for a request, and by nobody else.
GcExclusive == IF fast THEN Fast!GcExclusive ELSE Bursty!GcExclusive

\* The inductive invariant of the proofs, for such calls.
MemoryInv == ~fast => Bursty!MemoryInv

\* Every call ends, whatever the other workers do, and though calls panic.
CallsEnd == \A w \in Workers : Bursty!Busy(w) ~> ~Bursty!Busy(w)
=============================================================================
