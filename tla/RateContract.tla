---------------------------- MODULE RateContract ----------------------------
(***************************************************************************)
(* What a GCRA limiter promises, with no storage, no expiry and no threads:*)
(* each key has a log of the arrival times of the requests it let through, *)
(* and a request is let through only if, counted from any earlier one, the *)
(* log stays within one request per Period plus the burst tolerance.       *)
(***************************************************************************)
EXTENDS Integers, Sequences

CONSTANTS Keys, Period, MaxTatOffset

VARIABLES clock, admitted

contractVars == <<clock, admitted>>

\* log[i] and log[j] are no closer than j - i periods, less the tolerance.
Spaced(log, i, j) == (j - i) * Period <= (log[j] - log[i]) + MaxTatOffset

ConformingLog(log) ==
  \A i \in 1..Len(log) : \A j \in 1..Len(log) : i < j => Spaced(log, i, j)

Init ==
  /\ clock \in Nat
  /\ admitted = [k \in Keys |-> <<>>]

Tick ==
  /\ clock' \in Nat
  /\ clock' > clock
  /\ UNCHANGED admitted

\* A request that arrived at t, not before the last one admitted.
Admit(k, t) ==
  LET log == Append(admitted[k], t)
  IN  /\ t <= clock
      /\ \A i \in 1..Len(admitted[k]) : admitted[k][i] <= t
      /\ \A i \in 1..Len(admitted[k]) : Spaced(log, i, Len(log))
      /\ admitted' = [admitted EXCEPT ![k] = log]
      /\ UNCHANGED clock

\* reset(): the key starts afresh.
Reset(k) ==
  /\ admitted' = [admitted EXCEPT ![k] = <<>>]
  /\ UNCHANGED clock

Next ==
  \/ Tick
  \/ \E k \in Keys : Reset(k) \/ \E t \in 0..clock : Admit(k, t)

Spec == Init /\ [][Next]_contractVars
=============================================================================
