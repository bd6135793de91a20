----------------------------- MODULE PermitPool -----------------------------
(***************************************************************************)
(* What ConcurrentLimiter promises about one key, without semaphore and    *)
(* counter: at most Limit holders, a line in order of arrival, and a place *)
(* that falls free goes to the first in line in the same step, so that     *)
(* nobody overtakes and no place is lost.                                  *)
(***************************************************************************)
EXTENDS Naturals, FiniteSets, SequencesExt

CONSTANTS Tasks, Limit

VARIABLES
  holders,     \* the tasks a permit is theirs, whether they know it or not
  line         \* the tasks that wait for one, first come first

vars == <<holders, line>>

InLine(t) == \E i \in DOMAIN line : line[i] = t

Init == holders = {} /\ line = <<>>

Enter(t) ==
  /\ t \notin holders /\ line = <<>>
  /\ Cardinality(holders) < Limit
  /\ holders' = holders \cup {t}
  /\ UNCHANGED line

Join(t) ==
  /\ t \notin holders /\ ~InLine(t)
  /\ Cardinality(holders) = Limit
  /\ line' = Append(line, t)
  /\ UNCHANGED holders

Leave(t) ==
  /\ t \in holders
  /\ IF line = <<>>
       THEN holders' = holders \ {t} /\ UNCHANGED line
       ELSE holders' = (holders \ {t}) \cup {Head(line)} /\ line' = Tail(line)

\* A task in line gives up.
GiveUp(t) ==
  /\ \E i \in DOMAIN line : line[i] = t /\ line' = RemoveAt(line, i)
  /\ UNCHANGED holders

Next == \E t \in Tasks : Enter(t) \/ Join(t) \/ Leave(t) \/ GiveUp(t)

Safety == Init /\ [][Next]_vars

\* Holders leave; nobody has to give up.
Spec == Safety /\ \A t \in Tasks : WF_vars(Leave(t))
=============================================================================
