------------------------------ MODULE Policies ------------------------------
(***************************************************************************)
(* The policies (src/policy.rs): what a response gives back to its client  *)
(* (positive) or charges it in addition (negative), in tokens.  A policy   *)
(* built from others is an operator on what those return.                  *)
(*                                                                         *)
(* Numbers are u64 and i64 in the code and have `Width` bits here.  A      *)
(* release build wraps where an operation overflows.                       *)
(***************************************************************************)
EXTENDS Integers, Sequences, FiniteSetsExt, SequencesExt

CONSTANT Width

ASSUME PoliciesAssumption == Width \in Nat \ {0}

\* `n as u64`, and `n as i64`.
Unsigned(n) == n % 2^Width
Signed(n) == IF Unsigned(n) >= 2^(Width - 1) THEN Unsigned(n) - 2^Width ELSE Unsigned(n)

\* What the trait does unless a policy says otherwise.
TokenCost == 1
OnResponse(status_code) == 0

\* PenaltyPolicy: an error costs `multiplier` tokens instead of one.
Extra(multiplier) == Signed(-Signed(Unsigned(multiplier - 1)))

PenaltyOnResponse(policy, status_code) ==
  CASE status_code \in 400..499 -> Extra(policy.client_error_multiplier)
    [] status_code \in 500..599 -> Extra(policy.server_error_multiplier)
    [] OTHER -> 0

Penalty(multiplier) ==
  [client_error_multiplier |-> multiplier, server_error_multiplier |-> multiplier]

\* CreditPolicy: what was answered from a cache was no work.
CreditOnResponse(policy, status_code) ==
  IF \/ status_code = 304 /\ policy.refund_not_modified
     \/ status_code = 204 /\ policy.refund_no_content
    THEN 1 ELSE 0

Credit == [refund_not_modified |-> TRUE, refund_no_content |-> FALSE]

WithNoContent(policy) == [policy EXCEPT !.refund_no_content = TRUE]

\* CompositePolicy, of the costs and of the answers of its policies.
CompositeCost(costs) == IF costs = <<>> THEN 1 ELSE Max(ToSet(costs))

CompositeOnResponse(tokens) == FoldSeq(LAMBDA n, sum : Signed(sum + n), 0, tokens)
=============================================================================
