---------------------------- MODULE MCDecisionLog ----------------------------
(* Two databases under one issuer's key and one under another's. *)
EXTENDS DecisionLog

CONSTANTS a, b, c

IssuerOfCopies == (a :> "k1") @@ (b :> "k1") @@ (c :> "k2")

Request(id, agent, amount) ==
  [request_id |-> id, agent_key |-> agent, enterprise_key |-> "e1",
   amount_minor |-> amount, currency |-> "USD"]

\* Within the limit, above it, from an agent that is not admitted, of no amount.
SubmittedRequests ==
  {Request(1, "a1", 1), Request(2, "a1", 3), Request(1, "a2", 1), Request(2, "a1", 0)}

SignedPolicies == {[max_amount_minor |-> 2, currency |-> "USD"],
                   [max_amount_minor |-> -1, currency |-> "USD"]}

Symmetric == Permutations({a, b})
=============================================================================
