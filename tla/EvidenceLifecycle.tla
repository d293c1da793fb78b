-------------------------- MODULE EvidenceLifecycle --------------------------
(***************************************************************************)
(* What the evidence system promises of one request, without the calls,    *)
(* transactions, tables and failures that bring it about:                  *)
(*                                                                         *)
(*   - a request is committed at most once, and its deadline with it;      *)
(*   - a decision is committed at most once, after its request and not     *)
(*     after the deadline;                                                 *)
(*   - what is published is the committed request, and later the committed *)
(*     decision on it, and nothing published is replaced or withdrawn.     *)
(***************************************************************************)
EXTENDS Integers

CONSTANTS
  Keys,             \* what requests are known by
  RequestContents,  \* contents a request may commit to
  DecisionContents, \* contents a decision may commit to
  DecisionWindow,   \* how long after its request a decision is accepted
  Nothing

VARIABLES
  clock,      \* latest time anyone can observe
  committed,  \* by key: the request content and its deadline, or Nothing
  decided,    \* by key: the decision content, or Nothing
  published   \* by key: the published request and decision, or Nothing

lifecycle == <<clock, committed, decided, published>>

Start ==
  /\ clock = 1
  /\ committed = [k \in Keys |-> Nothing]
  /\ decided = [k \in Keys |-> Nothing]
  /\ published = [k \in Keys |-> Nothing]

Tick == clock' = clock + 1

Wait == Tick /\ UNCHANGED <<committed, decided, published>>

CommitRequest(k) ==
  /\ committed[k] = Nothing
  /\ Tick
  /\ \E content \in RequestContents :
       committed' = [committed EXCEPT
         ![k] = [content |-> content, deadline |-> clock' + DecisionWindow]]
  /\ UNCHANGED <<decided, published>>

CommitDecision(k) ==
  /\ committed[k] # Nothing
  /\ decided[k] = Nothing
  /\ Tick
  /\ clock' <= committed[k].deadline
  /\ \E content \in DecisionContents : decided' = [decided EXCEPT ![k] = content]
  /\ UNCHANGED <<committed, published>>

PublishRequest(k) ==
  /\ committed[k] # Nothing
  /\ published[k] = Nothing
  /\ published' = [published EXCEPT
       ![k] = [request |-> committed[k].content, decision |-> Nothing]]
  /\ UNCHANGED <<clock, committed, decided>>

PublishDecision(k) ==
  /\ published[k] # Nothing
  /\ published[k].decision = Nothing
  /\ decided[k] # Nothing
  /\ published' = [published EXCEPT ![k].decision = decided[k]]
  /\ UNCHANGED <<clock, committed, decided>>

Progress ==
  \/ Wait
  \/ \E k \in Keys :
       CommitRequest(k) \/ CommitDecision(k) \/ PublishRequest(k) \/ PublishDecision(k)

Lifecycle == Start /\ [][Progress]_lifecycle
=============================================================================
