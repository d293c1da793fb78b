----------------------------- MODULE ApiInstances -----------------------------
(***************************************************************************)
(* The serverless entry point (api/index.ts), the start-up of the API that *)
(* it keeps for later calls (createRuntimeApp, backend/src/api/server.ts), *)
(* and the policy that every start-up saves (savePolicy of                 *)
(* supabaseEvidenceStore.ts).  An instance handles several calls at a      *)
(* time; all of them await the one start-up that the first began.          *)
(*                                                                         *)
(* The policy id is fixed in the code, so the table has one row that       *)
(* matters; a policy is its hash, which leaves the signature out.          *)
(* Instances of an older and a newer deployment may run side by side.      *)
(***************************************************************************)
EXTENDS Integers

CONSTANTS
  Instances,      \* the function instances
  Calls,          \* calls to the API; a call's slot is used again
  Deployments,    \* which policy each instance may have been deployed with
  Misconfigured,  \* instances whose configuration names another chain, key or owner
  Prerequisites,  \* what the operator provides: the contract, test ETH
  MaxFaults,      \* bound: failed requests to the database or the node
  None            \* absent

ASSUME MisconfiguredAssumption == Misconfigured \subseteq Instances
ASSUME FaultsAssumption == MaxFaults \in Nat
ASSUME InstanceNoneAssumption == None \notin Instances /\ \A d \in Deployments, i \in Instances : d[i] # None

VARIABLES
  policyOf,  \* the policy of each instance's configuration
  policy,    \* policies: the stored policy, or None
  runtime,   \* `runtime': no promise, how far it has come, or the app
  missing,   \* prerequisites that are missing
  faults,    \* failed requests so far
  call       \* where a call is handled and how far it is

apiVars == <<policyOf, policy, runtime, missing, faults, call>>

Free == [stage |-> "free", at |-> None]
Answer == [stage |-> "answered", at |-> None]
CallStages == {"free", "reading", "waiting", "answered"}
RuntimeStages == {"none", "checking", "readingPolicy", "insertingPolicy", "app"}

ApiInit ==
  /\ policyOf \in Deployments
  /\ policy = None
  /\ runtime = [i \in Instances |-> "none"]
  /\ missing = Prerequisites
  /\ faults = 0
  /\ call = [k \in Calls |-> Free]

RuntimeBecomes(i, stage) == runtime' = [runtime EXCEPT ![i] = stage]

\* The handler: the first call of an instance begins its start-up.
Arrive(k, i) ==
  /\ call' = [call EXCEPT ![k] = [stage |-> "waiting", at |-> i]]
  /\ RuntimeBecomes(i, IF runtime[i] = "none" THEN "checking" ELSE runtime[i])
  /\ UNCHANGED <<policyOf, policy, missing, faults>>

\* Every call that awaits the start-up is answered with 503.
Refuse(i) ==
  call' = [k \in Calls |->
             IF call[k].stage = "waiting" /\ call[k].at = i THEN Answer
             ELSE call[k]]

\* (mutant) The promise that was rejected stays.
Rejected == "rejected"

\* What the handler leaves in `runtime' when the start-up fails.
Forgotten == "none"

StartFails(i) == RuntimeBecomes(i, Forgotten) /\ Refuse(i)

\* The chain id, the four keys, the contract, its owner and the writer's gas.
Check(i) ==
  /\ runtime[i] = "checking"
  /\ IF i \in Misconfigured \/ missing # {} THEN StartFails(i)
     ELSE RuntimeBecomes(i, "readingPolicy") /\ UNCHANGED call
  /\ UNCHANGED <<policyOf, policy, missing, faults>>

SamePolicy(i) == policy = policyOf[i]

\* savePolicy: a stored policy is compared, never replaced.
ReadPolicy(i) ==
  /\ runtime[i] = "readingPolicy"
  /\ \/ policy = None /\ RuntimeBecomes(i, "insertingPolicy") /\ UNCHANGED call
     \/ policy # None /\ SamePolicy(i) /\ RuntimeBecomes(i, "app") /\ UNCHANGED call
     \/ policy # None /\ ~SamePolicy(i) /\ StartFails(i)
  /\ UNCHANGED <<policyOf, policy, missing, faults>>

\* (mutant) savePolicy upserts, as saveDecision does.
UpsertPolicy(i) ==
  /\ runtime[i] = "insertingPolicy"
  /\ policy' = policyOf[i]
  /\ RuntimeBecomes(i, "app")
  /\ UNCHANGED <<policyOf, missing, faults, call>>

\* The primary key refuses a second row, also one with the same policy.
InsertPolicy(i) ==
  /\ runtime[i] = "insertingPolicy"
  /\ \/ /\ policy = None
        /\ policy' = policyOf[i]
        /\ RuntimeBecomes(i, "app")
        /\ UNCHANGED call
     \/ policy # None /\ StartFails(i) /\ UNCHANGED policy
  /\ UNCHANGED <<policyOf, missing, faults>>

\* A request to the node or the database fails or times out; the insert of a
\* request that timed out may have been applied.
StartFault(i) ==
  /\ runtime[i] \notin {"none", "app"} /\ faults < MaxFaults
  /\ faults' = faults + 1
  /\ policy' \in {policy, IF runtime[i] = "insertingPolicy" /\ policy = None THEN policyOf[i] ELSE policy}
  /\ StartFails(i)
  /\ UNCHANGED <<policyOf, missing>>

\* The platform stops an instance; its calls are cut off.
Recycle(i) ==
  /\ runtime[i] # "none" /\ faults < MaxFaults
  /\ faults' = faults + 1
  /\ RuntimeBecomes(i, "none")
  /\ Refuse(i)
  /\ UNCHANGED <<policyOf, policy, missing>>

\* `await runtime' is over and the app has the call.
Serve(k) ==
  /\ call[k].stage = "waiting" /\ runtime[call[k].at] = "app"
  /\ call' = [call EXCEPT ![k] = Answer]
  /\ UNCHANGED <<policyOf, policy, runtime, missing, faults>>

\* The operator deploys the contract or funds the writer.
Provide(x) ==
  /\ x \in missing
  /\ missing' = missing \ {x}
  /\ UNCHANGED <<policyOf, policy, runtime, faults, call>>

StartStep(i) == Check(i) \/ ReadPolicy(i) \/ InsertPolicy(i)

ApiStep ==
  \/ \E i \in Instances : StartStep(i) \/ StartFault(i) \/ Recycle(i)
  \/ \E k \in Calls : Serve(k)
  \/ \E x \in Prerequisites : Provide(x)

-----------------------------------------------------------------------------
\* An instance serves calls only with the policy that is stored, whatever other
\* instances of its own or of another deployment started at the same time: the
\* requests that its agent signs name the policy the gateway will find.
ServedPolicyIsStored ==
  \A i \in Instances : runtime[i] = "app" => policy = policyOf[i]

Awaited(i) == \E k \in Calls : call[k].stage = "waiting" /\ call[k].at = i

\* A start-up that failed, because it lost the race for the policy, for want of the
\* contract or of gas, or by an error, is not kept: an instance that is called again
\* and again gets its app, unless its deployment has another policy than the stored
\* one or the operator provides nothing.
StartIsRetried ==
  \A i \in Instances \ Misconfigured :
    []<>Awaited(i) =>
      []<>(runtime[i] = "app" \/ policy \notin {None, policyOf[i]} \/ missing # {})
=============================================================================
