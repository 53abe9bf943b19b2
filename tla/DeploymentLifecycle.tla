------------------------ MODULE DeploymentLifecycle ------------------------
(***************************************************************************)
(* The documented life of a deployment: one chain of states for a normal   *)
(* deployment and one for a rollback, no jumps, no replays and no way back *)
(* (docs/PHASE_1D_F_CONTROLLED_DEPLOYMENT.md).                             *)
(***************************************************************************)
CONSTANTS Deployments

VARIABLES
    kind,   \* "deploy" or "rollback", chosen when the intent is created
    state   \* the present state, "none" before the intent is created

Preparation == {<<"INTENT_CREATED", "ARTIFACT_RECORDED">>,
                <<"ARTIFACT_RECORDED", "STAGING_DEPLOYING">>,
                <<"STAGING_DEPLOYING", "STAGING_VALIDATED">>,
                <<"STAGING_DEPLOYING", "STAGING_FAILED">>}

DeployChain == Preparation \cup
    {<<"STAGING_VALIDATED", "PRODUCTION_APPROVAL_PENDING">>,
     <<"PRODUCTION_APPROVAL_PENDING", "PRODUCTION_DEPLOYING">>,
     <<"PRODUCTION_DEPLOYING", "PRODUCTION_HEALTHY">>,
     <<"PRODUCTION_DEPLOYING", "PRODUCTION_FAILED">>}

RollbackChain == Preparation \cup
    {<<"STAGING_VALIDATED", "ROLLBACK_APPROVAL_PENDING">>,
     <<"ROLLBACK_APPROVAL_PENDING", "ROLLBACK_DEPLOYING">>,
     <<"ROLLBACK_DEPLOYING", "ROLLED_BACK">>,
     <<"ROLLBACK_DEPLOYING", "ROLLBACK_FAILED">>}

Chain(k) == IF k = "deploy" THEN DeployChain ELSE RollbackChain

Init ==
    /\ kind = [d \in Deployments |-> "none"]
    /\ state = [d \in Deployments |-> "none"]

Create(d, k) ==
    /\ state[d] = "none"
    /\ kind' = [kind EXCEPT ![d] = k]
    /\ state' = [state EXCEPT ![d] = "INTENT_CREATED"]

Advance(d) ==
    /\ <<state[d], state'[d]>> \in Chain(kind[d])
    /\ state' = [state EXCEPT ![d] = state'[d]]
    /\ UNCHANGED kind

Next ==
    \E d \in Deployments :
        Advance(d) \/ \E k \in {"deploy", "rollback"} : Create(d, k)

Spec == Init /\ [][Next]_<<kind, state>>
=============================================================================
