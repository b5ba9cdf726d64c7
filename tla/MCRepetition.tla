----------------------------- MODULE MCRepetition -----------------------------
(***************************************************************************)
(* What operators complete by repeating it: apply and purge of the EC2     *)
(* lifecycle, and the claims of the deployment store.  The two share no    *)
(* state: a behaviour is one of one component, named by live, and the      *)
(* other stays as it began.                                                *)
(***************************************************************************)
EXTENDS Ec2Lifecycle

CONSTANTS Ids, Targets, Instances   \* as in DeploymentStore

VARIABLES records, owner, connectorOwner, claims, calls,   \* the deployment store
          live

Store == INSTANCE DeploymentStore

storeVars == <<records, owner, connectorOwner, claims, calls>>
allVars   == <<live, vars, storeVars>>

BothInit ==
    /\ live \in {"lifecycle", "store"} /\ Init /\ Store!Init
    \* One beginning of a component that is not explored is enough.
    /\ live = "lifecycle" => owner = [t \in Targets |-> None]
    /\ live = "store" => cloud.dns = "none" /\ cloud.key = "none"

\* What a step of each component leaves alone.
Lifecycle == live = "lifecycle" /\ UNCHANGED <<live, storeVars>>
Claiming  == live = "store" /\ UNCHANGED <<live, vars>>

BothNext == \/ Lifecycle /\ Next
            \/ Claiming /\ Store!Next

\* That of FairSpec in each module, where its component is the one explored.
Fairness ==
    /\ WF_allVars(Step /\ Lifecycle) /\ SF_allVars(ApplyCall /\ Lifecycle)
    /\ WF_allVars(DestroyCall /\ Lifecycle) /\ WF_allVars(PurgeCall /\ Lifecycle)
    /\ \A p \in Procs :
           WF_allVars((Store!ClaimRecord(p) \/ Store!ClaimOwner(p) \/ Store!ConvergeClaim(p))
                          /\ Claiming)
    /\ \A i \in Ids : /\ SF_allVars(Store!Replay(i) /\ Claiming)
                      /\ SF_allVars(Store!ReplayRecord(i) /\ Claiming)
    /\ \A c \in Instances : /\ SF_allVars(Store!ReplayConnector(c) /\ Claiming)
                            /\ SF_allVars(Store!ReplayClaim(c) /\ Claiming)

FairBoth == BothInit /\ [][BothNext]_allVars /\ Fairness

\* workflow.rs: repeating apply reaches Verified, where the lifecycle is the component
\* explored.
RepeatedApplyConverges == live = "lifecycle" => ApplyConverges

\* deployment.rs: repeating a claim that was cut short between its two files completes it.
InterruptedClaimsComplete == Store!InterruptedClaimsComplete
===============================================================================
