------------------------------- MODULE Operator -------------------------------
(***************************************************************************)
(* The operator (cmd/main.go): both controllers in one process, over one   *)
(* API server.  The actions are those of the modules ClusterPrerequisites  *)
(* and TargetCluster.  What joins them is the informer cache of            *)
(* TargetClusters, whose status one controller writes and the other reads, *)
(* the kubeconfig Secrets, the clusters, and the process itself.           *)
(***************************************************************************)
EXTENDS ClusterPrerequisites

CONSTANTS
    Types,     \* as in TargetCluster
    MaxEvents  \* bound on what users, clusters and failures do

(* A TargetCluster may be found in any form its controller gives it.       *)
ASSUME OperatorAssumption ==
    /\ None \notin Targets
    /\ "byo" \in Types
    /\ Views = TargetView

VARIABLES
    tcObj, tcCache, tcFresh, tcQueue, tcActive, tcCopy,  \* those of TargetCluster,
    tcStep, tcTarget, tcOutcome, held, up,               \* but for secret
    events                                               \* what they have done so far

(* TargetCluster, with the theorems about it.                              *)
TCs == INSTANCE TargetClusterProofs WITH
    Names <- Targets, obj <- tcObj, cache <- tcCache, fresh <- tcFresh,
    queue <- tcQueue, active <- tcActive, copy <- tcCopy, step <- tcStep,
    target <- tcTarget, outcome <- tcOutcome, LeaderElection <- TRUE

targetClusterOwn == <<tcObj, tcCache, tcFresh, tcQueue, tcActive, tcCopy,
                      tcStep, tcTarget, tcOutcome, held, up>>
prerequisitesOwn == <<runtime, local, credentials, registry, release, applied>>
operatorVars == <<vars, targetClusterOwn, events>>

(* What the ClusterPrerequisites controller makes of a TargetCluster.      *)
View(o) ==
    IF o.exists
    THEN [exists |-> TRUE, ready |-> o.status.ready, version |-> o.status.version,
          byo |-> IF o.spec.type = "byo" THEN o.spec.byo ELSE None]
    ELSE NoTarget

Shared(objects) == [t \in Targets |-> View(objects[t])]

(* It is started in a cluster that has its objects and credentials.        *)
OperatorInit ==
    /\ Init
    /\ TCs!Init
    /\ \A n \in Names : obj[n].exists
    /\ \A t \in Targets : tcObj[t].exists
    /\ tcs = Shared(tcCache)
    /\ credentials = CredsNames
    /\ events = 0

-----------------------------------------------------------------------------
(* Helm asks something of a cluster that does not answer.                  *)
Cut ==
    /\ step \in {"certManager", "ingress"}
    /\ NeedsHelm(step)
    /\ cluster \in Clusters \ up

ProceedOrFail == IF Cut THEN FailComponent(step) ELSE Proceed

PrerequisitesStep(A) == A /\ UNCHANGED <<targetClusterOwn, events>>

TargetClusterStep(A) == A /\ tcs' = Shared(tcCache') /\ UNCHANGED <<prerequisitesOwn, events>>

OperatorSystem ==
    \/ PrerequisitesStep(Informer \/ ProceedOrFail \/ \E n \in Names : Begin(n) \/ Skip(n))
    \/ TargetClusterStep(TCs!System)

(* Both controllers die together.                                          *)
RestartOperator ==
    /\ TCs!Restart
    /\ Restart
    /\ tcs' = Shared(tcCache')

UserOrFailure ==
    \/ User \/ Fail \/ FailSecret \/ Publisher
    \/ \E k \in {"certManager", "ingress"} : FailComponent(k)
    \/ \E n \in Names : FailGet(n)
    \/ \E s \in CredsNames : SetCredentials(s)
    \/ \E r \in Clusters \X {"certManager", "ingress"} : Administrator(r)

TargetClusterUserOrFailure ==
    \/ TCs!User \/ TCs!Fail
    \/ \E t \in Targets : TCs!FailGet(t)
    \/ \E s \in SecretNames : TCs!SetSecret(s) /\ secret'[s] \in Kubeconfigs
    \/ \E c \in Clusters : TCs!Outage(c)

OperatorEnvironment ==
    /\ events < MaxEvents
    /\ events' = events + 1
    /\ \/ UserOrFailure /\ UNCHANGED targetClusterOwn
       \/ /\ TargetClusterUserOrFailure
          /\ tcs' = Shared(tcCache')
          /\ UNCHANGED prerequisitesOwn
       \/ RestartOperator

OperatorNext == OperatorSystem \/ OperatorEnvironment

(* As for each controller alone, the informers' resync included, without   *)
(* which a repaired kubeconfig is not noticed.                             *)
OperatorFairness ==
    /\ WF_operatorVars(PrerequisitesStep(ProceedOrFail))
    /\ \A n \in Names :
         /\ SF_operatorVars(PrerequisitesStep(Begin(n)))
         /\ SF_operatorVars(PrerequisitesStep(Skip(n)))
         /\ WF_operatorVars(PrerequisitesStep(DeliverEvent(n)))
         /\ WF_operatorVars(PrerequisitesStep(FireTimer(n)))
    /\ WF_operatorVars(TargetClusterStep(TCs!Proceed))
    /\ \A t \in Targets :
         /\ SF_operatorVars(TargetClusterStep(TCs!Begin(t)))
         /\ SF_operatorVars(TargetClusterStep(TCs!Skip(t)))
         /\ WF_operatorVars(TargetClusterStep(TCs!DeliverEvent(t)))
         /\ WF_operatorVars(TargetClusterStep(TCs!FireTimer(t)))
    /\ WF_operatorVars(TargetClusterStep(TCs!ResyncAll))

OperatorSpec == OperatorInit /\ [][OperatorNext]_operatorVars

FairOperatorSpec == OperatorSpec /\ OperatorFairness

-----------------------------------------------------------------------------
(* Helm is at work on the ingress controller of a cluster that ships one,  *)
(* though the object leaves it to the operator to find out.                *)
Duplicates ==
    /\ step = "ingress" /\ helm # "none"
    /\ copy.spec.ingress = "auto"
    /\ cluster \in Bundled

(* api/v1alpha1/clusterprerequisites_types.go:59 "IngressBundledModeAuto   *)
(* inspects the target cluster's Kubernetes version and skips installation *)
(* when it ends in "+k3s" or "+rke2".": so Helm never installs it there.   *)
AutoSkipsBundled == ~Duplicates

(* When it does, the version it went by is that of a cluster without one   *)
(* which a Secret has led to: the TargetCluster's status is then about     *)
(* another kubeconfig than the one read after it.  It never goes by the    *)
(* version of a cluster that was not reached, or by none.                  *)
AutoSkipsUnlessMoved ==
    Duplicates =>
        /\ tc.version \notin Bundled
        /\ \E s \in SecretNames : tc.version \in held[s]

(* In the end every status is accurate, from the clusters through the      *)
(* TargetClusters to the ClusterPrerequisites, which watch neither.        *)
OperatorConverges ==
    <>[](/\ \A t \in Targets : tcObj[t].exists => TCs!Accurate(tcObj[t])
         /\ tcs = Shared(tcObj)
         /\ \A n \in Names : obj[n].exists => Accurate(obj[n]))
=============================================================================
