--------------------------- MODULE OperatorProofs ---------------------------
(***************************************************************************)
(* Proofs about Operator, for any numbers of objects of both kinds and any *)
(* bound on the events.  Each controller behaves in the operator as in its *)
(* own module, so what is proved there holds here; what remains is what    *)
(* passes between the two.                                                 *)
(***************************************************************************)
EXTENDS Operator, ClusterPrerequisitesProofs

(* The theorems about TargetCluster apply.                                 *)
LEMMA TargetClusters == TCs!TargetClusterAssumption
BY OperatorAssumption, ClusterPrerequisitesAssumption DEF TCs!TargetClusterAssumption

-----------------------------------------------------------------------------
(* The operator runs a TargetCluster controller.                           *)

(* The ClusterPrerequisites controller and its users write neither          *)
(* TargetClusters nor the Secrets with kubeconfigs.                         *)
LEMMA TheirsKept ==
    ASSUME UserOrFailure \/ Informer \/ ProceedOrFail
           \/ \E n \in Names : Begin(n) \/ Skip(n)
    PROVE  UNCHANGED <<tcs, secret>>
<1>1. ASSUME NEW k, Component(k) \/ FailComponent(k)
      PROVE  UNCHANGED <<tcs, secret>>
  BY <1>1 DEF Component, FailComponent, Settle, Reject, Refuse, StartRelease, FinishRelease,
     Success, Report, world
<1>2. ASSUME ProceedOrFail
      PROVE  UNCHANGED <<tcs, secret>>
  BY <1>1, <1>2 DEF ProceedOrFail, Proceed, GetTargetCluster, resolveTargetKubeconfig,
     LoadCredentials, Write, world
<1>3. ASSUME UserOrFailure
      PROVE  UNCHANGED <<tcs, secret>>
  BY <1>1, <1>3 DEF UserOrFailure, User, Fail, FailSecret, FailGet, SetCredentials, Publisher,
     Administrator, world
<1> QED
  BY <1>2, <1>3 DEF Informer, DeliverEvent, FireTimer, ResyncAll, Begin, Skip, world

LEMMA TargetClusterSteps ==
    ASSUME [OperatorNext]_operatorVars
    PROVE  [TCs!Next]_TCs!vars
<1>1. CASE UNCHANGED <<targetClusterOwn, secret>>
  BY <1>1 DEF targetClusterOwn, TCs!vars, TCs!runtime, TCs!local, TCs!world
<1>2. CASE PrerequisitesStep(Informer \/ ProceedOrFail \/ \E n \in Names : Begin(n) \/ Skip(n))
  BY <1>1, <1>2, TheirsKept DEF PrerequisitesStep
<1>3. CASE UserOrFailure /\ UNCHANGED targetClusterOwn
  BY <1>1, <1>3, TheirsKept
<1>4. CASE TargetClusterStep(TCs!System)
  BY <1>4 DEF TargetClusterStep, TCs!Next
<1>5. CASE TargetClusterUserOrFailure
  BY <1>5 DEF TargetClusterUserOrFailure, TCs!Next, TCs!Environment
<1>6. CASE RestartOperator
  BY <1>6 DEF RestartOperator, TCs!Next, TCs!Environment
<1> QED
  BY <1>1, <1>2, <1>3, <1>4, <1>5, <1>6
     DEF OperatorNext, OperatorSystem, OperatorEnvironment, operatorVars, vars, world

(* The operator is a TargetCluster controller: nothing the other one does  *)
(* disturbs it.                                                            *)
THEOREM RunsTargetClusters == OperatorSpec => TCs!Spec
<1>1. OperatorInit => TCs!Init
  BY DEF OperatorInit
<1> QED  BY <1>1, TargetClusterSteps, PTL DEF OperatorSpec, TCs!Spec

-----------------------------------------------------------------------------
(* The operator runs a ClusterPrerequisites controller.                    *)

(* What each controller takes for granted of the other.                    *)
TargetsInv == TCs!IInv /\ TCs!AllHeardOf

SharedOK == tcs = Shared(tcCache)

LEMMA TargetsHold == OperatorSpec => []TargetsInv
<1>1. TCs!Spec => []TCs!IInv
  BY TCs!Inductive, TargetClusters
<1>2. TCs!Spec => []TCs!AllHeardOf
  BY TCs!VersionsAreHeardOf, TargetClusters
<1> QED  BY <1>1, <1>2, RunsTargetClusters, PTL DEF TargetsInv

(* Every form its controller may give a TargetCluster is one that          *)
(* ClusterPrerequisites allows for: a ready one has a version.             *)
LEMMA ViewTypes ==
    ASSUME NEW o \in TCs!ObjectSet(TCs!TargetClusterStatus), TCs!HeardOf(o.status),
           held \in [SecretNames -> SUBSET Clusters]
    PROVE  View(o) \in Views
<1>1. CASE ~o.exists
  BY <1>1, OperatorAssumption DEF View, TargetView
<1>2. CASE o.exists
  <2>1. o \in [exists: {TRUE}, gen: 1..MaxGen, spec: TCs!TargetClusterSpec,
               status: TCs!TargetClusterStatus]
    BY <1>2, TargetClusters, TCs!ExistsType
  <2>2. o.spec \in TCs!TargetClusterSpec /\ o.status \in TCs!TargetClusterStatus
    BY <2>1
  <2>3. /\ o.spec.byo \in SecretNames \cup {None}
        /\ o.status.ready \in BOOLEAN
        /\ o.status.version \in Clusters \cup {None}
    BY <2>2 DEF TCs!TargetClusterSpec, TCs!TargetClusterStatus
  <2>4. o.status.ready => o.status.version # None
    BY ClusterPrerequisitesAssumption DEF TCs!HeardOf
  <2> QED  BY <1>2, <2>3, <2>4, OperatorAssumption DEF View, TargetView
<1> QED  BY <1>1, <1>2

LEMMA SharedTypes == TargetsInv => Shared(tcCache) \in [Targets -> Views]
<1> SUFFICES ASSUME TargetsInv PROVE Shared(tcCache) \in [Targets -> Views]
  OBVIOUS
<1>1. /\ tcCache \in [Targets -> TCs!ObjectSet(TCs!TargetClusterStatus)]
      /\ held \in [SecretNames -> SUBSET Clusters]
  BY DEF TargetsInv, TCs!IInv, TCs!TypeOK, TCs!RuntimeTypeOK
<1>2. \A t \in Targets : TCs!HeardOf(tcCache[t].status)
  BY DEF TargetsInv, TCs!AllHeardOf
<1> QED  BY <1>1, <1>2, ViewTypes DEF Shared

(* The cache changes one TargetCluster at a time, until a restart.         *)
LEMMA TargetCacheStep ==
    ASSUME TCs!System \/ TargetClusterUserOrFailure, TargetsInv
    PROVE  tcCache' = tcCache \/ \E t \in Targets : tcCache' = [tcCache EXCEPT ![t] = tcObj[t]]
<1>1. \A t \in Targets : TCs!DeliverEvent(t) => tcCache' = [tcCache EXCEPT ![t] = tcObj[t]]
  BY DEF TCs!DeliverEvent, TCs!Deliver
<1>2. TCs!ResyncAll \/ (\E t \in Targets : TCs!FireTimer(t)) => tcCache' = tcCache
  BY DEF TCs!FireTimer, TCs!TimerFires, TCs!ResyncAll, TCs!Resync
<1>3. TCs!Reconcile => tcCache' = tcCache
  BY DEF TCs!Reconcile, TCs!Proceed, TCs!ReadSecret, TCs!ProbeVersion, TCs!ListNodes,
     TCs!Write, TCs!WriteStatus, TCs!Abandon, TCs!Begin, TCs!Skip, TCs!Take, TCs!TakeDeleted,
     TCs!runtime
<1>4. TargetClusterUserOrFailure => tcCache' = tcCache
  BY DEF TargetClusterUserOrFailure, TCs!User, TCs!UserAction, TCs!Create, TCs!EditSpec,
     TCs!Delete, TCs!Store, TCs!Fail, TCs!WriteStatus, TCs!Abandon, TCs!FailGet,
     TCs!TakeFails, TCs!SetSecret, TCs!Outage, TCs!runtime
<1> QED  BY <1>1, <1>2, <1>3, <1>4 DEF TCs!System, TCs!Informer

(* What is shared is what the cache has, also when both controllers restart. *)
LEMMA SharedStep ==
    ASSUME SharedOK, [OperatorNext]_operatorVars
    PROVE  SharedOK'
<1>1. CASE UNCHANGED <<tcs, targetClusterOwn>>
  BY <1>1 DEF SharedOK, targetClusterOwn, Shared
<1>2. CASE tcs' = Shared(tcCache')
  BY <1>2 DEF SharedOK, Shared
<1> QED
  BY <1>1, <1>2, TheirsKept
     DEF OperatorNext, OperatorSystem, OperatorEnvironment, operatorVars, vars, world,
         PrerequisitesStep, TargetClusterStep, RestartOperator

(* A step of the other controller is, to this one, a change of one view.   *)
LEMMA ViewStep ==
    ASSUME SharedOK, TargetsInv, TargetsInv', tcs' = Shared(tcCache'),
           TCs!System \/ TargetClusterUserOrFailure
    PROVE  \/ UNCHANGED tcs
           \/ \E t \in Targets : \E v \in Views \ {tcs[t]} : tcs' = [tcs EXCEPT ![t] = v]
<1>1. tcCache \in [Targets -> TCs!ObjectSet(TCs!TargetClusterStatus)]
  BY DEF TargetsInv, TCs!IInv, TCs!TypeOK, TCs!RuntimeTypeOK
<1>2. tcs \in [Targets -> Views]
  BY SharedTypes DEF SharedOK
<1>3. tcs' \in [Targets -> Views]
  <2>1. (TargetsInv => Shared(tcCache) \in [Targets -> Views])'
    BY SharedTypes, PTL
  <2> QED  BY <2>1 DEF Shared
<1>4. CASE tcCache' = tcCache
  BY <1>4 DEF SharedOK
<1>5. ASSUME NEW t \in Targets, tcCache' = [tcCache EXCEPT ![t] = tcObj[t]], tcs' # tcs
      PROVE  \E v \in Views \ {tcs[t]} : tcs' = [tcs EXCEPT ![t] = v]
  <2>1. \A u \in Targets \ {t} : tcs'[u] = tcs[u]
    BY <1>1, <1>5 DEF SharedOK, Shared
  <2>2. tcs' = [tcs EXCEPT ![t] = tcs'[t]]
    BY <1>2, <1>3, <2>1
  <2>3. tcs'[t] \in Views \ {tcs[t]}
    BY <1>2, <1>3, <1>5, <2>2
  <2> QED  BY <2>2, <2>3
<1> QED  BY <1>4, <1>5, TargetCacheStep

(* Helm failing at a cluster that does not answer is a component that      *)
(* fails.                                                                  *)
LEMMA ProceedOrFailSteps == ASSUME ProceedOrFail PROVE Next
<1>1. CASE Cut
  BY <1>1 DEF ProceedOrFail, Cut, Next, Environment, Failure
<1>2. CASE ~Cut
  BY <1>2 DEF ProceedOrFail, Next, System, Reconcile
<1> QED  BY <1>1, <1>2

LEMMA PrerequisitesSteps ==
    ASSUME SharedOK, TargetsInv, TargetsInv', [OperatorNext]_operatorVars
    PROVE  [Next]_vars
<1>1. CASE PrerequisitesStep(Informer \/ ProceedOrFail \/ \E n \in Names : Begin(n) \/ Skip(n))
  BY <1>1, ProceedOrFailSteps DEF PrerequisitesStep, Next, System, Reconcile
<1>2. CASE UserOrFailure
  BY <1>2 DEF UserOrFailure, Next, Environment, Failure
<1>3. CASE RestartOperator
  BY <1>3 DEF RestartOperator, Next, Environment, Failure
<1>4. CASE UNCHANGED operatorVars
  BY <1>4 DEF operatorVars
<1>5. ASSUME TCs!System \/ TargetClusterUserOrFailure, tcs' = Shared(tcCache'),
             UNCHANGED prerequisitesOwn
      PROVE  [Next]_vars
  <2>1. CASE UNCHANGED secret
    BY <1>5, <2>1, ViewStep
       DEF prerequisitesOwn, vars, world, Next, Environment, ChangeTarget
  <2>2. ASSUME NEW s \in SecretNames, TCs!SetSecret(s), secret'[s] \in Kubeconfigs
        PROVE  [Next]_vars
    <3>1. UNCHANGED tcs
      BY <1>5, <2>2 DEF TCs!SetSecret, TCs!runtime, SharedOK
    <3>2. secret \in [SecretNames -> TCs!SecretData]
      BY DEF TargetsInv, TCs!IInv, TCs!TypeOK
    <3>3. PICK d \in TCs!SecretData \ {secret[s]} : secret' = [secret EXCEPT ![s] = d]
      BY <2>2 DEF TCs!SetSecret
    <3>4. d \in Kubeconfigs \ {secret[s]}
      BY <2>2, <3>2, <3>3
    <3>5. SetSecret(s)
      BY <1>5, <3>1, <3>3, <3>4 DEF SetSecret, prerequisitesOwn
    <3> QED  BY <3>5 DEF Next, Environment
  <2>3. TCs!System => UNCHANGED secret
    BY DEF TCs!System, TCs!Informer, TCs!DeliverEvent, TCs!FireTimer, TCs!ResyncAll,
       TCs!Reconcile, TCs!Proceed, TCs!ReadSecret, TCs!ProbeVersion, TCs!ListNodes,
       TCs!Write, TCs!Begin, TCs!Skip, TCs!world
  <2>4. ASSUME TCs!User \/ TCs!Fail \/ (\E t \in Targets : TCs!FailGet(t))
               \/ (\E c \in Clusters : TCs!Outage(c))
        PROVE  UNCHANGED secret
    BY <2>4 DEF TCs!User, TCs!Fail, TCs!FailGet, TCs!Outage, TCs!world
  <2> QED  BY <1>5, <2>1, <2>2, <2>3, <2>4 DEF TargetClusterUserOrFailure
<1> QED
  BY <1>1, <1>2, <1>3, <1>4, <1>5
     DEF OperatorNext, OperatorSystem, OperatorEnvironment, TargetClusterStep

(* The operator is a ClusterPrerequisites controller: the TargetClusters   *)
(* it finds change as that module allows, whatever the other controller,   *)
(* its users, its failures and the clusters do.                            *)
THEOREM RunsClusterPrerequisites == OperatorSpec => Spec
<1>1. OperatorInit => Init /\ SharedOK
  BY DEF OperatorInit, SharedOK
<1>2. SharedOK /\ [OperatorNext]_operatorVars => SharedOK'
  BY SharedStep
<1>3. SharedOK /\ TargetsInv /\ TargetsInv' /\ [OperatorNext]_operatorVars => [Next]_vars
  BY PrerequisitesSteps
<1> QED  BY <1>1, <1>2, <1>3, TargetsHold, PTL DEF OperatorSpec, Spec

-----------------------------------------------------------------------------
(* What the operator promises as a whole.                                  *)

(* While a reconcile may still act on the version it has read, that is one *)
(* some Secret has led to.                                                 *)
VersionOK ==
    step \in {"kubeconfig", "credentials", "certManager", "ingress"} =>
        \E s \in SecretNames : tc.version \in held[s]

LEMMA VersionStep ==
    ASSUME IInv, TargetsInv, SharedOK, VersionOK, [OperatorNext]_operatorVars, [Next]_vars,
           [TCs!Next]_TCs!vars
    PROVE  VersionOK'
<1>1. \A s \in SecretNames : held[s] \subseteq held'[s]
  <2>1. TCs!TypeOK
    BY DEF TargetsInv, TCs!IInv
  <2> QED  BY <2>1, TargetClusters, TCs!HeldGrows
<1>2. CASE UNCHANGED tc
           /\ (step \in {"kubeconfig", "credentials", "certManager", "ingress"}
               \/ step' \in {"idle", "target", "write"} \/ UNCHANGED step)
  BY <1>1, <1>2 DEF VersionOK
<1>3. CASE GetTargetCluster
  <2>1. copy.spec.target \in Targets
    <3>1. copy.spec \in PrerequisitesSpec
      BY <1>3, WorkerCopy DEF IInv, GetTargetCluster
    <3> QED  BY <3>1 DEF PrerequisitesSpec
  <2> DEFINE o == tcCache[copy.spec.target]
  <2>2. tcs[copy.spec.target] = View(o)
    BY <2>1 DEF SharedOK, Shared
  <2>3. CASE step' = "kubeconfig"
    <3>1. tcs[copy.spec.target].ready /\ tc' = View(o)
      BY <1>3, <2>2, <2>3 DEF GetTargetCluster, GiveUp
    <3>2. o.status.ready /\ tc'.version = o.status.version
      BY <2>2, <3>1 DEF View, NoTarget
    <3>3. PICK s \in SecretNames : o.status.version \in held[s]
      BY <2>1, <3>2 DEF TargetsInv, TCs!AllHeardOf, TCs!HeardOf
    <3>4. tc'.version \in held'[s]
      BY <1>1, <3>2, <3>3
    <3> QED  BY <3>4 DEF VersionOK
  <2> QED  BY <1>3, <2>3 DEF GetTargetCluster, GiveUp, VersionOK
<1>4. ASSUME NEW k \in HelmComponents, Component(k) \/ FailComponent(k)
      PROVE  VersionOK'
  <2>1. step \in HelmComponents /\ UNCHANGED tc
    BY <1>4, ComponentSteps DEF IInv, StartRelease, Report
  <2> QED  BY <1>2, <2>1 DEF HelmComponents
<1>5. CASE Write \/ Fail \/ Restart
  <2>1. step' = "idle"
    BY <1>5 DEF Write, Fail, Restart, Rest
  <2> QED  BY <2>1 DEF VersionOK
<1>6. CASE resolveTargetKubeconfig \/ LoadCredentials \/ FailSecret
  BY <1>2, <1>6 DEF resolveTargetKubeconfig, LoadCredentials, FailSecret, GiveUp
<1>7. ASSUME NEW n \in Names, Begin(n)
      PROVE  VersionOK'
  BY <1>7 DEF Begin, VersionOK
<1>8. CASE UNCHANGED local
  BY <1>2, <1>8 DEF local
<1> QED
  BY <1>3, <1>4, <1>5, <1>6, <1>7, <1>8
     DEF Next, System, Reconcile, Proceed, Informer, DeliverEvent, FireTimer, ResyncAll, Skip,
         Environment, Failure, FailGet, User, ChangeTarget, SetSecret, SetCredentials, Publisher,
         Administrator, HelmComponents, vars

(* Helm installs an ingress controller beside one the cluster ships only   *)
(* when the kubeconfig has come to lead to another cluster than the one    *)
(* whose version decided; that one was reached and ships none.             *)
THEOREM AutoSkips == OperatorSpec => []AutoSkipsUnlessMoved
<1>1. OperatorInit => VersionOK /\ SharedOK
  BY DEF OperatorInit, Init, VersionOK, SharedOK
<1>2. IInv /\ TargetsInv /\ SharedOK /\ VersionOK /\ [OperatorNext]_operatorVars
      /\ [Next]_vars /\ [TCs!Next]_TCs!vars => VersionOK'
  BY VersionStep
<1>3. SharedOK /\ [OperatorNext]_operatorVars => SharedOK'
  BY SharedStep
<1>4. IInv /\ VersionOK => AutoSkipsUnlessMoved
  <2> SUFFICES ASSUME IInv, VersionOK, Duplicates
               PROVE  /\ tc.version \notin Bundled
                      /\ \E s \in SecretNames : tc.version \in held[s]
    BY DEF AutoSkipsUnlessMoved
  <2>1. NoInstallation("ingress") = {}
    BY DEF IInv, StepOK, Duplicates, NeedsHelm
  <2>2. copy.spec.ingress = "auto"
    BY DEF Duplicates
  <2>3. tc.version \notin Bundled
    BY <2>1, <2>2 DEF NoInstallation, hasBundledTraefik
  <2> QED  BY <2>3 DEF VersionOK, Duplicates
<1> QED
  BY <1>1, <1>2, <1>3, <1>4, TargetsHold, Inductive, RunsClusterPrerequisites,
     RunsTargetClusters, PTL DEF OperatorSpec, Spec, TCs!Spec

(* Together the two controllers keep what each promises alone: a status    *)
(* that claims to have observed a spec fits it, the versions it reports    *)
(* are those of Helm's records, and no object of either kind is forgotten. *)
THEOREM BothKeepPromises ==
    OperatorSpec => [](/\ StatusFitsSpec /\ ReportsWhatHelmDid /\ NeverForgotten
                       /\ TCs!StatusFitsSpec /\ TCs!NeverForgotten)
<1>1. TCs!Spec => []TCs!StatusFitsSpec
  BY TCs!StatusIsOfThisSpec, TargetClusters
<1>2. TCs!Spec => []TCs!NeverForgotten
  BY TCs!NoneForgotten, TargetClusters
<1> QED
  BY <1>1, <1>2, StatusIsOfThisSpec, VersionsAreHelms, NoneForgotten,
     RunsClusterPrerequisites, RunsTargetClusters, PTL

(* To the users of the API both controllers are atomic, and to Helm's      *)
(* releases the operator is one caller that does one thing at a time.      *)
THEOREM BothImplementContracts ==
    OperatorSpec => ImplementsContract /\ ImplementsInstallation /\ TCs!ImplementsContract
<1>1. TCs!Spec => TCs!ImplementsContract
  BY TCs!Refinement, TargetClusters
<1> QED
  BY <1>1, Refinement, InstallsAlone, RunsClusterPrerequisites, RunsTargetClusters
=============================================================================
