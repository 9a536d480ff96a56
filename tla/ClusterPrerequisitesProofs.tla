--------------------- MODULE ClusterPrerequisitesProofs ---------------------
(***************************************************************************)
(* Proofs about ClusterPrerequisites, for any number of objects, targets,  *)
(* clusters, versions and generations, any specs, views and registries.    *)
(***************************************************************************)
EXTENDS ClusterPrerequisites, TLAPS

HelmComponents == {"certManager", "ingress"}

ComponentReasons == {"AllComponentsReady", "ComponentsNotReady"}

(* The worker has an object exactly while a reconcile is under way.        *)
WorkerOK == active = None <=> step = "idle"

(* What the steps of a reconcile have established, and what Helm is at     *)
(* work on.                                                                *)
StepOK ==
    /\ step \in HelmComponents /\ creds => copy.spec.creds # None
    /\ helm # "none" =>
          /\ step \in HelmComponents
          /\ NeedsHelm(step)
          /\ cluster \in Clusters
          /\ release[<<cluster, step>>].status = "pending"
          /\ release[<<cluster, step>>].by = "operator"

(* What Fits and Earned ask of the status of one Helm component, a being   *)
(* what has been applied.                                                  *)
CertManagerFits(spec, st, a) ==
    /\ st.skipped <=> spec.certManager = None
    /\ IsInstalled(st) =>
          /\ spec.creds # None
          /\ <<spec.target, "certManager", spec.certManager, st.version>> \in a

IngressFits(spec, st, a) ==
    /\ st.skipped /\ ~st.ready <=> spec.ingress = "skip"
    /\ st.skipped /\ st.ready => spec.ingress \in {"use", "auto"}
    /\ IsInstalled(st) =>
          /\ spec.ingress \in {"auto", "install"}
          /\ spec.creds # None
          /\ <<spec.target, "ingress", spec.traefik, st.version>> \in a

(* A verdict on an object with this spec and generation.                   *)
Verdict(spec, gen, st, a) ==
    /\ st.observedGeneration = gen
    /\ Fits(spec, st)
    /\ st.reason \in ComponentReasons =>
          /\ CertManagerFits(spec, st.components["certManager"], a)
          /\ IngressFits(spec, st.components["ingress"], a)

(* The status about to be written is a verdict on the copy.                *)
DraftOK ==
    /\ step = "ingress" =>
          CertManagerFits(copy.spec, draft.components["certManager"], applied)
    /\ step = "write" => Verdict(copy.spec, copy.gen, draft, applied)

(* A component the draft calls installed has the version of the release    *)
(* Helm made of it, unless that is gone.                                   *)
Held(k) ==
    IsInstalled(draft.components[k]) =>
        /\ cluster \in Clusters
        /\ \/ release[<<cluster, k>>].status = "absent"
           \/ /\ release[<<cluster, k>>].status \in {"deployed", "pending"}
              /\ release[<<cluster, k>>].version = draft.components[k].version

HeldOK ==
    /\ step = "ingress" => Held("certManager")
    /\ step = "write" /\ draft.reason \in ComponentReasons =>
          \A k \in HelmComponents : Held(k)

(* What ObservedOK and StatusFitsSpec ask of one object.                   *)
Good(o, a) ==
    o.exists =>
        /\ o.status.observedGeneration <= o.gen
        /\ o.status.observedGeneration = o.gen => Verdict(o.spec, o.gen, o.status, a)

(* No object has a status from a later generation than its own, and one    *)
(* from its own is a verdict on it.                                        *)
StatusesGood == \A n \in Names : Good(obj[n], applied)

(* StatusFitsSpec is not inductive: that a write which is not refused is a *)
(* verdict on the object as it is now follows from Sound, WorkerOK and     *)
(* DraftOK, and DraftOK from StepOK, which says under what conditions, and *)
(* with what credentials, the components of the copy came to be installed. *)
IInv ==
    /\ TypeOK
    /\ Sound(PrerequisitesStatus)
    /\ WorkerOK
    /\ StepOK
    /\ DraftOK
    /\ HeldOK
    /\ StatusesGood
    /\ NeverForgotten

-----------------------------------------------------------------------------
(* Types of statuses.                                                      *)

LEMMA NoStatusType == NoStatus \in PrerequisitesStatus
<1>1. NotInstalled \in ComponentStatus
  BY DEF NotInstalled, ComponentStatus
<1>2. 0 \in 0..MaxGen
  BY ClusterPrerequisitesAssumption
<1> QED  BY <1>1, <1>2 DEF NoStatus, PrerequisitesStatus

(* The lemmas about the runtime apply.                                     *)
LEMMA Fitted == Fitting(PrerequisitesStatus)
BY NoStatusType, ClusterPrerequisitesAssumption DEF Fitting

LEMMA ComponentTypes ==
    /\ Skipped \in ComponentStatus
    /\ NotInstalled \in ComponentStatus
    /\ \A c \in Clusters \cup {None} : Provided(c) \in ComponentStatus
    /\ \A v \in Versions \cup {None} : Installed(v) \in ComponentStatus
    /\ \A type \in {"none", "cloud", "metallb"} :
          loadBalancerComponentStatus(type) \in ComponentStatus
BY DEF Skipped, NotInstalled, Provided, Installed, NotNeeded, ComponentStatus,
       loadBalancerComponentStatus

LEMMA UnavailableType ==
    ASSUME NEW st \in PrerequisitesStatus, NEW gen \in 0..MaxGen, NEW reason \in Reasons
    PROVE  markUnavailable(st, gen, reason) \in PrerequisitesStatus
BY DEF markUnavailable, PrerequisitesStatus

LEMMA CompleteType ==
    ASSUME copy.gen \in 0..MaxGen, NEW components \in [Components -> ComponentStatus]
    PROVE  Complete(components) \in PrerequisitesStatus
<1>1. PICK ready \in BOOLEAN :
        Complete(components) =
          [ready |-> ready,
           reason |-> IF ready THEN "AllComponentsReady" ELSE "ComponentsNotReady",
           components |-> components, observedGeneration |-> copy.gen]
  BY DEF Complete
<1>2. {"AllComponentsReady", "ComponentsNotReady"} \subseteq Reasons
  BY DEF Reasons
<1> QED  BY <1>1, <1>2 DEF PrerequisitesStatus

-----------------------------------------------------------------------------
(* The copy and the components.                                            *)

LEMMA WorkerCopy ==
    ASSUME Sound(PrerequisitesStatus), WorkerOK, step # "idle"
    PROVE  /\ active \in Names
           /\ active # None
           /\ copy.exists
           /\ copy.gen \in 1..MaxGen
           /\ copy.gen \in 0..MaxGen
           /\ copy.spec \in Specs
           /\ copy.spec \in PrerequisitesSpec
           /\ copy.status \in PrerequisitesStatus
           /\ "copy" \in fresh[active] => copy = obj[active]
<1>1. active # None
  BY DEF WorkerOK
<1>2. copy \in [exists: {TRUE}, gen: 1..MaxGen, spec: Specs, status: PrerequisitesStatus]
  BY <1>1, FreshCopy
<1>3. copy.gen \in 1..MaxGen
  BY <1>2
<1>4. copy.gen \in 0..MaxGen
  BY <1>3, ClusterPrerequisitesAssumption
<1> QED  BY <1>1, <1>2, <1>3, <1>4, FreshCopy, ClusterPrerequisitesAssumption

(* A component left to Helm has a tag, which leads to a chart or nowhere.  *)
LEMMA WantedType ==
    ASSUME copy.spec \in PrerequisitesSpec, NEW k \in HelmComponents, NoInstallation(k) = {}
    PROVE  wanted(k) \in Tags
<1>1. copy.spec.certManager \in Tags \cup {None} /\ copy.spec.traefik \in Tags
  BY DEF PrerequisitesSpec
<1> QED  BY <1>1 DEF HelmComponents, wanted, asked, NoInstallation

LEMMA ChartType ==
    ASSUME TypeOK, copy.spec \in PrerequisitesSpec, NEW k \in HelmComponents,
           NoInstallation(k) = {}
    PROVE  LoadChartFromOCI(k) \in Versions \cup {None}
<1>1. wanted(k) \in Tags
  BY WantedType
<1>2. registry \in [{"certManager", "ingress"} \X Tags -> Versions \cup {None}]
  BY ClusterPrerequisitesAssumption DEF TypeOK
<1> QED  BY <1>1, <1>2 DEF LoadChartFromOCI, HelmComponents

(* A release Helm is at work on has a chart.                               *)
LEMMA PendingType ==
    ASSUME TypeOK, StepOK, helm # "none"
    PROVE  /\ chart(step) \in Versions
           /\ release[<<cluster, step>>].version = chart(step)
<1>1. release[<<cluster, step>>] \in Helm!ReleaseRecord
  BY DEF TypeOK, StepOK, HelmComponents
<1>2. release[<<cluster, step>>].status = "pending"
  BY DEF StepOK
<1> QED  BY <1>1, <1>2 DEF Helm!ReleaseRecord, Helm!NoRelease, chart

(* What the worker has of a TargetCluster.                                 *)
LEMMA ViewType ==
    ASSUME NEW v \in Views \cup {NoTarget}
    PROVE  v.version \in Clusters \cup {None} /\ v.byo \in SecretNames \cup {None}
<1>1. CASE v = NoTarget
  BY <1>1 DEF NoTarget
<1>2. CASE v # NoTarget
  <2>1. v \in TargetView
    BY <1>2, ClusterPrerequisitesAssumption
  <2>2. v \in [exists: {TRUE}, ready: BOOLEAN, version: Clusters \cup {None},
               byo: SecretNames \cup {None}]
    BY <1>2, <2>1 DEF TargetView
  <2> QED  BY <2>2
<1> QED  BY <1>1, <1>2

LEMMA NoInstallationType ==
    ASSUME tc \in Views \cup {NoTarget}, NEW k \in HelmComponents
    PROVE  NoInstallation(k) \subseteq ComponentStatus
<1>1. tc.version \in Clusters \cup {None}
  BY ViewType
<1> QED  BY <1>1, ComponentTypes DEF NoInstallation

(* What becomes of a component: it needs no Helm, it is not installed, or  *)
(* Helm installed it.                                                      *)
Became(k, st) ==
    \/ st \in NoInstallation(k) /\ UNCHANGED applied
    \/ st = NotInstalled /\ NoInstallation(k) = {} /\ UNCHANGED applied
    \/ /\ st = Installed(chart(k)) /\ NeedsHelm(k) /\ cluster \in Clusters /\ helm # "none"
       /\ applied' = applied \cup {<<copy.spec.target, k, wanted(k), chart(k)>>}
       /\ UNCHANGED release \/ Helm!Record(<<cluster, k>>, "deployed", chart(k), None)

(* What a step on component k may do to the releases.                      *)
Recorded(k) ==
    \/ UNCHANGED release
    \/ /\ helm # "none"
       /\ Helm!Record(<<cluster, k>>, "failed", chart(k), None)
    \/ /\ helm # "none"
       /\ Helm!Record(<<cluster, k>>, "deployed", chart(k), None)

(* Every step on a component begins its release or reports it.             *)
LEMMA ComponentSteps ==
    ASSUME TypeOK, Sound(PrerequisitesStatus), WorkerOK, StepOK,
           NEW k \in HelmComponents, Component(k) \/ FailComponent(k)
    PROVE  /\ step = k
           /\ \/ StartRelease(k)
              \/ \E st \in ComponentStatus : Report(k, st) /\ Became(k, st) /\ Recorded(k)
<1>1. step = k
  BY DEF Component, FailComponent, Settle, Reject, Refuse, StartRelease, FinishRelease, At,
     WaitsFor
<1>2. copy.spec \in PrerequisitesSpec
  BY <1>1, WorkerCopy DEF HelmComponents
<1>3. NoInstallation(k) \subseteq ComponentStatus
  BY NoInstallationType DEF TypeOK
<1>4. ASSUME Report(k, NotInstalled), UNCHANGED applied, NoInstallation(k) = {}, Recorded(k)
      PROVE  \E st \in ComponentStatus : Report(k, st) /\ Became(k, st) /\ Recorded(k)
  BY <1>4, ComponentTypes DEF Became
<1>5. ASSUME helm # "none"
      PROVE  /\ NoInstallation(k) = {} /\ NeedsHelm(k) /\ cluster \in Clusters
             /\ chart(k) \in Versions /\ release[<<cluster, k>>].version = chart(k)
  BY <1>1, <1>5, PendingType DEF StepOK, NeedsHelm
<1>6. ASSUME Success(k), helm # "none", Recorded(k),
             UNCHANGED release \/ Helm!Record(<<cluster, k>>, "deployed", chart(k), None)
      PROVE  \E st \in ComponentStatus : Report(k, st) /\ Became(k, st) /\ Recorded(k)
  <2>1. chart(k) \in Versions
    BY <1>5, <1>6
  <2> QED  BY <1>5, <1>6, <2>1, ComponentTypes DEF Success, Became
<1>7. CASE Settle(k)
  <2>1. UNCHANGED <<release, applied>>
    BY <1>7 DEF Settle
  <2>2. CASE NoInstallation(k) = {}
    <3>1. Report(k, NotInstalled)
      BY <1>7, <2>2 DEF Settle
    <3> QED  BY <1>1, <1>4, <2>1, <2>2, <3>1 DEF Recorded
  <2>3. CASE NoInstallation(k) # {}
    <3>1. PICK st \in NoInstallation(k) : Report(k, st)
      BY <1>7, <2>3 DEF Settle
    <3> QED  BY <1>1, <1>3, <2>1, <3>1 DEF Recorded, Became
  <2> QED  BY <1>1, <2>2, <2>3
<1>8. CASE Reject(k) \/ Refuse(k)
  BY <1>1, <1>4, <1>8 DEF Reject, Refuse, NeedsHelm, Recorded
<1>9. CASE FinishRelease(k)
  <2>1. helm # "none" /\ Success(k)
    BY <1>9 DEF FinishRelease, WaitsFor
  <2>2. Helm!Record(<<cluster, k>>, "deployed", chart(k), None)
    BY <1>5, <1>9, <2>1 DEF FinishRelease, Helm!Conclude
  <2>3. Recorded(k)
    BY <2>1, <2>2 DEF Recorded
  <2> QED  BY <1>1, <1>6, <2>1, <2>2, <2>3
<1>10. CASE FailComponent(k)
  <2>1. CASE At(k) /\ NeedsHelm(k) /\ Report(k, NotInstalled) /\ UNCHANGED <<release, applied>>
    BY <1>1, <1>4, <2>1 DEF NeedsHelm, Recorded
  <2>2. CASE /\ WaitsFor(k)
             /\ \E status \in {"failed", "deployed"} :
                  Helm!Conclude(<<cluster, k>>, "operator", status)
             /\ Report(k, NotInstalled) /\ UNCHANGED applied
    <3>1. Recorded(k)
      BY <1>5, <2>2 DEF WaitsFor, Helm!Conclude, Recorded
    <3> QED  BY <1>1, <1>4, <1>5, <2>2, <3>1 DEF WaitsFor
  <2>3. CASE /\ WaitsFor(k) /\ UNCHANGED release
             /\ \/ Report(k, NotInstalled) /\ UNCHANGED applied
                \/ helm = "installing" /\ Success(k)
    <3>1. Recorded(k)
      BY <2>3 DEF Recorded
    <3> QED  BY <1>1, <1>4, <1>5, <1>6, <2>3, <3>1 DEF WaitsFor
  <2> QED  BY <1>10, <2>1, <2>2, <2>3 DEF FailComponent
<1> QED  BY <1>1, <1>7, <1>8, <1>9, <1>10 DEF Component

-----------------------------------------------------------------------------
(* The runtime and the worker.                                             *)

LEMMA SoundStep ==
    TypeOK /\ Sound(PrerequisitesStatus) /\ WorkerOK /\ StepOK /\ [Next]_vars =>
        Sound(PrerequisitesStatus)' /\ WorkerOK'
<1> SUFFICES ASSUME TypeOK, Sound(PrerequisitesStatus), WorkerOK, StepOK, [Next]_vars
             PROVE  Sound(PrerequisitesStatus)' /\ WorkerOK'
  OBVIOUS
<1>1. ASSUME UNCHANGED runtime, step' = step \/ (step # "idle" /\ step' # "idle")
      PROVE  Sound(PrerequisitesStatus)' /\ WorkerOK'
  BY <1>1 DEF runtime, Sound, RuntimeTypeOK, CopiesAgree, WorkerOK
<1>2. CASE User
  BY <1>2, Fitted, UserSound DEF User, UserAction, Create, EditSpec, Delete, Store,
     local, WorkerOK
<1>3. CASE Informer
  <2>1. Sound(PrerequisitesStatus)'
    BY <1>3, InformerSound DEF Informer, DeliverEvent, FireTimer, ResyncAll
  <2> QED
    BY <1>3, <2>1 DEF Informer, DeliverEvent, FireTimer, ResyncAll, Deliver, TimerFires,
       Resync, local, WorkerOK
<1>4. ASSUME NEW n \in Names, Begin(n)
      PROVE  Sound(PrerequisitesStatus)' /\ WorkerOK'
  <2>1. WorkerOK'
    BY <1>4, Fitted DEF Begin, Take, WorkerOK, Fitting
  <2> QED  BY <1>4, <2>1, Fitted, TakeSound DEF Begin
<1>5. ASSUME NEW n \in Names, Skip(n) \/ FailGet(n)
      PROVE  Sound(PrerequisitesStatus)' /\ WorkerOK'
  BY <1>5, TakeNothingSound DEF Skip, FailGet, TakeDeleted, TakeFails, local, WorkerOK
<1>6. CASE GetTargetCluster \/ resolveTargetKubeconfig \/ LoadCredentials \/ FailSecret
  BY <1>1, <1>6 DEF GetTargetCluster, resolveTargetKubeconfig, LoadCredentials, FailSecret, GiveUp
<1>7. ASSUME NEW k \in HelmComponents, Component(k) \/ FailComponent(k)
      PROVE  Sound(PrerequisitesStatus)' /\ WorkerOK'
  <2>1. step \in HelmComponents /\ UNCHANGED runtime /\ (step' = step \/ step' # "idle")
    BY <1>7, ComponentSteps DEF StartRelease, Report
  <2> QED  BY <1>1, <2>1 DEF HelmComponents
<1>8. CASE Write \/ Fail
  <2>1. active # None
    BY <1>8, WorkerCopy DEF Write, Fail
  <2>2. draft \in PrerequisitesStatus
    BY DEF TypeOK
  <2>3. active' = None /\ step' = "idle"
    BY <1>8 DEF Write, Fail, WriteStatus, Abandon, Rest
  <2> QED  BY <1>8, <2>1, <2>2, <2>3, Fitted, AbandonSound, WriteSound DEF Write, Fail, WorkerOK
<1>9. CASE Restart
  BY <1>9, Fitted, RestartSound DEF Restart, RestartRuntime, Rest, WorkerOK
<1>10. ASSUME UNCHANGED <<runtime, local>>
       PROVE  Sound(PrerequisitesStatus)' /\ WorkerOK'
  BY <1>1, <1>10 DEF local
<1> QED
  BY <1>2, <1>3, <1>4, <1>5, <1>6, <1>7, <1>8, <1>9, <1>10
     DEF Next, System, Reconcile, Proceed, Environment, Failure, ChangeTarget, SetSecret,
         SetCredentials, Publisher, Administrator, HelmComponents, vars

LEMMA ReportType ==
    ASSUME TypeOK, Sound(PrerequisitesStatus), WorkerOK,
           NEW k \in HelmComponents, step = k, NEW st \in ComponentStatus, Report(k, st)
    PROVE  step' \in {"ingress", "write"} /\ draft' \in PrerequisitesStatus
<1>1. copy.gen \in 0..MaxGen /\ copy.spec \in PrerequisitesSpec
  BY WorkerCopy DEF HelmComponents
<1>2. draft.components \in [Components -> ComponentStatus]
  BY DEF TypeOK, PrerequisitesStatus
<1>3. [draft.components EXCEPT ![k] = st] \in [Components -> ComponentStatus]
  BY <1>2
<1>4. loadBalancerComponentStatus(copy.spec.loadBalancer) \in ComponentStatus
  BY <1>1, ComponentTypes DEF PrerequisitesSpec
<1>5. [draft EXCEPT !.components = [draft.components EXCEPT ![k] = st]] \in PrerequisitesStatus
  BY <1>3 DEF TypeOK, PrerequisitesStatus
<1>6. Complete([[draft.components EXCEPT ![k] = st]
                  EXCEPT !["loadBalancer"] = loadBalancerComponentStatus(copy.spec.loadBalancer)])
        \in PrerequisitesStatus
  BY <1>1, <1>3, <1>4, CompleteType
<1> QED  BY <1>5, <1>6 DEF Report

LEMMA RestType ==
    Rest => /\ step' = "idle" /\ helm' = "none" /\ tc' = NoTarget /\ cluster' = None
            /\ creds' = FALSE /\ draft' \in PrerequisitesStatus
BY NoStatusType DEF Rest

LEMMA TypeStep ==
    /\ TypeOK /\ Sound(PrerequisitesStatus) /\ WorkerOK /\ StepOK
    /\ Sound(PrerequisitesStatus)' /\ [Next]_vars
    => TypeOK'
<1> SUFFICES ASSUME TypeOK, Sound(PrerequisitesStatus), WorkerOK, StepOK,
                    Sound(PrerequisitesStatus)', [Next]_vars
             PROVE  TypeOK'
  OBVIOUS
<1>r. RuntimeTypeOK(PrerequisitesStatus)'
  BY DEF Sound
<1> USE DEF TypeOK
<1>1. CASE UNCHANGED <<local, world, release, applied>>
  BY <1>r, <1>1 DEF local, world
<1>2. CASE Informer \/ User
  BY <1>1, <1>2 DEF Informer, DeliverEvent, FireTimer, ResyncAll, User
<1>3. ASSUME NEW n \in Names, Skip(n) \/ FailGet(n) PROVE TypeOK'
  BY <1>1, <1>3 DEF Skip, FailGet
<1>4. ASSUME NEW n \in Names, Begin(n) PROVE TypeOK'
  <2>1. cache[n].status \in PrerequisitesStatus
    <3>1. cache[n] \in ObjectSet(PrerequisitesStatus)
      BY DEF RuntimeTypeOK
    <3> QED  BY <3>1, Fitted, FieldTypes
  <2> QED  BY <1>r, <1>4, <2>1 DEF Begin, world
<1>5. ASSUME step # "idle", NEW reason \in Reasons, GiveUp(reason)
      PROVE  step' = "write" /\ draft' \in PrerequisitesStatus
  BY <1>5, WorkerCopy, UnavailableType DEF GiveUp
<1>6. CASE GetTargetCluster
  <2>1. tcs[copy.spec.target] \in Views
    BY <1>6, WorkerCopy DEF GetTargetCluster, PrerequisitesSpec
  <2>2. {"MissingTargetCluster", "TargetClusterNotReady"} \subseteq Reasons
    BY DEF Reasons
  <2>3. step' \in {"write", "kubeconfig"} /\ draft' \in PrerequisitesStatus
    BY <1>5, <1>6, <2>2 DEF GetTargetCluster
  <2> QED  BY <1>r, <1>6, <2>1, <2>3 DEF GetTargetCluster, world
<1>7. CASE resolveTargetKubeconfig
  <2>1. "MissingKubeconfig" \in Reasons
    BY DEF Reasons
  <2>2. step' \in {"write", "credentials"} /\ draft' \in PrerequisitesStatus
    BY <1>5, <1>7, <2>1 DEF resolveTargetKubeconfig
  <2>3. cluster' \in Clusters \cup {"garbage", None}
    <3>1. CASE Resolves(tc)
      <4>1. secret[tc.byo] \in Kubeconfigs \ {"absent", "empty"}
        BY <3>1, ViewType DEF Resolves
      <4> QED  BY <1>7, <3>1, <4>1, ClusterPrerequisitesAssumption DEF resolveTargetKubeconfig
    <3>2. CASE ~Resolves(tc)
      BY <1>7, <3>2 DEF resolveTargetKubeconfig
    <3> QED  BY <3>1, <3>2
  <2> QED  BY <1>r, <1>7, <2>2, <2>3 DEF resolveTargetKubeconfig, world
<1>8. CASE LoadCredentials
  BY <1>r, <1>8 DEF LoadCredentials, world
<1>9. CASE FailSecret
  <2>1. "MissingKubeconfig" \in Reasons
    BY DEF Reasons
  <2>2. /\ step' \in {"write", "certManager"} /\ draft' \in PrerequisitesStatus
        /\ creds' \in BOOLEAN
    BY <1>5, <1>9, <2>1 DEF FailSecret
  <2> QED  BY <1>r, <1>9, <2>2 DEF FailSecret, world
<1>10. ASSUME NEW k \in HelmComponents, Component(k) \/ FailComponent(k) PROVE TypeOK'
  <2>1. copy.spec \in PrerequisitesSpec /\ step = k
    BY <1>10, ComponentSteps, WorkerCopy DEF HelmComponents
  <2>2. CASE StartRelease(k)
    <3>1. cluster \in Clusters /\ LoadChartFromOCI(k) \in Versions
      BY <2>1, <2>2, ChartType DEF StartRelease, NeedsHelm
    <3>2. [status |-> "pending", version |-> LoadChartFromOCI(k), by |-> "operator"]
            \in Helm!ReleaseRecord
      BY <3>1 DEF Helm!ReleaseRecord
    <3>3. release' \in [Clusters \X {"certManager", "ingress"} -> Helm!ReleaseRecord]
      BY <2>2, <3>2 DEF StartRelease, Helm!StartInstall, Helm!StartUpgrade, Helm!Record
    <3> QED  BY <1>r, <2>2, <3>3 DEF StartRelease, world
  <2>3. ASSUME NEW st \in ComponentStatus, Report(k, st), Became(k, st), Recorded(k)
        PROVE  TypeOK'
    <3>1. step' \in {"ingress", "write"} /\ draft' \in PrerequisitesStatus
      BY <2>1, <2>3, ReportType
    <3>2. applied' \in SUBSET (Targets \X {"certManager", "ingress"} \X Tags \X Versions)
      <4>1. NoInstallation(k) = {} /\ helm # "none" =>
              <<copy.spec.target, k, wanted(k), chart(k)>>
                \in Targets \X {"certManager", "ingress"} \X Tags \X Versions
        BY <2>1, WantedType, PendingType DEF PrerequisitesSpec, HelmComponents
      <4> QED  BY <2>3, <4>1 DEF Became, NeedsHelm
    <3>3. release' \in [Clusters \X {"certManager", "ingress"} -> Helm!ReleaseRecord]
      <4>1. ASSUME helm # "none", NEW outcome \in {"deployed", "failed"}
            PROVE  [status |-> outcome, version |-> chart(k), by |-> None] \in Helm!ReleaseRecord
        <5>1. chart(k) \in Versions
          BY <2>1, <4>1, PendingType
        <5> QED  BY <5>1 DEF Helm!ReleaseRecord
      <4> QED  BY <2>3, <4>1 DEF Recorded, Helm!Record
    <3> QED  BY <1>r, <2>3, <3>1, <3>2, <3>3 DEF Report, world
  <2> QED  BY <1>10, <2>2, <2>3, ComponentSteps
<1>11. CASE Write \/ Fail
  BY <1>r, <1>11, RestType DEF Write, Fail, world
<1>12. CASE Restart
  BY <1>r, <1>12, RestType DEF Restart
<1>13. ASSUME NEW t \in Targets, ChangeTarget(t) PROVE TypeOK'
  BY <1>r, <1>13 DEF ChangeTarget, local
<1>14. ASSUME NEW s \in SecretNames, SetSecret(s) PROVE TypeOK'
  BY <1>r, <1>14 DEF SetSecret, local
<1>15. ASSUME NEW s \in CredsNames, SetCredentials(s) PROVE TypeOK'
  BY <1>r, <1>15 DEF SetCredentials, local
<1>16. ASSUME NEW r \in Clusters \X {"certManager", "ingress"}, Administrator(r) PROVE TypeOK'
  BY <1>r, <1>16 DEF Administrator, Helm!Uninstall, Helm!ReleaseRecord, local, world
<1>17. CASE Publisher
  BY <1>r, <1>17 DEF Publisher, local
<1> QED
  BY <1>1, <1>2, <1>3, <1>4, <1>6, <1>7, <1>8, <1>9, <1>10, <1>11, <1>12, <1>13, <1>14,
     <1>15, <1>16, <1>17
     DEF Next, System, Reconcile, Proceed, Environment, Failure, HelmComponents, vars

-----------------------------------------------------------------------------
(* The steps of a reconcile.                                               *)

LEMMA StepStep == IInv /\ [Next]_vars => StepOK'
<1> SUFFICES ASSUME TypeOK, Sound(PrerequisitesStatus), WorkerOK, StepOK, [Next]_vars
             PROVE  StepOK'
  BY DEF IInv
<1>1. ASSUME UNCHANGED <<copy, local, release>> PROVE StepOK'
  BY <1>1 DEF StepOK, local, NeedsHelm, NoInstallation
<1>2. ASSUME helm' = "none", step' \notin HelmComponents \/ (creds' => copy'.spec.creds # None)
      PROVE  StepOK'
  BY <1>2 DEF StepOK
<1>3. CASE User \/ Informer
  BY <1>1, <1>3 DEF User, UserAction, Create, EditSpec, Delete, Store, Informer, DeliverEvent,
     FireTimer, ResyncAll, Deliver, TimerFires, Resync
<1>4. ASSUME NEW n \in Names, Begin(n) PROVE StepOK'
  <2>1. step = "idle"
    BY <1>4 DEF Begin, Take, WorkerOK
  <2> QED  BY <1>2, <1>4, <2>1 DEF Begin, StepOK, HelmComponents
<1>5. ASSUME NEW n \in Names, Skip(n) \/ FailGet(n) PROVE StepOK'
  BY <1>1, <1>5 DEF Skip, FailGet, TakeDeleted, TakeFails
<1>6. CASE GetTargetCluster \/ resolveTargetKubeconfig
  <2>1. helm' = "none" /\ step' \notin HelmComponents
    BY <1>6 DEF GetTargetCluster, resolveTargetKubeconfig, GiveUp, StepOK, HelmComponents
  <2> QED  BY <1>2, <2>1
<1>7. CASE LoadCredentials
  <2>1. helm' = "none" /\ copy' = copy
    BY <1>7 DEF LoadCredentials, StepOK, HelmComponents, runtime
  <2>2. creds' => copy'.spec.creds # None
    BY <1>7, <2>1, ClusterPrerequisitesAssumption DEF LoadCredentials, TypeOK
  <2> QED  BY <1>2, <2>1, <2>2
<1>8. CASE FailSecret
  <2>1. helm' = "none"
    BY <1>8 DEF FailSecret, StepOK, HelmComponents
  <2>2. step' \notin HelmComponents \/ creds' = FALSE
    BY <1>8 DEF FailSecret, GiveUp, HelmComponents
  <2> QED  BY <1>2, <2>1, <2>2
<1>9. ASSUME NEW k \in HelmComponents, Component(k) \/ FailComponent(k) PROVE StepOK'
  <2>1. step = k /\ (creds => copy.spec.creds # None)
    BY <1>9, ComponentSteps DEF StepOK
  <2>2. CASE StartRelease(k)
    <3>1. UNCHANGED <<copy, step, creds, cluster, tc>> /\ NeedsHelm(k) /\ cluster \in Clusters
      BY <2>2 DEF StartRelease, runtime
    <3>2. release' = [release EXCEPT ![<<cluster, k>>] =
                        [status |-> "pending", version |-> LoadChartFromOCI(k),
                         by |-> "operator"]]
      BY <2>2 DEF StartRelease, Helm!StartInstall, Helm!StartUpgrade, Helm!Record
    <3>3. release'[<<cluster, k>>].status = "pending" /\ release'[<<cluster, k>>].by = "operator"
      BY <3>1, <3>2 DEF TypeOK, HelmComponents
    <3> QED
      BY <2>1, <3>1, <3>3 DEF StepOK, NeedsHelm, NoInstallation
  <2>3. ASSUME NEW st, Report(k, st) PROVE StepOK'
    BY <1>2, <2>1, <2>3 DEF Report, runtime
  <2> QED  BY <1>9, <2>2, <2>3, ComponentSteps
<1>10. CASE Write \/ Fail \/ Restart
  BY <1>2, <1>10, RestType DEF Write, Fail, Restart, HelmComponents
<1>11. ASSUME NEW r \in Clusters \X {"certManager", "ingress"}, Administrator(r) PROVE StepOK'
  <2>1. UNCHANGED <<copy, local>> /\ release' = [release EXCEPT ![r] = Helm!NoRelease]
    BY <1>11 DEF Administrator, Helm!Uninstall, runtime
  <2>2. helm # "none" => release'[<<cluster, step>>] = release[<<cluster, step>>]
    BY <1>11, <2>1 DEF Administrator, TypeOK, StepOK, HelmComponents
  <2> QED  BY <2>1, <2>2 DEF StepOK, local, NeedsHelm, NoInstallation
<1>12. CASE UNCHANGED <<runtime, local, release>>
  BY <1>1, <1>12 DEF runtime
<1> QED
  BY <1>3, <1>4, <1>5, <1>6, <1>7, <1>8, <1>9, <1>10, <1>11, <1>12
     DEF Next, System, Reconcile, Proceed, Environment, Failure, ChangeTarget, SetSecret,
         SetCredentials, Publisher, HelmComponents, vars

-----------------------------------------------------------------------------
(* The draft.                                                              *)

(* A component that came to be st deserves it.                             *)
LEMMA BecameFits ==
    ASSUME StepOK, copy.spec \in PrerequisitesSpec, NEW k \in HelmComponents, step = k,
           NEW st, Became(k, st)
    PROVE  /\ k = "certManager" => CertManagerFits(copy.spec, st, applied')
           /\ k = "ingress" => IngressFits(copy.spec, st, applied')
<1>1. creds => copy.spec.creds # None
  BY DEF StepOK
<1>2. CASE k = "certManager"
  <2>1. NoInstallation(k) # {} => NoInstallation(k) = {Skipped} /\ copy.spec.certManager = None
    BY <1>2 DEF NoInstallation
  <2>2. NoInstallation(k) = {} => copy.spec.certManager # None
    BY <1>2 DEF NoInstallation
  <2> QED
    BY <1>1, <1>2, <2>1, <2>2
       DEF Became, CertManagerFits, IsInstalled, Skipped, NotInstalled, Installed, NeedsHelm, wanted, asked
<1>3. CASE k = "ingress"
  <2>1. /\ copy.spec.ingress \in {"skip", "auto", "use", "install"}
        /\ NoInstallation(k) = {} => copy.spec.ingress \in {"auto", "install"}
    BY <1>3 DEF NoInstallation, PrerequisitesSpec, Modes
  <2>2. ASSUME st \in NoInstallation(k)
        PROVE  \/ st = Skipped /\ copy.spec.ingress = "skip"
               \/ st = Provided(None) /\ copy.spec.ingress = "use"
               \/ st = Provided(tc.version) /\ copy.spec.ingress = "auto"
    BY <1>3, <2>1, <2>2 DEF NoInstallation
  <2>3. CASE st \in NoInstallation(k)
    BY <1>3, <2>2, <2>3 DEF IngressFits, IsInstalled, Skipped, Provided
  <2>4. CASE NoInstallation(k) = {}
    BY <1>1, <1>3, <2>1, <2>4
       DEF Became, IngressFits, IsInstalled, NotInstalled, Installed, NeedsHelm, wanted, asked
  <2> QED  BY <2>3, <2>4 DEF Became, NeedsHelm
<1> QED  BY <1>2, <1>3

(* The status made of components that fit is a verdict on the copy.        *)
LEMMA CompleteVerdict ==
    ASSUME copy.spec \in PrerequisitesSpec, NEW a,
           NEW components \in [Components -> ComponentStatus],
           CertManagerFits(copy.spec, components["certManager"], a),
           IngressFits(copy.spec, components["ingress"], a),
           components["loadBalancer"] = loadBalancerComponentStatus(copy.spec.loadBalancer)
    PROVE  Verdict(copy.spec, copy.gen, Complete(components), a)
<1> DEFINE cm == components["certManager"]
           ingress == components["ingress"]
           ready == \A k \in Components : isComponentDone(components[k])
           st == Complete(components)
<1>1. /\ cm \in ComponentStatus /\ ingress \in ComponentStatus
      /\ copy.spec.ingress \in Modes
  BY DEF Components, PrerequisitesSpec
<1>2. /\ st.ready <=> ready
      /\ st.ready <=> st.reason = "AllComponentsReady"
      /\ st.components = components
      /\ st.observedGeneration = copy.gen
  BY DEF Complete
<1>3. ASSUME ready
      PROVE  /\ copy.spec.loadBalancer # "metallb"
             /\ copy.spec.certManager # None => IsInstalled(cm)
             /\ copy.spec.ingress = "install" => IsInstalled(ingress)
  <2>1. /\ isComponentDone(cm) /\ isComponentDone(ingress)
        /\ isComponentDone(components["loadBalancer"])
    BY <1>3 DEF Components
  <2>2. copy.spec.loadBalancer # "metallb"
    BY <2>1 DEF isComponentDone, loadBalancerComponentStatus, NotInstalled
  <2>3. copy.spec.certManager # None => IsInstalled(cm)
    BY <2>1 DEF isComponentDone, CertManagerFits, IsInstalled
  <2>4. copy.spec.ingress = "install" => IsInstalled(ingress)
    BY <2>1 DEF isComponentDone, IngressFits, IsInstalled
  <2> QED  BY <2>2, <2>3, <2>4
<1>4. Fits(copy.spec, st)
  BY <1>2, <1>3 DEF Fits, CertManagerFits, IngressFits
<1> QED  BY <1>2, <1>4 DEF Verdict

(* A verdict stays one, for what is applied only grows.                    *)
LEMMA VerdictKept ==
    ASSUME NEW spec, NEW gen, NEW st, NEW a, NEW b, a \subseteq b
    PROVE  /\ \A c : CertManagerFits(spec, c, a) => CertManagerFits(spec, c, b)
           /\ \A c : IngressFits(spec, c, a) => IngressFits(spec, c, b)
           /\ Verdict(spec, gen, st, a) => Verdict(spec, gen, st, b)
<1>1. /\ \A c : CertManagerFits(spec, c, a) => CertManagerFits(spec, c, b)
      /\ \A c : IngressFits(spec, c, a) => IngressFits(spec, c, b)
  BY DEF CertManagerFits, IngressFits
<1> QED  BY <1>1 DEF Verdict

LEMMA AppliedGrows ==
    TypeOK /\ Sound(PrerequisitesStatus) /\ WorkerOK /\ StepOK /\ [Next]_vars =>
        applied \subseteq applied'
<1> SUFFICES ASSUME TypeOK, Sound(PrerequisitesStatus), WorkerOK, StepOK, [Next]_vars
             PROVE  applied \subseteq applied'
  OBVIOUS
<1>1. CASE UNCHANGED applied
  BY <1>1
<1>2. ASSUME NEW k \in HelmComponents, Component(k) \/ FailComponent(k)
      PROVE  applied \subseteq applied'
  BY <1>2, ComponentSteps DEF StartRelease, Became
<1> QED
  BY <1>1, <1>2
     DEF Next, System, Informer, Reconcile, Proceed, Environment, Failure, User, DeliverEvent,
         FireTimer, ResyncAll, Begin, Skip, GetTargetCluster, resolveTargetKubeconfig,
         LoadCredentials, Write, Fail, FailSecret, FailGet, Restart, ChangeTarget, SetSecret,
         SetCredentials, Publisher, Administrator, HelmComponents, vars

(* A reason to give up is a verdict that says nothing of the components.   *)
LEMMA GiveUpVerdict ==
    ASSUME draft \in PrerequisitesStatus, NEW reason, GiveUp(reason), NEW a,
           reason \in {"MissingTargetCluster", "TargetClusterNotReady", "MissingKubeconfig"}
    PROVE  step' = "write" /\ Verdict(copy.spec, copy.gen, draft', a)
<1>1. /\ draft'.ready = FALSE /\ draft'.reason = reason
      /\ draft'.observedGeneration = copy.gen
  BY DEF GiveUp, markUnavailable, PrerequisitesStatus
<1> QED  BY <1>1 DEF GiveUp, Verdict, Fits, ComponentReasons

LEMMA DraftStep == IInv /\ [Next]_vars => DraftOK'
<1> SUFFICES ASSUME TypeOK, Sound(PrerequisitesStatus), WorkerOK, StepOK, DraftOK, [Next]_vars
             PROVE  DraftOK'
  BY DEF IInv
<1>1. ASSUME UNCHANGED <<copy, step, draft>> PROVE DraftOK'
  BY <1>1, AppliedGrows, VerdictKept DEF DraftOK
<1>2. ASSUME step' \notin {"ingress", "write"} PROVE DraftOK'
  BY <1>2 DEF DraftOK
<1>3. ASSUME NEW reason, GiveUp(reason), copy' = copy,
             reason \in {"MissingTargetCluster", "TargetClusterNotReady", "MissingKubeconfig"}
      PROVE  DraftOK'
  BY <1>3, GiveUpVerdict DEF DraftOK, TypeOK
<1>4. CASE User \/ Informer
  BY <1>1, <1>4 DEF User, UserAction, Create, EditSpec, Delete, Store, Informer, DeliverEvent,
     FireTimer, ResyncAll, Deliver, TimerFires, Resync, local
<1>5. ASSUME NEW n \in Names, Begin(n) PROVE DraftOK'
  BY <1>2, <1>5 DEF Begin
<1>6. ASSUME NEW n \in Names, Skip(n) \/ FailGet(n) PROVE DraftOK'
  BY <1>1, <1>6 DEF Skip, FailGet, TakeDeleted, TakeFails, local
<1>7. CASE GetTargetCluster
  BY <1>2, <1>3, <1>7 DEF GetTargetCluster, runtime
<1>8. CASE resolveTargetKubeconfig
  BY <1>2, <1>3, <1>8 DEF resolveTargetKubeconfig, runtime
<1>9. CASE LoadCredentials
  BY <1>2, <1>9 DEF LoadCredentials
<1>10. CASE FailSecret
  BY <1>2, <1>3, <1>10 DEF FailSecret, runtime
<1>11. ASSUME NEW k \in HelmComponents, Component(k) \/ FailComponent(k) PROVE DraftOK'
  <2>1. CASE StartRelease(k)
    BY <1>1, <2>1 DEF StartRelease, runtime
  <2>2. ASSUME NEW st \in ComponentStatus, Report(k, st), Became(k, st)
        PROVE  DraftOK'
    <3>1. step = k /\ copy.spec \in PrerequisitesSpec /\ copy' = copy
      BY <1>11, <2>2, ComponentSteps, WorkerCopy DEF HelmComponents, Report, runtime
    <3>2. draft.components \in [Components -> ComponentStatus]
      BY DEF TypeOK, PrerequisitesStatus
    <3>3. /\ k = "certManager" => CertManagerFits(copy.spec, st, applied')
          /\ k = "ingress" => IngressFits(copy.spec, st, applied')
      BY <2>2, <3>1, BecameFits
    <3>4. CASE k = "certManager"
      <4>1. /\ step' = "ingress"
            /\ draft' = [draft EXCEPT !.components = [draft.components EXCEPT ![k] = st]]
        BY <2>2, <3>4 DEF Report
      <4>2. draft'.components["certManager"] = st
        BY <3>2, <3>4, <4>1 DEF TypeOK, PrerequisitesStatus, Components
      <4> QED  BY <3>1, <3>3, <3>4, <4>1, <4>2 DEF DraftOK
    <3>5. CASE k = "ingress"
      <4> DEFINE components ==
                   [[draft.components EXCEPT ![k] = st]
                      EXCEPT !["loadBalancer"] =
                        loadBalancerComponentStatus(copy.spec.loadBalancer)]
      <4>1. step' = "write" /\ draft' = Complete(components)
        BY <2>2, <3>5 DEF Report
      <4>2. /\ components \in [Components -> ComponentStatus]
            /\ components["certManager"] = draft.components["certManager"]
            /\ components["ingress"] = st
            /\ components["loadBalancer"] = loadBalancerComponentStatus(copy.spec.loadBalancer)
        BY <3>1, <3>2, <3>5, <2>2, ComponentTypes DEF Components, PrerequisitesSpec
      <4>3. CertManagerFits(copy.spec, draft.components["certManager"], applied')
        BY <3>1, <3>5, AppliedGrows, VerdictKept DEF DraftOK
      <4> HIDE DEF components
      <4>4. Verdict(copy.spec, copy.gen, Complete(components), applied')
        BY <3>1, <3>3, <3>5, <4>2, <4>3, CompleteVerdict
      <4> QED  BY <3>1, <4>1, <4>4 DEF DraftOK
    <3> QED  BY <3>4, <3>5 DEF HelmComponents
  <2> QED  BY <1>11, <2>1, <2>2, ComponentSteps
<1>12. CASE Write \/ Fail \/ Restart
  BY <1>2, <1>12, RestType DEF Write, Fail, Restart
<1>13. CASE UNCHANGED <<runtime, local>>
  BY <1>1, <1>13 DEF runtime, local
<1> QED
  BY <1>4, <1>5, <1>6, <1>7, <1>8, <1>9, <1>10, <1>11, <1>12, <1>13
     DEF Next, System, Reconcile, Proceed, Environment, Failure, ChangeTarget, SetSecret,
         SetCredentials, Publisher, Administrator, HelmComponents, vars

LEMMA HeldStep == IInv /\ [Next]_vars => HeldOK'
<1> SUFFICES ASSUME TypeOK, Sound(PrerequisitesStatus), WorkerOK, StepOK, HeldOK, [Next]_vars
             PROVE  HeldOK'
  BY DEF IInv
<1>1. ASSUME UNCHANGED <<step, draft, cluster, release>> PROVE HeldOK'
  BY <1>1 DEF HeldOK, Held
<1>2. ASSUME step' \notin {"ingress", "write"} PROVE HeldOK'
  BY <1>2 DEF HeldOK
<1>3. ASSUME NEW reason, GiveUp(reason), reason \notin ComponentReasons PROVE HeldOK'
  BY <1>3 DEF GiveUp, markUnavailable, HeldOK, TypeOK, PrerequisitesStatus
<1>4. CASE User \/ Informer \/ \E n \in Names : Skip(n) \/ FailGet(n)
  BY <1>1, <1>4 DEF User, Informer, DeliverEvent, FireTimer, ResyncAll, Skip, FailGet, local
<1>5. CASE (\E n \in Names : Begin(n)) \/ LoadCredentials
  BY <1>2, <1>5 DEF Begin, LoadCredentials
<1>6. CASE GetTargetCluster \/ resolveTargetKubeconfig \/ FailSecret
  BY <1>2, <1>3, <1>6
     DEF GetTargetCluster, resolveTargetKubeconfig, FailSecret, ComponentReasons
<1>7. ASSUME NEW r \in Clusters \X {"certManager", "ingress"}, Administrator(r) PROVE HeldOK'
  <2>1. ASSUME NEW k \in HelmComponents, Held(k) PROVE Held(k)'
    <3>1. ASSUME cluster \in Clusters
          PROVE  \/ release'[<<cluster, k>>] = release[<<cluster, k>>]
                 \/ release'[<<cluster, k>>].status = "absent"
      BY <1>7, <3>1 DEF Administrator, Helm!Uninstall, Helm!NoRelease, TypeOK, HelmComponents
    <3> QED  BY <1>7, <2>1, <3>1 DEF Administrator, Held, local
  <2> QED  BY <1>7, <2>1 DEF Administrator, HeldOK, HelmComponents, local
<1>8. ASSUME NEW k \in HelmComponents, Component(k) \/ FailComponent(k) PROVE HeldOK'
  <2>t. /\ draft.components \in [Components -> ComponentStatus]
        /\ release \in [Clusters \X {"certManager", "ingress"} -> Helm!ReleaseRecord]
    BY DEF TypeOK, PrerequisitesStatus
  <2>1. step = k
    BY <1>8, ComponentSteps
  <2>2. CASE StartRelease(k)
    <3>1. k = "ingress" /\ cluster \in Clusters =>
            release'[<<cluster, "certManager">>] = release[<<cluster, "certManager">>]
      BY <2>2, <2>t DEF StartRelease, Helm!StartInstall, Helm!StartUpgrade, Helm!Record
    <3> QED  BY <2>1, <2>2, <3>1 DEF StartRelease, HeldOK, Held, HelmComponents
  <2>3. ASSUME NEW st \in ComponentStatus, Report(k, st), Became(k, st), Recorded(k)
        PROVE  HeldOK'
    <3>1. IsInstalled(st) =>
            /\ cluster \in Clusters /\ helm # "none" /\ st = Installed(chart(k))
            /\ UNCHANGED release \/ Helm!Record(<<cluster, k>>, "deployed", chart(k), None)
      <4>1. \A c \in NoInstallation(k) : ~IsInstalled(c)
        BY DEF NoInstallation, Skipped, Provided, IsInstalled
      <4> QED  BY <2>3, <4>1 DEF Became, NotInstalled, IsInstalled
    <3>2. IsInstalled(st) =>
            /\ cluster \in Clusters
            /\ release'[<<cluster, k>>].status \in {"deployed", "pending"}
            /\ release'[<<cluster, k>>].version = st.version
      BY <2>1, <2>t, <3>1, PendingType DEF StepOK, Helm!Record, Installed, HelmComponents
    <3>3. UNCHANGED cluster
      BY <2>3 DEF Report
    <3>4. CASE k = "certManager"
      <4>1. step' = "ingress" /\ draft'.components["certManager"] = st
        BY <2>3, <2>t, <3>4 DEF Report, TypeOK, PrerequisitesStatus, Components
      <4> QED  BY <3>2, <3>3, <3>4, <4>1 DEF HeldOK, Held
    <3>5. CASE k = "ingress"
      <4> DEFINE components ==
                   [[draft.components EXCEPT ![k] = st]
                      EXCEPT !["loadBalancer"] =
                        loadBalancerComponentStatus(copy.spec.loadBalancer)]
      <4>1. /\ components["certManager"] = draft.components["certManager"]
            /\ components["ingress"] = st
        BY <2>t, <3>5 DEF Components
      <4>2. step' = "write" /\ draft' = Complete(components)
        BY <2>3, <3>5 DEF Report
      <4>3. /\ draft'.components["certManager"] = draft.components["certManager"]
            /\ draft'.components["ingress"] = st
        BY <4>1, <4>2 DEF Complete
      <4>4. cluster \in Clusters =>
              release'[<<cluster, "certManager">>] = release[<<cluster, "certManager">>]
        BY <2>3, <2>t, <3>5 DEF Recorded, Helm!Record
      <4>5. Held("certManager")
        BY <2>1, <3>5 DEF HeldOK
      <4> HIDE DEF components
      <4> QED  BY <3>2, <3>3, <3>5, <4>2, <4>3, <4>4, <4>5 DEF HeldOK, Held, HelmComponents
    <3> QED  BY <3>4, <3>5 DEF HelmComponents
  <2> QED  BY <1>8, <2>2, <2>3, ComponentSteps
<1>9. CASE Write \/ Fail \/ Restart
  BY <1>2, <1>9, RestType DEF Write, Fail, Restart
<1>10. CASE UNCHANGED <<local, release>>
  BY <1>1, <1>10 DEF local
<1> QED
  BY <1>4, <1>5, <1>6, <1>7, <1>8, <1>9, <1>10
     DEF Next, System, Reconcile, Proceed, Environment, Failure, ChangeTarget, SetSecret,
         SetCredentials, Publisher, HelmComponents, vars

-----------------------------------------------------------------------------
(* How an object changes.                                                  *)

(* Whatever a step does to an object: it is created, edited, deleted, or   *)
(* given a status that is a verdict on it, which is the contract's steps.  *)
Change(o, p, a) ==
    \/ p = o
    \/ UserChange(o, p)
    \/ /\ o.exists
       /\ \E st \in PrerequisitesStatus :
            p = [o EXCEPT !.status = st] /\ Verdict(o.spec, o.gen, st, a)

LEMMA Changes ==
    IInv /\ [Next]_vars =>
        \/ UNCHANGED obj
        \/ \E n \in Names : \E p :
             Change(obj[n], p, applied) /\ obj' = [obj EXCEPT ![n] = p]
<1> SUFFICES ASSUME IInv, [Next]_vars
             PROVE  \/ UNCHANGED obj
                    \/ \E n \in Names : \E p :
                         Change(obj[n], p, applied) /\ obj' = [obj EXCEPT ![n] = p]
  OBVIOUS
<1>1. CASE User
  BY <1>1, Fitted, UserStores DEF User, Store, Change, IInv
<1>2. ASSUME Write \/ Fail, obj' # obj
      PROVE  \E n \in Names : \E p :
               Change(obj[n], p, applied) /\ obj' = [obj EXCEPT ![n] = p]
  <2>1. /\ step = "write" /\ "copy" \in fresh[active]
        /\ obj' = [obj EXCEPT ![active].status = draft]
    BY <1>2 DEF Write, Fail, WriteStatus, Abandon
  <2>2. active \in Names /\ copy.exists /\ copy = obj[active]
    BY <2>1, WorkerCopy DEF IInv
  <2>3. draft \in PrerequisitesStatus
    BY DEF IInv, TypeOK
  <2>4. Change(obj[active], [obj[active] EXCEPT !.status = draft], applied)
    BY <2>1, <2>2, <2>3 DEF IInv, DraftOK, Change
  <2> QED  BY <2>1, <2>2, <2>4
<1>3. ASSUME NEW k \in HelmComponents, Component(k) \/ FailComponent(k) PROVE UNCHANGED obj
  BY <1>3, ComponentSteps DEF IInv, StartRelease, Report, runtime
<1> QED
  BY <1>1, <1>2, <1>3
     DEF Next, System, Informer, Reconcile, Proceed, Environment, Failure, DeliverEvent,
         FireTimer, ResyncAll, Begin, Skip, GetTargetCluster, resolveTargetKubeconfig,
         LoadCredentials, FailSecret, FailGet, Restart, ChangeTarget, SetSecret,
         SetCredentials, Publisher, Administrator, HelmComponents, vars, runtime, Deliver, TimerFires,
         Resync, Take, TakeDeleted, TakeFails, RestartRuntime

(* A change keeps an object good.                                          *)
LEMMA ChangeGood ==
    ASSUME NEW o \in ObjectSet(PrerequisitesStatus), NEW p \in ObjectSet(PrerequisitesStatus),
           NEW a, NEW b, a \subseteq b, Good(o, a), Change(o, p, a)
    PROVE  Good(p, b)
<1>1. ASSUME NEW q \in ObjectSet(PrerequisitesStatus), q.exists
      PROVE  /\ q \in [exists: {TRUE}, gen: 1..MaxGen, spec: Specs, status: PrerequisitesStatus]
             /\ q.gen \in Nat /\ q.status.observedGeneration \in Nat
  <2>1. q \in [exists: {TRUE}, gen: 1..MaxGen, spec: Specs, status: PrerequisitesStatus]
    BY <1>1, ExistsType
  <2>2. q.gen \in 1..MaxGen /\ q.status.observedGeneration \in 0..MaxGen
    BY <2>1 DEF PrerequisitesStatus
  <2>3. MaxGen \in Nat
    BY ClusterPrerequisitesAssumption
  <2>4. q.gen \in Nat /\ q.status.observedGeneration \in Nat
    BY <2>2, <2>3
  <2> QED  BY <2>1, <2>4
<1>2. CASE p = o
  BY <1>1, <1>2, VerdictKept DEF Good
<1>3. ASSUME NEW s \in Specs, p = New(s)
      PROVE  Good(p, b)
  BY <1>3 DEF Good, New, NoStatus
<1>4. ASSUME o.exists, NEW s \in Specs, p = [o EXCEPT !.spec = s, !.gen = o.gen + 1]
      PROVE  Good(p, b)
  <2>1. p.status = o.status /\ p.gen = o.gen + 1
    BY <1>1, <1>4
  <2>2. o.status.observedGeneration <= o.gen
    BY <1>4 DEF Good
  <2>3. o.gen \in Nat /\ o.status.observedGeneration \in Nat
    BY <1>1, <1>4
  <2>4. p.status.observedGeneration < p.gen /\ p.status.observedGeneration <= p.gen
    BY <2>1, <2>2, <2>3
  <2>5. p.status.observedGeneration # p.gen
    BY <2>1, <2>2, <2>3
  <2> QED  BY <2>4, <2>5 DEF Good
<1>5. CASE p = Absent
  BY <1>5 DEF Good, Absent
<1>6. ASSUME o.exists, NEW st \in PrerequisitesStatus, p = [o EXCEPT !.status = st],
             Verdict(o.spec, o.gen, st, a)
      PROVE  Good(p, b)
  <2>1. p.status = st /\ p.gen = o.gen /\ p.spec = o.spec
    BY <1>1, <1>6
  <2>2. Verdict(o.spec, o.gen, st, b)
    BY <1>6, VerdictKept
  <2>3. st.observedGeneration = o.gen
    BY <1>6 DEF Verdict
  <2>4. p.status.observedGeneration <= p.gen
    <3>1. o.gen \in Nat
      BY <1>1, <1>6
    <3> QED  BY <2>1, <2>3, <3>1
  <2> QED  BY <2>1, <2>2, <2>4 DEF Good
<1> QED  BY <1>2, <1>3, <1>4, <1>5, <1>6 DEF Change, UserChange

LEMMA StatusStep ==
    IInv /\ Sound(PrerequisitesStatus)' /\ [Next]_vars => StatusesGood'
<1> SUFFICES ASSUME IInv, Sound(PrerequisitesStatus)', [Next]_vars, NEW n \in Names
             PROVE  Good(obj'[n], applied')
  BY DEF StatusesGood
<1>1. obj \in [Names -> ObjectSet(PrerequisitesStatus)] /\ obj'[n] \in ObjectSet(PrerequisitesStatus)
  BY DEF IInv, Sound, RuntimeTypeOK
<1>2. Change(obj[n], obj'[n], applied)
  <2>1. CASE UNCHANGED obj
    BY <2>1 DEF Change
  <2>2. ASSUME NEW m \in Names, NEW p, Change(obj[m], p, applied), obj' = [obj EXCEPT ![m] = p]
        PROVE  Change(obj[n], obj'[n], applied)
    BY <2>2, <1>1 DEF Change
  <2> QED  BY <2>1, <2>2, Changes
<1>3. Good(obj[n], applied) /\ applied \subseteq applied'
  BY AppliedGrows DEF IInv, StatusesGood
<1> QED  BY <1>1, <1>2, <1>3, ChangeGood

LEMMA StatusesFit == StatusesGood => StatusFitsSpec
<1> SUFFICES ASSUME StatusesGood, NEW n \in Names, Observed(obj[n])
             PROVE  /\ Fits(obj[n].spec, obj[n].status)
                    /\ obj[n].status.reason \in ComponentReasons =>
                          Earned(obj[n].spec, obj[n].status)
  BY DEF StatusFitsSpec, ComponentReasons
<1>1. Verdict(obj[n].spec, obj[n].gen, obj[n].status, applied)
  BY DEF StatusesGood, Good, Observed
<1> QED  BY <1>1 DEF Verdict, CertManagerFits, IngressFits, Earned, asked

-----------------------------------------------------------------------------
(* No object is forgotten.                                                 *)

LEMMA ForgottenStep == IInv /\ [Next]_vars => NeverForgotten'
<1> SUFFICES ASSUME IInv, [Next]_vars, NEW n \in Names, obj'[n].exists
             PROVE  Attended(n)'
  BY DEF NeverForgotten
<1>t. Sound(PrerequisitesStatus) /\ obj \in [Names -> ObjectSet(PrerequisitesStatus)]
  BY DEF IInv, Sound, RuntimeTypeOK
<1>a. obj[n].exists => Attended(n)
  BY DEF IInv, NeverForgotten
<1>1. CASE User
  <2>1. PICK m \in Names : \E o : Store(m, o)
    BY <1>1, <1>t, Fitted, UserStores DEF User
  <2> QED  BY <1>a, <1>t, <2>1, StoreAttends DEF Store
<1>2. CASE Informer
  BY <1>2, <1>a, <1>t, InformerAttends DEF Informer, DeliverEvent, FireTimer, ResyncAll, Deliver,
     TimerFires, Resync
<1>3. ASSUME NEW m \in Names, Begin(m) \/ FailGet(m) PROVE Attended(n)'
  BY <1>3, <1>a, <1>t, Fitted, TakeAttends DEF Begin, FailGet, Take, TakeFails
<1>4. ASSUME NEW m \in Names, Skip(m) PROVE Attended(n)'
  BY <1>4, <1>a, <1>t, TakeDeletedAttends DEF Skip, TakeDeleted
<1>5. CASE UNCHANGED runtime
  BY <1>5, <1>a DEF runtime, Attended
<1>6. ASSUME NEW k \in HelmComponents, Component(k) \/ FailComponent(k) PROVE Attended(n)'
  BY <1>5, <1>6, ComponentSteps DEF IInv, StartRelease, Report
<1>7. CASE Write \/ Fail
  <2>1. active \in Names /\ active # None /\ step # "idle"
    BY <1>7, WorkerCopy DEF IInv, Write, Fail
  <2>2. CASE Abandon
    BY <1>a, <1>t, <2>1, <2>2, AbandonAttends DEF Abandon
  <2>3. CASE step = "write" /\ WriteStatus(draft, "later")
    <3>1. obj[n].exists
      <4>1. CASE n = active /\ "copy" \in fresh[active]
        BY <2>3, <4>1, WorkerCopy DEF IInv
      <4>2. CASE ~(n = active /\ "copy" \in fresh[active])
        BY <2>1, <2>3, <4>2, <1>t DEF WriteStatus, Abandon
      <4> QED  BY <4>1, <4>2
    <3> QED  BY <1>a, <1>t, <2>1, <2>3, <3>1, WriteAttends
  <2> QED  BY <1>7, <2>2, <2>3 DEF Write, Fail
<1>8. CASE Restart
  BY <1>8, RestartAttends DEF Restart, RestartRuntime
<1> QED
  BY <1>1, <1>2, <1>3, <1>4, <1>5, <1>6, <1>7, <1>8
     DEF Next, System, Reconcile, Proceed, Environment, Failure, GetTargetCluster,
         resolveTargetKubeconfig, LoadCredentials, FailSecret, ChangeTarget, SetSecret,
         SetCredentials, Publisher, Administrator, HelmComponents, vars

-----------------------------------------------------------------------------
(* The theorems.                                                           *)

LEMMA InitIInv == Init => IInv
<1> SUFFICES ASSUME Init PROVE IInv
  OBVIOUS
<1>1. Sound(PrerequisitesStatus) /\ WorkerOK
  BY Fitted, InitSound DEF Init, RuntimeInit, WorkerOK
<1>2. TypeOK
  BY <1>1, NoStatusType DEF Init, TypeOK, Sound, Helm!ReleaseRecord
<1>3. StepOK /\ DraftOK /\ HeldOK
  BY DEF Init, StepOK, DraftOK, HeldOK, HelmComponents
<1>4. StatusesGood
  BY DEF Init, RuntimeInit, StatusesGood, Good, Absent, New, NoStatus
<1>5. NeverForgotten
  BY InitAttends DEF Init, NeverForgotten
<1> QED  BY <1>1, <1>2, <1>3, <1>4, <1>5 DEF IInv

LEMMA NextIInv == IInv /\ [Next]_vars => IInv'
<1> SUFFICES ASSUME IInv, [Next]_vars PROVE IInv'
  OBVIOUS
<1>1. TypeOK' /\ Sound(PrerequisitesStatus)' /\ WorkerOK'
  BY TypeStep, SoundStep DEF IInv
<1>2. StepOK' /\ DraftOK' /\ HeldOK'
  BY StepStep, DraftStep, HeldStep
<1>3. StatusesGood' /\ NeverForgotten'
  BY <1>1, StatusStep, ForgottenStep
<1> QED  BY <1>1, <1>2, <1>3 DEF IInv

THEOREM Inductive == Spec => []IInv
BY InitIInv, NextIInv, PTL DEF Spec

(* Every variable keeps its type: the statuses built up over the steps of  *)
(* a reconcile, from the one the copy had, are ones the API admits.        *)
THEOREM TypeCorrect == Spec => []TypeOK
<1>1. IInv => TypeOK
  BY DEF IInv
<1> QED  BY <1>1, Inductive, PTL

(* However long Helm took, and whatever became of the object, its target   *)
(* and its tags meanwhile, a status that claims the object's generation    *)
(* fits the object's spec, and the components it reports were installed    *)
(* for the target, by the tag, that this spec names.                       *)
THEOREM StatusIsOfThisSpec == Spec => []StatusFitsSpec
<1>1. IInv => StatusFitsSpec
  BY StatusesFit DEF IInv
<1> QED  BY <1>1, Inductive, PTL

(* A status about to be written reports the versions Helm has on record,   *)
(* wherever the tags lead by then and whichever operation failed.          *)
THEOREM VersionsAreHelms == Spec => []ReportsWhatHelmDid
<1>1. IInv => ReportsWhatHelmDid
  BY DEF IInv, HeldOK, Held, ReportsWhatHelmDid, HelmComponents, ComponentReasons
<1> QED  BY <1>1, Inductive, PTL

(* Nothing the controller, its users or a failure does leaves an object    *)
(* that nothing will reconcile again.                                      *)
THEOREM NoneForgotten == Spec => []NeverForgotten
<1>1. IInv => NeverForgotten
  BY DEF IInv
<1> QED  BY <1>1, Inductive, PTL

(* The controller, with its cache, its queue, its Helm operations and its  *)
(* restarts, implements the atomic StatusContract.                         *)
THEOREM Refinement == Spec => ImplementsContract
<1>1. Init => Contract!Init
  BY DEF Init, RuntimeInit, Contract!Init, Absent, Contract!Absent, New, Contract!New
<1>2. IInv /\ [Next]_vars => [Contract!Next]_obj
  <2> SUFFICES ASSUME IInv, [Next]_vars PROVE [Contract!Next]_obj
    OBVIOUS
  <2>t. obj \in [Names -> ObjectSet(PrerequisitesStatus)]
    BY DEF IInv, TypeOK, RuntimeTypeOK
  <2>1. CASE UNCHANGED obj
    BY <2>1
  <2>2. ASSUME NEW n \in Names, NEW p, Change(obj[n], p, applied), obj' = [obj EXCEPT ![n] = p]
        PROVE  [Contract!Next]_obj
    <3>1. CASE p = obj[n]
      BY <2>2, <2>t, <3>1
    <3>2. ASSUME ~obj[n].exists, NEW s \in Specs, p = New(s)
          PROVE  Contract!Create(n)
      BY <2>2, <3>2 DEF Contract!Create, New, Contract!New
    <3>3. ASSUME obj[n].exists, obj[n].gen < MaxGen, NEW s \in Specs,
                 p = [obj[n] EXCEPT !.spec = s, !.gen = obj[n].gen + 1]
          PROVE  Contract!EditSpec(n)
      BY <2>2, <2>t, <3>3 DEF Contract!EditSpec
    <3>4. ASSUME obj[n].exists, p = Absent
          PROVE  Contract!Delete(n)
      BY <2>2, <3>4 DEF Contract!Delete, Absent, Contract!Absent
    <3>5. ASSUME obj[n].exists, NEW st \in PrerequisitesStatus,
                 p = [obj[n] EXCEPT !.status = st], Verdict(obj[n].spec, obj[n].gen, st, applied)
          PROVE  Contract!Publish(n)
      <4>1. obj[n] \in [exists: {TRUE}, gen: 1..MaxGen, spec: Specs, status: PrerequisitesStatus]
        BY <2>t, <3>5, ExistsType
      <4>2. obj'[n] = p /\ p.status = st
        BY <2>2, <2>t, <3>5, <4>1
      <4> QED  BY <2>2, <3>5, <4>2 DEF Contract!Publish, Verdict
    <3> QED
      BY <2>2, <3>1, <3>2, <3>3, <3>4, <3>5 DEF Change, UserChange, Contract!Next
  <2> QED  BY <2>1, <2>2, Changes
<1> QED  BY <1>1, <1>2, Inductive, PTL DEF Spec, ImplementsContract, Contract!Spec

(* With crashes, restarts, lost answers and uninstallations, the controller *)
(* keeps to what an installation may do with a release of Helm's.           *)
THEOREM InstallsAlone == Spec => ImplementsInstallation
<1> DEFINE Work == [p \in {"operator"} |-> IF helm = "none" THEN {} ELSE {<<cluster, step>>}]
<1>1. Init => Installation!Init
  BY DEF Init, Installation!Init, Helm!NoRelease, Installation!NoRelease
<1>2. IInv /\ [Next]_vars => [Installation!Next]_<<release, Work>>
  <2> SUFFICES ASSUME IInv, [Next]_vars PROVE [Installation!Next]_<<release, Work>>
    OBVIOUS
  <2>1. CASE UNCHANGED <<release, Work>>
    BY <2>1
  <2>2. ASSUME UNCHANGED release, helm' = "none"
        PROVE  [Installation!Next]_<<release, Work>>
    <3>1. Work' = [p \in {"operator"} |-> {}]
      BY <2>2
    <3>2. CASE helm = "none"
      BY <2>2, <3>2
    <3>3. CASE helm # "none"
      <4>1. Installation!End("operator")
        BY <2>2, <3>1, <3>3 DEF Installation!End
      <4> QED  BY <4>1 DEF Installation!Next
    <3> QED  BY <3>2, <3>3
  <2>3. ASSUME NEW k \in HelmComponents, Component(k) \/ FailComponent(k)
        PROVE  [Installation!Next]_<<release, Work>>
    <3>1. step = k /\ TypeOK
      BY <2>3, ComponentSteps DEF IInv
    <3>2. CASE StartRelease(k)
      <4>1. /\ helm = "none" /\ helm' # "none" /\ cluster \in Clusters
            /\ UNCHANGED <<cluster, step>> /\ NoInstallation(k) = {}
            /\ LoadChartFromOCI(k) # None
            /\ \/ Helm!StartInstall(<<cluster, k>>, LoadChartFromOCI(k), "operator")
               \/ Helm!StartUpgrade(<<cluster, k>>, LoadChartFromOCI(k), "operator")
        BY <3>2 DEF StartRelease, At, NeedsHelm
      <4>2. LoadChartFromOCI(k) \in Versions
        <5>1. copy.spec \in PrerequisitesSpec
          BY <3>1, WorkerCopy DEF IInv, HelmComponents
        <5> QED  BY <3>1, <4>1, <5>1, ChartType
      <4>3. Work = [p \in {"operator"} |-> {}] /\ Work' = [Work EXCEPT !["operator"] = {<<cluster, k>>}]
        BY <3>1, <4>1
      <4>4. Installation!Start("operator", <<cluster, k>>, LoadChartFromOCI(k))
        BY <4>1, <4>3
           DEF Installation!Start, Installation!StartInstall, Installation!StartUpgrade,
               Helm!StartInstall, Helm!StartUpgrade, Helm!Record, Installation!Record
      <4>5. <<cluster, k>> \in Clusters \X {"certManager", "ingress"}
        BY <4>1 DEF HelmComponents
      <4> QED  BY <4>2, <4>4, <4>5 DEF Installation!Next
    <3>3. ASSUME NEW st \in ComponentStatus, Report(k, st), Recorded(k)
          PROVE  [Installation!Next]_<<release, Work>>
      <4>1. helm' = "none"
        BY <3>3 DEF Report
      <4>2. ASSUME helm # "none", NEW status \in {"deployed", "failed"},
                   Helm!Record(<<cluster, k>>, status, chart(k), None)
            PROVE  [Installation!Next]_<<release, Work>>
        <5>1. /\ release[<<cluster, k>>].status = "pending"
              /\ release[<<cluster, k>>].by = "operator"
              /\ release[<<cluster, k>>].version = chart(k)
          BY <3>1, <4>2, PendingType DEF IInv, StepOK
        <5>2. Installation!Conclude(<<cluster, k>>, "operator", status)
          BY <4>2, <5>1 DEF Helm!Record, Installation!Conclude, Installation!Record
        <5>3. /\ Work["operator"] = {<<cluster, k>>}
              /\ Work' = [Work EXCEPT !["operator"] = {}]
          BY <3>1, <4>1, <4>2
        <5>4. Installation!End("operator")
          BY <5>2, <5>3 DEF Installation!End
        <5> QED  BY <5>4 DEF Installation!Next
      <4> QED  BY <2>2, <3>3, <4>1, <4>2 DEF Recorded
    <3> QED  BY <2>3, <3>2, <3>3, ComponentSteps DEF IInv
  <2>4. ASSUME NEW r \in Clusters \X {"certManager", "ingress"}, Administrator(r)
        PROVE  [Installation!Next]_<<release, Work>>
    <3>1. UNCHANGED Work
      BY <2>4 DEF Administrator, local
    <3>2. Installation!Remove(r)
      BY <2>4, <3>1
         DEF Administrator, Installation!Remove, Helm!Uninstall, Installation!Uninstall,
             Helm!NoRelease, Installation!NoRelease
    <3> QED  BY <3>2 DEF Installation!Next
  <2>5. CASE UNCHANGED <<release, local>>
    BY <2>1, <2>5 DEF local
  <2>6. CASE \/ GetTargetCluster \/ resolveTargetKubeconfig \/ LoadCredentials \/ FailSecret
             \/ \E n \in Names : Begin(n)
    <3>1. step \notin HelmComponents /\ UNCHANGED <<release, helm>>
      BY <2>6 DEF GetTargetCluster, resolveTargetKubeconfig, LoadCredentials, FailSecret,
         Begin, Take, HelmComponents, IInv, WorkerOK
    <3> QED  BY <2>2, <3>1 DEF IInv, StepOK
  <2>7. CASE Write \/ Fail \/ Restart
    BY <2>2, <2>7 DEF Write, Fail, Restart, Rest
  <2> QED
    BY <2>3, <2>4, <2>5, <2>6, <2>7
       DEF Next, System, Reconcile, Proceed, Informer, DeliverEvent, FireTimer, ResyncAll, Skip,
           Environment, Failure, FailGet, User, ChangeTarget, SetSecret, SetCredentials,
           Publisher, HelmComponents, vars
<1> QED
  BY <1>1, <1>2, Inductive, PTL DEF Spec, ImplementsInstallation, Installation!Spec

-----------------------------------------------------------------------------
(* What is reported as deployed.                                           *)

(* Tags do not move: they lead to the same charts for good.                *)
Pinned == \A f, g \in Registries : f = g

(* No two objects dispute the version of a component: there is only one    *)
(* object, or all specs that want a component want it by the same tag.     *)
Undisputed ==
    \/ \E p \in Names : Names = {p}
    \/ \A s, t \in Specs :
          /\ s.traefik = t.traefik
          /\ None \notin {s.certManager, t.certManager} => s.certManager = t.certManager

(* Helm has not deployed another version of k everywhere.                  *)
NotReplaced(k, v) ==
    \E c \in Clusters :
        release[<<c, k>>].status = "deployed" => release[<<c, k>>].version = v

(* A fresh copy was taken from a cache that is still fresh.                *)
CacheOK == \A n \in Names : "copy" \in fresh[n] => "cache" \in fresh[n]

(* Once a status is observed, whoever reconciles the object knows its spec. *)
SpecKnown ==
    \A n \in Names :
        Observed(obj[n]) =>
            /\ cache[n].exists /\ cache[n].spec = obj[n].spec
            /\ active = n => copy.spec = obj[n].spec

(* What is and what was being installed is the chart its tag leads to.     *)
PinnedOK ==
    /\ helm # "none" => chart(step) = LoadChartFromOCI(step)
    /\ \A t \in Targets, k \in HelmComponents, tag \in Tags, v \in Versions :
          <<t, k, tag, v>> \in applied => v = registry[<<k, tag>>]

(* ReportsDeployed, in these terms.                                        *)
Reported ==
    \A n \in Names, k \in HelmComponents :
        /\ Observed(obj[n])
        /\ obj[n].status.reason \in ComponentReasons
        /\ IsInstalled(obj[n].status.components[k])
        => NotReplaced(k, obj[n].status.components[k].version)

(* ReportsDeployed is not inductive: Helm could upgrade a component the    *)
(* object already reports, were it not for SpecKnown, by which the copy it *)
(* works from wants the tag it was installed by, and PinnedOK.             *)
DInv == IInv /\ CacheOK /\ SpecKnown /\ PinnedOK /\ Reported

LEMMA CacheStep == IInv /\ CacheOK /\ [Next]_vars => CacheOK'
<1> SUFFICES ASSUME IInv, CacheOK, [Next]_vars PROVE CacheOK'
  OBVIOUS
<1>t. fresh \in [Names -> SUBSET {"cache", "copy"}] /\ Sound(PrerequisitesStatus)
  BY DEF IInv, Sound, RuntimeTypeOK
<1>1. CASE UNCHANGED fresh
  BY <1>1 DEF CacheOK
<1>2. ASSUME NEW n \in Names, NEW o, Store(n, o) PROVE CacheOK'
  BY <1>2, <1>t DEF Store, CacheOK
<1>3. CASE User
  BY <1>2, <1>3, <1>t, Fitted, UserStores DEF User
<1>4. CASE Informer
  BY <1>4, <1>t DEF Informer, DeliverEvent, FireTimer, ResyncAll, Deliver, TimerFires, Resync, CacheOK
<1>5. ASSUME NEW n \in Names, Begin(n) \/ Skip(n) \/ FailGet(n) PROVE CacheOK'
  BY <1>5, <1>t DEF Begin, Skip, FailGet, Take, TakeDeleted, TakeFails, CacheOK
<1>6. ASSUME NEW k \in HelmComponents, Component(k) \/ FailComponent(k) PROVE CacheOK'
  BY <1>1, <1>6, ComponentSteps DEF IInv, StartRelease, Report, runtime
<1>7. CASE Write \/ Fail
  <2>1. active \in Names
    BY <1>7, WorkerCopy DEF IInv, Write, Fail
  <2> QED  BY <1>7, <1>t, <2>1 DEF Write, Fail, WriteStatus, Abandon, CacheOK
<1>8. CASE Restart
  BY <1>8 DEF Restart, RestartRuntime, CacheOK
<1> QED
  BY <1>1, <1>3, <1>4, <1>5, <1>6, <1>7, <1>8
     DEF Next, System, Reconcile, Proceed, Environment, Failure, GetTargetCluster,
         resolveTargetKubeconfig, LoadCredentials, FailSecret, ChangeTarget, SetSecret,
         SetCredentials, Publisher, Administrator, HelmComponents, vars, runtime

(* An object just written by a user has no observed status.                *)
LEMMA UserUnobserved ==
    ASSUME NEW o \in ObjectSet(PrerequisitesStatus), NEW p, Good(o, applied), UserChange(o, p)
    PROVE  ~Observed(p)
<1>1. ASSUME NEW s \in Specs, p = New(s) PROVE ~Observed(p)
  BY <1>1 DEF New, NoStatus, Observed
<1>2. ASSUME o.exists, NEW s \in Specs, p = [o EXCEPT !.spec = s, !.gen = o.gen + 1]
      PROVE  ~Observed(p)
  <2>1. o \in [exists: {TRUE}, gen: 1..MaxGen, spec: Specs, status: PrerequisitesStatus]
    BY <1>2, ExistsType
  <2>2. o.gen \in 1..MaxGen /\ o.status.observedGeneration \in 0..MaxGen
    BY <2>1 DEF PrerequisitesStatus
  <2>3. MaxGen \in Nat
    BY ClusterPrerequisitesAssumption
  <2>4. o.status.observedGeneration <= o.gen
    BY <1>2 DEF Good
  <2>5. o.status.observedGeneration # o.gen + 1
    BY <2>2, <2>3, <2>4
  <2>6. p.status = o.status /\ p.gen = o.gen + 1
    BY <1>2, <2>1
  <2> QED  BY <2>5, <2>6 DEF Observed
<1>3. CASE p = Absent
  BY <1>3 DEF Absent, Observed
<1> QED  BY <1>1, <1>2, <1>3 DEF UserChange

LEMMA SpecKnownStep == IInv /\ CacheOK /\ SpecKnown /\ [Next]_vars => SpecKnown'
<1> SUFFICES ASSUME IInv, CacheOK, SpecKnown, [Next]_vars, NEW n \in Names, Observed(obj'[n])
             PROVE  /\ cache'[n].exists /\ cache'[n].spec = obj'[n].spec
                    /\ active' = n => copy'.spec = obj'[n].spec
  BY DEF SpecKnown
<1> DEFINE Known == /\ cache'[n].exists /\ cache'[n].spec = obj'[n].spec
                    /\ active' = n => copy'.spec = obj'[n].spec
<1>t. /\ Sound(PrerequisitesStatus)
      /\ obj \in [Names -> ObjectSet(PrerequisitesStatus)]
      /\ cache \in [Names -> ObjectSet(PrerequisitesStatus)]
      /\ Good(obj[n], applied)
      /\ None \notin Names
  BY ClusterPrerequisitesAssumption DEF IInv, Sound, RuntimeTypeOK, StatusesGood
<1>1. ASSUME obj'[n] = obj[n], cache'[n] = cache[n], UNCHANGED <<active, copy>> \/ active' = None
      PROVE  Known
  BY <1>1, <1>t DEF SpecKnown
<1>2. CASE User
  <2>1. PICK m \in Names : \E o : UserChange(obj[m], o) /\ Store(m, o)
    BY <1>2, <1>t, Fitted, UserStores DEF User
  <2>2. PICK o : UserChange(obj[m], o) /\ Store(m, o)
    BY <2>1
  <2>3. m # n
    BY <1>t, <2>2, UserUnobserved DEF Store
  <2> QED  BY <1>1, <1>t, <2>2, <2>3 DEF Store
<1>3. CASE Informer
  <2>1. ASSUME NEW m \in Names, Deliver(m) PROVE Known
    BY <2>1, <1>t DEF Deliver, SpecKnown, Observed
  <2> QED
    BY <1>1, <1>3, <2>1 DEF Informer, DeliverEvent, FireTimer, ResyncAll, TimerFires, Resync
<1>4. ASSUME NEW m \in Names, Begin(m) PROVE Known
  BY <1>4 DEF Begin, Take, SpecKnown
<1>5. ASSUME NEW m \in Names, Skip(m) \/ FailGet(m) PROVE Known
  BY <1>1, <1>5 DEF Skip, FailGet, TakeDeleted, TakeFails
<1>6. ASSUME NEW k \in HelmComponents, Component(k) \/ FailComponent(k) PROVE Known
  BY <1>1, <1>6, ComponentSteps DEF IInv, StartRelease, Report, runtime
<1>7. CASE Write \/ Fail
  <2>1. active \in Names
    BY <1>7, WorkerCopy DEF IInv, Write, Fail
  <2>2. active' = None /\ cache' = cache
    BY <1>7 DEF Write, Fail, WriteStatus, Abandon
  <2>3. CASE obj'[n] = obj[n]
    BY <1>1, <2>2, <2>3
  <2>4. CASE obj'[n] # obj[n]
    <3>1. n = active /\ "copy" \in fresh[n] /\ obj' = [obj EXCEPT ![n].status = draft]
      BY <1>7, <1>t, <2>1, <2>4 DEF Write, Fail, WriteStatus, Abandon
    <3>2. cache[n] = obj[n] /\ obj[n].exists
      BY <1>7, <3>1, WorkerCopy DEF CacheOK, IInv, Sound, CopiesAgree, Write, Fail
    <3>3. obj'[n].spec = obj[n].spec
      BY <1>t, <3>1, <3>2, ExistsType
    <3> QED  BY <1>t, <2>2, <3>2, <3>3
  <2> QED  BY <2>3, <2>4
<1>8. CASE Restart
  BY <1>8, <1>t DEF Restart, RestartRuntime, Observed
<1>9. CASE UNCHANGED runtime
  BY <1>1, <1>9 DEF runtime
<1> QED
  BY <1>2, <1>3, <1>4, <1>5, <1>6, <1>7, <1>8, <1>9
     DEF Next, System, Reconcile, Proceed, Environment, Failure, GetTargetCluster,
         resolveTargetKubeconfig, LoadCredentials, FailSecret, ChangeTarget, SetSecret,
         SetCredentials, Publisher, Administrator, HelmComponents, vars

(* Only the end of an operation on k replaces a version of k, and what it  *)
(* installs is then not replaced.                                          *)
LEMMA ReleaseStep ==
    ASSUME IInv, [Next]_vars, NEW k \in HelmComponents, NEW v, NotReplaced(k, v)
    PROVE  NotReplaced(k, v)' \/ (step = k /\ helm # "none" /\ chart(k) # v)
<1>t. release \in [Clusters \X {"certManager", "ingress"} -> Helm!ReleaseRecord]
  BY DEF IInv, TypeOK
<1>1. CASE UNCHANGED release
  BY <1>1 DEF NotReplaced
<1>2. ASSUME NEW r \in Clusters \X HelmComponents, NEW rec,
             release' = [release EXCEPT ![r] = rec],
             rec.status = "deployed" /\ r[2] = k => rec.version = v
      PROVE  NotReplaced(k, v)'
  <2>1. PICK c \in Clusters :
          release[<<c, k>>].status = "deployed" => release[<<c, k>>].version = v
    BY DEF NotReplaced
  <2>2. release'[<<c, k>>] = IF r = <<c, k>> THEN rec ELSE release[<<c, k>>]
    BY <1>2, <1>t DEF HelmComponents
  <2>3. release'[<<c, k>>].status = "deployed" => release'[<<c, k>>].version = v
    BY <1>2, <2>1, <2>2
  <2> QED  BY <2>3 DEF NotReplaced
<1>3. ASSUME NEW r \in Clusters \X {"certManager", "ingress"}, Administrator(r)
      PROVE  NotReplaced(k, v)'
  BY <1>2, <1>3 DEF Administrator, Helm!Uninstall, Helm!NoRelease, HelmComponents
<1>4. ASSUME NEW j \in HelmComponents, Component(j) \/ FailComponent(j)
      PROVE  NotReplaced(k, v)' \/ (step = k /\ helm # "none" /\ chart(k) # v)
  <2>1. CASE StartRelease(j)
    <3>1. <<cluster, j>> \in Clusters \X HelmComponents
      BY <2>1 DEF StartRelease
    <3> QED
      BY <1>2, <2>1, <3>1 DEF StartRelease, Helm!StartInstall, Helm!StartUpgrade, Helm!Record
  <2>2. CASE Recorded(j) /\ step = j
    <3>1. helm # "none" => <<cluster, j>> \in Clusters \X HelmComponents /\ NeedsHelm(j)
      BY <2>2 DEF IInv, StepOK
    <3>2. CASE j # k \/ chart(j) = v
      BY <1>1, <1>2, <2>2, <3>1, <3>2 DEF Recorded, Helm!Record
    <3>3. CASE j = k /\ chart(j) # v
      BY <1>1, <2>2, <3>1, <3>3 DEF Recorded
    <3> QED  BY <3>2, <3>3
  <2> QED  BY <1>4, <2>1, <2>2, ComponentSteps DEF IInv
<1> QED
  BY <1>1, <1>3, <1>4
     DEF Next, System, Informer, Reconcile, Proceed, Environment, Failure, User, DeliverEvent,
         FireTimer, ResyncAll, Begin, Skip, GetTargetCluster, resolveTargetKubeconfig,
         LoadCredentials, Write, Fail, FailSecret, FailGet, Restart, ChangeTarget, SetSecret,
         SetCredentials, Publisher, HelmComponents, vars

LEMMA PinnedStep == Pinned /\ IInv /\ PinnedOK /\ [Next]_vars => PinnedOK'
<1> SUFFICES ASSUME Pinned, IInv, PinnedOK, [Next]_vars PROVE PinnedOK'
  OBVIOUS
<1>r. UNCHANGED registry
  <2>1. TypeOK /\ TypeOK'
    BY NextIInv DEF IInv
  <2> QED  BY <2>1 DEF TypeOK, Pinned
<1>t. IInv /\ TypeOK /\ Sound(PrerequisitesStatus) /\ WorkerOK /\ StepOK
  BY DEF IInv
<1>1. ASSUME helm' = "none" \/ UNCHANGED <<copy, helm, step, cluster, release>>,
             UNCHANGED applied
      PROVE  PinnedOK'
  BY <1>r, <1>1 DEF PinnedOK, LoadChartFromOCI, wanted, chart
<1>2. CASE User \/ Informer
  BY <1>1, <1>2 DEF User, UserAction, Create, EditSpec, Delete, Store, Informer, DeliverEvent,
     FireTimer, ResyncAll, Deliver, TimerFires, Resync, local
<1>3. ASSUME NEW n \in Names, Begin(n) \/ Skip(n) \/ FailGet(n) PROVE PinnedOK'
  <2>1. helm' = "none"
    BY <1>3, <1>t DEF Begin, Skip, FailGet, Take, TakeDeleted, TakeFails, local, WorkerOK, StepOK,
       HelmComponents
  <2> QED  BY <1>1, <1>3, <2>1 DEF Begin, Skip, FailGet
<1>4. CASE GetTargetCluster \/ resolveTargetKubeconfig \/ LoadCredentials \/ FailSecret
  <2>1. helm' = "none"
    BY <1>4, <1>t DEF GetTargetCluster, resolveTargetKubeconfig, LoadCredentials, FailSecret,
       StepOK, HelmComponents
  <2> QED
    BY <1>1, <1>4, <2>1 DEF GetTargetCluster, resolveTargetKubeconfig, LoadCredentials, FailSecret
<1>5. ASSUME NEW k \in HelmComponents, Component(k) \/ FailComponent(k) PROVE PinnedOK'
  <2>1. step = k
    BY <1>5, <1>t, ComponentSteps
  <2>2. CASE StartRelease(k)
    <3>1. UNCHANGED <<copy, step, cluster, applied>> /\ cluster \in Clusters
      BY <2>2 DEF StartRelease, runtime
    <3>2. release' = [release EXCEPT ![<<cluster, k>>] =
                        [status |-> "pending", version |-> LoadChartFromOCI(k),
                         by |-> "operator"]]
      BY <2>2 DEF StartRelease, Helm!StartInstall, Helm!StartUpgrade, Helm!Record
    <3>3. release'[<<cluster, k>>].version = LoadChartFromOCI(k)
      BY <1>t, <3>1, <3>2 DEF TypeOK, HelmComponents
    <3> QED
      BY <1>r, <2>1, <3>1, <3>3 DEF PinnedOK, LoadChartFromOCI, wanted, chart
  <2>3. ASSUME NEW st, Report(k, st), Became(k, st) PROVE PinnedOK'
    <3>1. helm' = "none"
      BY <2>3 DEF Report
    <3>2. CASE UNCHANGED applied
      BY <1>1, <3>1, <3>2
    <3>3. CASE /\ helm # "none"
               /\ applied' = applied \cup {<<copy.spec.target, k, wanted(k), chart(k)>>}
      <4>1. chart(k) = registry[<<k, wanted(k)>>]
        BY <2>1, <3>3 DEF PinnedOK, LoadChartFromOCI
      <4> QED  BY <1>r, <3>1, <3>3, <4>1 DEF PinnedOK
    <3> QED  BY <2>3, <3>2, <3>3 DEF Became
  <2> QED  BY <1>5, <1>t, <2>2, <2>3, ComponentSteps
<1>6. CASE Write \/ Fail \/ Restart
  BY <1>1, <1>6, RestType DEF Write, Fail, Restart
<1>7. ASSUME NEW r \in Clusters \X {"certManager", "ingress"}, Administrator(r) PROVE PinnedOK'
  <2>1. UNCHANGED <<copy, local, applied>> /\ release' = [release EXCEPT ![r] = Helm!NoRelease]
    BY <1>7 DEF Administrator, Helm!Uninstall, runtime
  <2>2. helm # "none" => release'[<<cluster, step>>] = release[<<cluster, step>>]
    BY <1>7, <1>t, <2>1 DEF Administrator, TypeOK, StepOK, HelmComponents
  <2> QED  BY <1>r, <2>1, <2>2 DEF PinnedOK, LoadChartFromOCI, wanted, chart, local
<1>8. CASE UNCHANGED <<runtime, local, release, applied>>
  BY <1>1, <1>8 DEF runtime, local
<1> QED
  BY <1>2, <1>3, <1>4, <1>5, <1>6, <1>7, <1>8
     DEF Next, System, Reconcile, Proceed, Environment, Failure, ChangeTarget, SetSecret,
         SetCredentials, Publisher, HelmComponents, vars

(* An installed component has the version its object's tag leads to.       *)
LEMMA VerdictVersion ==
    ASSUME TypeOK, PinnedOK, NEW spec, NEW gen, NEW st, Verdict(spec, gen, st, applied),
           st.reason \in ComponentReasons, NEW k \in HelmComponents,
           IsInstalled(st.components[k])
    PROVE  st.components[k].version = registry[<<k, asked(spec, k)>>]
<1>1. <<spec.target, k, asked(spec, k), st.components[k].version>> \in applied
  BY DEF Verdict, CertManagerFits, IngressFits, asked, HelmComponents
<1>2. /\ spec.target \in Targets
      /\ asked(spec, k) \in Tags
      /\ st.components[k].version \in Versions
  BY <1>1 DEF TypeOK
<1> QED  BY <1>1, <1>2 DEF PinnedOK

LEMMA ReportsStep ==
    ASSUME Undisputed, DInv, [Next]_vars
    PROVE  Reported'
<1> SUFFICES ASSUME NEW n \in Names, NEW k \in HelmComponents, Observed(obj'[n]),
                    obj'[n].status.reason \in ComponentReasons,
                    IsInstalled(obj'[n].status.components[k]),
                    NEW v, v = obj'[n].status.components[k].version
             PROVE  NotReplaced(k, v)'
  BY DEF Reported, NotReplaced
<1>t. /\ IInv /\ TypeOK /\ Sound(PrerequisitesStatus) /\ WorkerOK
      /\ obj \in [Names -> ObjectSet(PrerequisitesStatus)]
  BY DEF DInv, IInv, Sound, RuntimeTypeOK
<1>1. CASE obj'[n] = obj[n]
  <2>1. NotReplaced(k, v)
    BY <1>1 DEF DInv, Reported
  <2>2. ASSUME step = k, helm # "none" PROVE chart(k) = v
    <3>1. obj[n].exists /\ obj[n].spec \in Specs /\ Verdict(obj[n].spec, obj[n].gen, obj[n].status, applied)
      <4>1. obj[n].exists
        BY <1>1 DEF Observed
      <4>2. obj[n] \in [exists: {TRUE}, gen: 1..MaxGen, spec: Specs, status: PrerequisitesStatus]
        BY <1>t, <4>1, ExistsType
      <4> QED  BY <1>1, <4>1, <4>2 DEF DInv, IInv, StatusesGood, Good, Observed
    <3>2. v = registry[<<k, asked(obj[n].spec, k)>>]
      BY <1>1, <1>t, <3>1, VerdictVersion DEF DInv
    <3>3. active \in Names /\ copy.spec \in Specs
      BY <1>t, <2>2, WorkerCopy DEF HelmComponents
    <3>4. ASSUME NEW p, Names = {p} PROVE copy.spec = obj[n].spec
      BY <1>1, <3>3, <3>4 DEF DInv, SpecKnown
    <3>5. ASSUME \A s, t \in Specs :
                   /\ s.traefik = t.traefik
                   /\ None \notin {s.certManager, t.certManager} => s.certManager = t.certManager
          PROVE  wanted(k) = asked(obj[n].spec, k)
      <4>1. k = "certManager" => copy.spec.certManager # None
        BY <1>t, <2>2 DEF IInv, StepOK, NeedsHelm, NoInstallation
      <4>2. k = "certManager" => obj[n].spec.certManager # None
        <5>1. CertManagerFits(obj[n].spec, obj[n].status.components["certManager"], applied)
          BY <1>1, <3>1 DEF Verdict
        <5> QED  BY <1>1, <5>1 DEF CertManagerFits, IsInstalled
      <4>3. /\ copy.spec.traefik = obj[n].spec.traefik
            /\ k = "certManager" => copy.spec.certManager = obj[n].spec.certManager
        BY <3>1, <3>3, <3>5, <4>1, <4>2
      <4> QED  BY <4>3 DEF wanted, asked, HelmComponents
    <3>6. wanted(k) = asked(obj[n].spec, k)
      BY <3>4, <3>5 DEF Undisputed, wanted
    <3> QED  BY <2>2, <3>2, <3>6 DEF DInv, PinnedOK, LoadChartFromOCI
  <2> QED  BY <1>1, <1>t, <2>1, <2>2, ReleaseStep
<1>2. CASE obj'[n] # obj[n]
  <2>1. ~User
    <3>1. SUFFICES ASSUME User PROVE FALSE
      OBVIOUS
    <3>2. PICK m \in Names : \E o : UserChange(obj[m], o) /\ Store(m, o)
      BY <1>t, <3>1, Fitted, UserStores DEF User
    <3>3. PICK o : UserChange(obj[m], o) /\ Store(m, o)
      BY <3>2
    <3>4. m = n /\ obj'[n] = o /\ obj[n] \in ObjectSet(PrerequisitesStatus)
      BY <1>2, <1>t, <3>3 DEF Store
    <3> QED  BY <1>t, <3>3, <3>4, UserUnobserved DEF IInv, StatusesGood
  <2>2. Write \/ Fail
    <3>1. ASSUME NEW j \in HelmComponents, Component(j) \/ FailComponent(j) PROVE UNCHANGED obj
      BY <1>t, <3>1, ComponentSteps DEF IInv, StartRelease, Report, runtime
    <3> QED
      BY <1>2, <2>1, <3>1
         DEF Next, System, Informer, Reconcile, Proceed, Environment, Failure, DeliverEvent,
             FireTimer, ResyncAll, Begin, Skip, GetTargetCluster, resolveTargetKubeconfig,
             LoadCredentials, FailSecret, FailGet, Restart, ChangeTarget, SetSecret,
             SetCredentials, Publisher, Administrator, HelmComponents, vars, runtime, Deliver, TimerFires,
             Resync, Take, TakeDeleted, TakeFails, RestartRuntime
  <2>3. /\ step = "write" /\ n = active /\ "copy" \in fresh[active] /\ release' = release
        /\ obj' = [obj EXCEPT ![active].status = draft]
    <3>1. active \in Names
      BY <1>t, <2>2, WorkerCopy DEF Write, Fail
    <3> QED  BY <1>2, <1>t, <2>2, <3>1 DEF Write, Fail, WriteStatus, Abandon
  <2>4. obj'[n].status = draft
    <3>1. obj[n].exists /\ obj[n] \in ObjectSet(PrerequisitesStatus)
      BY <1>t, <2>3, WorkerCopy
    <3>2. obj[n] \in [exists: {TRUE}, gen: 1..MaxGen, spec: Specs, status: PrerequisitesStatus]
      BY <3>1, ExistsType
    <3> QED  BY <1>t, <2>3, <3>2
  <2>5. NotReplaced(k, v)
    BY <2>3, <2>4 DEF DInv, IInv, HeldOK, Held, NotReplaced
  <2> QED  BY <2>3, <2>5 DEF NotReplaced
<1> QED  BY <1>1, <1>2

(* What a status reports as installed is what Helm deployed last, unless   *)
(* it was uninstalled or an operation on it is pending or failed: as long  *)
(* as no other object asks for another version and no tag moves.           *)
THEOREM DeployedIsReported ==
    ASSUME Undisputed, Pinned
    PROVE  Spec => []ReportsDeployed
<1>1. Init => DInv
  <2> SUFFICES ASSUME Init PROVE DInv
    OBVIOUS
  <2>1. /\ \A n \in Names : ~Observed(obj[n])
        /\ fresh = [n \in Names |-> {"cache"}] /\ helm = "none" /\ applied = {}
    BY DEF Init, RuntimeInit, Observed, New, Absent, NoStatus
  <2> QED  BY <2>1, InitIInv DEF DInv, CacheOK, SpecKnown, PinnedOK, Reported
<1>2. DInv /\ [Next]_vars => DInv'
  BY NextIInv, CacheStep, SpecKnownStep, PinnedStep, ReportsStep DEF DInv
<1>3. DInv => ReportsDeployed
  BY DEF DInv, Reported, ReportsDeployed, NotReplaced, HelmComponents, ComponentReasons
<1> QED  BY <1>1, <1>2, <1>3, PTL DEF Spec
=============================================================================
