------------------------ MODULE ClusterPrerequisites ------------------------
(***************************************************************************)
(* The ClusterPrerequisites controller (internal/controller/               *)
(* clusterprerequisites_controller.go): it reads a ClusterPrerequisites,   *)
(* the TargetCluster it names, the kubeconfig Secret that one names and    *)
(* the registry credentials, installs or upgrades cert-manager and then    *)
(* Traefik with Helm, and reports each component in the status.            *)
(*                                                                         *)
(* TargetClusters are seen as this controller sees them: values that       *)
(* another controller and the users change at any time.  What happens      *)
(* between the image-pull Secret and the chart is HelmInstaller's matter:  *)
(* here it succeeds or fails.                                              *)
(*                                                                         *)
(* The version in a spec is the tag that is pulled from the registry; the  *)
(* version in a status is the one the chart pulled says it has.  A tag may *)
(* come to lead to another chart at any time.                              *)
(***************************************************************************)
EXTENDS Naturals

CONSTANTS
    Names,        \* the ClusterPrerequisites
    None,
    MaxGen,       \* bound on metadata.generation
    Targets,      \* the TargetClusters a spec may refer to
    Clusters,     \* the clusters behind them
    Bundled,      \* those that report a +k3s or +rke2 version
    Tags,         \* the versions specs may ask for: tags in the registry
    Versions,     \* the versions of the charts there
    Registries,   \* what the tags may lead to
    SecretNames,  \* kubeconfig Secrets
    CredsNames,   \* Application Collection credentials Secrets
    Specs,        \* the specs users write
    Views,        \* the forms in which a TargetCluster may be found
    Kubeconfigs   \* what a kubeconfig Secret may hold

Modes == {"skip", "auto", "use", "install"}

(* A component that is not set and one that is disabled are the same; a    *)
(* version left out is one of Tags, the controller's default.              *)
PrerequisitesSpec ==
    [target: Targets, certManager: Tags \cup {None}, ingress: Modes,
     traefik: Tags, loadBalancer: {"none", "cloud", "metallb"},
     creds: CredsNames \cup {None}]

(* The kubernetesVersion of a TargetCluster's status is told apart by the  *)
(* cluster that reported it.                                               *)
NoTarget == [exists |-> FALSE, ready |-> FALSE, version |-> None, byo |-> None]

TargetView ==
    {NoTarget}
    \cup {v \in [exists: {TRUE}, ready: BOOLEAN, version: Clusters \cup {None},
                 byo: SecretNames \cup {None}] : v.ready => v.version # None}

ASSUME ClusterPrerequisitesAssumption ==
    /\ None \notin Names \cup Clusters \cup Tags \cup Versions \cup SecretNames \cup CredsNames
    /\ MaxGen \in Nat \ {0}
    /\ Bundled \subseteq Clusters
    /\ Clusters \cap {"absent", "empty", "garbage"} = {}
    /\ Specs \subseteq PrerequisitesSpec
    /\ Views \subseteq TargetView
    /\ Kubeconfigs \subseteq {"absent", "empty", "garbage"} \cup Clusters
    /\ Registries \subseteq [{"certManager", "ingress"} \X Tags -> Versions \cup {None}]

VARIABLES
    obj, cache, fresh, queue, active, copy,  \* as in ControllerRuntime
    release,      \* as in HelmRelease
    tcs,          \* tcs[t]: the TargetCluster as the cache has it
    secret,       \* what each kubeconfig Secret holds
    credentials,  \* the credentials Secrets that hold a user name and a password
    registry,     \* the version of the chart that each tag leads to, if any
    applied,      \* history: what was installed, for a target, by a tag, at a version
    step,         \* where the reconcile under way is
    helm,         \* the Helm operation it waits for
    tc,           \* its copy of the TargetCluster
    cluster,      \* the cluster of the kubeconfig it resolved
    creds,        \* whether it has credentials
    draft         \* the status it has computed so far

-----------------------------------------------------------------------------
(* Statuses.                                                               *)

Components == {"certManager", "ingress", "loadBalancer"}

ComponentStatus ==
    [ready: BOOLEAN, skipped: BOOLEAN, version: Versions \cup Clusters \cup {None}]

(* The component statuses the controller gives, but for their messages.    *)
Skipped == [ready |-> FALSE, skipped |-> TRUE, version |-> None]
NotInstalled == [ready |-> FALSE, skipped |-> FALSE, version |-> None]
Provided(c) == [ready |-> TRUE, skipped |-> TRUE, version |-> c]
Installed(v) == [ready |-> TRUE, skipped |-> FALSE, version |-> v]
NotNeeded == Installed(None)

Reasons == {"AllComponentsReady", "ComponentsNotReady", "MissingTargetCluster",
            "TargetClusterNotReady", "MissingKubeconfig"}

PrerequisitesStatus ==
    [ready: BOOLEAN, reason: Reasons \cup {"none"},
     components: [Components -> ComponentStatus], observedGeneration: 0..MaxGen]

NoStatus == [ready |-> FALSE, reason |-> "none",
             components |-> [k \in Components |-> NotInstalled],
             observedGeneration |-> 0]

(* ControllerRuntime, with the lemmas about it.                            *)
INSTANCE ControllerRuntimeProofs WITH EmptyStatus <- NoStatus

(* The releases: one of each Helm component on each cluster.               *)
Helm == INSTANCE HelmRelease WITH
            Releases <- Clusters \X {"certManager", "ingress"},
            Callers <- {"operator"}

runtime == <<obj, cache, fresh, queue, active, copy>>
local == <<step, helm, tc, cluster, creds, draft>>
world == <<tcs, secret, credentials, registry>>
vars == <<runtime, local, world, release, applied>>

TypeOK ==
    /\ RuntimeTypeOK(PrerequisitesStatus)
    /\ release \in [Clusters \X {"certManager", "ingress"} -> Helm!ReleaseRecord]
    /\ tcs \in [Targets -> Views]
    /\ secret \in [SecretNames -> Kubeconfigs]
    /\ credentials \in SUBSET CredsNames
    /\ registry \in Registries
    /\ applied \in SUBSET (Targets \X {"certManager", "ingress"} \X Tags \X Versions)
    /\ step \in {"idle", "target", "kubeconfig", "credentials", "certManager",
                 "ingress", "write"}
    /\ helm \in {"none", "installing", "upgrading"}
    /\ tc \in Views \cup {NoTarget}
    /\ cluster \in Clusters \cup {"garbage", None}
    /\ creds \in BOOLEAN
    /\ draft \in PrerequisitesStatus

Rest ==
    /\ step' = "idle"
    /\ helm' = "none"
    /\ tc' = NoTarget
    /\ cluster' = None
    /\ creds' = FALSE
    /\ draft' = NoStatus

Init ==
    /\ RuntimeInit
    /\ release = [r \in Clusters \X {"certManager", "ingress"} |-> Helm!NoRelease]
    /\ tcs \in [Targets -> Views]
    /\ secret \in [SecretNames -> Kubeconfigs]
    /\ credentials \in SUBSET CredsNames
    /\ registry \in Registries
    /\ applied = {}
    /\ step = "idle"
    /\ helm = "none"
    /\ tc = NoTarget
    /\ cluster = None
    /\ creds = FALSE
    /\ draft = NoStatus

-----------------------------------------------------------------------------
(* Reconcile, up to the components.                                        *)

(* Mistaken: observedGeneration is left as it was.                         *)
markUnavailableUnobserved(st, gen, reason) ==
    [st EXCEPT !.ready = FALSE, !.reason = reason]

(* markUnavailable leaves the components as they were.                     *)
markUnavailable(st, gen, reason) ==
    [st EXCEPT !.ready = FALSE, !.reason = reason, !.observedGeneration = gen]

GiveUp(reason) ==
    /\ step' = "write"
    /\ draft' = markUnavailable(draft, copy.gen, reason)

Skip(n) == TakeDeleted(n) /\ UNCHANGED <<local, world, release, applied>>

Begin(n) ==
    /\ cache[n].exists
    /\ Take(n)
    /\ step' = "target"
    /\ draft' = cache[n].status
    /\ UNCHANGED <<helm, tc, cluster, creds, world, release, applied>>

(* Mistaken: a TargetCluster that exists will do.                          *)
GetTargetClusterUnready ==
    /\ step = "target"
    /\ LET t == tcs[copy.spec.target] IN
       \/ ~t.exists /\ GiveUp("MissingTargetCluster") /\ UNCHANGED tc
       \/ t.exists /\ step' = "kubeconfig" /\ tc' = t /\ UNCHANGED draft
    /\ UNCHANGED <<runtime, helm, cluster, creds, world, release, applied>>

GetTargetCluster ==
    /\ step = "target"
    /\ LET t == tcs[copy.spec.target] IN
       \/ ~t.exists /\ GiveUp("MissingTargetCluster") /\ UNCHANGED tc
       \/ t.exists /\ ~t.ready /\ GiveUp("TargetClusterNotReady") /\ UNCHANGED tc
       \/ t.ready /\ step' = "kubeconfig" /\ tc' = t /\ UNCHANGED draft
    /\ UNCHANGED <<runtime, helm, cluster, creds, world, release, applied>>

(* t names a Secret, and it has data.                                      *)
Resolves(t) == t.byo # None /\ secret[t.byo] \notin {"absent", "empty"}

(* The kubeconfig is not parsed: Helm and the API clients will do that.    *)
resolveTargetKubeconfig ==
    /\ step = "kubeconfig"
    /\ \/ /\ ~Resolves(tc)
          /\ GiveUp("MissingKubeconfig")
          /\ UNCHANGED cluster
       \/ /\ Resolves(tc)
          /\ step' = "credentials"
          /\ cluster' = secret[tc.byo]
          /\ UNCHANGED draft
    /\ UNCHANGED <<runtime, helm, tc, creds, world, release, applied>>

(* The error of loadApplicationCollectionCredentials is dropped.           *)
LoadCredentials ==
    /\ step = "credentials"
    /\ creds' = (copy.spec.creds \in credentials)
    /\ step' = "certManager"
    /\ UNCHANGED <<runtime, helm, tc, cluster, draft, world, release, applied>>

-----------------------------------------------------------------------------
(* The components.                                                         *)

(* The tag a spec asks for.                                                *)
asked(spec, k) == IF k = "certManager" THEN spec.certManager ELSE spec.traefik

wanted(k) == asked(copy.spec, k)

(* The version of the chart that is pulled.  The chart always has one, so  *)
(* that the code's recourse to the tag never applies.                      *)
LoadChartFromOCI(k) == registry[<<k, wanted(k)>>]

(* The version of the chart of the release that Helm is at work on.        *)
chart(k) == release[<<cluster, k>>].version

hasBundledTraefik(version) == version \in Bundled

(* What a component that needs no Helm gets.                               *)
NoInstallation(k) ==
    IF k = "certManager"
    THEN IF copy.spec.certManager = None THEN {Skipped} ELSE {}
    ELSE CASE copy.spec.ingress = "skip" -> {Skipped}
           [] copy.spec.ingress = "use" -> {Provided(None)}
           [] copy.spec.ingress = "auto" /\ hasBundledTraefik(tc.version) ->
                {Provided(tc.version)}
           [] OTHER -> {}

NeedsHelm(k) == NoInstallation(k) = {} /\ creds

loadBalancerComponentStatus(type) ==
    CASE type = "none" -> Skipped
      [] type = "cloud" -> NotNeeded
      [] type = "metallb" -> NotInstalled

(* Mistaken: a skipped component counts as missing.                        *)
isComponentReady(st) == st.ready

isComponentDone(st) == st.ready \/ st.skipped

(* Mistaken: observedGeneration counts the reconciles.                     *)
CompleteCounting(components) ==
    LET ready == \A k \in Components : isComponentDone(components[k]) IN
    [ready |-> ready,
     reason |-> IF ready THEN "AllComponentsReady" ELSE "ComponentsNotReady",
     components |-> components,
     observedGeneration |-> draft.observedGeneration + 1]

(* The status once all three components are known.                         *)
Complete(components) ==
    LET ready == \A k \in Components : isComponentDone(components[k]) IN
    [ready |-> ready,
     reason |-> IF ready THEN "AllComponentsReady" ELSE "ComponentsNotReady",
     components |-> components,
     observedGeneration |-> copy.gen]

(* Mistaken: a component that fails keeps the status it had.               *)
ReportChange(k, st) ==
    LET known == IF st = NotInstalled THEN draft.components[k] ELSE st
        components == [draft.components EXCEPT ![k] = known]
    IN
    /\ helm' = "none"
    /\ \/ /\ k = "certManager"
          /\ step' = "ingress"
          /\ draft' = [draft EXCEPT !.components = components]
       \/ /\ k = "ingress"
          /\ step' = "write"
          /\ draft' = Complete([components EXCEPT !["loadBalancer"] =
                                  loadBalancerComponentStatus(copy.spec.loadBalancer)])
    /\ UNCHANGED <<runtime, tc, cluster, creds, world>>

(* A component is done with; Traefik comes after cert-manager.             *)
Report(k, st) ==
    LET components == [draft.components EXCEPT ![k] = st] IN
    /\ helm' = "none"
    /\ \/ /\ k = "certManager"
          /\ step' = "ingress"
          /\ draft' = [draft EXCEPT !.components = components]
       \/ /\ k = "ingress"
          /\ step' = "write"
          /\ draft' = Complete([components EXCEPT !["loadBalancer"] =
                                  loadBalancerComponentStatus(copy.spec.loadBalancer)])
    /\ UNCHANGED <<runtime, tc, cluster, creds, world>>

At(k) == step = k /\ helm = "none"

WaitsFor(k) == step = k /\ helm # "none"

Settle(k) ==
    /\ At(k)
    /\ ~NeedsHelm(k)
    /\ \E st \in IF NoInstallation(k) = {} THEN {NotInstalled} ELSE NoInstallation(k) :
         Report(k, st)
    /\ UNCHANGED <<release, applied>>

(* NewKubeconfigRESTClientGetter cannot parse the kubeconfig.              *)
Reject(k) ==
    /\ At(k)
    /\ NeedsHelm(k)
    /\ cluster = "garbage"
    /\ Report(k, NotInstalled)
    /\ UNCHANGED <<release, applied>>

(* The registry has no such tag, or Helm finds the release pending.        *)
Refuse(k) ==
    /\ At(k)
    /\ NeedsHelm(k)
    /\ cluster \in Clusters
    /\ LoadChartFromOCI(k) = None \/ release[<<cluster, k>>].status = "pending"
    /\ Report(k, NotInstalled)
    /\ UNCHANGED <<release, applied>>

(* Mistaken: a pending release is taken over.                              *)
StartReleaseRegardless(k) ==
    /\ At(k)
    /\ NeedsHelm(k)
    /\ cluster \in Clusters
    /\ LoadChartFromOCI(k) # None
    /\ \/ /\ Helm!StartInstall(<<cluster, k>>, LoadChartFromOCI(k), "operator")
          /\ helm' = "installing"
       \/ /\ Helm!SeizeUpgrade(<<cluster, k>>, LoadChartFromOCI(k), "operator")
          /\ helm' = "upgrading"
    /\ UNCHANGED <<runtime, step, tc, cluster, creds, draft, world, applied>>

(* The chart is pulled and the operation begins.                           *)
StartRelease(k) ==
    /\ At(k)
    /\ NeedsHelm(k)
    /\ cluster \in Clusters
    /\ LoadChartFromOCI(k) # None
    /\ \/ /\ Helm!StartInstall(<<cluster, k>>, LoadChartFromOCI(k), "operator")
          /\ helm' = "installing"
       \/ /\ Helm!StartUpgrade(<<cluster, k>>, LoadChartFromOCI(k), "operator")
          /\ helm' = "upgrading"
    /\ UNCHANGED <<runtime, step, tc, cluster, creds, draft, world, applied>>

(* Mistaken: the version is asked of the registry afterwards.              *)
SuccessAsked(k) ==
    /\ Report(k, Installed(LoadChartFromOCI(k)))
    /\ applied' = applied \cup {<<copy.spec.target, k, wanted(k), chart(k)>>}

(* The version is that of the chart, as Helm gives the release back.       *)
Success(k) ==
    /\ Report(k, Installed(chart(k)))
    /\ applied' = applied \cup {<<copy.spec.target, k, wanted(k), chart(k)>>}

FinishRelease(k) ==
    /\ WaitsFor(k)
    /\ Helm!Conclude(<<cluster, k>>, "operator", "deployed")
    /\ Success(k)

(* A request on the way to Helm fails; the chart does not come up in time, *)
(* or it does and the answer to its record is lost; or its outcome is not  *)
(* recorded, which an install may report as success.                       *)
FailComponent(k) ==
    \/ /\ At(k)
       /\ NeedsHelm(k)
       /\ Report(k, NotInstalled)
       /\ UNCHANGED <<release, applied>>
    \/ /\ WaitsFor(k)
       /\ \E status \in {"failed", "deployed"} :
            Helm!Conclude(<<cluster, k>>, "operator", status)
       /\ Report(k, NotInstalled)
       /\ UNCHANGED applied
    \/ /\ WaitsFor(k)
       /\ \/ Report(k, NotInstalled) /\ UNCHANGED applied
          \/ helm = "installing" /\ Success(k)
       /\ UNCHANGED release

-----------------------------------------------------------------------------
(* The end of a reconcile: RequeueAfter or an error, never Result{}.       *)

(* Mistaken: writePrereqStatus patches instead of updating.                *)
WritePatch ==
    /\ step = "write"
    /\ PatchStatus(draft, "later")
    /\ Rest
    /\ UNCHANGED <<world, release, applied>>

(* Mistaken: nothing is left to do once everything is ready.               *)
WriteOnce ==
    /\ step = "write"
    /\ WriteStatus(draft, IF draft.ready THEN "never" ELSE "later")
    /\ Rest
    /\ UNCHANGED <<world, release, applied>>

Write ==
    /\ step = "write"
    /\ WriteStatus(draft, "later")
    /\ Rest
    /\ UNCHANGED <<world, release, applied>>

(* The TargetCluster cannot be read, or the update fails, which may only   *)
(* mean that its answer is lost.                                           *)
Fail ==
    /\ \/ step \in {"target", "write"} /\ Abandon
       \/ step = "write" /\ WriteStatus(draft, "later")
    /\ Rest
    /\ UNCHANGED <<world, release, applied>>

(* Failing to read a Secret counts as not finding it.                      *)
FailSecret ==
    /\ \/ step = "kubeconfig" /\ GiveUp("MissingKubeconfig") /\ UNCHANGED creds
       \/ step = "credentials" /\ step' = "certManager" /\ creds' = FALSE /\ UNCHANGED draft
    /\ UNCHANGED <<runtime, helm, tc, cluster, world, release, applied>>

FailGet(n) == TakeFails(n) /\ UNCHANGED <<local, world, release, applied>>

(* A Helm operation under way is left pending; the successor lists the     *)
(* TargetClusters anew.                                                    *)
Restart ==
    /\ RestartRuntime
    /\ Rest
    /\ tcs' \in [Targets -> Views]
    /\ UNCHANGED <<secret, credentials, registry, release, applied>>

-----------------------------------------------------------------------------
(* Users, the TargetCluster controller and administrators.                 *)

User == UserAction /\ UNCHANGED <<local, world, release, applied>>

ChangeTarget(t) ==
    /\ \E v \in Views \ {tcs[t]} : tcs' = [tcs EXCEPT ![t] = v]
    /\ UNCHANGED <<runtime, local, secret, credentials, registry, release, applied>>

SetSecret(s) ==
    /\ \E d \in Kubeconfigs \ {secret[s]} : secret' = [secret EXCEPT ![s] = d]
    /\ UNCHANGED <<runtime, local, tcs, credentials, registry, release, applied>>

SetCredentials(s) ==
    /\ credentials' = IF s \in credentials THEN credentials \ {s} ELSE credentials \cup {s}
    /\ UNCHANGED <<runtime, local, tcs, secret, registry, release, applied>>

(* Charts are published, withdrawn, or replaced under the same tag.        *)
Publisher ==
    /\ registry' \in Registries \ {registry}
    /\ UNCHANGED <<runtime, local, tcs, secret, credentials, release, applied>>

(* An administrator uninstalls a release nobody is at work on.             *)
Administrator(r) ==
    /\ ~(helm # "none" /\ r = <<cluster, step>>)
    /\ Helm!Uninstall(r)
    /\ UNCHANGED <<runtime, local, world, applied>>

-----------------------------------------------------------------------------
DeliverEvent(n) == Deliver(n) /\ UNCHANGED <<local, world, release, applied>>

FireTimer(n) == TimerFires(n) /\ UNCHANGED <<local, world, release, applied>>

ResyncAll == Resync /\ UNCHANGED <<local, world, release, applied>>

Informer == (\E n \in Names : DeliverEvent(n) \/ FireTimer(n)) \/ ResyncAll

Component(k) == Settle(k) \/ Reject(k) \/ Refuse(k) \/ StartRelease(k) \/ FinishRelease(k)

Proceed ==
    \/ GetTargetCluster \/ resolveTargetKubeconfig \/ LoadCredentials
    \/ \E k \in {"certManager", "ingress"} : Component(k)
    \/ Write

Reconcile == Proceed \/ \E n \in Names : Begin(n) \/ Skip(n)

System == Informer \/ Reconcile

Failure ==
    \/ Fail \/ FailSecret \/ Restart
    \/ \E k \in {"certManager", "ingress"} : FailComponent(k)
    \/ \E n \in Names : FailGet(n)

Environment ==
    \/ User
    \/ \E t \in Targets : ChangeTarget(t)
    \/ \E s \in SecretNames : SetSecret(s)
    \/ \E s \in CredsNames : SetCredentials(s)
    \/ Publisher
    \/ \E r \in Clusters \X {"certManager", "ingress"} : Administrator(r)
    \/ Failure

Next == System \/ Environment

Spec == Init /\ [][Next]_vars

-----------------------------------------------------------------------------
(* A component status that says Helm installed a chart.                    *)
IsInstalled(st) == st.ready /\ ~st.skipped

(* What a status may say of an object with this spec.                      *)
Fits(spec, st) ==
    LET cm == st.components["certManager"]
        ingress == st.components["ingress"]
    IN
    /\ st.ready <=> st.reason = "AllComponentsReady"
    /\ st.reason \in {"AllComponentsReady", "ComponentsNotReady"} =>
          /\ cm.skipped <=> spec.certManager = None
          /\ ingress.skipped /\ ~ingress.ready <=> spec.ingress = "skip"
          /\ ingress.skipped /\ ingress.ready => spec.ingress \in {"use", "auto"}
          /\ IsInstalled(ingress) => spec.ingress \in {"auto", "install"}
          /\ IsInstalled(cm) \/ IsInstalled(ingress) => spec.creds # None
          /\ st.components["loadBalancer"] = loadBalancerComponentStatus(spec.loadBalancer)
    /\ st.ready =>
          /\ spec.loadBalancer # "metallb"
          /\ spec.certManager # None => IsInstalled(cm)
          /\ spec.ingress = "install" => IsInstalled(ingress)

(* A component reported as installed was installed on behalf of the target *)
(* this spec names, by the tag it names, and came out at the version       *)
(* reported.                                                               *)
Earned(spec, st) ==
    \A k \in {"certManager", "ingress"} :
        IsInstalled(st.components[k]) =>
            <<spec.target, k, asked(spec, k), st.components[k].version>> \in applied

Observed(o) == o.exists /\ o.status.observedGeneration = o.gen

(* A status for the object's generation whose reason is about components   *)
(* fits the spec and was earned on the target it names, though it was      *)
(* computed from a cached copy minutes of Helm operations earlier, during  *)
(* which the object may be edited, or deleted and created anew.            *)
StatusFitsSpec ==
    \A n \in Names :
        Observed(obj[n]) =>
            /\ Fits(obj[n].spec, obj[n].status)
            /\ obj[n].status.reason \in {"AllComponentsReady", "ComponentsNotReady"} =>
                  Earned(obj[n].spec, obj[n].status)

(* api/v1alpha1/clusterprerequisites_types.go:168 "ready is true when the  *)
(* component is installed and healthy on the target cluster": so it is     *)
(* earned on the target of the spec the status claims to have observed.    *)
ComponentsEarned ==
    \A n \in Names : Observed(obj[n]) => Earned(obj[n].spec, obj[n].status)

(* api/v1alpha1/clusterprerequisites_types.go:177 "installedVersion is the *)
(* chart/version actually deployed on the target cluster.": Helm has       *)
(* deployed no other one everywhere.                                       *)
ReportsDeployed ==
    \A n \in Names, k \in {"certManager", "ingress"} :
        LET st == obj[n].status IN
        /\ Observed(obj[n])
        /\ st.reason \in {"AllComponentsReady", "ComponentsNotReady"}
        /\ IsInstalled(st.components[k])
        => \E c \in Clusters :
              release[<<c, k>>].status = "deployed" =>
                  release[<<c, k>>].version = st.components[k].version

(* When a status is about to be written, minutes after its first component *)
(* was done with, the versions it reports are those Helm has on record for *)
(* the cluster it worked on, and none is of an operation that failed: even *)
(* if tags have moved meanwhile, if cert-manager came up and Traefik did   *)
(* not, or if the outcome could not be recorded.  A release may have been  *)
(* uninstalled by then.                                                    *)
ReportsWhatHelmDid ==
    step = "write" /\ draft.reason \in {"AllComponentsReady", "ComponentsNotReady"} =>
        \A k \in {"certManager", "ingress"} :
            IsInstalled(draft.components[k]) =>
                /\ cluster \in Clusters
                /\ \/ release[<<cluster, k>>].status = "absent"
                   \/ /\ release[<<cluster, k>>].status \in {"deployed", "pending"}
                      /\ release[<<cluster, k>>].version = draft.components[k].version

(* No object is forgotten: something will reconcile it again.              *)
NeverForgotten == \A n \in Names : obj[n].exists => Attended(n)

(* A release is pending and no reconcile is at work on it.                 *)
Stuck(r) ==
    /\ release[r].status = "pending"
    /\ ~(helm # "none" /\ r = <<cluster, step>>)

(* What the reason should be, which components should be done, and at      *)
(* which versions.                                                         *)
DueReason(o) ==
    LET t == tcs[o.spec.target] IN
    CASE ~t.exists -> {"MissingTargetCluster"}
      [] t.exists /\ ~t.ready -> {"TargetClusterNotReady"}
      [] t.ready /\ ~Resolves(t) -> {"MissingKubeconfig"}
      [] OTHER -> {"AllComponentsReady", "ComponentsNotReady"}

Installable(o, k) ==
    LET c == secret[tcs[o.spec.target].byo] IN
    /\ o.spec.creds \in credentials
    /\ registry[<<k, asked(o.spec, k)>>] # None
    /\ c \in Clusters
    /\ ~Stuck(<<c, k>>)

DueReady(o) ==
    LET t == tcs[o.spec.target] IN
    /\ t.ready /\ Resolves(t)
    /\ o.spec.loadBalancer # "metallb"
    /\ o.spec.certManager = None \/ Installable(o, "certManager")
    /\ \/ o.spec.ingress \in {"skip", "use"}
       \/ o.spec.ingress = "auto" /\ hasBundledTraefik(t.version)
       \/ Installable(o, "ingress")

DueVersions(o) ==
    \A k \in {"certManager", "ingress"} :
        /\ o.status.reason \in {"AllComponentsReady", "ComponentsNotReady"}
        /\ IsInstalled(o.status.components[k])
        => o.status.components[k].version = registry[<<k, asked(o.spec, k)>>]

Accurate(o) ==
    /\ o.status.observedGeneration = o.gen
    /\ o.status.reason \in DueReason(o)
    /\ o.status.ready <=> DueReady(o)
    /\ DueVersions(o)

(* To the users of the API the controller is atomic.                       *)
Contract == INSTANCE StatusContract WITH EmptyStatus <- NoStatus

ImplementsContract == Contract!Spec

(* It uses Helm as the installer does: what a reconcile began it ends or   *)
(* gives up, and no other reconcile, before or after a restart, works on   *)
(* the same release meanwhile.                                             *)
Installation == INSTANCE ReleaseContract WITH
    Releases <- Clusters \X {"certManager", "ingress"},
    Callers <- {"operator"},
    work <- [p \in {"operator"} |-> IF helm = "none" THEN {} ELSE {<<cluster, step>>}]

ImplementsInstallation == Installation!Spec
=============================================================================
