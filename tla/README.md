# rancher-operator in TLA+

The operator (`src/`, a kubebuilder project on controller-runtime v0.24 and
Helm v4) reconciles three kinds of objects of `core.rancher-operator.io`. This
directory models the two controllers that do something, each alone and both
together, what they share, and the package that drives Helm for one of them; TLC checks the models on small
instances, and TLAPS proves every safety property the passing runs check, and the refinements, for all instances
(`ReportsDeployed` from two premises, section 4).

## 1. The system

| component | source | state it keeps | operations |
|---|---|---|---|
| TargetCluster controller | `internal/controller/targetcluster_controller.go`, `api/v1alpha1/targetcluster_types.go` | `status` of each TargetCluster: ready, reason of the Available condition, kubernetesVersion, observedGeneration | `Reconcile`: checks the spec, reads the kubeconfig Secret, `ServerVersion`, lists nodes, writes the status, asks for a requeue |
| ClusterPrerequisites controller | `internal/controller/clusterprerequisites_controller.go`, `api/v1alpha1/clusterprerequisites_types.go` | `status` of each ClusterPrerequisites: ready, reason, three component statuses, observedGeneration; releases on the target | `Reconcile`: reads the TargetCluster, its kubeconfig Secret and the registry credentials; installs or upgrades cert-manager, then Traefik; reports the load balancer; writes the status |
| Helm package | `internal/helm/installer.go`, `pullsecret.go` | namespace, image-pull Secret and Helm release on the target cluster | `EnsureImagePullSecret`, `LoadChartFromOCI`, `InstallOrUpgrade` |
| manager | `cmd/main.go` | informer cache, one work queue and one worker per controller | start, restart, optional leader election (off by default; `config/manager/manager.yaml` turns it on) |
| REST getter | `internal/helm/getter.go` | none | adapter from a kubeconfig to Helm |
| RancherManager controller | `internal/controller/ranchermanager_controller.go` | none | a stub: `Reconcile` returns at once |

They meet in shared state only. Users write specs and Secrets through the API
server. The controllers read objects from informer caches, which trail the API
server, and write statuses with `Status().Update`, which is refused when the copy
it carries is out of date. The ClusterPrerequisites controller reads the
`status` that the TargetCluster controller writes but does not watch it, and
neither watches Secrets. Each watches its own kind without a predicate, so its
own status writes call it again. A single worker serves all objects of a kind.

What is hard: a status is computed from a copy that was read seconds (probes) or
minutes (Helm) earlier while users edit, delete and re-create the object;
every request may fail, or succeed with its answer lost; the process may die
between any two steps; wake-ups come from events, delays and errors and may be
merged; and several processes may run when leader election is off. The
lines where this bites are the `hazards` of `PROJECT.json`.

What makes each part correct:

- both controllers: a status that claims to have observed the present generation
  is a verdict on the present spec; no object is forgotten; once the world
  rests every status becomes accurate; to API users a status write is atomic;
- ClusterPrerequisites, besides: a component reported as installed was installed
  on the target named, by the tag named, and the version reported is the one of the chart that was deployed;
- both together: what the one concludes from the status the other has written is
  about the cluster it acts on, or about one the same Secret led to before; changes
  travel through both;
- the Helm package: one operation at a time per release, no release without its
  pull Secret, and calls that are repeated end in a deployed release.

## 2. Modules

| module | what it is |
|---|---|
| `ControllerRuntime` | external: API server, cache, queue, worker, optimistic status write; instantiated by both controllers |
| `ControllerRuntimeProofs` | lemmas about it, for any set of statuses; instantiated by both controllers in its place |
| `TargetCluster` | the TargetCluster controller, its environment and its safety properties |
| `TargetClusterLive` | fairness, and its convergence |
| `TargetClusterProofs` | proofs about `TargetCluster` |
| `StatusContract` | the abstract specification both controllers are shown to implement |
| `ClusterPrerequisites`, `ClusterPrerequisitesLive`, `ClusterPrerequisitesProofs` | the same for the ClusterPrerequisites controller |
| `Operator` | both controllers in one process, over one API server, and what they do to each other |
| `OperatorProofs` | proofs about `Operator` |
| `HelmRelease` | external: the release record Helm keeps and its rules |
| `HelmInstaller`, `HelmInstallerLive` | `internal/helm` on one target cluster, by several processes |
| `HelmInstallerProofs` | proofs about `HelmInstaller` |
| `ReleaseContract` | what an installation may do with a release; `HelmInstaller` and `ClusterPrerequisites` implement it |
| `MC...` | sets of specs and views for TLC |

Operators whose comment begins with *Mistaken* are not part of any
specification: each is a plausible bug that the properties are checked to
detect, by putting it in the place of the operator that follows it
(`PROJECT.json`, `mutants`).

### ControllerRuntime

`obj` is what the API server holds, `cache` what the informer has delivered, `copy`
what the worker read when it took `active` from `queue`. A resourceVersion is only ever
compared with the server's present one, so it is represented by `fresh[n]`, the
set of copies of `n` that carry the present one; a write empties the set.
`WriteStatus` succeeds exactly when the worker's copy is fresh, and leaves
everything fresh when it changes nothing (the API server then stores nothing). A queue
item is idle, delayed or ready; the watch event of a write that happens during a
reconcile makes the item ready, and the Result of that reconcile does not change that.
Undelivered events of one object are merged: the controllers see only states.
A restart is one step, since nothing is reconciled before the caches are
synchronised; afterwards every existing object is ready. Initially, too, users may have
created objects before the manager first starts.

### TargetCluster

`Begin` is `r.Get` with the checks of the spec, `ReadSecret` the Secret, its key,
the parsing and the client, then `ProbeVersion`, `ListNodes` and `Write`. In `step`
is where the reconcile is; `outcome` is the status it will write and the Result
it will return. `GiveUp` is `markUnavailable` with one of the two kinds of Result. `Fail` and
`FailGet` are the returned errors, including an update that was stored and reported
as failed. The environment (`User`, `SetSecret`, `Outage`, `Restart`, `Peer`) acts between any two
steps, without bound.

`Peer` is another process of the operator, which there may be when the constant `LeaderElection` is
FALSE: it publishes a verdict of its own on the present object, which the optimistic write allows
it at any moment; of its reconciles nothing else is seen here.

Abstractions: the Available condition is folded into its reason (True exactly for
Reachable); messages, nodeCount and transition times are left out; a cluster
stands for the version it reports; a Secret is read as it is now (its cached
value is some earlier one, which is the same as reading a moment earlier). The
CRD admits only the type `byo`; `UnsupportedType` is reached in `targetcluster_live` with the
value `reserved`, for a CRD that is ahead of the controller.

### ClusterPrerequisites

`GetTargetCluster`, `resolveTargetKubeconfig` and `LoadCredentials` are the three
look-ups; for each of the two Helm components either `Settle` (nothing to install, or no
credentials), `Reject` (the REST getter cannot parse the
kubeconfig), `Refuse` (the release is pending), or `StartRelease` followed, after any delay, by
`FinishRelease` or `FailComponent`. `Report` stores the component status; after
the ingress it adds the load balancer and the overall verdict, as lines 125-146
do without any request in between. A mode of ingress stands for enabled and
useBundled together. `tcs` is what this controller finds when it reads a TargetCluster, which
another controller and users change at any time; `applied` is a history variable: the components
that a successful operation installed, on behalf of which target, by which tag, and at which version. Everything the code does
between the start of a component and Helm (pull Secret, chart) is one step with the start of the operation, or fails;
`HelmInstaller` has the details. As there, the chart may come up and the answer to its record be lost:
`FailComponent` then reports a failure of what is recorded as deployed.

Tags and versions are different things. What a spec calls a version is the tag under which a chart is pulled
(`installer.go:76`); what a status calls the installed version is the one that the chart of the release has in its metadata
(lines 207-210 and 290-293). `registry` says which version each tag of each component leads to, if any, and `Publisher` changes it
at any time, up to the sets of `Registries`: charts are withdrawn, or replaced under the same tag. Each reconcile pulls anew
(`LoadChartFromOCI`); the chart is then in memory, so that a tag that moves during the operation changes nothing of
it, and `Success` reports the version on record (`chart`). That the pull and the start of the operation are one step loses nothing: what
happens to the registry in between could as well happen after it. Lines 207 and 290 fall back to the tag when the chart has no version; Helm's
loader refuses such charts, so that this does not occur. What matters here of a chart is its version: two charts of one version are the same.

### Operator

`Operator` extends `ClusterPrerequisites` and instantiates `TargetCluster` (as `TargetClusterProofs`, to have
the theorems too), under other names for its
variables, the Secrets apart, which both read. `tcs` is now `View` of the TargetCluster controller's
cache: the client of both reconcilers reads through one informer (a TargetCluster of another type than `byo` names no Secret for it, line 335). Each action is an action of one of the two modules
(`PrerequisitesStep`, `TargetClusterStep`); the environment's `ChangeTarget` is gone, since users and
the other controller do that. `RestartOperator` ends both. Helm cannot reach a cluster
that is not `up` (`Cut`). The composition starts with its objects in place, since that is
where the two meet, and with any spec, any Secret and any cluster behind it.

### HelmInstaller

`call[p]` is where process `p` is in the sequence namespace, pull Secret, chart, look-up,
install or upgrade, each request a step. Its `version` is that of the chart that is pulled, chosen freely at `Begin`: tags are
`ClusterPrerequisites`' matter. A request that writes is accepted (`Perform`),
refused by the server (`Refused`), or fails with or without having been served
(`FailRequest`). The pull Secret's resourceVersion is represented as above
(`current`). Helm's record of a release is absent, pending, deployed or failed. A pending
record refuses upgrades; a process that dies during its operation leaves it pending.
Assumed of users: they may prepare the namespace, with a Secret of another type in it,
but do not delete the namespace or the Secret afterwards, and they
uninstall only what nobody is working on. `PullSecretFirst` rests on the former.

### StatusContract

Users alone create, edit and delete; the controller alone writes statuses, each in one step,
with the generation of that moment and fit (`Fits`) for the spec of that moment. Both
controllers implement it with the identity on `obj`: caches, queues and copies are hidden.
What may be said of a spec, `Fits`, is the parameter.

### ReleaseContract

A release and who waits for it. An operation begins on a release that is not pending (`Start`); only the caller that began
it ends it (`End`), with its outcome recorded or not; an administrator uninstalls what nobody waits for (`Remove`); the answer
to the request that begins it may be lost, and a release left pending by that or by a crash is begun by nobody again.
`HelmInstaller` implements it with the releases its processes are applying, `ClusterPrerequisites` with the one its worker
waits for: the coarse view one module has of `internal/helm` and the detailed one are held to the same contract.

## 3. Runs

| run | instance | properties |
|---|---|---|
| `targetcluster` | 1 object, 1 Secret, 1 cluster, 2 generations, other operator processes; 1.3 M states | `TypeOK`, `StatusFitsSpec`, `NeverForgotten`, `ImplementsContract` |
| `targetcluster_live` | 1 object of any type, 1 Secret, 1 cluster, 2 generations | `Converges`, `ConvergesUnlessInvalid` |
| `prerequisites` | 1 object, 2 targets, Traefik by 2 tags, modes install and auto, no cert-manager, tags that do not move, 2 generations; credentials and releases come and go; 1.1 M states | `TypeOK`, `StatusFitsSpec`, `NeverForgotten`, `ReportsDeployed`, `ImplementsContract`, `ImplementsInstallation` |
| `prerequisites_moved` | 1 object, 1 target, cert-manager and Traefik; the tag of cert-manager leads to 2 charts in turn; 3.0 M states | `StatusFitsSpec`, `ReportsWhatHelmDid` |
| `prerequisites_live` | 1 object with cert-manager, target ready or not, kubeconfig usable or not, chart in the registry or not; 0.5 M states | `Converges` |
| `prerequisites_stale` | an edit moves the object to another target | `ComponentsEarned` is violated |
| `prerequisites_pair` | 2 objects, 1 target, 2 tags of cert-manager | `ReportsDeployed` is violated |
| `operator` | 1 TargetCluster, 1 ClusterPrerequisites with Traefik in mode auto, 2 clusters, one of which ships Traefik, an unusable kubeconfig, a tag that moves, 1 event; 0.4 M states | `AutoSkipsUnlessMoved`, `OperatorConverges` |
| `operator_auto` | 1 event | `AutoSkipsBundled` is violated |
| `installer` | 2 processes, 1 release, 2 credentials | `TypeOK`, `OneAtATime`, `PullSecretFirst`, `Deploys`, `ImplementsContract` |
| `installer_stuck` | 1 process, 1 release | `InstallsOrUpgrades` is violated |
| `installer_foreign` | 1 process, 1 release | `UpdatesPullSecret` is violated |

Why the bounds are enough. `MaxGen` is the only counter of the single controllers: two generations are an edit
behind the controller's back, and deletion and re-creation, which is unlimited, starts the
generation over, so a stale copy may have a generation that is equal, lower or higher. Objects of a kind interact
only through the worker, the queue and the releases of a target: hence one object, but for
`prerequisites_pair` (the proofs are for any number). With one Secret and one cluster a TargetCluster can report no other cluster than the one its
Secret led to: for several, that half of `StatusFitsSpec` is shown by the theorem, not by the run.
Two components that Helm installs, each of which can succeed while the other one fails, are in `prerequisites_moved`;
that run leaves edits to `prerequisites`, which leaves cert-manager to it. `ReportsDeployed` with both components is shown by the theorem.
That no object starves is the strong fairness below, not a result. The number of failures,
restarts, outages, Secret changes and operations is not bounded in these runs. The runs of `Operator` have, besides, `MaxEvents`: what users, clusters and failures do is
counted there, and everything the controllers do in between is not. One event at any moment is enough for each stale
state. `operator` has one: an edit of the TargetCluster, a deletion, a change
of a Secret, an outage, a moved tag, an uninstallation, a failed request or a restart. A re-creation, an outage followed by recovery and whatever else takes two are not in
it, though any cluster may be up or down, and any Secret hold anything, at the start; without `Operator`, `targetcluster_live` and `prerequisites_live`
have events without bound. Deadlock is
checked in all runs.

Fairness. A worker goes on with its reconcile, events arrive, timers fire (weak
fairness): goroutines of one process that nothing blocks for ever, since the requests
to a target have a time-out of 15 seconds and a Helm operation of 10 minutes. That a
ready item is taken is strong fairness, per object: the worker may be busy whenever the item is looked at, but the queue
hands it out in the end. controller-runtime v0.24 orders items by priority, then by age, and gives what comes from the first listing or a resync the lower
one; that items of higher priority do not keep it waiting for ever is assumed. That the worker goes on assumes that the registry answers or refuses:
`LoadChartFromOCI` drops its context, so a pull has no time-out, and one that hangs would block
the controller. The informer's
periodic resync, which `cmd/main.go` leaves at its default, is not assumed: `Converges` of
`TargetClusterLive` has it as a premise (`ResyncFairness`) and so has `OperatorConverges`, the other properties do without it. Failures, users and restarts are never fair; they
stop at a moment of nobody's choosing (`Calm`), and what is claimed is
claimed after it.

What the runs show beyond "no error":

- A TargetCluster with an invalid kubeconfig gets an empty Result and Secrets are not
  watched. A repaired Secret is noticed only through the resync: `Converges` needs
  `ResyncFairness`, and `ConvergesUnlessInvalid` is what holds without it.
- `installer_stuck`: an operator that dies during an installation leaves the release
  pending, and Helm refuses every later upgrade ("another operation is in progress").
  `InstallOrUpgrade` promises to install or upgrade; it does neither until someone
  rolls the release back or removes it.
- `installer_foreign`: `EnsureImagePullSecret` promises to update an existing Secret that differs; a Secret's type cannot be
  changed, so one of another type is refused on every call.
- `prerequisites_stale`: `markUnavailable` keeps the components of the former spec, so an
  object moved to a missing target reports, for its new generation, a cert-manager that is ready
  where none was installed. With the reasons that are about components this does not
  happen: `StatusFitsSpec` restricts `Earned` to these.
- `prerequisites_pair`: release names are fixed, so two objects that name one target share its releases.
  `ReportsDeployed` holds for one object as long as tags do not move (`prerequisites`); with two of different tags, each
  upgrades the other's release, and reports a version that is no longer deployed.
- `prerequisites_moved`: a status never mixes up the chart that was deployed with the one its tag leads to by the time it is written
  (`ReportsWhatHelmDid`). Between an upgrade to the new chart and that write the stored status still has the former version, even with
  one object, which is why `ReportsDeployed` is not claimed there; that the version is right in the end is part of `Accurate` (`Converges`).
- `operator_auto`: the version that mode auto goes by and the kubeconfig charts are sent to are read one after the
  other, and a Secret that is changed to another cluster is noticed by the TargetCluster controller
  only after a while. Traefik can so be installed on a cluster that ships it. `AutoSkipsUnlessMoved`
  says that this is the only way: the version is that of a cluster without Traefik to which some Secret, now or once, has led. The check of `status.ready`
  is what it rests on.

## 4. Proofs

All theorems are about the specifications TLC checks, for any sets of objects, targets, Secrets, clusters, versions,
processes and generations, and any bound on events. They rest on the named assumptions of the modules and on nothing else:

- `TargetClusterAssumption`, `ClusterPrerequisitesAssumption`, `HelmInstallerAssumption`: `MaxGen` is positive, `None` and
  the markers of what a Secret holds are not names of anything, and the sets of specs, views and kubeconfigs given are of the right type;
- `OperatorAssumption`: `None` is not a target, the CRD admits the type `byo`, and `ClusterPrerequisites` allows for every view of
  a TargetCluster. Were fewer views allowed there, the composition could show it one it does not know;
- `Undisputed` and `Pinned`, premises of `DeployedIsReported` alone (below).

| module | theorem | states |
|---|---|---|
| `TargetClusterProofs` | `TypeCorrect`, `StatusIsOfThisSpec`, `NoneForgotten` | always `TypeOK`, `StatusFitsSpec`, `NeverForgotten` |
| | `Refinement` | `Spec` implements `StatusContract` |
| | `VersionsAreHeardOf` | always `AllHeardOf`: a Ready status, stored or cached, reports a cluster some Secret has led to |
| `ClusterPrerequisitesProofs` | `TypeCorrect`, `StatusIsOfThisSpec`, `NoneForgotten` | as above |
| | `Refinement`, `InstallsAlone` | `Spec` implements `StatusContract`, and `ReleaseContract` |
| | `VersionsAreHelms` | always `ReportsWhatHelmDid` |
| | `DeployedIsReported` | if `Undisputed` and `Pinned`, always `ReportsDeployed` |
| `HelmInstallerProofs` | `TypeCorrect`, `Exclusion`, `SecretBeforeRelease` | always `TypeOK`, `OneAtATime`, `PullSecretFirst` |
| | `Refinement` | `Spec` implements `ReleaseContract` |
| `OperatorProofs` | `RunsTargetClusters`, `RunsClusterPrerequisites` | `OperatorSpec` implies the specification of each controller |
| | `AutoSkips` | always `AutoSkipsUnlessMoved` |
| | `BothKeepPromises`, `BothImplementContracts` | `StatusFitsSpec`, `NeverForgotten`, `ReportsWhatHelmDid` and the contracts hold of the operator |

**The runtime.** `ControllerRuntimeProofs` states once, for any set of statuses, what the two controllers rely on: `Sound` (the
runtime is well typed, a fresh copy equals the object, a worker's copy exists) is kept by every action, and every action leaves an
object that was `Attended` so. Each controller's module instantiates it, and its proof cites these lemmas for its own runtime.

**TargetCluster.** `StatusFitsSpec` alone is not inductive: that a
write which is not refused is about the present object follows from `Sound`, `WorkerOK` (the worker has an object exactly during a
reconcile) and `VerdictOK` (the outcome is a verdict on the copy), which needs
`ProbeOK` (what the steps before have established) and `HeldOK` (a Secret's present cluster is in
its history). An edit disowns the status only because `ObservedOK` says that no status is
from a later generation. `NeverForgotten` needs `VerdictOK` again: an outcome without requeue has a terminal reason.
There is one step per action. For the refinement, every action that does
not change `obj` stutters, user actions map to their namesakes and a successful `Write`, or a `Peer`'s, to `Publish`. Everything
holds with other operator processes and without: `LeaderElection` is any Boolean. `VersionsAreHeardOf` also covers statuses of former
generations, about which `StatusFitsSpec` says nothing.

**ClusterPrerequisites.** The argument is the same with a longer reconcile: `DraftOK` says of the status under construction what has
been settled so far, and it needs `StepOK`: while an operation is under way, its release is pending, in the
operator's hands, and there were credentials when it began. Nothing relates the version on record to the tag wanted, which may lead elsewhere
by then. `HeldOK` is the strengthening for `VersionsAreHelms`: from the end of a component to the status write, what the draft reports of it is still
on record on the cluster of this reconcile, since only this worker begins operations there. `Earned` relates a status to the history `applied`, which only grows, so a
verdict stays one. For `InstallsAlone` the worker's operation is mapped to the work of one caller; a restart or a failed
reconcile ends it with the release left as it is.

`DeployedIsReported` needs more, since an upgrade changes what is deployed while a status reports the former version. The invariant `DInv` adds
`SpecKnown`: once the status of the present generation is stored, cache and copy have the present spec, because that write was
accepted, so was made with a fresh copy, and such a copy was taken from a cache that is fresh still (`CacheOK`). Whatever Helm does for
that object from then on is by the tag its spec names; `PinnedOK` says that the operation under way and everything in `applied` are at the version that their tag
leads to, which is the one reported. It holds under `Pinned`: no tag ever moves. Another object could still ask for another tag on the same cluster;
`Undisputed` excludes that: there is one object, or all specs that want a component agree on its tag. The run `prerequisites_pair` is the
counterexample without it.

**HelmInstaller.** `OwnerOK`, that whoever waits for an operation owns the
pending record, gives exclusion; `NamespaceOK` and `PullOK`, that the steps
after the look-up have the Secret behind them, give the other. With `OwnerOK` the end of an operation, failed requests and crashes
included, is an `End` of the contract.

**Operator.** `TargetClusterSteps` shows that every step of the composition is one of the TargetCluster controller or leaves its variables
alone. The other direction needs invariants of the first: a step of the TargetCluster controller delivers one object to the shared cache, which is
a `ChangeTarget` of `ClusterPrerequisites` if the view delivered is one of `Views`: a ready one has a version. That is
`VersionsAreHeardOf`. With `SharedOK` (what one reads is what the other's cache has) both modules' theorems carry over to the
operator. `AutoSkips` then needs only `VersionOK`: while a reconcile may still act on the version it has read, some Secret has led to
that cluster; it was true of the cached status, and the history only grows.

Only model-checked, not proved: liveness (`Converges`, `ConvergesUnlessInvalid`, `Deploys`, `OperatorConverges`), which rests on fairness and
is beyond the prover; and the violations, which are single behaviours (`InstallsOrUpgrades`, `UpdatesPullSecret`, `ComponentsEarned`,
`AutoSkipsBundled`, and `ReportsDeployed` for two objects). `ReportsDeployed` is proved from its premises only.

## 5. Not modelled

The RancherManager stub, whose `Reconcile` returns at once; flags other than leader election, TLS, metrics, webhooks and
health checks of `cmd/main.go`; generated deep copies and manifests; of the REST getter, the discovery and mapper
objects; `LoadChartFromRepo`, which changes no state and has no caller;
the contents of charts but their version, values and Docker configurations; durations, so neither that a failed component
is retried after five minutes rather than thirty seconds, nor that one slow Helm operation
delays all other objects. Of Helm, revisions
other than the last. Of Kubernetes, finalizers (the operator sets none), namespaces of the objects, RBAC.
Leader election is modelled by its outcome, one process or several, not by its lease; several
processes are modelled for the TargetCluster status and for the Helm package, not for `Operator`.

## 6. Plan

1. Done: `ControllerRuntime`, `TargetCluster` with proofs, `StatusContract`, `HelmInstaller` with
   proofs, `ClusterPrerequisites`.
2. Done: other operator processes; `Operator`, both controllers composed over one API server.
3. Done: `ClusterPrerequisitesProofs`, with the lemmas about `ControllerRuntime` in a module that both controllers use.
4. Done: `ReleaseContract`, which the detailed `HelmInstaller` and the one-step view `ClusterPrerequisites` has of it both implement.
   The comparison showed that the latter lacked an error, a chart that comes up while the answer to its record is lost.
5. Done: `OperatorProofs`.
6. Done: tags and chart versions told apart, with a registry whose tags move, and what a status then says of versions.
7. Left: `DeployedIsReported` under a premise about objects rather than specs (no other object that names the same target, now or
   before, wants another version); several processes in `Operator`, with `ReleaseContract` for all of them.
