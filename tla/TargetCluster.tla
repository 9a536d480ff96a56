---------------------------- MODULE TargetCluster ----------------------------
(***************************************************************************)
(* The TargetCluster controller (internal/controller/                      *)
(* targetcluster_controller.go): it reads a TargetCluster, the kubeconfig  *)
(* Secret it names, and probes the cluster with two requests, then reports *)
(* the outcome in the status.  Each request is a step of its own, so user  *)
(* edits, Secret changes, cluster outages and restarts fall between them.  *)
(***************************************************************************)
EXTENDS Naturals

CONSTANTS
    Names,        \* the TargetClusters
    None,         \* no object / no reference
    MaxGen,       \* bound on metadata.generation
    SecretNames,  \* the Secrets a spec may refer to
    Clusters,     \* the clusters a kubeconfig may lead to
    Types,        \* the values of spec.type the API server admits
    LeaderElection \* whether the flag leader-elect is given

ASSUME TargetClusterAssumption ==
    /\ None \notin Names \cup SecretNames \cup Clusters
    /\ MaxGen \in Nat \ {0}
    /\ "byo" \in Types
    /\ LeaderElection \in BOOLEAN
    /\ Clusters \cap {"absent", "empty", "garbage"} = {}

VARIABLES
    obj, cache, fresh, queue, active, copy,  \* as in ControllerRuntime
    secret,    \* what each Secret holds now
    held,      \* history: the clusters each Secret has led to so far
    up,        \* the clusters that answer requests
    step,      \* where the reconcile under way is
    target,    \* the cluster of the kubeconfig it read
    outcome    \* the status it will write and the Result it will return

TargetClusterSpec == [type: Types, byo: SecretNames \cup {None}]

(* What a Secret holds at the referenced key: no Secret, no data, bytes    *)
(* that do not parse as a kubeconfig, or the kubeconfig of a cluster.      *)
SecretData == {"absent", "empty", "garbage"} \cup Clusters

Reasons == {"Reachable", "UnsupportedType", "MissingBYOSpec", "MissingSecret",
            "InvalidKubeconfig", "ConnectionFailed"}

(* The Available condition is True exactly for the reason Reachable, so    *)
(* the reason stands for both; kubernetesVersion is told apart by the      *)
(* cluster that reported it.                                               *)
TargetClusterStatus ==
    [ready: BOOLEAN, reason: Reasons \cup {"none"},
     version: Clusters \cup {None}, observedGeneration: 0..MaxGen]

NoStatus == [ready |-> FALSE, reason |-> "none", version |-> None,
             observedGeneration |-> 0]

(* ControllerRuntime, with the lemmas about it.                            *)
INSTANCE ControllerRuntimeProofs WITH Specs <- TargetClusterSpec, EmptyStatus <- NoStatus

runtime == <<obj, cache, fresh, queue, active, copy>>
local == <<step, target, outcome>>
world == <<secret, held, up>>
vars == <<runtime, local, world>>

Outcome == [status: TargetClusterStatus, when: {"never", "later"}]
NoOutcome == [status |-> NoStatus, when |-> "never"]

TypeOK ==
    /\ RuntimeTypeOK(TargetClusterStatus)
    /\ secret \in [SecretNames -> SecretData]
    /\ held \in [SecretNames -> SUBSET Clusters]
    /\ up \in SUBSET Clusters
    /\ step \in {"idle", "secret", "version", "nodes", "write"}
    /\ target \in Clusters \cup {None}
    /\ outcome \in Outcome

Init ==
    /\ RuntimeInit
    /\ secret \in [SecretNames -> SecretData]
    /\ held = [s \in SecretNames |-> {secret[s]} \cap Clusters]
    /\ up = Clusters
    /\ step = "idle"
    /\ target = None
    /\ outcome = NoOutcome

-----------------------------------------------------------------------------
(* The status a reconcile computes.                                        *)

(* Mistaken: observedGeneration is left as it was, or counted up.          *)
markUnavailableUnobserved(o, reason) ==
    [o.status EXCEPT !.ready = FALSE, !.reason = reason]

markUnavailableCounting(o, reason) ==
    [o.status EXCEPT !.ready = FALSE, !.reason = reason, !.observedGeneration = @ + 1]

(* markUnavailable leaves kubernetesVersion as the copy had it.            *)
markUnavailable(o, reason) ==
    [o.status EXCEPT !.ready = FALSE,
                     !.reason = reason,
                     !.observedGeneration = o.gen]

markReady(o, c) ==
    [ready |-> TRUE, reason |-> "Reachable", version |-> c,
     observedGeneration |-> o.gen]

(* Mistaken: the RequeueAfter is forgotten.                                *)
GiveUpForGood(o, reason, when) ==
    /\ step' = "write"
    /\ outcome' = [status |-> markUnavailable(o, reason), when |-> "never"]

(* Go on to the final write with an unavailable status.                    *)
GiveUp(o, reason, when) ==
    /\ step' = "write"
    /\ outcome' = [status |-> markUnavailable(o, reason), when |-> when]

-----------------------------------------------------------------------------
(* Reconcile.                                                              *)

(* The checks of the spec, before any request.                             *)
CheckSpec(o) ==
    \/ /\ o.spec.type # "byo"
       /\ GiveUp(o, "UnsupportedType", "never")
    \/ /\ o.spec.type = "byo"
       /\ o.spec.byo = None
       /\ GiveUp(o, "MissingBYOSpec", "never")
    \/ /\ o.spec.type = "byo"
       /\ o.spec.byo # None
       /\ step' = "secret"
       /\ UNCHANGED outcome

Skip(n) == TakeDeleted(n) /\ UNCHANGED <<local, world>>

(* Mistaken: nothing to do for an object whose generation was observed.    *)
BeginUnlessObserved(n) ==
    /\ cache[n].exists
    /\ IF cache[n].status.observedGeneration = cache[n].gen
       THEN /\ active = None /\ queue[n] = "ready"
            /\ queue' = [queue EXCEPT ![n] = "idle"]
            /\ UNCHANGED <<obj, cache, fresh, active, copy, step, outcome>>
       ELSE Take(n) /\ CheckSpec(cache[n])
    /\ UNCHANGED <<target, world>>

(* Read the object from the cache and check its spec.                      *)
Begin(n) ==
    /\ cache[n].exists
    /\ Take(n)
    /\ CheckSpec(cache[n])
    /\ UNCHANGED <<target, world>>

(* Read the Secret and build a client from the kubeconfig it holds.        *)
ReadSecret ==
    /\ step = "secret"
    /\ LET data == secret[copy.spec.byo] IN
       \/ /\ data = "absent"
          /\ GiveUp(copy, "MissingSecret", "later")
          /\ UNCHANGED target
       \/ /\ data = "empty"
          /\ GiveUp(copy, "InvalidKubeconfig", "later")
          /\ UNCHANGED target
       \/ /\ data = "garbage"
          /\ GiveUp(copy, "InvalidKubeconfig", "never")
          /\ UNCHANGED target
       \/ /\ data \in Clusters
          /\ target' = data
          /\ step' = "version"
          /\ UNCHANGED outcome
    /\ UNCHANGED <<runtime, world>>

(* Discovery().ServerVersion(), then Nodes().List().                       *)
ProbeVersion ==
    /\ step = "version"
    /\ \/ /\ target \in up
          /\ step' = "nodes"
          /\ UNCHANGED outcome
       \/ /\ target \notin up
          /\ GiveUp(copy, "ConnectionFailed", "later")
    /\ UNCHANGED <<runtime, world, target>>

ListNodes ==
    /\ step = "nodes"
    /\ \/ /\ target \in up
          /\ step' = "write"
          /\ outcome' = [status |-> markReady(copy, target), when |-> "later"]
       \/ /\ target \notin up
          /\ GiveUp(copy, "ConnectionFailed", "later")
    /\ UNCHANGED <<runtime, world, target>>

Done ==
    /\ step' = "idle"
    /\ target' = None
    /\ outcome' = NoOutcome

(* Mistaken: writeStatus patches instead of updating.                      *)
WritePatch ==
    /\ step = "write"
    /\ PatchStatus(outcome.status, outcome.when)
    /\ Done
    /\ UNCHANGED world

(* writeStatus: the update succeeds or is refused as a conflict.           *)
Write ==
    /\ step = "write"
    /\ WriteStatus(outcome.status, outcome.when)
    /\ Done
    /\ UNCHANGED world

(* An error is returned: the Secret cannot be read, or the update fails,   *)
(* which may only mean that its acknowledgement is lost.                   *)
Fail ==
    /\ \/ step \in {"secret", "write"} /\ Abandon
       \/ step = "write" /\ WriteStatus(outcome.status, "later")
    /\ Done
    /\ UNCHANGED world

FailGet(n) == TakeFails(n) /\ UNCHANGED <<local, world>>

Restart == RestartRuntime /\ Done /\ UNCHANGED world

-----------------------------------------------------------------------------
(* Users and target clusters.                                              *)

User == UserAction /\ UNCHANGED <<local, world>>

(* What a status may say of an object with this spec.                      *)
Fits(spec, st) ==
    /\ st.reason = "UnsupportedType" <=> spec.type # "byo"
    /\ st.reason = "MissingBYOSpec" <=> spec.type = "byo" /\ spec.byo = None
    /\ st.ready <=> st.reason = "Reachable"
    /\ st.ready => spec.byo # None

(* A Ready one reports a cluster its Secret has led to.                    *)
Seen(spec, st) == st.ready => st.version \in held[spec.byo]

(* Without leader election, another process of the operator writes a       *)
(* verdict of its own; its copy, too, was of the present object.           *)
Peer(n) ==
    /\ ~LeaderElection
    /\ obj[n].exists
    /\ \E st \in {markReady(obj[n], c) : c \in Clusters}
                 \cup {markUnavailable(obj[n], r) : r \in Reasons \ {"Reachable"}} :
         /\ st # obj[n].status
         /\ Fits(obj[n].spec, st)
         /\ Seen(obj[n].spec, st)
         /\ Store(n, [obj[n] EXCEPT !.status = st])
    /\ UNCHANGED <<local, world>>

SetSecret(s) ==
    /\ \E d \in SecretData \ {secret[s]} :
         /\ secret' = [secret EXCEPT ![s] = d]
         /\ held' = [held EXCEPT ![s] = @ \cup ({d} \cap Clusters)]
    /\ UNCHANGED <<runtime, local, up>>

Outage(c) ==
    /\ up' = IF c \in up THEN up \ {c} ELSE up \cup {c}
    /\ UNCHANGED <<runtime, local, secret, held>>

-----------------------------------------------------------------------------
DeliverEvent(n) == Deliver(n) /\ UNCHANGED <<local, world>>

FireTimer(n) == TimerFires(n) /\ UNCHANGED <<local, world>>

ResyncAll == Resync /\ UNCHANGED <<local, world>>

Informer == (\E n \in Names : DeliverEvent(n) \/ FireTimer(n)) \/ ResyncAll

Proceed == ReadSecret \/ ProbeVersion \/ ListNodes \/ Write

Reconcile == Proceed \/ \E n \in Names : Begin(n) \/ Skip(n)

System == Informer \/ Reconcile

Environment ==
    \/ User
    \/ \E s \in SecretNames : SetSecret(s)
    \/ \E c \in Clusters : Outage(c)
    \/ Fail
    \/ \E n \in Names : FailGet(n) \/ Peer(n)
    \/ Restart

Next == System \/ Environment

Spec == Init /\ [][Next]_vars

-----------------------------------------------------------------------------
(* A status whose observedGeneration is the object's generation fits the   *)
(* object's spec: the reasons about the spec are given exactly when it     *)
(* deserves them, and a Ready one reports a cluster that the Secret this   *)
(* spec names has led to.  Reconcile computes the status from a cached     *)
(* copy several requests earlier, while the object may be edited, or       *)
(* deleted and created anew with its generation starting over.             *)
StatusFitsSpec ==
    \A n \in Names :
        obj[n].exists /\ obj[n].status.observedGeneration = obj[n].gen =>
            Fits(obj[n].spec, obj[n].status) /\ Seen(obj[n].spec, obj[n].status)

(* The reasons Reconcile returns an empty Result for.                      *)
Terminal(st) == st.reason \in {"UnsupportedType", "MissingBYOSpec", "InvalidKubeconfig"}

(* No object is forgotten: one that nothing will reconcile again has a     *)
(* status computed from its present generation, whose reason is one of     *)
(* those Reconcile returns an empty Result for.  Wake-ups come from watch  *)
(* events, delayed items and returned errors, and each of them can be lost *)
(* to a deletion, a restart or a refused write in between.                 *)
NeverForgotten ==
    \A n \in Names :
        obj[n].exists =>
            \/ Attended(n)
            \/ obj[n].status.observedGeneration = obj[n].gen /\ Terminal(obj[n].status)

(* The cluster the object leads to now, if it answers.                     *)
Healthy(o) ==
    o.spec.type = "byo" /\ o.spec.byo # None /\ secret[o.spec.byo] \in up

(* The status says what is so now.                                         *)
Accurate(o) ==
    /\ o.status.observedGeneration = o.gen
    /\ o.status.ready <=> Healthy(o)
    /\ o.status.ready => o.status.version = secret[o.spec.byo]

(* To the users of the API the controller is atomic: each status it writes *)
(* is a verdict on the spec the object has at that very moment, and it     *)
(* writes nothing else.                                                    *)
Contract == INSTANCE StatusContract WITH Specs <- TargetClusterSpec,
                                         EmptyStatus <- NoStatus

ImplementsContract == Contract!Spec
=============================================================================
