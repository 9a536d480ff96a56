---------------------------- MODULE HelmInstaller ----------------------------
(***************************************************************************)
(* internal/helm on one target cluster: EnsureImagePullSecret,             *)
(* LoadChartFromOCI and InstallOrUpgrade, in the order in which the        *)
(* ClusterPrerequisites controller calls them.  Each request to the        *)
(* cluster or the registry is a step.  Callers are the operator processes: *)
(* one with leader election, several when it is off (cmd/main.go's         *)
(* default) or while a deposed leader dies.                                *)
(***************************************************************************)
CONSTANTS
    Callers,   \* operator processes
    Releases,  \* cert-manager, traefik: each with its namespace and Secret
    Versions,  \* chart versions
    Creds,     \* Application Collection credentials
    None

ASSUME HelmInstallerAssumption ==
    /\ None \notin Callers \cup Releases \cup Versions \cup Creds
    /\ Creds \cap {"absent", "foreign"} = {}

VARIABLES
    namespaces,  \* the releases whose namespace exists
    pull,        \* pull[r]: what is at the image-pull Secret's name
    current,     \* current[r]: the callers whose copy of that Secret is current
    release,     \* as in HelmRelease
    accepted,    \* the credentials the registry accepts
    call         \* call[p]: what p is doing

INSTANCE HelmRelease

vars == <<namespaces, pull, current, release, accepted, call>>

(* No Secret, a Secret of another type than kubernetes.io/dockerconfigjson, *)
(* or the dockerconfigjson of some credentials.                            *)
PullSecret == {"absent", "foreign"} \cup Creds

Steps == {"namespace", "createNamespace", "pull", "createPull", "updatePull",
          "chart", "lookup", "install", "upgrade", "installing", "upgrading", "ok", "error"}

NoCall == [step |-> "idle", release |-> None, version |-> None, creds |-> None]

Call == {NoCall} \cup [step: Steps, release: Releases, version: Versions, creds: Creds]

TypeOK ==
    /\ namespaces \in SUBSET Releases
    /\ pull \in [Releases -> PullSecret]
    /\ current \in [Releases -> SUBSET Callers]
    /\ release \in [Releases -> ReleaseRecord]
    /\ accepted \in SUBSET Creds
    /\ call \in [Callers -> Call]

Init ==
    /\ namespaces = {}
    /\ pull = [r \in Releases |-> "absent"]
    /\ current = [r \in Releases |-> {}]
    /\ release = [r \in Releases |-> NoRelease]
    /\ accepted = Creds
    /\ call = [p \in Callers |-> NoCall]

-----------------------------------------------------------------------------
At(p, s) == call[p].step = s

(* p waits for the operation it began on its release.                      *)
Applying(p) == At(p, "installing") \/ At(p, "upgrading")

Goto(p, s) == call' = [call EXCEPT ![p].step = s]

(* Mistaken: any Secret of that name will do.                              *)
FindPullSecret(p) ==
    LET r == call[p].release IN
    /\ At(p, "pull")
    /\ Goto(p, IF pull[r] = "absent" THEN "createPull" ELSE "chart")
    /\ current' = [current EXCEPT ![r] = @ \cup {p}]
    /\ UNCHANGED <<namespaces, pull, release, accepted>>

(* Mistaken: the release is always installed.                              *)
LookUpNothing(p) ==
    /\ At(p, "lookup")
    /\ Goto(p, "install")
    /\ UNCHANGED <<namespaces, pull, current, release, accepted>>

(* A reconcile turns to release r, for a chart that is at version v when   *)
(* its tag is pulled.                                                      *)
Begin(p, r, v, c) ==
    /\ At(p, "idle")
    /\ call' = [call EXCEPT ![p] = [step |-> "namespace", release |-> r,
                                    version |-> v, creds |-> c]]
    /\ UNCHANGED <<namespaces, pull, current, release, accepted>>

Return(p) ==
    /\ At(p, "ok") \/ At(p, "error")
    /\ call' = [call EXCEPT ![p] = NoCall]
    /\ UNCHANGED <<namespaces, pull, current, release, accepted>>

-----------------------------------------------------------------------------
(* Requests that read.                                                     *)

GetNamespace(p) ==
    /\ At(p, "namespace")
    /\ Goto(p, IF call[p].release \in namespaces THEN "pull" ELSE "createNamespace")
    /\ UNCHANGED <<namespaces, pull, current, release, accepted>>

GetPullSecret(p) ==
    LET r == call[p].release IN
    /\ At(p, "pull")
    /\ \/ pull[r] = "absent" /\ Goto(p, "createPull")
       \/ pull[r] = call[p].creds /\ Goto(p, "chart")
       \/ pull[r] \notin {"absent", call[p].creds} /\ Goto(p, "updatePull")
    /\ current' = [current EXCEPT ![r] = @ \cup {p}]
    /\ UNCHANGED <<namespaces, pull, release, accepted>>

LoadChartFromOCI(p) ==
    /\ At(p, "chart")
    /\ Goto(p, IF call[p].creds \in accepted THEN "lookup" ELSE "error")
    /\ UNCHANGED <<namespaces, pull, current, release, accepted>>

(* InstallOrUpgrade asks for the release to choose between its two forms.  *)
LookUp(p) ==
    /\ At(p, "lookup")
    /\ Goto(p, IF release[call[p].release].status = "absent" THEN "install" ELSE "upgrade")
    /\ UNCHANGED <<namespaces, pull, current, release, accepted>>

-----------------------------------------------------------------------------
(* Requests that write; each is true of the writes the server accepts.     *)

(* AlreadyExists counts as success.                                        *)
CreateNamespace(p) ==
    /\ At(p, "createNamespace")
    /\ namespaces' = namespaces \cup {call[p].release}
    /\ UNCHANGED <<pull, current, release>>

(* Mistaken: the Secret is written for an anonymous registry.              *)
SetPullAnonymous(p) ==
    /\ pull' = [pull EXCEPT ![call[p].release] = None]
    /\ current' = [current EXCEPT ![call[p].release] = {}]
    /\ UNCHANGED <<namespaces, release>>

SetPull(p) ==
    /\ pull' = [pull EXCEPT ![call[p].release] = call[p].creds]
    /\ current' = [current EXCEPT ![call[p].release] = {}]
    /\ UNCHANGED <<namespaces, release>>

CreatePullSecret(p) ==
    /\ At(p, "createPull")
    /\ pull[call[p].release] = "absent"
    /\ SetPull(p)

(* A Secret's type is immutable, and the update carries the resourceVersion *)
(* of the copy that was read.                                              *)
UpdatePullSecret(p) ==
    /\ At(p, "updatePull")
    /\ pull[call[p].release] \in Creds
    /\ p \in current[call[p].release]
    /\ SetPull(p)

Install(p) ==
    /\ At(p, "install")
    /\ StartInstall(call[p].release, call[p].version, p)
    /\ namespaces' = namespaces \cup {call[p].release}
    /\ UNCHANGED <<pull, current>>

(* Mistaken: a pending release is taken over.                              *)
UpgradeRegardless(p) ==
    /\ At(p, "upgrade")
    /\ SeizeUpgrade(call[p].release, call[p].version, p)
    /\ UNCHANGED <<namespaces, pull, current>>

Upgrade(p) ==
    /\ At(p, "upgrade")
    /\ StartUpgrade(call[p].release, call[p].version, p)
    /\ UNCHANGED <<namespaces, pull, current>>

Succeed(p) ==
    /\ Applying(p)
    /\ Conclude(call[p].release, p, "deployed")
    /\ UNCHANGED <<namespaces, pull, current>>

Accepted(p) ==
    CreateNamespace(p) \/ CreatePullSecret(p) \/ UpdatePullSecret(p)
    \/ Install(p) \/ Upgrade(p) \/ Succeed(p)

NextStep == [createNamespace |-> "pull", createPull |-> "chart", updatePull |-> "chart",
             install |-> "installing", upgrade |-> "upgrading",
             installing |-> "ok", upgrading |-> "ok"]

Perform(p) ==
    /\ Accepted(p)
    /\ Goto(p, NextStep[call[p].step])
    /\ UNCHANGED accepted

(* The server refuses: the Secret exists already, is of another type or    *)
(* has changed, or the release is there, gone or pending.                  *)
Refused(p) ==
    LET r == call[p].release IN
    /\ \/ At(p, "createPull") /\ pull[r] # "absent"
       \/ At(p, "updatePull") /\ (pull[r] \notin Creds \/ p \notin current[r])
       \/ At(p, "install") /\ release[r].status # "absent"
       \/ At(p, "upgrade") /\ release[r].status \notin {"deployed", "failed"}
    /\ Goto(p, "error")
    /\ UNCHANGED <<namespaces, pull, current, release, accepted>>

-----------------------------------------------------------------------------
(* What goes wrong.                                                        *)

(* A request fails, or is served and its answer lost.  An operation whose  *)
(* outcome Helm cannot record stays pending, and an install then says that *)
(* it succeeded.                                                           *)
FailRequest(p) ==
    /\ call[p].step \notin {"idle", "ok", "error"}
    /\ \/ /\ Goto(p, "error")
          /\ UNCHANGED <<namespaces, pull, current, release>>
       \/ Accepted(p) /\ Goto(p, "error")
       \/ /\ At(p, "installing")
          /\ Goto(p, "ok")
          /\ UNCHANGED <<namespaces, pull, current, release>>
    /\ UNCHANGED accepted

(* The chart does not come up within the ten minutes, or the context is    *)
(* cancelled: Helm records a failure.                                      *)
FailRelease(p) ==
    /\ Applying(p)
    /\ Conclude(call[p].release, p, "failed")
    /\ Goto(p, "error")
    /\ UNCHANGED <<namespaces, pull, current, accepted>>

(* The process dies; its successor knows nothing of the call.              *)
Crash(p) ==
    /\ call[p] # NoCall
    /\ call' = [call EXCEPT ![p] = NoCall]
    /\ UNCHANGED <<namespaces, pull, current, release, accepted>>

(* Credentials expire or are granted, users prepare the namespace, maybe   *)
(* with a Secret of theirs, and uninstall what nobody is installing.       *)
Registry ==
    /\ \E c \in Creds :
         accepted' = IF c \in accepted THEN accepted \ {c} ELSE accepted \cup {c}
    /\ UNCHANGED <<namespaces, pull, current, release, call>>

Administrator(r) ==
    /\ \/ /\ r \notin namespaces
          /\ namespaces' = namespaces \cup {r}
          /\ pull' \in {pull, [pull EXCEPT ![r] = "foreign"]}
          /\ UNCHANGED <<current, release>>
       \/ /\ \A p \in Callers : ~(Applying(p) /\ call[p].release = r)
          /\ Uninstall(r)
          /\ UNCHANGED <<namespaces, pull, current>>
    /\ UNCHANGED <<accepted, call>>

-----------------------------------------------------------------------------
Proceed(p) ==
    GetNamespace(p) \/ GetPullSecret(p) \/ LoadChartFromOCI(p) \/ LookUp(p)
    \/ Perform(p) \/ Refused(p) \/ Return(p)

System ==
    \E p \in Callers :
        \/ Proceed(p)
        \/ \E r \in Releases, v \in Versions, c \in Creds : Begin(p, r, v, c)

Environment ==
    \/ \E p \in Callers : FailRequest(p) \/ FailRelease(p) \/ Crash(p)
    \/ Registry
    \/ \E r \in Releases : Administrator(r)

Next == System \/ Environment

Spec == Init /\ [][Next]_vars

-----------------------------------------------------------------------------
(* At most one process at a time waits for an operation on a release, even *)
(* when several reconcile: Helm's pending revision excludes the others from *)
(* the look-up on, and the process that made it is the one that ends it.   *)
OneAtATime ==
    \A p, q \in Callers :
        Applying(p) /\ Applying(q) /\ call[p].release = call[q].release => p = q

(* A release that exists was begun with the image-pull Secret in place, in *)
(* the registry's format, though the Secret, the namespace and the release *)
(* are looked up and written by separate requests of several processes.    *)
PullSecretFirst ==
    \A r \in Releases :
        release[r].status # "absent" => r \in namespaces /\ pull[r] \in Creds

(* To Helm's releases the installer is a caller that begins an operation   *)
(* and ends it, with nothing of its own requests in between: a crash, a    *)
(* lost answer or another process never makes two of them share a release. *)
Contract == INSTANCE ReleaseContract WITH
    work <- [p \in Callers |-> IF Applying(p) THEN {call[p].release} ELSE {}]

ImplementsContract == Contract!Spec
=============================================================================
