----------------------------- MODULE HelmRelease -----------------------------
(***************************************************************************)
(* What internal/helm and the ClusterPrerequisites controller rely on of   *)
(* the Helm v4 library: the release records it keeps in the target         *)
(* cluster.  Of a release's revisions only the last decides what Helm      *)
(* does next, so one record per release is kept.                           *)
(***************************************************************************)
CONSTANTS
    Releases,  \* the releases, each in a namespace of its own
    Versions,  \* chart versions
    Callers,   \* those who call Helm
    None

VARIABLE release

NoRelease == [status |-> "absent", version |-> None, by |-> None]

ReleaseRecord ==
    {NoRelease}
    \cup [status: {"pending"}, version: Versions, by: Callers]
    \cup [status: {"deployed", "failed"}, version: Versions, by: {None}]

Record(r, status, v, p) ==
    release' = [release EXCEPT ![r] = [status |-> status, version |-> v, by |-> p]]

(* install.RunWithContext begins: the name must not be in use.             *)
StartInstall(r, v, p) ==
    /\ release[r].status = "absent"
    /\ Record(r, "pending", v, p)

(* What Helm does not do: an upgrade that takes a pending release over.    *)
SeizeUpgrade(r, v, p) ==
    /\ release[r].status # "absent"
    /\ Record(r, "pending", v, p)

(* upgrade.RunWithContext begins: a pending revision means that "another   *)
(* operation (install/upgrade/rollback) is in progress".                   *)
StartUpgrade(r, v, p) ==
    /\ release[r].status \in {"deployed", "failed"}
    /\ Record(r, "pending", v, p)

(* The operation p began ends, and its result is recorded.                 *)
Conclude(r, p, status) ==
    /\ release[r].status = "pending"
    /\ release[r].by = p
    /\ Record(r, status, release[r].version, None)

(* An administrator uninstalls the release.                                *)
Uninstall(r) ==
    /\ release[r].status # "absent"
    /\ release' = [release EXCEPT ![r] = NoRelease]
=============================================================================
