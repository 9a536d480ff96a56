-------------------------- MODULE HelmInstallerLive --------------------------
(***************************************************************************)
(* What repeated calls of the installer come to, under the fairness of the *)
(* reconciles that make them.                                              *)
(***************************************************************************)
EXTENDS HelmInstaller

(* A call is carried on with, and a reconcile that ends is followed by     *)
(* another one, of each release (RequeueAfter).                            *)
Fairness ==
    /\ \A p \in Callers : WF_vars(Proceed(p))
    /\ \A r \in Releases :
         SF_vars(\E p \in Callers, v \in Versions, c \in Creds : Begin(p, r, v, c))

LiveSpec == Spec /\ Fairness

(* From some moment on nothing fails or crashes, and administrators and    *)
(* the registry change nothing.                                            *)
Calm == <>[][System]_vars

-----------------------------------------------------------------------------
(* An operation is recorded as pending and nobody is at work on it.        *)
Stuck(r) ==
    /\ release[r].status = "pending"
    /\ ~\E p \in Callers : Applying(p) /\ call[p].release = r

(* Every release is deployed again and again once the world is calm,       *)
(* whatever happened before, unless it is stuck, a Secret of another type  *)
(* has its pull Secret's name, or the registry refuses the credentials.    *)
Deploys ==
    \A r \in Releases :
        Calm => []<>(\/ release[r].status = "deployed"
                     \/ Stuck(r)
                     \/ pull[r] = "foreign"
                     \/ accepted # Creds)

(* internal/helm/installer.go:187 "InstallOrUpgrade installs the release   *)
(* if it does not yet exist, otherwise upgrades it in place.": it is so    *)
(* deployed in the end, stuck or not.                                      *)
InstallsOrUpgrades ==
    \A r \in Releases :
        Calm => []<>(\/ release[r].status = "deployed"
                     \/ pull[r] = "foreign"
                     \/ accepted # Creds)

(* internal/helm/pullsecret.go:34 "If the Secret already exists with       *)
(* identical contents, this is a no-op; otherwise it is updated.": in the  *)
(* end it has the registry's format.                                       *)
UpdatesPullSecret ==
    \A r \in Releases : Calm => []<>(pull[r] \in Creds)
=============================================================================
