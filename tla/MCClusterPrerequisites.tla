----------------------- MODULE MCClusterPrerequisites -----------------------
(* ClusterPrerequisites for TLC: small sets of specs and views.            *)
EXTENDS ClusterPrerequisites

CONSTANTS t1, t2, c1, s1, k1, g1, g2, v1, v2

Request(target, tag, ingress) ==
    [target |-> target, certManager |-> tag, ingress |-> ingress, traefik |-> g1,
     loadBalancer |-> "cloud", creds |-> k1]

(* A target that is not there, that is not ready, and that is.             *)
NotReady == [exists |-> TRUE, ready |-> FALSE, version |-> None, byo |-> s1]
Ready == [exists |-> TRUE, ready |-> TRUE, version |-> c1, byo |-> s1]

AlwaysReady == {Ready}
ReadyOrGone == {NoTarget, Ready}
ReadyOrNot == {NotReady, Ready}

(* Each tag leads to a chart of its own; or the first tag of a component   *)
(* to several charts in turn; or no tag leads anywhere at times.           *)
OwnCharts == [c \in {"certManager", "ingress"} \X Tags |-> IF c[2] = g1 THEN v1 ELSE v2]
NoCharts == [c \in {"certManager", "ingress"} \X Tags |-> None]

Pinned == {OwnCharts}
Moving == {OwnCharts, [OwnCharts EXCEPT ![<<"certManager", g1>>] = v2]}
MovingTraefik == {OwnCharts, [OwnCharts EXCEPT ![<<"ingress", g1>>] = v2]}
Withdrawn == {OwnCharts, NoCharts}

(* Traefik by another tag, in another mode and on another target, with     *)
(* another load balancer; cert-manager by another tag; another target; one *)
(* spec, with Traefik and without.                                         *)
Transfers ==
    {[Request(t1, None, "install") EXCEPT !.loadBalancer = "metallb"],
     [Request(t2, None, "auto") EXCEPT !.loadBalancer = "none", !.traefik = g2]}
Upgrades == {Request(t1, g1, "skip"), Request(t1, g2, "skip")}
Moves == {Request(t1, g1, "skip"), Request(t2, g1, "skip")}
Whole == {Request(t1, g1, "install")}
Single == {Request(t1, g1, "skip")}
=============================================================================
