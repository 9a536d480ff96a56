------------------------------ MODULE MCOperator ------------------------------
(* Operator for TLC.  A TargetCluster may be found in any form.            *)
EXTENDS Operator, MCClusterPrerequisites

(* Traefik alone, if the cluster ships none.                               *)
TraefikAlone == {[Request(t1, None, "auto") EXCEPT !.loadBalancer = "none"]}

AnyView == TargetView
=============================================================================
