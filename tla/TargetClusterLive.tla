-------------------------- MODULE TargetClusterLive --------------------------
(***************************************************************************)
(* Convergence of the TargetCluster controller, under the fairness that    *)
(* the manager's scheduling justifies.                                     *)
(***************************************************************************)
EXTENDS TargetCluster

(* The worker goes on with what it began, the queue hands every ready item *)
(* out in its turn (though the worker may be busy with another when it     *)
(* becomes ready), watch events arrive and timers fire.                    *)
QueueFairness ==
    /\ WF_vars(Proceed)
    /\ \A n \in Names :
         /\ SF_vars(Begin(n))
         /\ SF_vars(Skip(n))
         /\ WF_vars(DeliverEvent(n))
         /\ WF_vars(FireTimer(n))

LiveSpec == Spec /\ QueueFairness

(* The informers' SyncPeriod is left at its default of some ten hours.     *)
ResyncFairness == WF_vars(ResyncAll)

(* From some moment on, users, Secrets, clusters and the process itself    *)
(* leave the controller in peace; until then they act without limit.       *)
Calm == <>[][System]_vars

-----------------------------------------------------------------------------
(* Once the world is calm every status becomes accurate and stays so: no   *)
(* edit, Secret change, outage, failed or unacknowledged write, nor a      *)
(* restart at any point of a reconcile, leaves a stale verdict behind.     *)
(* It takes the resync, even if nothing goes wrong: see the next property. *)
Converges ==
    ResyncFairness /\ Calm =>
        <>[](\A n \in Names : obj[n].exists => Accurate(obj[n]))

(* Without waiting for a resync: the same, except for an object last seen  *)
(* with a kubeconfig that does not parse.  Nothing requeues it and its     *)
(* Secret is not watched, so a repaired Secret goes unnoticed.             *)
ConvergesUnlessInvalid ==
    Calm =>
        <>[](\A n \in Names :
                obj[n].exists => \/ Accurate(obj[n])
                                \/ /\ obj[n].status.reason = "InvalidKubeconfig"
                                   /\ obj[n].status.observedGeneration = obj[n].gen)
=============================================================================
