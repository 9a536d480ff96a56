---------------------- MODULE ClusterPrerequisitesLive ----------------------
(***************************************************************************)
(* Convergence of the ClusterPrerequisites controller, under the fairness  *)
(* that the manager's scheduling justifies.                                *)
(***************************************************************************)
EXTENDS ClusterPrerequisites

(* As for TargetCluster, and without counting on resyncs.  Helm operations *)
(* end: their timeout is ten minutes.                                      *)
Fairness ==
    /\ WF_vars(Proceed)
    /\ \A n \in Names :
         /\ SF_vars(Begin(n))
         /\ SF_vars(Skip(n))
         /\ WF_vars(DeliverEvent(n))
         /\ WF_vars(FireTimer(n))

LiveSpec == Spec /\ Fairness

(* From some moment on, users, Secrets, TargetClusters and administrators  *)
(* change nothing and nothing fails.                                       *)
Calm == <>[][System]_vars

-----------------------------------------------------------------------------
(* Once the world is calm every status comes to say what is so and stays   *)
(* so.  Neither the TargetCluster nor the Secrets are watched: it takes    *)
(* the periodic requeue of every outcome, even of success.  Obstacles that *)
(* remain are reported, among them a release a dead process left pending.  *)
Converges ==
    Calm => <>[](\A n \in Names : obj[n].exists => Accurate(obj[n]))
=============================================================================
