--------------------- MODULE MCClusterPrerequisitesLive ---------------------
(* ClusterPrerequisitesLive for TLC, with the sets of its safety runs.     *)
EXTENDS ClusterPrerequisitesLive, MCClusterPrerequisites
=============================================================================
