---------------------------- MODULE ReleaseContract ----------------------------
(***************************************************************************)
(* What the rest of the operator may take for granted of an installation:  *)
(* one that is under way has its release to itself.  Only the caller that  *)
(* began it ends it, an administrator does not uninstall under it, and a   *)
(* release left pending, by a crash or a lost answer, is begun by nobody.  *)
(***************************************************************************)
CONSTANTS Releases, Versions, Callers, None

VARIABLES
    release,  \* as in HelmRelease
    work      \* work[p]: the releases p waits for, one at most

INSTANCE HelmRelease

Init ==
    /\ release = [r \in Releases |-> NoRelease]
    /\ work = [p \in Callers |-> {}]

(* The answer to the request that begins it may be lost.                   *)
Start(p, r, v) ==
    /\ work[p] = {}
    /\ StartInstall(r, v, p) \/ StartUpgrade(r, v, p)
    /\ work' \in {work, [work EXCEPT ![p] = {r}]}

(* The operation ends with its outcome recorded, or p gives up on it.      *)
End(p) ==
    /\ \E r \in work[p] :
         UNCHANGED release \/ \E status \in {"deployed", "failed"} : Conclude(r, p, status)
    /\ work' = [work EXCEPT ![p] = {}]

Remove(r) ==
    /\ \A p \in Callers : r \notin work[p]
    /\ Uninstall(r)
    /\ UNCHANGED work

Next ==
    \/ \E p \in Callers :
         End(p) \/ \E r \in Releases, v \in Versions : Start(p, r, v)
    \/ \E r \in Releases : Remove(r)

Spec == Init /\ [][Next]_<<release, work>>
=============================================================================
