------------------------- MODULE HelmInstallerProofs -------------------------
(***************************************************************************)
(* Proofs about HelmInstaller, for any number of operator processes,       *)
(* releases, versions and credentials.                                     *)
(***************************************************************************)
EXTENDS HelmInstaller, TLAPS

(* Whoever waits for an operation owns the pending revision.               *)
OwnerOK ==
    \A p \in Callers :
        Applying(p) => /\ release[call[p].release].status = "pending"
                       /\ release[call[p].release].by = p

(* A Secret needs its namespace.                                           *)
NamespaceOK == \A r \in Releases : pull[r] # "absent" => r \in namespaces

(* The steps after "pull" have the Secret behind them.                     *)
PullOK ==
    \A p \in Callers :
        /\ call[p].step \in {"pull", "createPull", "updatePull"} =>
              call[p].release \in namespaces
        /\ call[p].step \in {"chart", "lookup", "install", "upgrade"} =>
              pull[call[p].release] \in Creds

IInv ==
    /\ TypeOK
    /\ OwnerOK
    /\ NamespaceOK
    /\ PullOK
    /\ PullSecretFirst

-----------------------------------------------------------------------------
LEMMA CallFields ==
    ASSUME TypeOK, NEW p \in Callers, call[p].step # "idle"
    PROVE  /\ call[p] \in [step: Steps, release: Releases, version: Versions, creds: Creds]
           /\ call[p].release \in Releases /\ call[p].version \in Versions
           /\ call[p].creds \in Creds
<1>1. call[p] # NoCall
  BY DEF NoCall
<1> QED  BY <1>1 DEF TypeOK, Call

(* p goes on to step s, and the others stay where they are.                *)
LEMMA GotoOther ==
    ASSUME TypeOK, NEW p \in Callers, NEW s, Goto(p, s)
    PROVE  /\ \A q \in Callers \ {p} : call'[q] = call[q]
           /\ call'[p].step = s
           /\ call'[p].release = call[p].release
           /\ s \in Steps /\ call[p].step # "idle" => call' \in [Callers -> Call]
<1>1. call \in [Callers -> Call]
  BY DEF TypeOK
<1>2. call[p] \in [step: Steps \cup {"idle"}, release: Releases \cup {None},
                   version: Versions \cup {None}, creds: Creds \cup {None}]
  BY <1>1 DEF Call, NoCall
<1>3. call' = [call EXCEPT ![p] = [call[p] EXCEPT !.step = s]]
  BY DEF Goto
<1>4. ASSUME s \in Steps, call[p].step # "idle"
      PROVE  [call[p] EXCEPT !.step = s] \in Call
  BY <1>4, CallFields DEF Call
<1> QED  BY <1>1, <1>2, <1>3, <1>4

(* The accepted writes, by what they leave of the cluster.  A Secret once  *)
(* in the registry's format stays so; a release is begun only past "chart".*)
LEMMA AcceptedEffect ==
    ASSUME IInv, NEW p \in Callers, Accepted(p)
    PROVE  /\ call[p].step \in {"createNamespace", "createPull", "updatePull", "install",
                                "upgrade", "installing", "upgrading"}
           /\ call[p].release \in Releases
           /\ namespaces \subseteq namespaces' /\ namespaces' \in SUBSET Releases
           /\ pull' \in [Releases -> PullSecret] /\ current' \in [Releases -> SUBSET Callers]
           /\ release' \in [Releases -> ReleaseRecord]
           /\ \A r \in Releases : pull[r] \in Creds => pull'[r] \in Creds
           /\ \A r \in Releases \ {call[p].release} : release'[r] = release[r]
           /\ NamespaceOK' /\ PullSecretFirst'
<1> DEFINE r == call[p].release
<1> USE DEF IInv
<1>1. call[p].step \in {"createNamespace", "createPull", "updatePull", "install",
                        "upgrade", "installing", "upgrading"}
  BY DEF Accepted, CreateNamespace, CreatePullSecret, UpdatePullSecret, Install, Upgrade,
         Succeed, Applying, At
<1>2. r \in Releases /\ call[p].version \in Versions /\ call[p].creds \in Creds
  BY <1>1, CallFields
<1>3. CASE CreateNamespace(p)
  BY <1>1, <1>2, <1>3 DEF CreateNamespace, TypeOK, NamespaceOK, PullSecretFirst
<1>4. CASE CreatePullSecret(p) \/ UpdatePullSecret(p)
  <2>1. SetPull(p) /\ r \in namespaces
    BY <1>4, <1>2 DEF CreatePullSecret, UpdatePullSecret, At, PullOK
  <2>2. /\ pull' = [pull EXCEPT ![r] = call[p].creds]
        /\ current' = [current EXCEPT ![r] = {}]
        /\ UNCHANGED <<namespaces, release>>
    BY <2>1 DEF SetPull
  <2>3. pull' \in [Releases -> PullSecret] /\ current' \in [Releases -> SUBSET Callers]
    BY <1>2, <2>2 DEF TypeOK, PullSecret
  <2>4. \A q \in Releases : pull'[q] = pull[q] \/ (q = r /\ pull'[q] \in Creds)
    BY <1>2, <2>2 DEF TypeOK
  <2>5. \A q \in Releases : pull[q] \in Creds => pull'[q] \in Creds
    BY <2>4
  <2>6. NamespaceOK' /\ PullSecretFirst'
    BY <2>1, <2>2, <2>4 DEF NamespaceOK, PullSecretFirst
  <2> QED  BY <1>1, <1>2, <2>2, <2>3, <2>5, <2>6 DEF TypeOK
<1>5. ASSUME NEW st \in {"pending", "deployed", "failed"}, NEW v \in Versions,
             NEW b \in Callers \cup {None},
             st = "pending" => b \in Callers, st # "pending" => b = None,
             Record(r, st, v, b)
      PROVE  /\ release' \in [Releases -> ReleaseRecord]
             /\ \A q \in Releases \ {r} : release'[q] = release[q]
  <2>1. [status |-> st, version |-> v, by |-> b] \in ReleaseRecord
    BY <1>5 DEF ReleaseRecord
  <2> QED  BY <1>2, <1>5, <2>1 DEF Record, TypeOK
<1>6. CASE Install(p) \/ Upgrade(p)
  <2>1. /\ Record(r, "pending", call[p].version, p)
        /\ namespaces' \in {namespaces, namespaces \cup {r}}
        /\ UNCHANGED <<pull, current>>
    BY <1>6 DEF Install, Upgrade, StartInstall, StartUpgrade
  <2>2. /\ release' \in [Releases -> ReleaseRecord]
        /\ \A q \in Releases \ {r} : release'[q] = release[q]
    BY <1>2, <1>5, <2>1
  <2>3. pull[r] \in Creds /\ r \in namespaces
    BY <1>2, <1>6, HelmInstallerAssumption
       DEF Install, Upgrade, At, PullOK, NamespaceOK
  <2> QED
    BY <1>1, <1>2, <2>1, <2>2, <2>3 DEF TypeOK, NamespaceOK, PullSecretFirst
<1>7. CASE Succeed(p)
  <2>1. /\ Record(r, "deployed", release[r].version, None)
        /\ release[r].status = "pending"
        /\ UNCHANGED <<namespaces, pull, current>>
    BY <1>7 DEF Succeed, Conclude
  <2>2. release[r].version \in Versions
    BY <1>2, <2>1 DEF TypeOK, ReleaseRecord, NoRelease
  <2>3. /\ release' \in [Releases -> ReleaseRecord]
        /\ \A q \in Releases \ {r} : release'[q] = release[q]
    BY <1>5, <2>1, <2>2
  <2> QED
    BY <1>1, <1>2, <2>1, <2>3 DEF TypeOK, NamespaceOK, PullSecretFirst
<1> QED  BY <1>3, <1>4, <1>6, <1>7 DEF Accepted

(* The release another process is at work on is left to it.                *)
LEMMA OthersKeepTheirs ==
    ASSUME IInv, NEW p \in Callers, Accepted(p) \/ (Applying(p) /\ Conclude(call[p].release, p, "failed")),
           NEW q \in Callers \ {p}, Applying(q)
    PROVE  release'[call[q].release] = release[call[q].release]
<1> USE DEF IInv
<1>1. call[q].release \in Releases /\ call[p].release \in Releases
  BY CallFields, AcceptedEffect DEF Applying, At
<1>2. release[call[q].release].status = "pending" /\ release[call[q].release].by = q
  BY DEF OwnerOK
<1>3. CASE call[p].release # call[q].release
  BY <1>1, <1>3 DEF Accepted, CreateNamespace, CreatePullSecret, UpdatePullSecret, SetPull,
     Install, StartInstall, Upgrade, StartUpgrade, Succeed, Conclude, Record, TypeOK
<1>4. CASE call[p].release = call[q].release
  BY <1>1, <1>2, <1>4 DEF Accepted, CreateNamespace, CreatePullSecret, UpdatePullSecret,
     SetPull, Install, StartInstall, Upgrade, StartUpgrade, Succeed, Conclude
<1> QED  BY <1>3, <1>4

(* A step of p that writes nothing to the cluster, by where it leaves p.   *)
LEMMA ReadStep ==
    ASSUME IInv, NEW p \in Callers, UNCHANGED <<namespaces, pull, release>>,
           current' \in [Releases -> SUBSET Callers], accepted' = accepted,
           NEW s \in Steps, Goto(p, s), call[p].step # "idle",
           s \in {"installing", "upgrading"} => Applying(p),
           s = "pull" => call[p].release \in namespaces,
           s \in {"createPull", "updatePull"} => call[p].step = "pull",
           s = "chart" => pull[call[p].release] \in Creds,
           s \in {"lookup", "install", "upgrade"} => call[p].step \in {"chart", "lookup"}
    PROVE  IInv'
<1> USE DEF IInv
<1>1. /\ \A q \in Callers \ {p} : call'[q] = call[q]
      /\ call'[p].step = s /\ call'[p].release = call[p].release
      /\ call' \in [Callers -> Call]
  BY GotoOther
<1>2. TypeOK'
  BY <1>1 DEF TypeOK
<1>3. OwnerOK'
  BY <1>1 DEF OwnerOK, Applying, At
<1>4. PullOK'
  BY <1>1 DEF PullOK
<1> QED  BY <1>2, <1>3, <1>4 DEF NamespaceOK, PullSecretFirst

(* A write, acknowledged or not.                                           *)
LEMMA WriteStep ==
    ASSUME IInv, NEW p \in Callers, Accepted(p), accepted' = accepted,
           Goto(p, NextStep[call[p].step]) \/ Goto(p, "error")
    PROVE  IInv'
<1> USE DEF IInv
<1> DEFINE r == call[p].release
<1>1. PICK s \in {NextStep[call[p].step], "error"} : Goto(p, s)
  OBVIOUS
<1>2. /\ call[p].step = "createNamespace" => s \in {"pull", "error"}
      /\ call[p].step \in {"createPull", "updatePull"} => s \in {"chart", "error"}
      /\ call[p].step = "install" => s \in {"installing", "error"}
      /\ call[p].step = "upgrade" => s \in {"upgrading", "error"}
      /\ call[p].step \in {"installing", "upgrading"} => s \in {"ok", "error"}
  BY DEF NextStep
<1>3. s \in Steps
  BY <1>2, AcceptedEffect DEF Steps
<1>4. /\ \A q \in Callers \ {p} : call'[q] = call[q]
      /\ call'[p].step = s /\ call'[p].release = r
      /\ call' \in [Callers -> Call]
  BY <1>1, <1>3, GotoOther, AcceptedEffect
<1>5. TypeOK'
  BY <1>4, AcceptedEffect DEF TypeOK
<1>6. ASSUME s \in {"installing", "upgrading"}
      PROVE  release'[r].status = "pending" /\ release'[r].by = p
  <2>1. Install(p) \/ Upgrade(p)
    BY <1>2, <1>6, AcceptedEffect
       DEF Accepted, CreateNamespace, CreatePullSecret, UpdatePullSecret, Succeed, Applying, At
  <2> QED
    BY <2>1, AcceptedEffect DEF Install, StartInstall, Upgrade, StartUpgrade, Record, TypeOK
<1>7. OwnerOK'
  <2> SUFFICES ASSUME NEW q \in Callers, Applying(q)'
               PROVE  (release[call[q].release].status = "pending"
                       /\ release[call[q].release].by = q)'
    BY DEF OwnerOK
  <2>1. CASE q = p
    BY <1>4, <1>6, <2>1 DEF Applying, At
  <2>2. CASE q # p
    <3>1. Applying(q) /\ call'[q] = call[q]
      BY <1>4, <2>2 DEF Applying, At
    <3> QED  BY <2>2, <3>1, OthersKeepTheirs DEF OwnerOK
  <2> QED  BY <2>1, <2>2
<1>8. ASSUME s = "pull" PROVE r \in namespaces'
  <2>1. CreateNamespace(p)
    BY <1>2, <1>8, AcceptedEffect
       DEF Accepted, CreatePullSecret, UpdatePullSecret, Install, Upgrade, Succeed, Applying, At
  <2> QED  BY <2>1 DEF CreateNamespace
<1>9. ASSUME s = "chart" PROVE pull'[r] \in Creds
  <2>1. SetPull(p) /\ call[p].creds \in Creds
    <3>1. CreatePullSecret(p) \/ UpdatePullSecret(p)
      BY <1>2, <1>9, AcceptedEffect
         DEF Accepted, CreateNamespace, Install, Upgrade, Succeed, Applying, At
    <3>2. call[p].step # "idle"
      BY AcceptedEffect
    <3> QED  BY <3>1, <3>2, CallFields DEF CreatePullSecret, UpdatePullSecret
  <2> QED  BY <2>1, AcceptedEffect DEF SetPull, TypeOK
<1>10. PullOK'
  <2>1. \A q \in Callers \ {p} : call[q].step # "idle" => call[q].release \in Releases
    BY CallFields
  <2>2. s \notin {"createPull", "updatePull", "lookup", "install", "upgrade"}
    BY <1>2, AcceptedEffect
  <2> QED
    BY <1>4, <1>8, <1>9, <2>1, <2>2, AcceptedEffect DEF PullOK
<1> QED  BY <1>5, <1>7, <1>10, AcceptedEffect

LEMMA NextIInv == IInv /\ [Next]_vars => IInv'
<1> SUFFICES ASSUME IInv, [Next]_vars PROVE IInv'
  OBVIOUS
<1> USE DEF IInv
<1>1. CASE UNCHANGED vars
  BY <1>1 DEF vars, TypeOK, OwnerOK, NamespaceOK, PullOK, PullSecretFirst, Applying, At
<1>2. ASSUME NEW p \in Callers, GetNamespace(p) \/ GetPullSecret(p) PROVE IInv'
  <2>1. call[p].step # "idle" /\ call[p].release \in Releases
    BY <1>2, CallFields DEF GetNamespace, GetPullSecret, At
  <2>2. CASE GetNamespace(p)
    <3>1. PICK s \in {"pull", "createNamespace"} :
             Goto(p, s) /\ (s = "pull" => call[p].release \in namespaces)
      BY <2>2 DEF GetNamespace
    <3>2. /\ UNCHANGED <<namespaces, pull, release, accepted>>
          /\ current' \in [Releases -> SUBSET Callers]
      BY <2>2 DEF GetNamespace, TypeOK
    <3> QED  BY <2>1, <3>1, <3>2, ReadStep DEF Steps
  <2>3. CASE GetPullSecret(p)
    <3>1. PICK s \in {"createPull", "updatePull", "chart"} :
             Goto(p, s) /\ (s = "chart" => pull[call[p].release] \in Creds)
      BY <2>1, <2>3, CallFields DEF GetPullSecret
    <3>2. /\ UNCHANGED <<namespaces, pull, release, accepted>>
          /\ current' \in [Releases -> SUBSET Callers]
          /\ call[p].step = "pull"
      BY <2>1, <2>3 DEF GetPullSecret, TypeOK, At
    <3> QED  BY <2>1, <3>1, <3>2, ReadStep DEF Steps
  <2> QED  BY <1>2, <2>2, <2>3
<1>3. ASSUME NEW p \in Callers, LoadChartFromOCI(p) \/ LookUp(p) \/ Refused(p)
      PROVE  IInv'
  <2>1. call[p].step # "idle"
    BY <1>3 DEF LoadChartFromOCI, LookUp, Refused, At
  <2>2. PICK s \in {"lookup", "install", "upgrade", "error"} :
           /\ Goto(p, s)
           /\ s # "error" => call[p].step \in {"chart", "lookup"}
    BY <1>3 DEF LoadChartFromOCI, LookUp, Refused, At
  <2>3. /\ UNCHANGED <<namespaces, pull, release, accepted>>
        /\ current' \in [Releases -> SUBSET Callers]
    BY <1>3 DEF LoadChartFromOCI, LookUp, Refused, TypeOK
  <2> QED  BY <2>1, <2>2, <2>3, ReadStep DEF Steps
<1>4. ASSUME NEW p \in Callers, Perform(p) PROVE IInv'
  BY <1>4, WriteStep DEF Perform
<1>5. ASSUME NEW p \in Callers, FailRequest(p) PROVE IInv'
  <2>1. CASE Accepted(p) /\ Goto(p, "error")
    BY <1>5, <2>1, WriteStep DEF FailRequest
  <2>2. ASSUME NEW s \in {"ok", "error"}, Goto(p, s),
               UNCHANGED <<namespaces, pull, current, release>>
        PROVE  IInv'
    <3>1. call[p].step # "idle" /\ accepted' = accepted
      BY <1>5 DEF FailRequest
    <3>2. current' \in [Releases -> SUBSET Callers]
      BY <2>2 DEF TypeOK
    <3> QED  BY <2>2, <3>1, <3>2, ReadStep DEF Steps
  <2> QED  BY <1>5, <2>1, <2>2 DEF FailRequest
(* The call of p begins or is over.                                        *)
<1>6. ASSUME NEW p \in Callers, NEW c \in Call, c.step \in {"idle", "namespace"},
             call' = [call EXCEPT ![p] = c],
             UNCHANGED <<namespaces, pull, current, release, accepted>>
      PROVE  IInv'
  <2>1. /\ \A q \in Callers \ {p} : call'[q] = call[q]
        /\ call'[p] = c /\ call' \in [Callers -> Call]
    BY <1>6 DEF TypeOK
  <2> QED
    BY <1>6, <2>1 DEF TypeOK, OwnerOK, NamespaceOK, PullOK, PullSecretFirst, Applying, At
<1>7. ASSUME NEW p \in Callers, NEW r \in Releases, NEW v \in Versions, NEW c \in Creds,
             Begin(p, r, v, c)
      PROVE  IInv'
  <2>1. [step |-> "namespace", release |-> r, version |-> v, creds |-> c] \in Call
    BY DEF Call, Steps
  <2> QED  BY <1>6, <1>7, <2>1 DEF Begin
<1>8. ASSUME NEW p \in Callers, Return(p) \/ Crash(p) PROVE IInv'
  <2>1. NoCall \in Call /\ NoCall.step = "idle"
    BY DEF Call, NoCall
  <2> QED  BY <1>6, <1>8, <2>1 DEF Return, Crash
<1>9. ASSUME NEW p \in Callers, FailRelease(p) PROVE IInv'
  <2>1. /\ Applying(p) /\ Conclude(call[p].release, p, "failed") /\ Goto(p, "error")
        /\ UNCHANGED <<namespaces, pull, current, accepted>>
    BY <1>9 DEF FailRelease
  <2>2. call[p].step # "idle" /\ call[p].release \in Releases
    BY <2>1, CallFields DEF Applying, At
  <2>3. /\ \A q \in Callers \ {p} : call'[q] = call[q]
        /\ call'[p].step = "error" /\ call' \in [Callers -> Call]
    BY <2>1, <2>2, GotoOther DEF Steps
  <2>4. /\ release' = [release EXCEPT ![call[p].release] =
                         [status |-> "failed", version |-> release[call[p].release].version,
                          by |-> None]]
        /\ release[call[p].release].status = "pending"
    BY <2>1 DEF Conclude, Record
  <2>5. release' \in [Releases -> ReleaseRecord]
    BY <2>2, <2>4 DEF TypeOK, ReleaseRecord, NoRelease
  <2>6. TypeOK'
    BY <2>1, <2>3, <2>5 DEF TypeOK
  <2>7. OwnerOK'
    <3> SUFFICES ASSUME NEW q \in Callers, Applying(q)'
                 PROVE  (release[call[q].release].status = "pending"
                         /\ release[call[q].release].by = q)'
      BY DEF OwnerOK
    <3>1. q # p
      BY <2>3 DEF Applying, At
    <3>2. Applying(q) /\ call'[q] = call[q]
      BY <2>3, <3>1 DEF Applying, At
    <3> QED  BY <2>1, <3>1, <3>2, OthersKeepTheirs DEF OwnerOK
  <2>8. NamespaceOK' /\ PullSecretFirst'
    BY <2>1, <2>2, <2>4 DEF NamespaceOK, PullSecretFirst, TypeOK
  <2>9. PullOK'
    BY <2>1, <2>3 DEF PullOK
  <2> QED  BY <2>6, <2>7, <2>8, <2>9
<1>10. CASE Registry
  <2>1. accepted' \in SUBSET Creds /\ UNCHANGED <<namespaces, pull, current, release, call>>
    BY <1>10 DEF Registry, TypeOK
  <2> QED
    BY <2>1 DEF TypeOK, OwnerOK, NamespaceOK, PullOK, PullSecretFirst, Applying, At
<1>11. ASSUME NEW r \in Releases, Administrator(r) PROVE IInv'
  <2>1. CASE /\ r \notin namespaces
             /\ namespaces' = namespaces \cup {r}
             /\ pull' \in {pull, [pull EXCEPT ![r] = "foreign"]}
             /\ UNCHANGED <<current, release, accepted, call>>
    <3>1. pull[r] = "absent" /\ release[r].status = "absent"
      BY <2>1 DEF NamespaceOK, PullSecretFirst
    <3>2. \A q \in Releases \ {r} : pull'[q] = pull[q]
      BY <2>1 DEF TypeOK
    <3>3. TypeOK' /\ OwnerOK' /\ NamespaceOK' /\ PullSecretFirst'
      BY <2>1, <3>1, <3>2
         DEF TypeOK, PullSecret, OwnerOK, NamespaceOK, PullSecretFirst, Applying, At
    <3>4. \A q \in Releases : pull[q] \in Creds => pull'[q] \in Creds
      BY <3>1, <3>2, HelmInstallerAssumption
    <3>5. \A q \in Callers : call[q].step # "idle" => call[q].release \in Releases
      BY CallFields
    <3>6. PullOK'
      BY <2>1, <3>4, <3>5 DEF PullOK
    <3> QED  BY <3>3, <3>6
  <2>2. CASE /\ \A p \in Callers : ~(Applying(p) /\ call[p].release = r)
             /\ Uninstall(r)
             /\ UNCHANGED <<namespaces, pull, current, accepted, call>>
    <3>1. /\ release' = [release EXCEPT ![r] = NoRelease] /\ NoRelease \in ReleaseRecord
          /\ NoRelease.status = "absent"
      BY <2>2 DEF Uninstall, NoRelease, ReleaseRecord
    <3>2. TypeOK' /\ NamespaceOK' /\ PullOK' /\ PullSecretFirst'
      BY <2>2, <3>1 DEF TypeOK, NamespaceOK, PullOK, PullSecretFirst
    <3>3. OwnerOK'
      BY <2>2, <3>1, CallFields DEF OwnerOK, Applying, At, TypeOK
    <3> QED  BY <3>2, <3>3
  <2> QED  BY <1>11, <2>1, <2>2 DEF Administrator
<1> QED
  BY <1>1, <1>2, <1>3, <1>4, <1>5, <1>7, <1>8, <1>9, <1>10, <1>11
     DEF Next, System, Environment, Proceed

LEMMA InitIInv == Init => IInv
<1> SUFFICES ASSUME Init PROVE IInv
  OBVIOUS
<1>1. NoCall \in Call /\ NoRelease \in ReleaseRecord /\ "absent" \in PullSecret
  BY DEF Call, ReleaseRecord, PullSecret
<1>2. \A p \in Callers : call[p].step = "idle"
  BY DEF Init, NoCall
<1>3. \A r \in Releases : release[r].status = "absent" /\ pull[r] = "absent"
  BY DEF Init, NoRelease
<1>4. TypeOK
  BY <1>1 DEF Init, TypeOK
<1> QED
  BY <1>2, <1>3, <1>4
     DEF IInv, OwnerOK, NamespaceOK, PullOK, PullSecretFirst, Applying, At

THEOREM Inductive == Spec => []IInv
BY InitIInv, NextIInv, PTL DEF Spec

(* Every variable keeps its type: a call, a release record and a pull      *)
(* Secret only take the forms internal/helm gives them.                    *)
THEOREM TypeCorrect == Spec => []TypeOK
<1>1. IInv => TypeOK
  BY DEF IInv
<1> QED  BY <1>1, Inductive, PTL

(* However many operator processes reconcile the same target, at most one  *)
(* is installing or upgrading a release.                                   *)
THEOREM Exclusion == Spec => []OneAtATime
<1>1. IInv => OneAtATime
  BY DEF IInv, OwnerOK, OneAtATime
<1> QED  BY <1>1, Inductive, PTL

(* No release is begun before its image-pull Secret is in place, whatever  *)
(* other processes and users do between the requests.                      *)
THEOREM SecretBeforeRelease == Spec => []PullSecretFirst
<1>1. IInv => PullSecretFirst
  BY DEF IInv
<1> QED  BY <1>1, Inductive, PTL

-----------------------------------------------------------------------------
(* The installer implements ReleaseContract.                               *)

(* What each caller waits for, as Contract sees it.                        *)
Work == [p \in Callers |-> IF Applying(p) THEN {call[p].release} ELSE {}]

Step == [Contract!Next]_<<release, Work>>

LEMMA WorkIsOfCall ==
    ASSUME TypeOK, NEW p \in Callers, \A q \in Callers \ {p} : call'[q] = call[q]
    PROVE  /\ Applying(p)' => Work' = [Work EXCEPT ![p] = {call'[p].release}]
           /\ ~Applying(p)' => Work' = [Work EXCEPT ![p] = {}]
<1>1. \A q \in Callers \ {p} : Work'[q] = Work[q]
  BY DEF Work, Applying, At
<1>2. Work'[p] = IF Applying(p)' THEN {call'[p].release} ELSE {}
  BY DEF Work, Applying, At
<1> QED  BY <1>1, <1>2 DEF Work

(* A caller that waits no longer, whatever it did before.                  *)
LEMMA QuitStep ==
    ASSUME TypeOK, NEW p \in Callers, \A q \in Callers \ {p} : call'[q] = call[q],
           call'[p].step \notin {"installing", "upgrading"}, UNCHANGED release
    PROVE  Step
<1>1. Work' = [Work EXCEPT ![p] = {}]
  BY WorkIsOfCall DEF Applying, At
<1>2. CASE Applying(p)
  <2>1. Work[p] = {call[p].release}
    BY <1>2 DEF Work
  <2>2. Contract!End(p)
    BY <1>1, <2>1 DEF Contract!End, Work
  <2> QED  BY <2>2 DEF Step, Contract!Next
<1>3. CASE ~Applying(p)
  <2>1. Work' = Work
    BY <1>1, <1>3 DEF Work
  <2> QED  BY <2>1 DEF Step
<1> QED  BY <1>2, <1>3

LEMMA ConcludeStep ==
    ASSUME TypeOK, NEW p \in Callers, Applying(p),
           \A q \in Callers \ {p} : call'[q] = call[q],
           call'[p].step \notin {"installing", "upgrading"},
           NEW status \in {"deployed", "failed"}, Conclude(call[p].release, p, status)
    PROVE  Step
<1>1. Work' = [Work EXCEPT ![p] = {}] /\ Work[p] = {call[p].release}
  BY WorkIsOfCall DEF Work, Applying, At
<1>2. Contract!Conclude(call[p].release, p, status)
  BY DEF Conclude, Record, Contract!Conclude, Contract!Record
<1>3. Contract!End(p)
  BY <1>1, <1>2 DEF Contract!End, Work
<1> QED  BY <1>3 DEF Step, Contract!Next

LEMMA AcceptedStep ==
    ASSUME IInv, NEW p \in Callers, Accepted(p),
           NEW s \in {NextStep[call[p].step], "error"}, Goto(p, s)
    PROVE  Step
<1>1. /\ TypeOK
      /\ call[p].step \in {"createNamespace", "createPull", "updatePull", "install",
                           "upgrade", "installing", "upgrading"}
  BY AcceptedEffect DEF IInv
<1>2. call[p].release \in Releases /\ call[p].version \in Versions
  BY <1>1, CallFields
<1>3. /\ \A q \in Callers \ {p} : call'[q] = call[q]
      /\ call'[p].step = s /\ call'[p].release = call[p].release
  BY <1>1, GotoOther
<1>4. CASE CreateNamespace(p) \/ CreatePullSecret(p) \/ UpdatePullSecret(p)
  <2>1. s \in {"pull", "chart", "error"} /\ UNCHANGED release
    BY <1>4 DEF NextStep, CreateNamespace, CreatePullSecret, UpdatePullSecret, SetPull, At
  <2> QED  BY <1>1, <1>3, <2>1, QuitStep
<1>5. CASE Install(p) \/ Upgrade(p)
  <2>1. Work[p] = {}
    BY <1>5 DEF Work, Applying, Install, Upgrade, At
  <2>2. Work' \in {Work, [Work EXCEPT ![p] = {call[p].release}]}
    <3>1. [Work EXCEPT ![p] = {}] = Work
      BY <2>1 DEF Work
    <3> QED  BY <1>1, <1>3, <3>1, WorkIsOfCall
  <2>3. \/ Contract!StartInstall(call[p].release, call[p].version, p)
        \/ Contract!StartUpgrade(call[p].release, call[p].version, p)
    BY <1>5 DEF Install, Upgrade, StartInstall, StartUpgrade, Record,
       Contract!StartInstall, Contract!StartUpgrade, Contract!Record
  <2>4. PICK r \in Releases, v \in Versions : r = call[p].release /\ v = call[p].version
    BY <1>2
  <2>5. Contract!Start(p, r, v)
    BY <2>1, <2>2, <2>3, <2>4
       DEF Contract!Start, Contract!StartInstall, Contract!StartUpgrade, Contract!Record, Work
  <2> QED  BY <2>5 DEF Step, Contract!Next
<1>6. CASE Succeed(p)
  <2>1. s \in {"ok", "error"} /\ Applying(p) /\ Conclude(call[p].release, p, "deployed")
    BY <1>6 DEF NextStep, Succeed, Applying, At
  <2> QED  BY <1>1, <1>3, <2>1, ConcludeStep
<1> QED  BY <1>4, <1>5, <1>6 DEF Accepted

(* Whatever fails, is refused or dies at whatever request, and however     *)
(* many processes are at work: one that waits for an operation of Helm's   *)
(* has the release to itself until it ends it or gives up.                 *)
THEOREM Refinement == Spec => ImplementsContract
<1>1. Init => Contract!Init
  BY DEF Init, Contract!Init, NoRelease, Contract!NoRelease, NoCall, Applying, At
<1>2. IInv /\ [Next]_vars => Step
  <2> SUFFICES ASSUME IInv, [Next]_vars PROVE Step
    OBVIOUS
  <2>1. TypeOK
    BY DEF IInv
  <2>2. CASE UNCHANGED <<release, call>>
    BY <2>2 DEF Step, Work, Applying, At
  <2>3. ASSUME NEW p \in Callers, NEW s, s \notin {"installing", "upgrading"}, Goto(p, s),
               UNCHANGED release
        PROVE  Step
    BY <2>1, <2>3, GotoOther, QuitStep
  <2>4. ASSUME NEW p \in Callers, NEW c, c.step \notin {"installing", "upgrading"},
               call' = [call EXCEPT ![p] = c], UNCHANGED release
        PROVE  Step
    <3>1. call'[p] = c /\ \A q \in Callers \ {p} : call'[q] = call[q]
      BY <2>1, <2>4 DEF TypeOK
    <3> QED  BY <2>1, <2>4, <3>1, QuitStep
  <2>5. ASSUME NEW p \in Callers,
               GetNamespace(p) \/ GetPullSecret(p) \/ LoadChartFromOCI(p) \/ LookUp(p) \/ Refused(p)
        PROVE  Step
    BY <2>3, <2>5 DEF GetNamespace, GetPullSecret, LoadChartFromOCI, LookUp, Refused
  <2>6. ASSUME NEW p \in Callers, Perform(p)
        PROVE  Step
    BY <2>6, AcceptedStep DEF Perform
  <2>7. ASSUME NEW p \in Callers, FailRequest(p)
        PROVE  Step
    BY <2>3, <2>7, AcceptedStep DEF FailRequest
  <2>8. ASSUME NEW p \in Callers, FailRelease(p)
        PROVE  Step
    <3>1. /\ call'[p].step = "error" /\ \A q \in Callers \ {p} : call'[q] = call[q]
          /\ Applying(p) /\ Conclude(call[p].release, p, "failed")
      BY <2>1, <2>8, GotoOther DEF FailRelease
    <3> QED  BY <2>1, <3>1, ConcludeStep
  <2>9. ASSUME NEW p \in Callers,
               \/ Crash(p) \/ Return(p)
               \/ \E r \in Releases, v \in Versions, c \in Creds : Begin(p, r, v, c)
        PROVE  Step
    <3>1. NoCall.step = "idle"
      BY DEF NoCall
    <3> QED  BY <2>4, <2>9, <3>1 DEF Crash, Return, Begin
  <2>10. ASSUME NEW r \in Releases, Administrator(r)
         PROVE  Step
    <3>1. CASE UNCHANGED release
      BY <2>2, <2>10, <3>1 DEF Administrator
    <3>2. CASE Uninstall(r) /\ \A p \in Callers : ~(Applying(p) /\ call[p].release = r)
      <4>1. UNCHANGED Work /\ \A p \in Callers : r \notin Work[p]
        BY <2>10, <3>2 DEF Administrator, Work, Applying, At
      <4>2. Contract!Remove(r)
        BY <3>2, <4>1 DEF Contract!Remove, Uninstall, Contract!Uninstall, NoRelease,
           Contract!NoRelease, Work
      <4> QED  BY <4>2 DEF Step, Contract!Next
    <3> QED  BY <2>10, <3>1, <3>2 DEF Administrator
  <2> QED
    BY <2>2, <2>5, <2>6, <2>7, <2>8, <2>9, <2>10
       DEF Next, System, Proceed, Environment, Registry, vars
<1> QED
  BY <1>1, <1>2, Inductive, PTL
     DEF Spec, ImplementsContract, Contract!Spec, Step, Work
=============================================================================
