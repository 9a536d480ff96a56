------------------------- MODULE TargetClusterProofs -------------------------
(***************************************************************************)
(* Proofs about TargetCluster, for any number of objects, Secrets,         *)
(* clusters and generations.                                               *)
(***************************************************************************)
EXTENDS TargetCluster, TLAPS

(* The worker has an object exactly while a reconcile is under way.        *)
WorkerOK == active = None <=> step = "idle"

(* What the steps of a reconcile have established about the copy.          *)
ProbeOK ==
    /\ step \in {"secret", "version", "nodes"} =>
          copy.spec.type = "byo" /\ copy.spec.byo # None
    /\ step \in {"version", "nodes"} => target \in held[copy.spec.byo]

(* The history has what the Secrets hold now.                              *)
HeldOK == \A s \in SecretNames : secret[s] \in Clusters => secret[s] \in held[s]

(* The status about to be written is a verdict on the copy.                *)
VerdictOK ==
    step = "write" =>
        /\ outcome.status.observedGeneration = copy.gen
        /\ Fits(copy.spec, outcome.status)
        /\ Seen(copy.spec, outcome.status)
        /\ outcome.when = "never" => Terminal(outcome.status)

(* No object has a status from a later generation than its own.            *)
ObservedOK ==
    \A n \in Names :
        obj[n].exists => obj[n].status.observedGeneration <= obj[n].gen

(* StatusFitsSpec is not inductive: that a write which is not refused is a *)
(* verdict on the object as it is now follows from Sound, WorkerOK and     *)
(* VerdictOK, and that a spec edit disowns the status from ObservedOK.     *)
IInv ==
    /\ TypeOK
    /\ Sound(TargetClusterStatus)
    /\ WorkerOK
    /\ HeldOK
    /\ ProbeOK
    /\ VerdictOK
    /\ ObservedOK
    /\ StatusFitsSpec
    /\ NeverForgotten

-----------------------------------------------------------------------------
(* Type correctness, the copies and the worker.                            *)

LEMMA NoStatusType == NoStatus \in TargetClusterStatus
<1>1. 0 \in 0..MaxGen
  BY TargetClusterAssumption
<1> QED  BY <1>1 DEF NoStatus, TargetClusterStatus

(* The lemmas about the runtime apply.                                     *)
LEMMA Fitted == Fitting(TargetClusterStatus)
BY NoStatusType, TargetClusterAssumption DEF Fitting

(* Both ways of computing a status give a well-formed one.                 *)
LEMMA StatusType ==
    ASSUME NEW o \in ObjectSet(TargetClusterStatus)
    PROVE  /\ \A r \in Reasons : markUnavailable(o, r) \in TargetClusterStatus
           /\ \A c \in Clusters : markReady(o, c) \in TargetClusterStatus
<1>1. o.gen \in 0..MaxGen /\ o.status \in TargetClusterStatus
  BY Fitted, FieldTypes
<1> QED
  BY <1>1 DEF markUnavailable, markReady, TargetClusterStatus, Reasons

(* What another process does: it stores a verdict on the object.           *)
LEMMA PeerStores ==
    ASSUME Sound(TargetClusterStatus), NEW n \in Names, Peer(n)
    PROVE  /\ UNCHANGED <<local, world>>
           /\ obj[n].exists
           /\ \E st \in TargetClusterStatus :
                /\ [obj[n] EXCEPT !.status = st] \in ObjectSet(TargetClusterStatus)
                /\ Store(n, [obj[n] EXCEPT !.status = st])
                /\ st.observedGeneration = obj[n].gen
                /\ Fits(obj[n].spec, st)
                /\ Seen(obj[n].spec, st)
<1>1. PICK st \in {markReady(obj[n], c) : c \in Clusters}
                   \cup {markUnavailable(obj[n], r) : r \in Reasons \ {"Reachable"}} :
        /\ Fits(obj[n].spec, st)
        /\ Seen(obj[n].spec, st)
        /\ Store(n, [obj[n] EXCEPT !.status = st])
  BY DEF Peer
<1>2. obj[n] \in ObjectSet(TargetClusterStatus) /\ obj[n].exists
  BY DEF Sound, RuntimeTypeOK, Peer
<1>3. st \in TargetClusterStatus
  BY <1>1, <1>2, StatusType
<1>4. st.observedGeneration = obj[n].gen
  <2>1. ASSUME NEW r \in Reasons
        PROVE  markUnavailable(obj[n], r).observedGeneration = obj[n].gen
    <3>1. obj[n].status \in TargetClusterStatus
      BY <1>2, Fitted, FieldTypes
    <3> QED  BY <3>1 DEF markUnavailable, TargetClusterStatus
  <2> QED  BY <1>1, <2>1 DEF markReady
<1>5. [obj[n] EXCEPT !.status = st] \in ObjectSet(TargetClusterStatus)
  BY <1>2, <1>3, Fitted, ObjectTypes
<1> QED  BY <1>1, <1>2, <1>3, <1>4, <1>5 DEF Peer

(* A write that is not refused is of the copy, which is the object.        *)
LEMMA WorkerCopy ==
    ASSUME Sound(TargetClusterStatus), WorkerOK, step # "idle"
    PROVE  /\ active \in Names
           /\ active # None
           /\ copy.exists
           /\ copy.spec \in TargetClusterSpec
           /\ "copy" \in fresh[active] => copy = obj[active]
<1>1. active # None
  BY DEF WorkerOK
<1> QED  BY <1>1, FreshCopy

LEMMA SoundStep ==
    TypeOK /\ Sound(TargetClusterStatus) /\ WorkerOK /\ [Next]_vars =>
        Sound(TargetClusterStatus)' /\ WorkerOK'
<1> SUFFICES ASSUME TypeOK, Sound(TargetClusterStatus), WorkerOK, [Next]_vars
             PROVE  Sound(TargetClusterStatus)' /\ WorkerOK'
  OBVIOUS
<1>1. CASE UNCHANGED <<runtime, step>>
  BY <1>1 DEF runtime, Sound, RuntimeTypeOK, CopiesAgree, WorkerOK
<1>2. CASE User
  BY <1>2, Fitted, UserSound DEF User, UserAction, Create, EditSpec, Delete, Store,
     local, WorkerOK
<1>3. ASSUME NEW n \in Names, Peer(n)
      PROVE  Sound(TargetClusterStatus)' /\ WorkerOK'
  BY <1>3, PeerStores, StoreSound DEF Store, local, WorkerOK
<1>4. CASE Informer
  <2>1. Sound(TargetClusterStatus)'
    BY <1>4, InformerSound DEF Informer, DeliverEvent, FireTimer, ResyncAll
  <2> QED
    BY <1>4, <2>1 DEF Informer, DeliverEvent, FireTimer, ResyncAll, Deliver, TimerFires,
       Resync, local, WorkerOK
<1>5. ASSUME NEW n \in Names, Begin(n)
      PROVE  Sound(TargetClusterStatus)' /\ WorkerOK'
  <2>1. Take(n) /\ cache[n].exists /\ step' # "idle"
    BY <1>5 DEF Begin, CheckSpec, GiveUp
  <2>2. WorkerOK'
    BY <2>1, TargetClusterAssumption DEF Take, WorkerOK
  <2> QED  BY <2>1, <2>2, Fitted, TakeSound
<1>6. ASSUME NEW n \in Names, Skip(n) \/ FailGet(n)
      PROVE  Sound(TargetClusterStatus)' /\ WorkerOK'
  BY <1>6, TakeNothingSound DEF Skip, FailGet, TakeDeleted, TakeFails, local, WorkerOK
<1>7. CASE ReadSecret \/ ProbeVersion \/ ListNodes
  <2>1. step # "idle" /\ step' # "idle" /\ UNCHANGED runtime
    BY <1>7 DEF ReadSecret, ProbeVersion, ListNodes, GiveUp
  <2> QED  BY <2>1 DEF runtime, Sound, RuntimeTypeOK, CopiesAgree, WorkerOK
<1>8. CASE Write \/ Fail
  <2>1. active # None
    BY <1>8, WorkerCopy DEF Write, Fail
  <2>2. outcome.status \in TargetClusterStatus
    BY DEF TypeOK, Outcome
  <2>3. active' = None /\ step' = "idle"
    BY <1>8 DEF Write, Fail, WriteStatus, Abandon, Done
  <2> QED  BY <1>8, <2>1, <2>2, <2>3, Fitted, AbandonSound, WriteSound DEF Write, Fail, WorkerOK
<1>9. CASE Restart
  BY <1>9, Fitted, RestartSound DEF Restart, RestartRuntime, Done, WorkerOK
<1>10. CASE (\E s \in SecretNames : SetSecret(s)) \/ (\E c \in Clusters : Outage(c))
  BY <1>1, <1>10 DEF SetSecret, Outage, local
<1>11. CASE UNCHANGED vars
  BY <1>1, <1>11 DEF vars, local
<1> QED
  BY <1>2, <1>3, <1>4, <1>5, <1>6, <1>7, <1>8, <1>9, <1>10, <1>11
     DEF Next, System, Reconcile, Proceed, Environment

(* Going on to the write, with either kind of status.                      *)
LEMMA GiveUpTypes ==
    ASSUME NEW o \in ObjectSet(TargetClusterStatus), NEW r \in Reasons,
           NEW when \in {"never", "later"}, GiveUp(o, r, when)
    PROVE  step' = "write" /\ outcome' \in Outcome
BY StatusType DEF GiveUp, Outcome

LEMMA DoneTypes ==
    Done => step' = "idle" /\ target' = None /\ outcome' \in Outcome
BY NoStatusType DEF Done, NoOutcome, Outcome

LEMMA TypeStep ==
    TypeOK /\ Sound(TargetClusterStatus)' /\ [Next]_vars => TypeOK'
<1> SUFFICES ASSUME TypeOK, Sound(TargetClusterStatus)', [Next]_vars
             PROVE  TypeOK'
  OBVIOUS
<1> USE DEF TypeOK
<1>r. RuntimeTypeOK(TargetClusterStatus)'
  BY DEF Sound
<1>1. CASE UNCHANGED <<local, world>>
  BY <1>r, <1>1 DEF local, world
<1>2. CASE Informer \/ User
  BY <1>1, <1>2 DEF Informer, DeliverEvent, FireTimer, ResyncAll, User
<1>3. ASSUME NEW n \in Names, Peer(n) \/ Skip(n) \/ FailGet(n) PROVE TypeOK'
  BY <1>1, <1>3 DEF Peer, Skip, FailGet
<1>4. ASSUME NEW n \in Names, Begin(n) PROVE TypeOK'
  <2>1. cache[n] \in ObjectSet(TargetClusterStatus)
    BY DEF RuntimeTypeOK
  <2>2. step' \in {"secret", "write"} /\ outcome' \in Outcome
    <3>1. "UnsupportedType" \in Reasons /\ "MissingBYOSpec" \in Reasons
      BY DEF Reasons
    <3> QED  BY <1>4, <2>1, <3>1, GiveUpTypes DEF Begin, CheckSpec
  <2> QED  BY <1>r, <1>4, <2>2 DEF Begin, world
<1>5. CASE ReadSecret \/ ProbeVersion \/ ListNodes
  <2>1. copy \in ObjectSet(TargetClusterStatus)
    BY DEF RuntimeTypeOK
  <2>2. /\ "MissingSecret" \in Reasons /\ "InvalidKubeconfig" \in Reasons
        /\ "ConnectionFailed" \in Reasons
    BY DEF Reasons
  <2>3. CASE ReadSecret
    <3>1. step' \in {"write", "version"} /\ outcome' \in Outcome
      BY <2>1, <2>2, <2>3, GiveUpTypes DEF ReadSecret
    <3>2. target' \in Clusters \cup {None}
      BY <2>3 DEF ReadSecret
    <3> QED  BY <1>r, <2>3, <3>1, <3>2 DEF ReadSecret, world
  <2>4. CASE ProbeVersion
    <3>1. step' \in {"write", "nodes"} /\ outcome' \in Outcome
      BY <2>1, <2>2, <2>4, GiveUpTypes DEF ProbeVersion
    <3> QED  BY <1>r, <2>4, <3>1 DEF ProbeVersion, world
  <2>5. CASE ListNodes
    <3>1. step' = "write" /\ outcome' \in Outcome
      <4>1. CASE target \in up
        <5>1. markReady(copy, target) \in TargetClusterStatus
          BY <2>1, <4>1, StatusType
        <5> QED  BY <2>5, <4>1, <5>1 DEF ListNodes, Outcome
      <4>2. CASE target \notin up
        BY <2>1, <2>2, <2>5, <4>2, GiveUpTypes DEF ListNodes
      <4> QED  BY <4>1, <4>2
    <3> QED  BY <1>r, <2>5, <3>1 DEF ListNodes, world
  <2> QED  BY <1>5, <2>3, <2>4, <2>5
<1>6. CASE Write \/ Fail \/ Restart
  BY <1>r, <1>6, DoneTypes DEF Write, Fail, Restart, world
<1>7. ASSUME NEW s \in SecretNames, SetSecret(s) PROVE TypeOK'
  BY <1>r, <1>7 DEF SetSecret, local
<1>8. ASSUME NEW c \in Clusters, Outage(c) PROVE TypeOK'
  BY <1>r, <1>8 DEF Outage, local
<1> QED
  BY <1>1, <1>2, <1>3, <1>4, <1>5, <1>6, <1>7, <1>8
     DEF Next, System, Reconcile, Proceed, Environment, vars

-----------------------------------------------------------------------------
(* The verdict.                                                            *)

LEMMA HeldStep == TypeOK /\ HeldOK /\ [Next]_vars => HeldOK'
<1> SUFFICES ASSUME TypeOK, HeldOK, [Next]_vars PROVE HeldOK'
  OBVIOUS
<1>1. CASE UNCHANGED <<secret, held>>
  BY <1>1 DEF HeldOK
<1>2. ASSUME NEW s \in SecretNames, SetSecret(s) PROVE HeldOK'
  BY <1>2 DEF SetSecret, HeldOK, TypeOK
<1> QED
  BY <1>1, <1>2
     DEF Next, System, Informer, Reconcile, Proceed, Environment, User, Begin, Skip,
         ReadSecret, ProbeVersion, ListNodes, Write, Fail, FailGet, Restart, Outage,
         Peer, DeliverEvent, FireTimer, ResyncAll, vars, world

LEMMA HeldGrows == TypeOK /\ [Next]_vars => \A s \in SecretNames : held[s] \subseteq held'[s]
<1> SUFFICES ASSUME TypeOK, [Next]_vars
             PROVE  \A s \in SecretNames : held[s] \subseteq held'[s]
  OBVIOUS
<1>1. CASE UNCHANGED held
  BY <1>1
<1>2. ASSUME NEW s \in SecretNames, SetSecret(s)
      PROVE  \A r \in SecretNames : held[r] \subseteq held'[r]
  BY <1>2 DEF SetSecret, TypeOK
<1> QED
  BY <1>1, <1>2
     DEF Next, System, Informer, Reconcile, Proceed, Environment, User, Begin, Skip,
         ReadSecret, ProbeVersion, ListNodes, Write, Fail, FailGet, Restart, Outage,
         Peer, DeliverEvent, FireTimer, ResyncAll, vars, world

LEMMA VerdictStep ==
    IInv /\ [Next]_vars => ProbeOK' /\ VerdictOK'
<1> SUFFICES ASSUME TypeOK, Sound(TargetClusterStatus), WorkerOK, HeldOK, ProbeOK, VerdictOK,
                    [Next]_vars
             PROVE  ProbeOK' /\ VerdictOK'
  BY DEF IInv
<1>1. ASSUME UNCHANGED <<copy, step, target, outcome, held>>
      PROVE  ProbeOK' /\ VerdictOK'
  BY <1>1 DEF ProbeOK, VerdictOK, Seen
<1>2. ASSUME step' = "idle" PROVE ProbeOK' /\ VerdictOK'
  BY <1>2 DEF ProbeOK, VerdictOK
(* A status given up with fits the copy its reason was found in.           *)
<1>3. ASSUME NEW o \in ObjectSet(TargetClusterStatus), NEW r \in Reasons, r # "Reachable",
             NEW when, GiveUp(o, r, when), copy' = o,
             r = "UnsupportedType" <=> o.spec.type # "byo",
             r = "MissingBYOSpec" <=> o.spec.type = "byo" /\ o.spec.byo = None,
             when = "never" => r \in {"UnsupportedType", "MissingBYOSpec", "InvalidKubeconfig"}
      PROVE  ProbeOK' /\ VerdictOK'
  <2>1. step' = "write" /\ outcome' = [status |-> markUnavailable(o, r), when |-> when]
    BY <1>3 DEF GiveUp
  <2>2. LET st == markUnavailable(o, r) IN
          st.ready = FALSE /\ st.reason = r /\ st.observedGeneration = o.gen
    BY FieldTypes DEF markUnavailable, TargetClusterStatus
  <2> QED  BY <1>3, <2>1, <2>2 DEF ProbeOK, VerdictOK, Fits, Seen, Terminal
<1>4. ASSUME NEW n \in Names, Begin(n) PROVE ProbeOK' /\ VerdictOK'
  <2>1. copy' = cache[n] /\ cache[n] \in ObjectSet(TargetClusterStatus)
    BY <1>4 DEF Begin, Take, TypeOK, RuntimeTypeOK
  <2>2. CASE step' = "secret"
    BY <1>4, <2>1, <2>2 DEF Begin, CheckSpec, GiveUp, ProbeOK, VerdictOK
  <2>3. CASE step' = "write"
    BY <1>3, <1>4, <2>1, <2>3 DEF Begin, CheckSpec, Reasons
  <2> QED  BY <1>4, <2>2, <2>3 DEF Begin, CheckSpec, GiveUp
<1>5. CASE ReadSecret
  <2>1. copy \in ObjectSet(TargetClusterStatus) /\ copy' = copy /\ held' = held
    BY <1>5 DEF ReadSecret, runtime, world, TypeOK, RuntimeTypeOK
  <2>2. copy.spec.type = "byo" /\ copy.spec.byo # None
    BY <1>5 DEF ReadSecret, ProbeOK
  <2>3. CASE step' = "write"
    BY <1>3, <1>5, <2>1, <2>2, <2>3 DEF ReadSecret, Reasons
  <2>4. CASE step' = "version"
    <3>1. target' = secret[copy.spec.byo] /\ target' \in Clusters
      BY <1>5, <2>4 DEF ReadSecret, GiveUp
    <3>2. copy.spec.byo \in SecretNames
      <4>1. copy.spec \in TargetClusterSpec
        BY <1>5, WorkerCopy DEF ReadSecret
      <4> QED  BY <2>2, <4>1 DEF TargetClusterSpec
    <3> QED  BY <2>1, <2>2, <2>4, <3>1, <3>2 DEF HeldOK, ProbeOK, VerdictOK
  <2> QED  BY <1>5, <2>3, <2>4 DEF ReadSecret, GiveUp
<1>6. CASE ProbeVersion \/ ListNodes
  <2>1. /\ copy \in ObjectSet(TargetClusterStatus) /\ copy' = copy /\ held' = held
        /\ target' = target
    BY <1>6 DEF ProbeVersion, ListNodes, runtime, world, TypeOK, RuntimeTypeOK
  <2>2. /\ copy.spec.type = "byo" /\ copy.spec.byo # None
        /\ target \in held[copy.spec.byo]
    BY <1>6 DEF ProbeVersion, ListNodes, ProbeOK
  <2>3. CASE GiveUp(copy, "ConnectionFailed", "later")
    BY <1>3, <2>1, <2>2, <2>3 DEF Reasons
  <2>4. CASE ProbeVersion /\ step' = "nodes"
    BY <2>1, <2>2, <2>4 DEF ProbeOK, VerdictOK
  <2>5. CASE step' = "write" /\ outcome' = [status |-> markReady(copy, target), when |-> "later"]
    BY <2>1, <2>2, <2>5 DEF ProbeOK, VerdictOK, markReady, Fits, Seen
  <2> QED  BY <1>6, <2>3, <2>4, <2>5 DEF ProbeVersion, ListNodes
<1>7. ASSUME NEW s \in SecretNames, SetSecret(s) PROVE ProbeOK' /\ VerdictOK'
  <2>1. /\ UNCHANGED <<copy, step, target, outcome>>
        /\ copy \in ObjectSet(TargetClusterStatus)
    BY <1>7 DEF SetSecret, runtime, local, TypeOK, RuntimeTypeOK
  <2>2. \A r \in SecretNames : held[r] \subseteq held'[r]
    BY <1>7, HeldGrows DEF Next, Environment
  <2>3. step # "idle" => copy.spec.byo \in SecretNames \cup {None}
    <3>1. step # "idle" => copy.spec \in TargetClusterSpec
      BY WorkerCopy
    <3> QED  BY <3>1 DEF TargetClusterSpec
  <2>4. ProbeOK'
    BY <2>1, <2>2, <2>3 DEF ProbeOK
  <2>5. step = "write" /\ outcome.status.ready => copy.spec.byo \in SecretNames
    BY <2>3 DEF VerdictOK, Fits
  <2>6. VerdictOK'
    BY <2>1, <2>2, <2>5 DEF VerdictOK, Seen
  <2> QED  BY <2>4, <2>6
<1>8. CASE Write \/ Fail \/ Restart
  BY <1>2, <1>8 DEF Write, Fail, Restart, Done
<1>9. CASE Informer \/ User \/ UNCHANGED vars
  BY <1>1, <1>9 DEF Informer, User, DeliverEvent, FireTimer, ResyncAll, Deliver, TimerFires,
     Resync, UserAction, Create, EditSpec, Delete, Store, vars, runtime, local, world
<1>10. ASSUME NEW n \in Names, Skip(n) \/ FailGet(n) PROVE ProbeOK' /\ VerdictOK'
  BY <1>1, <1>10 DEF Skip, FailGet, TakeDeleted, TakeFails, local, world
<1>11. ASSUME NEW c \in Clusters, Outage(c) PROVE ProbeOK' /\ VerdictOK'
  BY <1>1, <1>11 DEF Outage, runtime, local
<1>12. ASSUME NEW n \in Names, Peer(n) PROVE ProbeOK' /\ VerdictOK'
  BY <1>1, <1>12 DEF Peer, Store, local, world
<1> QED
  BY <1>4, <1>5, <1>6, <1>7, <1>8, <1>9, <1>10, <1>11, <1>12
     DEF Next, System, Reconcile, Proceed, Environment

-----------------------------------------------------------------------------
(* How an object changes.                                                  *)

(* Whatever a step does to an object: it is created, edited, deleted, or   *)
(* given a status that is a verdict on it, which is the contract's steps.  *)
Change(o, p) ==
    \/ p = o
    \/ UserChange(o, p)
    \/ /\ o.exists
       /\ \E st \in TargetClusterStatus :
            /\ p = [o EXCEPT !.status = st]
            /\ st.observedGeneration = o.gen
            /\ Fits(o.spec, st)
            /\ Seen(o.spec, st)

LEMMA Changes ==
    IInv /\ [Next]_vars =>
        \/ UNCHANGED obj
        \/ \E n \in Names : \E p :
             Change(obj[n], p) /\ obj' = [obj EXCEPT ![n] = p]
<1> SUFFICES ASSUME IInv, [Next]_vars
             PROVE  \/ UNCHANGED obj
                    \/ \E n \in Names : \E p :
                         Change(obj[n], p) /\ obj' = [obj EXCEPT ![n] = p]
  OBVIOUS
<1>2. ASSUME Write \/ Fail, obj' # obj
      PROVE  \E n \in Names : \E p : Change(obj[n], p) /\ obj' = [obj EXCEPT ![n] = p]
  <2>1. /\ step = "write" /\ "copy" \in fresh[active]
        /\ obj' = [obj EXCEPT ![active].status = outcome.status]
    BY <1>2 DEF Write, Fail, WriteStatus, Abandon
  <2>2. active \in Names /\ copy.exists /\ copy = obj[active]
    BY <2>1, WorkerCopy DEF IInv
  <2>3. outcome.status \in TargetClusterStatus
    BY DEF IInv, TypeOK, Outcome
  <2>4. Change(obj[active], [obj[active] EXCEPT !.status = outcome.status])
    BY <2>1, <2>2, <2>3 DEF IInv, VerdictOK, Change
  <2> QED  BY <2>1, <2>2, <2>4
<1>3. CASE User
  BY <1>3, Fitted, UserStores DEF User, Store, Change, IInv
<1>4. ASSUME NEW n \in Names, Peer(n)
      PROVE  \E p : Change(obj[n], p) /\ obj' = [obj EXCEPT ![n] = p]
  BY <1>4, PeerStores DEF Store, Change, IInv
<1> QED
  BY <1>2, <1>3, <1>4
     DEF Next, System, Informer, Reconcile, Proceed, Environment, Begin, Skip,
         ReadSecret, ProbeVersion, ListNodes, FailGet, Restart, Outage, SetSecret,
         DeliverEvent, FireTimer, ResyncAll, vars, runtime, Deliver, TimerFires, Resync,
         Take, TakeDeleted, TakeFails, RestartRuntime

(* What ObservedOK and StatusFitsSpec ask of one object, h being held.     *)
Good(o, h) ==
    o.exists =>
        /\ o.status.observedGeneration <= o.gen
        /\ o.status.observedGeneration = o.gen =>
             /\ Fits(o.spec, o.status)
             /\ o.status.ready => o.status.version \in h[o.spec.byo]

(* A change keeps it so, given that the history of the Secrets only grows. *)
LEMMA ChangeGood ==
    ASSUME NEW o \in ObjectSet(TargetClusterStatus), NEW p \in ObjectSet(TargetClusterStatus),
           NEW h, \A s \in SecretNames : held[s] \subseteq h[s],
           Good(o, held), Change(o, p)
    PROVE  Good(p, h)
<1>1. ASSUME NEW q \in ObjectSet(TargetClusterStatus), q.exists
      PROVE  /\ q.spec \in TargetClusterSpec /\ q.gen \in Nat
             /\ q.status \in TargetClusterStatus
             /\ q.status.observedGeneration \in Nat
  <2>1. q \in [exists: {TRUE}, gen: 1..MaxGen, spec: TargetClusterSpec,
               status: TargetClusterStatus]
    BY <1>1, ExistsType
  <2> QED  BY <2>1, TargetClusterAssumption DEF TargetClusterStatus
<1>2. ASSUME NEW sp \in TargetClusterSpec, NEW st, Fits(sp, st), st.ready
      PROVE  held[sp.byo] \subseteq h[sp.byo]
  BY <1>2 DEF Fits, TargetClusterSpec
<1>3. CASE p = o
  BY <1>1, <1>2, <1>3 DEF Good
<1>4. ASSUME NEW s \in TargetClusterSpec, p = New(s)
      PROVE  Good(p, h)
  BY <1>4 DEF Good, New, NoStatus
<1>5. ASSUME o.exists, NEW s \in TargetClusterSpec,
             p = [o EXCEPT !.spec = s, !.gen = o.gen + 1]
      PROVE  Good(p, h)
  <2>1. p.status = o.status /\ p.gen = o.gen + 1
    BY <1>5, ExistsType
  <2>2. o.status.observedGeneration <= o.gen
    BY <1>5 DEF Good
  <2> QED  BY <1>1, <1>5, <2>1, <2>2 DEF Good
<1>6. CASE p = Absent
  BY <1>6 DEF Good, Absent
<1>7. ASSUME o.exists, NEW st \in TargetClusterStatus, p = [o EXCEPT !.status = st],
             st.observedGeneration = o.gen, Fits(o.spec, st), Seen(o.spec, st)
      PROVE  Good(p, h)
  <2>1. p.status = st /\ p.gen = o.gen /\ p.spec = o.spec
    BY <1>7, ExistsType
  <2> QED  BY <1>1, <1>2, <1>7, <2>1 DEF Good, Seen
<1> QED  BY <1>3, <1>4, <1>5, <1>6, <1>7 DEF Change, UserChange

LEMMA StatusStep ==
    IInv /\ TypeOK' /\ [Next]_vars => ObservedOK' /\ StatusFitsSpec'
<1> SUFFICES ASSUME IInv, TypeOK', [Next]_vars
             PROVE  \A n \in Names : Good(obj'[n], held')
  BY DEF Good, ObservedOK, StatusFitsSpec, Seen
<1> TAKE n \in Names
<1>1. obj \in [Names -> ObjectSet(TargetClusterStatus)] /\ obj'[n] \in ObjectSet(TargetClusterStatus)
  BY DEF IInv, TypeOK, RuntimeTypeOK
<1>2. Change(obj[n], obj'[n])
  <2>1. CASE UNCHANGED obj
    BY <2>1 DEF Change
  <2>2. ASSUME NEW m \in Names, NEW p, Change(obj[m], p), obj' = [obj EXCEPT ![m] = p]
        PROVE  Change(obj[n], obj'[n])
    BY <2>2, <1>1 DEF Change
  <2> QED  BY <2>1, <2>2, Changes
<1>3. Good(obj[n], held)
  BY DEF IInv, Good, ObservedOK, StatusFitsSpec, Seen
<1>4. \A s \in SecretNames : held[s] \subseteq held'[s]
  BY HeldGrows DEF IInv
<1> QED  BY <1>1, <1>2, <1>3, <1>4, ChangeGood

-----------------------------------------------------------------------------
(* No object is forgotten.                                                 *)

LEMMA ForgottenStep ==
    IInv /\ [Next]_vars => NeverForgotten'
<1> SUFFICES ASSUME IInv, [Next]_vars, NEW n \in Names, obj'[n].exists, ~Attended(n)'
             PROVE  /\ obj'[n].status.observedGeneration = obj'[n].gen
                    /\ Terminal(obj'[n].status)
  BY DEF NeverForgotten
<1> DEFINE Settled(o) == o.status.observedGeneration = o.gen /\ Terminal(o.status)
<1>t. /\ Sound(TargetClusterStatus)
      /\ obj \in [Names -> ObjectSet(TargetClusterStatus)]
  BY DEF IInv, Sound, RuntimeTypeOK
<1>1. ASSUME obj'[n] = obj[n], Attended(n) => Attended(n)' PROVE Settled(obj'[n])
  BY <1>1 DEF IInv, NeverForgotten
<1>2. ASSUME NEW m \in Names, NEW o, Store(m, o) PROVE Settled(obj'[n])
  BY <1>1, <1>2, <1>t, StoreAttends DEF Store
<1>3. CASE User \/ \E m \in Names : Peer(m)
  BY <1>2, <1>3, <1>t, PeerStores DEF User, UserAction, Create, EditSpec, Delete
<1>4. CASE Informer
  <2>1. Attended(n) => Attended(n)'
    BY <1>4, <1>t, InformerAttends DEF Informer, DeliverEvent, FireTimer, ResyncAll
  <2>2. obj' = obj
    BY <1>4 DEF Informer, DeliverEvent, FireTimer, ResyncAll, Deliver, TimerFires, Resync
  <2> QED  BY <1>1, <2>1, <2>2
<1>5. ASSUME NEW m \in Names, Begin(m) \/ FailGet(m) PROVE Settled(obj'[n])
  <2>1. Attended(n) => Attended(n)'
    BY <1>5, <1>t, Fitted, TakeAttends DEF Begin, FailGet
  <2> QED  BY <1>1, <1>5, <2>1 DEF Begin, FailGet, Take, TakeFails
<1>6. ASSUME NEW m \in Names, Skip(m) PROVE Settled(obj'[n])
  <2>1. obj' = obj
    BY <1>6 DEF Skip, TakeDeleted
  <2>2. Attended(n) => Attended(n)'
    BY <1>6, <1>t, <2>1, TakeDeletedAttends DEF Skip
  <2> QED  BY <1>1, <2>1, <2>2
<1>7. CASE UNCHANGED runtime
  BY <1>1, <1>7 DEF runtime, Attended
<1>8. CASE Write \/ Fail
  <2>1. active \in Names /\ active # None /\ step # "idle"
    BY <1>8, WorkerCopy DEF IInv, Write, Fail
  <2>2. CASE Abandon
    BY <1>1, <1>t, <2>1, <2>2, AbandonAttends DEF Abandon
  <2>3. ASSUME step = "write", NEW when, WriteStatus(outcome.status, when),
               when = "later" \/ when = outcome.when
        PROVE  Settled(obj'[n])
    <3>1. CASE Attended(n)
      <4>1. /\ n = active /\ when # "later" /\ "copy" \in fresh[active]
            /\ obj' = [obj EXCEPT ![active].status = outcome.status]
        BY <1>t, <2>1, <2>3, <3>1, WriteAttends
      <4>2. outcome.when = "never" /\ copy = obj[n] /\ obj[n].exists
        BY <2>1, <2>3, <4>1, WorkerCopy DEF IInv, TypeOK, Outcome
      <4>3. obj'[n].gen = obj[n].gen /\ obj'[n].status = outcome.status
        BY <4>1, <4>2, <1>t, ExistsType
      <4> QED  BY <2>3, <4>2, <4>3 DEF IInv, VerdictOK
    <3>2. CASE ~Attended(n)
      <4>1. n # active
        BY <3>2 DEF Attended
      <4>2. obj'[n] = obj[n]
        BY <2>1, <2>3, <4>1, <1>t DEF WriteStatus, Abandon
      <4> QED  BY <1>1, <3>2, <4>2
    <3> QED  BY <3>1, <3>2
  <2> QED  BY <1>8, <2>2, <2>3 DEF Write, Fail
<1>9. CASE Restart
  BY <1>9, RestartAttends DEF Restart, RestartRuntime
<1> QED
  BY <1>3, <1>4, <1>5, <1>6, <1>7, <1>8, <1>9
     DEF Next, System, Reconcile, Proceed, Environment, ReadSecret, ProbeVersion, ListNodes,
         SetSecret, Outage, vars

-----------------------------------------------------------------------------
(* The theorems.                                                           *)

LEMMA InitIInv == Init => IInv
<1> SUFFICES ASSUME Init PROVE IInv
  OBVIOUS
<1>1. \A n \in Names :
        obj[n].exists => obj[n].gen = 1 /\ obj[n].status.observedGeneration = 0
  BY DEF Init, RuntimeInit, Absent, New, NoStatus
<1>2. Sound(TargetClusterStatus) /\ WorkerOK
  BY Fitted, InitSound DEF Init, RuntimeInit, WorkerOK
<1>3. TypeOK
  BY <1>2, DoneTypes, NoStatusType DEF Init, TypeOK, Sound, SecretData, NoOutcome, Outcome
<1>4. HeldOK
  BY TargetClusterAssumption DEF Init, HeldOK
<1>5. ProbeOK /\ VerdictOK
  BY DEF Init, ProbeOK, VerdictOK
<1>6. NeverForgotten
  BY InitAttends DEF Init, NeverForgotten
<1> QED
  BY <1>1, <1>2, <1>3, <1>4, <1>5, <1>6 DEF IInv, ObservedOK, StatusFitsSpec

LEMMA NextIInv == IInv /\ [Next]_vars => IInv'
<1> SUFFICES ASSUME IInv, [Next]_vars PROVE IInv'
  OBVIOUS
<1>1. TypeOK' /\ Sound(TargetClusterStatus)' /\ WorkerOK'
  BY TypeStep, SoundStep DEF IInv
<1>2. HeldOK' /\ ProbeOK' /\ VerdictOK'
  BY HeldStep, VerdictStep DEF IInv
<1>3. ObservedOK' /\ StatusFitsSpec' /\ NeverForgotten'
  BY <1>1, StatusStep, ForgottenStep DEF IInv
<1> QED  BY <1>1, <1>2, <1>3 DEF IInv

THEOREM Inductive == Spec => []IInv
BY InitIInv, NextIInv, PTL DEF Spec

(* Every variable keeps its type: the statuses Reconcile computes through  *)
(* markUnavailable and on success are ones the API admits.                 *)
THEOREM TypeCorrect == Spec => []TypeOK
<1>1. IInv => TypeOK
  BY DEF IInv
<1> QED  BY <1>1, Inductive, PTL

(* However stale the copy a reconcile worked on, a status that claims the  *)
(* object's generation fits the object's spec.                             *)
THEOREM StatusIsOfThisSpec == Spec => []StatusFitsSpec
<1>1. IInv => StatusFitsSpec
  BY DEF IInv
<1> QED  BY <1>1, Inductive, PTL

(* No return of Reconcile leaves an object that nothing will reconcile     *)
(* again, but those with a reason it returns an empty Result for.          *)
THEOREM NoneForgotten == Spec => []NeverForgotten
<1>1. IInv => NeverForgotten
  BY DEF IInv
<1> QED  BY <1>1, Inductive, PTL

(* The controller, with its cache, queue, probes and restarts, implements  *)
(* the atomic StatusContract.                                              *)
THEOREM Refinement == Spec => ImplementsContract
<1>1. Init => Contract!Init
  BY DEF Init, RuntimeInit, Contract!Init, Absent, Contract!Absent, New, Contract!New
<1>2. IInv /\ [Next]_vars => [Contract!Next]_obj
  <2> SUFFICES ASSUME IInv, [Next]_vars PROVE [Contract!Next]_obj
    OBVIOUS
  <2>t. obj \in [Names -> ObjectSet(TargetClusterStatus)]
    BY DEF IInv, TypeOK, RuntimeTypeOK
  <2>1. CASE UNCHANGED obj
    BY <2>1
  <2>2. ASSUME NEW n \in Names, NEW p, Change(obj[n], p), obj' = [obj EXCEPT ![n] = p]
        PROVE  [Contract!Next]_obj
    <3>1. CASE p = obj[n]
      BY <2>2, <2>t, <3>1
    <3>2. ASSUME ~obj[n].exists, NEW s \in TargetClusterSpec, p = New(s)
          PROVE  Contract!Create(n)
      BY <2>2, <3>2 DEF Contract!Create, New, Contract!New
    <3>3. ASSUME obj[n].exists, obj[n].gen < MaxGen, NEW s \in TargetClusterSpec,
                 p = [obj[n] EXCEPT !.spec = s, !.gen = obj[n].gen + 1]
          PROVE  Contract!EditSpec(n)
      BY <2>2, <2>t, <3>3 DEF Contract!EditSpec
    <3>4. ASSUME obj[n].exists, p = Absent
          PROVE  Contract!Delete(n)
      BY <2>2, <3>4 DEF Contract!Delete, Absent, Contract!Absent
    <3>5. ASSUME obj[n].exists, NEW st \in TargetClusterStatus,
                 p = [obj[n] EXCEPT !.status = st],
                 st.observedGeneration = obj[n].gen, Fits(obj[n].spec, st)
          PROVE  Contract!Publish(n)
      <4>1. obj'[n] = p /\ p.status = st
        BY <2>2, <2>t, <3>5, ExistsType
      <4> QED  BY <2>2, <3>5, <4>1 DEF Contract!Publish
    <3> QED
      BY <2>2, <3>1, <3>2, <3>3, <3>4, <3>5 DEF Change, UserChange, Contract!Next
  <2> QED  BY <2>1, <2>2, Changes
<1> QED  BY <1>1, <1>2, Inductive, PTL DEF Spec, ImplementsContract, Contract!Spec

-----------------------------------------------------------------------------
(* What else the operator as a whole relies on.                            *)

(* A Ready status, observed or not, stored or cached, reports a cluster    *)
(* that some Secret has led to.                                            *)
HeardOf(st) == st.ready => \E s \in SecretNames : st.version \in held[s]

AllHeardOf == \A n \in Names : HeardOf(obj[n].status) /\ HeardOf(cache[n].status)

LEMMA HeardStep == IInv /\ AllHeardOf /\ [Next]_vars => AllHeardOf'
<1> SUFFICES ASSUME IInv, AllHeardOf, [Next]_vars, NEW n \in Names
             PROVE  HeardOf(obj[n].status)' /\ HeardOf(cache[n].status)'
  BY DEF AllHeardOf
<1>t. /\ obj \in [Names -> ObjectSet(TargetClusterStatus)]
      /\ cache \in [Names -> ObjectSet(TargetClusterStatus)]
  BY DEF IInv, TypeOK, RuntimeTypeOK
<1>1. \A s \in SecretNames : held[s] \subseteq held'[s]
  BY HeldGrows DEF IInv
<1>2. HeardOf(obj[n].status) /\ HeardOf(cache[n].status)
  BY DEF AllHeardOf
<1>3. HeardOf(obj[n].status)'
  <2>1. CASE obj'[n] = obj[n]
    BY <1>1, <1>2, <2>1 DEF HeardOf
  <2>2. ASSUME NEW p, Change(obj[n], p), obj'[n] = p
        PROVE  HeardOf(obj[n].status)'
    <3>1. CASE p = obj[n]
      BY <2>1, <2>2, <3>1
    <3>2. CASE UserChange(obj[n], p)
      <4>1. p.status = obj[n].status \/ p.status = NoStatus
        <5>1. obj[n].exists => obj[n] \in [exists: {TRUE}, gen: 1..MaxGen,
                                            spec: TargetClusterSpec, status: TargetClusterStatus]
          BY <1>t, ExistsType
        <5>2. ASSUME obj[n].exists, NEW s \in TargetClusterSpec,
                     p = [obj[n] EXCEPT !.spec = s, !.gen = obj[n].gen + 1]
              PROVE  p.status = obj[n].status
          BY <5>1, <5>2
        <5>3. New(None).status = NoStatus /\ Absent.status = NoStatus
          BY DEF New, Absent
        <5>4. ASSUME NEW s \in TargetClusterSpec, p = New(s)
              PROVE  p.status = NoStatus
          BY <5>4 DEF New
        <5> QED  BY <3>2, <5>2, <5>3, <5>4 DEF UserChange
      <4> QED  BY <1>1, <1>2, <2>2, <4>1 DEF HeardOf, NoStatus
    <3>3. ASSUME obj[n].exists, NEW st \in TargetClusterStatus, p = [obj[n] EXCEPT !.status = st],
                 Fits(obj[n].spec, st), Seen(obj[n].spec, st)
          PROVE  HeardOf(obj[n].status)'
      <4>1. obj[n] \in [exists: {TRUE}, gen: 1..MaxGen,
                        spec: TargetClusterSpec, status: TargetClusterStatus]
        BY <1>t, <3>3, ExistsType
      <4>2. p.status = st /\ obj[n].spec.byo \in SecretNames \cup {None}
        BY <3>3, <4>1 DEF TargetClusterSpec
      <4> QED  BY <1>1, <2>2, <3>3, <4>2 DEF HeardOf, Fits, Seen
    <3> QED  BY <2>2, <3>1, <3>2, <3>3 DEF Change
  <2> QED  BY <1>t, <2>1, <2>2, Changes
<1>4. HeardOf(cache[n].status)'
  <2>1. cache'[n] = cache[n] \/ cache'[n] = obj[n]
    BY <1>t
       DEF Next, System, Informer, Reconcile, Proceed, Environment, Begin, Skip,
           ReadSecret, ProbeVersion, ListNodes, Write, Fail, FailGet, Restart, Outage, SetSecret,
           User, UserAction, Create, EditSpec, Delete, Peer, Store, WriteStatus, Abandon,
           DeliverEvent, FireTimer, ResyncAll, vars, runtime, Deliver, TimerFires, Resync,
           Take, TakeDeleted, TakeFails, RestartRuntime
  <2> QED  BY <1>1, <1>2, <2>1 DEF HeardOf
<1> QED  BY <1>3, <1>4

(* The operator never takes a version from nowhere: with stale caches,     *)
(* retries and restarts, a Ready status reports a cluster that was reached *)
(* with the kubeconfig of some Secret.                                     *)
THEOREM VersionsAreHeardOf == Spec => []AllHeardOf
<1>1. Init => AllHeardOf
  <2> SUFFICES ASSUME Init, NEW n \in Names
               PROVE  HeardOf(obj[n].status) /\ HeardOf(cache[n].status)
    BY DEF AllHeardOf
  <2>1. cache = obj /\ obj[n] \in {Absent} \cup {New(s) : s \in TargetClusterSpec}
    BY DEF Init, RuntimeInit
  <2>2. obj[n].status = NoStatus
    BY <2>1 DEF Absent, New
  <2>3. ~NoStatus.ready
    BY DEF NoStatus
  <2> QED  BY <2>1, <2>2, <2>3 DEF HeardOf
<1> QED  BY <1>1, HeardStep, Inductive, PTL DEF Spec
=============================================================================
