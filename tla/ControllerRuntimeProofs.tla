----------------------- MODULE ControllerRuntimeProofs -----------------------
(***************************************************************************)
(* What the proofs about both controllers need of ControllerRuntime, once  *)
(* for any set of statuses: its actions keep the types and the copies      *)
(* sound, and leave every object attended.  A controller's module          *)
(* instantiates this one, and so has these lemmas about its own runtime.   *)
(***************************************************************************)
EXTENDS ControllerRuntime, TLAPS

(* What a controller's constants and statuses must satisfy.                *)
Fitting(Status) ==
    /\ None \notin Names
    /\ MaxGen \in Nat \ {0}
    /\ EmptyStatus \in Status

(* The part of each controller's inductive invariant that is about the     *)
(* runtime alone.                                                          *)
Sound(Status) ==
    /\ RuntimeTypeOK(Status)
    /\ CopiesAgree
    /\ active # None => copy.exists

-----------------------------------------------------------------------------
(* Objects.                                                                *)

(* An object that exists has a generation, a spec and a status.            *)
LEMMA ExistsType ==
    ASSUME NEW Status, NEW o \in ObjectSet(Status), o.exists
    PROVE  o \in [exists: {TRUE}, gen: 1..MaxGen, spec: Specs, status: Status]
<1>1. ~Absent.exists
  BY DEF Absent
<1> QED  BY <1>1 DEF ObjectSet

(* Present or not, it has a generation and a status.                       *)
LEMMA FieldTypes ==
    ASSUME NEW Status, Fitting(Status), NEW o \in ObjectSet(Status)
    PROVE  o.gen \in 0..MaxGen /\ o.status \in Status
<1>1. CASE o = Absent
  <2>1. o.gen = 0 /\ o.status = EmptyStatus
    BY <1>1 DEF Absent
  <2> QED  BY <2>1 DEF Fitting
<1>2. CASE o # Absent
  <2>1. o.gen \in 1..MaxGen /\ o.status \in Status
    BY <1>2 DEF ObjectSet
  <2> QED  BY <2>1 DEF Fitting
<1> QED  BY <1>1, <1>2

(* What the API server may make of an object is an object.                 *)
LEMMA ObjectTypes ==
    ASSUME NEW Status, Fitting(Status)
    PROVE  /\ Absent \in ObjectSet(Status)
           /\ \A s \in Specs : New(s) \in ObjectSet(Status)
           /\ \A o \in ObjectSet(Status), st \in Status :
                o.exists => [o EXCEPT !.status = st] \in ObjectSet(Status)
           /\ \A o \in ObjectSet(Status), s \in Specs :
                o.exists /\ o.gen < MaxGen =>
                    [o EXCEPT !.spec = s, !.gen = o.gen + 1] \in ObjectSet(Status)
<1>1. Absent \in ObjectSet(Status)
  BY DEF ObjectSet
<1>2. ASSUME NEW s \in Specs PROVE New(s) \in ObjectSet(Status)
  <2>1. 1 \in 1..MaxGen
    BY DEF Fitting
  <2> QED  BY <2>1 DEF New, ObjectSet, Fitting
<1>3. ASSUME NEW o \in ObjectSet(Status), NEW st \in Status, o.exists
      PROVE  [o EXCEPT !.status = st] \in ObjectSet(Status)
  BY <1>3, ExistsType DEF ObjectSet
<1>4. ASSUME NEW o \in ObjectSet(Status), NEW s \in Specs, o.exists, o.gen < MaxGen
      PROVE  [o EXCEPT !.spec = s, !.gen = o.gen + 1] \in ObjectSet(Status)
  <2>1. o \in [exists: {TRUE}, gen: 1..MaxGen, spec: Specs, status: Status]
    BY <1>4, ExistsType
  <2>2. o.gen + 1 \in 1..MaxGen
    <3>1. o.gen \in 1..MaxGen
      BY <2>1
    <3> QED  BY <1>4, <3>1 DEF Fitting
  <2> QED  BY <2>1, <2>2 DEF ObjectSet
<1> QED  BY <1>1, <1>2, <1>3, <1>4

(* A worker with a copy of the present resourceVersion has the object.     *)
LEMMA FreshCopy ==
    ASSUME NEW Status, Sound(Status), active # None
    PROVE  /\ active \in Names
           /\ copy.exists
           /\ copy \in [exists: {TRUE}, gen: 1..MaxGen, spec: Specs, status: Status]
           /\ "copy" \in fresh[active] => copy = obj[active]
<1>1. active \in Names /\ copy.exists /\ copy \in ObjectSet(Status)
  BY DEF Sound, RuntimeTypeOK
<1> QED  BY <1>1, ExistsType DEF Sound, CopiesAgree

-----------------------------------------------------------------------------
(* The runtime stays sound.                                                *)

LEMMA InitSound ==
    ASSUME NEW Status, Fitting(Status), RuntimeInit
    PROVE  Sound(Status)
<1>1. RuntimeTypeOK(Status)
  <2>1. {Absent} \cup {New(s) : s \in Specs} \subseteq ObjectSet(Status)
    BY ObjectTypes
  <2> QED  BY <2>1 DEF RuntimeInit, RuntimeTypeOK
<1> QED  BY <1>1 DEF RuntimeInit, Sound, CopiesAgree, Fitting

LEMMA StoreSound ==
    ASSUME NEW Status, Sound(Status),
           NEW n \in Names, NEW o \in ObjectSet(Status), Store(n, o)
    PROVE  Sound(Status)'
<1>1. RuntimeTypeOK(Status)'
  BY DEF Sound, RuntimeTypeOK, Store
<1>2. CopiesAgree'
  BY DEF Sound, RuntimeTypeOK, CopiesAgree, Store
<1> QED  BY <1>1, <1>2 DEF Sound, Store

(* What a user's write makes of the object written.                        *)
UserChange(o, p) ==
    \/ ~o.exists /\ \E s \in Specs : p = New(s)
    \/ /\ o.exists
       /\ o.gen < MaxGen
       /\ \E s \in Specs : p = [o EXCEPT !.spec = s, !.gen = o.gen + 1]
    \/ o.exists /\ p = Absent

LEMMA UserStores ==
    ASSUME NEW Status, Fitting(Status), Sound(Status), UserAction
    PROVE  \E n \in Names : \E o \in ObjectSet(Status) :
             UserChange(obj[n], o) /\ Store(n, o)
<1>1. PICK n \in Names : Create(n) \/ EditSpec(n) \/ Delete(n)
  BY DEF UserAction
<1>2. obj[n] \in ObjectSet(Status)
  BY DEF Sound, RuntimeTypeOK
<1>3. CASE Create(n)
  BY <1>3, ObjectTypes DEF Create, UserChange
<1>4. CASE EditSpec(n)
  BY <1>2, <1>4, ObjectTypes DEF EditSpec, UserChange
<1>5. CASE Delete(n)
  BY <1>5, ObjectTypes DEF Delete, UserChange
<1> QED  BY <1>1, <1>3, <1>4, <1>5

LEMMA UserSound ==
    ASSUME NEW Status, Fitting(Status), Sound(Status), UserAction
    PROVE  Sound(Status)'
BY UserStores, StoreSound

LEMMA InformerSound ==
    ASSUME NEW Status, Sound(Status),
           (\E n \in Names : Deliver(n) \/ TimerFires(n)) \/ Resync
    PROVE  Sound(Status)'
<1>1. RuntimeTypeOK(Status)'
  BY DEF Sound, RuntimeTypeOK, Deliver, TimerFires, Resync
<1>2. CopiesAgree'
  BY DEF Sound, RuntimeTypeOK, CopiesAgree, Deliver, TimerFires, Resync
<1> QED  BY <1>1, <1>2 DEF Sound, Deliver, TimerFires, Resync

LEMMA TakeSound ==
    ASSUME NEW Status, Fitting(Status), Sound(Status),
           NEW n \in Names, Take(n), cache[n].exists
    PROVE  Sound(Status)'
<1>1. RuntimeTypeOK(Status)'
  BY DEF Sound, RuntimeTypeOK, Take
<1>2. \A m \in Names : "copy" \notin fresh[m]
  BY DEF Take, Sound, CopiesAgree, Fitting
<1>3. CopiesAgree'
  BY <1>2 DEF Sound, RuntimeTypeOK, Take, CopiesAgree, Fitting
<1> QED  BY <1>1, <1>3 DEF Sound, Take

LEMMA TakeNothingSound ==
    ASSUME NEW Status, Sound(Status), NEW n \in Names, TakeDeleted(n) \/ TakeFails(n)
    PROVE  Sound(Status)'
<1>1. RuntimeTypeOK(Status)'
  BY DEF Sound, RuntimeTypeOK, TakeDeleted, TakeFails
<1> QED  BY <1>1 DEF Sound, CopiesAgree, TakeDeleted, TakeFails

LEMMA RestartSound ==
    ASSUME NEW Status, Fitting(Status), Sound(Status), RestartRuntime
    PROVE  Sound(Status)'
<1>1. RuntimeTypeOK(Status)'
  BY ObjectTypes DEF Sound, RuntimeTypeOK, RestartRuntime
<1> QED  BY <1>1 DEF Sound, CopiesAgree, RestartRuntime

LEMMA AbandonSound ==
    ASSUME NEW Status, Fitting(Status), Sound(Status), active # None, Abandon
    PROVE  Sound(Status)'
<1>1. active \in Names
  BY FreshCopy
<1>2. RuntimeTypeOK(Status)'
  BY <1>1, ObjectTypes DEF Sound, RuntimeTypeOK, Abandon, Requeued
<1>3. CopiesAgree'
  BY <1>1 DEF Sound, RuntimeTypeOK, CopiesAgree, Abandon
<1> QED  BY <1>2, <1>3 DEF Sound, Abandon

(* A write either changes nothing and is seen as such, or makes the cached *)
(* copy stale, even when it is one that has only just been delivered.      *)
LEMMA WriteSound ==
    ASSUME NEW Status, Fitting(Status), Sound(Status), active # None,
           NEW st \in Status, NEW when, WriteStatus(st, when)
    PROVE  Sound(Status)'
<1>1. CASE "copy" \notin fresh[active]
  BY <1>1, AbandonSound DEF WriteStatus
<1>2. CASE "copy" \in fresh[active]
  <2>t. /\ obj \in [Names -> ObjectSet(Status)] /\ fresh \in [Names -> SUBSET {"cache", "copy"}]
        /\ active \in Names
        /\ obj[active] \in ObjectSet(Status) /\ obj[active].exists
    BY <1>2, FreshCopy DEF Sound, RuntimeTypeOK
  <2>1. /\ obj' = [obj EXCEPT ![active] = [obj[active] EXCEPT !.status = st]]
        /\ fresh' = [fresh EXCEPT ![active] =
                       IF st = obj[active].status THEN fresh[active] \ {"copy"} ELSE {}]
        /\ queue' = Requeued(active, when)
        /\ active' = None /\ copy' = Absent /\ cache' = cache
    BY <1>2 DEF WriteStatus
  <2>2. RuntimeTypeOK(Status)'
    <3>1. obj' \in [Names -> ObjectSet(Status)]
      BY <2>1, <2>t, ObjectTypes
    <3>2. queue' \in [Names -> {"idle", "delayed", "ready"}]
      BY <2>1, <2>t DEF Sound, RuntimeTypeOK, Requeued
    <3>3. fresh' \in [Names -> SUBSET {"cache", "copy"}]
      BY <2>1, <2>t
    <3> QED  BY <2>1, <3>1, <3>2, <3>3, ObjectTypes DEF Sound, RuntimeTypeOK
  <2>3. CopiesAgree'
    <3>1. \A m \in Names \ {active} : obj'[m] = obj[m] /\ fresh'[m] = fresh[m]
      BY <2>1, <2>t
    <3>2. \A m \in Names : "copy" \notin fresh'[m]
      BY <2>1, <2>t, <3>1 DEF Sound, CopiesAgree
    <3>3. "cache" \in fresh'[active] => obj'[active] = obj[active] /\ "cache" \in fresh[active]
      <4>1. SUFFICES ASSUME "cache" \in fresh'[active]
                     PROVE  obj'[active] = obj[active] /\ "cache" \in fresh[active]
        OBVIOUS
      <4>2. st = obj[active].status /\ "cache" \in fresh[active]
        BY <2>1, <2>t, <4>1
      <4>3. obj[active] \in [exists: {TRUE}, gen: 1..MaxGen, spec: Specs, status: Status]
        BY <2>t, ExistsType
      <4>4. [obj[active] EXCEPT !.status = st] = obj[active]
        BY <4>2, <4>3
      <4> QED  BY <2>1, <2>t, <4>2, <4>4
    <3> QED  BY <2>1, <3>1, <3>2, <3>3 DEF Sound, CopiesAgree
  <2> QED  BY <2>1, <2>2, <2>3 DEF Sound
<1> QED  BY <1>1, <1>2

-----------------------------------------------------------------------------
(* Nothing makes an object that exists unattended, but a write that asks   *)
(* for no requeue.                                                         *)

LEMMA InitAttends ==
    ASSUME NEW n \in Names, RuntimeInit, obj[n].exists
    PROVE  Attended(n)
BY DEF RuntimeInit, Attended

LEMMA StoreAttends ==
    ASSUME NEW Status, Sound(Status), NEW n \in Names, NEW m \in Names, NEW o,
           Store(m, o), n = m \/ Attended(n)
    PROVE  Attended(n)'
BY DEF Sound, RuntimeTypeOK, Store, Attended

LEMMA InformerAttends ==
    ASSUME NEW Status, Sound(Status), NEW n \in Names, Attended(n),
           (\E m \in Names : Deliver(m) \/ TimerFires(m)) \/ Resync
    PROVE  Attended(n)'
BY DEF Sound, RuntimeTypeOK, Deliver, TimerFires, Resync, Attended

LEMMA TakeAttends ==
    ASSUME NEW Status, Fitting(Status), Sound(Status),
           NEW n \in Names, NEW m \in Names, Attended(n), Take(m) \/ TakeFails(m)
    PROVE  Attended(n)'
BY DEF Fitting, Sound, RuntimeTypeOK, Take, TakeFails, Attended

(* An object not found is either gone or about to be delivered.            *)
LEMMA TakeDeletedAttends ==
    ASSUME NEW Status, Sound(Status), NEW n \in Names, NEW m \in Names,
           obj[n].exists, Attended(n), TakeDeleted(m)
    PROVE  Attended(n)'
<1>1. n = m => "cache" \notin fresh[n]
  BY DEF Sound, CopiesAgree, TakeDeleted
<1> QED  BY <1>1 DEF Sound, RuntimeTypeOK, TakeDeleted, Attended

LEMMA RestartAttends ==
    ASSUME NEW n \in Names, RestartRuntime, obj[n].exists
    PROVE  Attended(n)'
BY DEF RestartRuntime, Attended

LEMMA AbandonAttends ==
    ASSUME NEW Status, Sound(Status), active # None, NEW n \in Names, Attended(n), Abandon
    PROVE  Attended(n)'
<1>1. active \in Names
  BY FreshCopy
<1>2. Requeued(active, "later")[active] # "idle"
  BY <1>1 DEF Sound, RuntimeTypeOK, Requeued
<1> QED  BY <1>1, <1>2 DEF Sound, RuntimeTypeOK, Abandon, Attended, Requeued

LEMMA WriteAttends ==
    ASSUME NEW Status, Sound(Status), active # None, NEW n \in Names, Attended(n),
           NEW st, NEW when, WriteStatus(st, when)
    PROVE  \/ Attended(n)'
           \/ /\ n = active /\ when # "later" /\ "copy" \in fresh[active]
              /\ obj' = [obj EXCEPT ![active].status = st]
<1>1. active \in Names
  BY FreshCopy
<1>2. CASE "copy" \notin fresh[active]
  BY <1>2, AbandonAttends DEF WriteStatus
<1>3. CASE "copy" \in fresh[active] /\ n # active
  BY <1>1, <1>3 DEF WriteStatus, Attended, Requeued, Sound, RuntimeTypeOK
<1>4. CASE "copy" \in fresh[active] /\ n = active /\ when = "later"
  <2>1. Requeued(active, "later")[active] # "idle"
    BY <1>1 DEF Sound, RuntimeTypeOK, Requeued
  <2> QED  BY <1>4, <2>1 DEF WriteStatus, Attended
<1>5. CASE "copy" \in fresh[active] /\ n = active /\ when # "later"
  BY <1>5 DEF WriteStatus
<1> QED  BY <1>2, <1>3, <1>4, <1>5
=============================================================================
