-------------------------- MODULE ControllerRuntime --------------------------
(***************************************************************************)
(* What every reconciler of the operator runs on: the API server that      *)
(* stores its objects, the informer cache it reads, the work queue that    *)
(* calls it and the optimistic status write it ends with.  The code is     *)
(* controller-runtime v0.24 and the Kubernetes API server, not src/; the   *)
(* module keeps of them what internal/controller/*.go relies on:           *)
(*                                                                         *)
(*   - r.Get reads the informer cache, which trails the API server;        *)
(*   - a spec edit bumps metadata.generation, a status write does not;     *)
(*   - Status().Update is refused when the copy it carries is not of the   *)
(*     object's present resourceVersion, and an update that changes        *)
(*     nothing leaves the resourceVersion and the watchers alone;          *)
(*   - one worker per controller (MaxConcurrentReconciles is not set), and *)
(*     one queue item per object, either delayed or ready;                 *)
(*   - For(...) without a predicate: every watch event, the controller's   *)
(*     own status writes included, makes the object ready.                 *)
(*                                                                         *)
(* A resourceVersion is only ever compared for equality with the one the   *)
(* server holds, so it is kept as fresh[n]: which of the two copies of n,  *)
(* the cached one and the worker's, are of the present resourceVersion.    *)
(***************************************************************************)
EXTENDS Naturals

CONSTANTS
    Names,        \* the objects of the controller's kind
    None,         \* no object / no reference
    Specs,        \* the specs users may write
    EmptyStatus,  \* the status subresource before the first write
    MaxGen        \* bound on metadata.generation, so on the edits of one object

VARIABLES
    obj,     \* the API server's objects
    cache,   \* the informer cache's objects
    fresh,   \* fresh[n]: the copies that carry the present resourceVersion
    queue,   \* queue[n]: "idle", "delayed" (RequeueAfter, backoff) or "ready"
    active,  \* the object the worker is reconciling, or None
    copy     \* the worker's copy of it

Absent == [exists |-> FALSE, gen |-> 0, spec |-> None, status |-> EmptyStatus]

ObjectSet(Status) ==
    {Absent} \cup [exists: {TRUE}, gen: 1..MaxGen, spec: Specs, status: Status]

RuntimeTypeOK(Status) ==
    /\ obj \in [Names -> ObjectSet(Status)]
    /\ cache \in [Names -> ObjectSet(Status)]
    /\ fresh \in [Names -> SUBSET {"cache", "copy"}]
    /\ queue \in [Names -> {"idle", "delayed", "ready"}]
    /\ active \in Names \cup {None}
    /\ copy \in ObjectSet(Status)

New(s) == [exists |-> TRUE, gen |-> 1, spec |-> s, status |-> EmptyStatus]

(* The manager has just started, perhaps after users created objects.      *)
RuntimeInit ==
    /\ obj \in [Names -> {Absent} \cup {New(s) : s \in Specs}]
    /\ cache = obj
    /\ fresh = [n \in Names |-> {"cache"}]
    /\ queue = [n \in Names |-> IF obj[n].exists THEN "ready" ELSE "idle"]
    /\ active = None
    /\ copy = Absent

-----------------------------------------------------------------------------
(* Users, through the API server.  A write makes both copies stale.        *)

Store(n, o) ==
    /\ obj' = [obj EXCEPT ![n] = o]
    /\ fresh' = [fresh EXCEPT ![n] = {}]
    /\ UNCHANGED <<cache, queue, active, copy>>

Create(n) ==
    /\ ~obj[n].exists
    /\ \E s \in Specs : Store(n, New(s))

EditSpec(n) ==
    /\ obj[n].exists
    /\ obj[n].gen < MaxGen
    /\ \E s \in Specs \ {obj[n].spec} :
         Store(n, [obj[n] EXCEPT !.spec = s, !.gen = obj[n].gen + 1])

Delete(n) ==
    /\ obj[n].exists
    /\ Store(n, Absent)

UserAction == \E n \in Names : Create(n) \/ EditSpec(n) \/ Delete(n)

-----------------------------------------------------------------------------
(* The informer and the queue.                                             *)

(* Events of one object that are still undelivered are delivered as one.   *)
Deliver(n) ==
    /\ "cache" \notin fresh[n]
    /\ cache' = [cache EXCEPT ![n] = obj[n]]
    /\ fresh' = [fresh EXCEPT ![n] = fresh[n] \cup {"cache"}]
    /\ queue' = [queue EXCEPT ![n] = "ready"]
    /\ UNCHANGED <<obj, active, copy>>

TimerFires(n) ==
    /\ queue[n] = "delayed"
    /\ queue' = [queue EXCEPT ![n] = "ready"]
    /\ UNCHANGED <<obj, cache, fresh, active, copy>>

(* The informer's periodic resync hands every cached object out again.     *)
Resync ==
    /\ queue' = [n \in Names |-> IF cache[n].exists THEN "ready" ELSE queue[n]]
    /\ UNCHANGED <<obj, cache, fresh, active, copy>>

(* The process dies and its successor lists everything before it starts.   *)
RestartRuntime ==
    /\ cache' = obj
    /\ fresh' = [n \in Names |-> {"cache"}]
    /\ queue' = [n \in Names |-> IF obj[n].exists THEN "ready" ELSE "idle"]
    /\ active' = None
    /\ copy' = Absent
    /\ UNCHANGED obj

-----------------------------------------------------------------------------
(* The worker.                                                             *)

(* Dequeue n and r.Get it from the cache.                                  *)
Take(n) ==
    /\ active = None
    /\ queue[n] = "ready"
    /\ queue' = [queue EXCEPT ![n] = "idle"]
    /\ active' = n
    /\ copy' = cache[n]
    /\ fresh' = [fresh EXCEPT ![n] =
                    IF "cache" \in fresh[n] THEN {"cache", "copy"} ELSE {}]
    /\ UNCHANGED <<obj, cache>>

(* Dequeue n with nothing to do: r.Get says NotFound.                      *)
TakeDeleted(n) ==
    /\ active = None
    /\ queue[n] = "ready"
    /\ ~cache[n].exists
    /\ queue' = [queue EXCEPT ![n] = "idle"]
    /\ UNCHANGED <<obj, cache, fresh, active, copy>>

(* r.Get fails otherwise: the error is returned and n retried with backoff. *)
TakeFails(n) ==
    /\ active = None
    /\ queue[n] = "ready"
    /\ queue' = [queue EXCEPT ![n] = "delayed"]
    /\ UNCHANGED <<obj, cache, fresh, active, copy>>

(* What the queue makes of the ctrl.Result: "never" is Result{}, "later" a  *)
(* RequeueAfter or a returned error.                                       *)
Requeued(n, when) ==
    [queue EXCEPT ![n] = IF when = "later" /\ @ = "idle" THEN "delayed" ELSE @]

(* Reconcile returns without having written, or with its write refused.    *)
Abandon ==
    /\ queue' = Requeued(active, "later")
    /\ fresh' = [fresh EXCEPT ![active] = fresh[active] \ {"copy"}]
    /\ active' = None
    /\ copy' = Absent
    /\ UNCHANGED <<obj, cache>>

(* What no reconciler does: a patch, which carries no resourceVersion and  *)
(* is never refused while the object exists.                               *)
PatchStatus(st, when) ==
    IF obj[active].exists
    THEN /\ obj' = [obj EXCEPT ![active].status = st]
         /\ fresh' = [fresh EXCEPT ![active] = {}]
         /\ queue' = Requeued(active, when)
         /\ active' = None
         /\ copy' = Absent
         /\ UNCHANGED cache
    ELSE Abandon

(* Status().Update(copy with status st), then return Result `when'.        *)
WriteStatus(st, when) ==
    IF "copy" \in fresh[active]
    THEN /\ obj' = [obj EXCEPT ![active].status = st]
         /\ fresh' = [fresh EXCEPT ![active] =
                        IF st = obj[active].status THEN fresh[active] \ {"copy"} ELSE {}]
         /\ queue' = Requeued(active, when)
         /\ active' = None
         /\ copy' = Absent
         /\ UNCHANGED cache
    ELSE Abandon

-----------------------------------------------------------------------------
(* The invariants of the runtime that its controllers' properties rest on. *)

(* A copy of the present resourceVersion is the object.                    *)
CopiesAgree ==
    /\ \A n \in Names : "cache" \in fresh[n] => cache[n] = obj[n]
    /\ \A n \in Names : "copy" \in fresh[n] => active = n /\ copy = obj[n]
    /\ active = None => copy = Absent

(* Something will still call the reconciler for n: a queue item, the       *)
(* reconcile under way, or a watch event not yet delivered.                *)
Attended(n) ==
    \/ queue[n] # "idle"
    \/ active = n
    \/ "cache" \notin fresh[n]
=============================================================================
