--------------------------- MODULE StatusContract ---------------------------
(***************************************************************************)
(* What a reconciler of this operator promises to whoever reads its        *)
(* objects through the API server: users alone write specs, the controller *)
(* alone writes statuses, and a status is written in one step with the     *)
(* generation and the spec it is a verdict on.  Caches, copies, queues and *)
(* probes do not appear.                                                   *)
(***************************************************************************)
EXTENDS Naturals

CONSTANTS Names, None, MaxGen, Specs, EmptyStatus,
          Fits(_, _)  \* Fits(spec, status): the verdicts a spec may get

VARIABLE obj

Absent == [exists |-> FALSE, gen |-> 0, spec |-> None, status |-> EmptyStatus]

New(s) == [exists |-> TRUE, gen |-> 1, spec |-> s, status |-> EmptyStatus]

Init == obj \in [Names -> {Absent} \cup {New(s) : s \in Specs}]

Create(n) ==
    /\ ~obj[n].exists
    /\ \E s \in Specs : obj' = [obj EXCEPT ![n] = New(s)]

EditSpec(n) ==
    /\ obj[n].exists
    /\ obj[n].gen < MaxGen
    /\ \E s \in Specs :
         obj' = [obj EXCEPT ![n].spec = s, ![n].gen = obj[n].gen + 1]

Delete(n) ==
    /\ obj[n].exists
    /\ obj' = [obj EXCEPT ![n] = Absent]

Publish(n) ==
    /\ obj[n].exists
    /\ obj' = [obj EXCEPT ![n].status = obj'[n].status]
    /\ obj'[n].status.observedGeneration = obj[n].gen
    /\ Fits(obj[n].spec, obj'[n].status)

Next == \E n \in Names : Create(n) \/ EditSpec(n) \/ Delete(n) \/ Publish(n)

Spec == Init /\ [][Next]_obj
=============================================================================
