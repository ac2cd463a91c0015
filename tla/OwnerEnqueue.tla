----------------------------- MODULE OwnerEnqueue -----------------------------
(***************************************************************************)
(* The owner change propagator RestrictedEnqueueRequestForOwner           *)
(* (pkg/watch, src/unnamed/part_000) as the Kyma controller installs it    *)
(* on Manifests (controllers/setup.go): the informer delivers create,     *)
(* update and delete events of dependent objects in order; the controller *)
(* event filter may drop them; the handler turns the owner references of  *)
(* the object into reconcile requests for the owners, and the Kyma         *)
(* reconciler takes requests from the work queue and reads the current    *)
(* state of the dependents.                                                *)
(*                                                                         *)
(* An owner reference is abstracted to the owner's name, whether its       *)
(* (group, kind) is the configured owner type's, whether its apiVersion   *)
(* parses, and its controller flag.  The RESTMapping of the owner type    *)
(* (the controller's own CRD) is taken to succeed.                        *)
(***************************************************************************)
EXTENDS Naturals, Sequences

CONSTANTS
  Owners,          \* names of owner objects (Kymas)
  Dependents,      \* dependent objects (Manifests)
  States,          \* values of status.state
  Missing,         \* status.state absent
  DependentRefs,   \* the owner references each dependent carries, in order
  IsController,    \* only the controller reference is followed
  UseGenerationPredicate, \* WithEventFilter(GenerationChangedPredicate)
  MaxGeneration,   \* bound on dependent generations
  MaxEvents        \* bound on events delivered but not yet handled

OwnerRefs == [name : Owners, kindMatch : BOOLEAN, gvOk : BOOLEAN,
              controller : BOOLEAN]

ASSUME OwnerEnqueueAssumption ==
  /\ Missing \notin States
  /\ DependentRefs \in [Dependents -> Seq(OwnerRefs)]
  /\ IsController \in BOOLEAN
  /\ UseGenerationPredicate \in BOOLEAN
  /\ MaxGeneration \in Nat
  /\ MaxEvents \in Nat

\* The states modules report (Ready, Processing, Error, ...) are nonempty,
\* so only a missing status.state reads as "".
ASSUME StatesAssumption == "" \notin States

\* A dependent object as the API server holds it.
Objects == [exists : BOOLEAN, state : States \cup {Missing},
            generation : Nat]

Events == [type : {"create", "update", "delete"},
           old : Objects, new : Objects]

VARIABLES
  objects,   \* the dependents in the API server
  events,    \* events delivered by the informer, not yet handled
  queue,     \* the work queue's set of pending requests
  seen       \* history: per owner, the dependent states its last
             \* reconciliation read ("absent" for a missing object)

vars == <<objects, events, queue, seen>>

Absent == "absent"

\* What a reconciliation of an owner reads of a dependent.
Observed(o) == IF o.exists THEN o.state ELSE Absent

TypeOK ==
  /\ objects \in [Dependents -> Objects]
  /\ events \in Seq(Dependents \X Events)
  /\ queue \subseteq Owners
  /\ seen \in [Owners -> [Dependents -> States \cup {Missing, Absent}]]

Init ==
  /\ objects = [d \in Dependents |->
                  [exists |-> FALSE, state |-> Missing, generation |-> 0]]
  /\ events = <<>>
  /\ queue = {}
  /\ seen = [k \in Owners |-> [d \in Dependents |-> Absent]]

-----------------------------------------------------------------------------
(***************************************************************************)
(* The handler.                                                            *)
(***************************************************************************)

\* apimetav1.GetControllerOf: the first reference whose controller flag is set.
ControllerRefs(refs) ==
  LET idx == {i \in 1..Len(refs) : refs[i].controller}
  IN  IF idx = {} THEN <<>>
      ELSE <<refs[CHOOSE i \in idx : \A j \in idx : i <= j]>>

\* getOwnersReferences: all references, or only the controller reference.
getOwnersReferences(d) ==
  IF IsController THEN ControllerRefs(DependentRefs[d]) ELSE DependentRefs[d]

\* unstructured.NestedString(obj, "status", "state"): "" when absent.
NestedState(o) == IF o.state = Missing THEN "" ELSE o.state

\* Mutant of getOwnerReconcileRequest: the request names the dependent
\* object itself instead of its owner (EnqueueRequestForObject semantics).
getOwnerReconcileRequestForObject(d, e) ==
  LET refs == getOwnersReferences(d)
      walked == {i \in 1..Len(refs) : \A j \in 1..i : refs[j].gvOk}
      wanted(r) == /\ r.kindMatch
                   /\ e.type = "update" => NestedState(e.old) # NestedState(e.new)
  IN  IF \E i \in walked : wanted(refs[i]) THEN {d} ELSE {}

\* Mutant of getOwnerReconcileRequest: both states read from the new object
\* (componentNew passed twice), so no update ever looks like a change.
getOwnerReconcileRequestReadsNewTwice(d, e) ==
  LET refs == getOwnersReferences(d)
      walked == {i \in 1..Len(refs) : \A j \in 1..i : refs[j].gvOk}
      wanted(r) == /\ r.kindMatch
                   /\ e.type = "update" => NestedState(e.new) # NestedState(e.new)
  IN  {refs[i].name : i \in {i \in walked : wanted(refs[i])}}

(***************************************************************************)
(* getOwnerReconcileRequest: walk the references in order; a reference    *)
(* whose apiVersion does not parse ends the walk (the requests collected   *)
(* so far are still enqueued); a reference of another (group, kind) is     *)
(* skipped; on an update the request is added only when the state read    *)
(* from the old and the new object differs.                               *)
(***************************************************************************)
getOwnerReconcileRequest(d, e) ==
  LET refs == getOwnersReferences(d)
      walked == {i \in 1..Len(refs) : \A j \in 1..i : refs[j].gvOk}
      wanted(r) == /\ r.kindMatch
                   /\ e.type = "update" => NestedState(e.old) # NestedState(e.new)
  IN  {refs[i].name : i \in {i \in walked : wanted(refs[i])}}

\* GenerationChangedPredicate: updates pass only when the generation changed.
PassesEventFilter(e) ==
  ~UseGenerationPredicate \/ e.type # "update"
    \/ e.old.generation # e.new.generation


\* The Create, Update and Delete handlers, behind the controller's filter.
HandleEvent ==
  /\ events # <<>>
  /\ LET d == Head(events)[1]
         e == Head(events)[2]
         reqs == IF PassesEventFilter(e) THEN getOwnerReconcileRequest(d, e)
                 ELSE {}
     IN  queue' = queue \cup reqs
  /\ events' = Tail(events)
  /\ UNCHANGED <<objects, seen>>

\* The Kyma reconciler takes a request and reads its dependents.
Reconcile(k) ==
  /\ k \in queue
  /\ queue' = queue \ {k}
  /\ seen' = [seen EXCEPT ![k] = [d \in Dependents |-> Observed(objects[d])]]
  /\ UNCHANGED <<objects, events>>

-----------------------------------------------------------------------------
(***************************************************************************)
(* Changes to dependents; each is delivered as one event.                  *)
(***************************************************************************)
Emit(d, type, new) ==
  /\ Len(events) < MaxEvents
  /\ objects' = [objects EXCEPT ![d] = new]
  /\ events' = Append(events, <<d, [type |-> type, old |-> objects[d],
                                    new |-> new]>>)

CreateDependent(d) ==
  /\ ~objects[d].exists
  /\ objects[d].generation < MaxGeneration
  /\ Emit(d, "create", [exists |-> TRUE, state |-> Missing,
                        generation |-> objects[d].generation + 1])
  /\ UNCHANGED <<queue, seen>>

\* A status update: the generation does not change.
SetState(d, s) ==
  /\ objects[d].exists
  /\ objects[d].state # s
  /\ Emit(d, "update", [objects[d] EXCEPT !.state = s])
  /\ UNCHANGED <<queue, seen>>

\* A spec update: the generation is bumped.
UpdateSpec(d) ==
  /\ objects[d].exists
  /\ objects[d].generation < MaxGeneration
  /\ Emit(d, "update", [objects[d] EXCEPT !.generation = @ + 1])
  /\ UNCHANGED <<queue, seen>>

DeleteDependent(d) ==
  /\ objects[d].exists
  /\ Emit(d, "delete", [objects[d] EXCEPT !.exists = FALSE])
  /\ UNCHANGED <<queue, seen>>

Next ==
  \/ HandleEvent
  \/ \E k \in Owners : Reconcile(k)
  \/ \E d \in Dependents :
       \/ CreateDependent(d) \/ UpdateSpec(d) \/ DeleteDependent(d)
       \/ \E s \in States : SetState(d, s)

Spec == Init /\ [][Next]_vars

-----------------------------------------------------------------------------
(***************************************************************************)
(* Properties.                                                             *)
(***************************************************************************)

\* The owners of d the handler answers for: those named by a well-formed
\* reference of the owner type among the references it follows.
Responsible(d) ==
  LET refs == getOwnersReferences(d)
  IN  {refs[i].name : i \in {i \in 1..Len(refs) :
                               refs[i].kindMatch /\ refs[i].gvOk}}

\* No lost wake-up: once every delivered event is handled, an owner that is
\* not waiting in the queue has read the current state of every dependent
\* it owns; a changed status.state of a Manifest always re-triggers the
\* reconciliation of its Kyma (spec 8, state-filtered suppression).
NoLostStateChange ==
  events = <<>> =>
    \A d \in Dependents, k \in Owners :
      (k \in Responsible(d) /\ k \notin queue) =>
        seen[k][d] = Observed(objects[d])

\* An update whose old or new object lacks status.state is not suppressed:
\* handling it enqueues every owner the handler answers for (spec 4.3,
\* "fail open on missing data").
MissingStateFailsOpen ==
  [][ (/\ events # <<>>
       /\ Head(events)[2].type = "update"
       /\ PassesEventFilter(Head(events)[2])
       /\ Missing \in {Head(events)[2].old.state, Head(events)[2].new.state}
       /\ events' = Tail(events))
      => Responsible(Head(events)[1]) \subseteq queue' ]_vars

=============================================================================
