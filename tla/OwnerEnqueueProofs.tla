-------------------------- MODULE OwnerEnqueueProofs --------------------------
(***************************************************************************)
(* Proofs about the owner change propagator (OwnerEnqueue).                *)
(*                                                                         *)
(* NoLostStateChange speaks only of states with no event in flight, so it *)
(* is not inductive.  The inductive invariant WakeUpPending says more:    *)
(* an owner the handler answers for that is not queued has either read    *)
(* the current state of the dependent, or some event of that dependent   *)
(* still in flight will enqueue it when handled.  It holds when the       *)
(* handler follows only the controller reference (setup.go:64-65) and no  *)
(* controller-wide generation filter drops status updates (the            *)
(* owner_enqueue_setup run shows what that filter does).                  *)
(***************************************************************************)
EXTENDS OwnerEnqueue, WellFoundedInduction, TLAPS

\* Handling the i-th event in flight enqueues owner k.
WakesUp(i, k) ==
  /\ PassesEventFilter(events[i][2])
  /\ k \in getOwnerReconcileRequest(events[i][1], events[i][2])

WakeUpPending ==
  \A d \in Dependents, k \in Owners :
    k \in Responsible(d) /\ k \notin queue =>
      \/ seen[k][d] = Observed(objects[d])
      \/ \E i \in 1..Len(events) : events[i][1] = d /\ WakesUp(i, k)

IInv == TypeOK /\ WakeUpPending

USE OwnerEnqueueAssumption

-----------------------------------------------------------------------------
(***************************************************************************)
(* Lemmas about the handler's operators.                                   *)
(***************************************************************************)

\* GetControllerOf yields at most one reference, one of the object's.
LEMMA ControllerRefsResult ==
  ASSUME NEW refs \in Seq(OwnerRefs)
  PROVE  /\ ControllerRefs(refs) \in Seq(OwnerRefs)
         /\ Len(ControllerRefs(refs)) <= 1
<1> DEFINE idx == {i \in 1..Len(refs) : refs[i].controller}
<1>1. CASE idx = {}
  BY <1>1 DEF ControllerRefs
<1>2. CASE idx # {}
  <2>0. idx \subseteq Nat /\ idx # {}
    BY <1>2
  <2>1. \E i \in idx : \A j \in idx : ~(<<j, i>> \in OpToRel(<, Nat))
    BY <2>0, NatLessThanWellFounded, WFMin, Zenon
  <2>a. \A i, j \in Nat : j < i => <<j, i>> \in OpToRel(<, Nat)
    BY SMT DEF OpToRel
  <2>2. PICK m \in idx : \A j \in idx : ~(<<j, m>> \in OpToRel(<, Nat))
    BY <2>1
  <2>3. \A j \in idx : m <= j
    <3> TAKE j \in idx
    <3>1. ~(j < m)
      BY <2>0, <2>2, <2>a, Zenon
    <3> QED
      BY <2>0, <3>1
  <2>4. (CHOOSE i \in idx : \A j \in idx : i <= j) \in 1..Len(refs)
    BY <2>3
  <2> QED
    BY <1>2, <2>4 DEF ControllerRefs
<1> QED
  BY <1>1, <1>2

\* The references the handler follows are references of the object; with
\* IsController there is at most one.
LEMMA getOwnersReferencesResult ==
  ASSUME NEW d \in Dependents
  PROVE  /\ getOwnersReferences(d) \in Seq(OwnerRefs)
         /\ IsController => Len(getOwnersReferences(d)) <= 1
BY ControllerRefsResult DEF getOwnersReferences

\* Every request the handler makes names an owner.
LEMMA RequestsAreOwners ==
  ASSUME NEW d \in Dependents, NEW e
  PROVE  getOwnerReconcileRequest(d, e) \subseteq Owners
<1> DEFINE refs == getOwnersReferences(d)
<1>1. refs \in Seq(OwnerRefs)
  BY getOwnersReferencesResult
<1>2. \A i \in 1..Len(refs) : refs[i].name \in Owners
  <2> TAKE i \in 1..Len(refs)
  <2>1. refs[i] \in OwnerRefs
    BY <1>1
  <2> QED
    BY <2>1 DEF OwnerRefs
<1> QED
  BY <1>2 DEF getOwnerReconcileRequest

\* Following the controller reference only, an event that is not an update,
\* or an update that changes the state read, enqueues every owner the
\* handler answers for: there is no earlier malformed reference to end
\* the walk.
LEMMA RequestCoversResponsible ==
  ASSUME IsController, NEW d \in Dependents, NEW e,
         e.type # "update" \/ NestedState(e.old) # NestedState(e.new)
  PROVE  Responsible(d) \subseteq getOwnerReconcileRequest(d, e)
<1> DEFINE refs == getOwnersReferences(d)
<1>1. refs \in Seq(OwnerRefs) /\ Len(refs) <= 1
  BY getOwnersReferencesResult
<1>2. ASSUME NEW i \in 1..Len(refs), refs[i].kindMatch, refs[i].gvOk
      PROVE  i \in {i2 \in 1..Len(refs) : \A j \in 1..i2 : refs[j].gvOk}
  BY <1>1, <1>2
<1> QED
  BY <1>2 DEF Responsible, getOwnerReconcileRequest

\* A status update to a reported state changes what NestedString reads:
\* no state is "", the value a missing status.state reads as.
LEMMA NestedStateChanges ==
  ASSUME NEW o1 \in Objects, NEW o2 \in Objects,
         o2.state \in States, o1.state # o2.state
  PROVE  NestedState(o1) # NestedState(o2)
BY StatesAssumption, Zenon DEF NestedState, Objects

\* The objects the Manifest changes produce.
LEMMA ObjectUpdates ==
  ASSUME NEW o \in Objects
  PROVE  /\ \A s \in States :
              LET n == [o EXCEPT !.state = s]
              IN  n \in Objects /\ n.exists = o.exists /\ n.state = s
         /\ LET n == [o EXCEPT !.generation = @ + 1]
            IN  n \in Objects /\ n.exists = o.exists /\ n.state = o.state
         /\ LET n == [o EXCEPT !.exists = FALSE]
            IN  n \in Objects /\ ~n.exists
<1>1. DOMAIN o = {"exists", "state", "generation"}
  BY DEF Objects
<1>2. ASSUME NEW s \in States
      PROVE  LET n == [o EXCEPT !.state = s]
             IN  n \in Objects /\ n.exists = o.exists /\ n.state = s
  <2> DEFINE n == [o EXCEPT !.state = s]
  <2>1. DOMAIN n = DOMAIN o /\ n.exists = o.exists /\ n.state = s
        /\ n.generation = o.generation
    BY <1>1
  <2> QED
    BY <1>1, <2>1 DEF Objects
<1>3. LET n == [o EXCEPT !.generation = @ + 1]
      IN  n \in Objects /\ n.exists = o.exists /\ n.state = o.state
  <2> DEFINE n == [o EXCEPT !.generation = @ + 1]
  <2>1. DOMAIN n = DOMAIN o /\ n.exists = o.exists /\ n.state = o.state
        /\ n.generation = o.generation + 1
    BY <1>1
  <2> QED
    BY <1>1, <2>1 DEF Objects
<1>4. LET n == [o EXCEPT !.exists = FALSE]
      IN  n \in Objects /\ ~n.exists
  <2> DEFINE n == [o EXCEPT !.exists = FALSE]
  <2>1. DOMAIN n = DOMAIN o /\ n.exists = FALSE /\ n.state = o.state
        /\ n.generation = o.generation
    BY <1>1
  <2> QED
    BY <1>1, <2>1 DEF Objects
<1> QED
  BY <1>2, <1>3, <1>4

-----------------------------------------------------------------------------
(***************************************************************************)
(* Type correctness.                                                       *)
(***************************************************************************)

\* Emit, the one step every change to a dependent takes, keeps the objects
\* and the delivered events well typed.
LEMMA EmitType ==
  ASSUME TypeOK, NEW d \in Dependents,
         NEW t \in {"create", "update", "delete"}, NEW n \in Objects,
         Emit(d, t, n)
  PROVE  /\ objects' \in [Dependents -> Objects]
         /\ events' \in Seq(Dependents \X Events)
<1>1. [type |-> t, old |-> objects[d], new |-> n] \in Events
  BY DEF TypeOK, Events
<1> QED
  BY <1>1 DEF Emit, TypeOK

\* What a reconciliation reads of a dependent is a value seen may hold.
LEMMA ObservedType ==
  ASSUME NEW o \in Objects
  PROVE  Observed(o) \in States \cup {Missing, Absent}
BY DEF Observed, Objects

LEMMA TypeStep ==
  ASSUME TypeOK, [Next]_vars
  PROVE  TypeOK'
<1>1. CASE HandleEvent
  <2> DEFINE d == Head(events)[1]
             e == Head(events)[2]
  <2>1. d \in Dependents
    BY <1>1 DEF TypeOK, HandleEvent
  <2>2. getOwnerReconcileRequest(d, e) \subseteq Owners
    BY <2>1, RequestsAreOwners
  <2> QED
    BY <1>1, <2>2 DEF HandleEvent, TypeOK
<1>2. ASSUME NEW k \in Owners, Reconcile(k)
      PROVE  TypeOK'
  <2>1. [d \in Dependents |-> Observed(objects[d])]
          \in [Dependents -> States \cup {Missing, Absent}]
    BY ObservedType DEF TypeOK
  <2> QED
    BY <1>2, <2>1 DEF Reconcile, TypeOK
<1>3. ASSUME NEW d \in Dependents, CreateDependent(d)
      PROVE  TypeOK'
  <2>1. objects[d].generation \in Nat
    BY DEF TypeOK, Objects
  <2>2. [exists |-> TRUE, state |-> Missing,
         generation |-> objects[d].generation + 1] \in Objects
    BY <2>1 DEF Objects
  <2> QED
    BY <1>3, <2>2, EmitType DEF CreateDependent, TypeOK
<1>4. ASSUME NEW d \in Dependents, NEW s \in States, SetState(d, s)
      PROVE  TypeOK'
  BY <1>4, ObjectUpdates, EmitType DEF SetState, TypeOK
<1>5. ASSUME NEW d \in Dependents, UpdateSpec(d)
      PROVE  TypeOK'
  BY <1>5, ObjectUpdates, EmitType DEF UpdateSpec, TypeOK
<1>6. ASSUME NEW d \in Dependents, DeleteDependent(d)
      PROVE  TypeOK'
  BY <1>6, ObjectUpdates, EmitType DEF DeleteDependent, TypeOK
<1>7. CASE UNCHANGED vars
  BY <1>7 DEF vars, TypeOK
<1> QED
  BY <1>1, <1>2, <1>3, <1>4, <1>5, <1>6, <1>7 DEF Next

\* The model's state is well typed in every reachable state: every pending
\* request names an owner, every delivered event a dependent.
THEOREM TypeCorrect == Spec => []TypeOK
<1>1. Init => TypeOK
  BY DEF Init, TypeOK, Objects
<1> QED
  BY <1>1, TypeStep, PTL DEF Spec

-----------------------------------------------------------------------------
(***************************************************************************)
(* No lost wake-up.                                                        *)
(***************************************************************************)

\* A change to dependent d0 keeps every pending wake-up: either what a
\* reconciliation reads of d0 is unchanged, or the event the change emits
\* passes the filter and enqueues every owner the handler answers for.
LEMMA EmitKeepsWakeUps ==
  ASSUME TypeOK, WakeUpPending, TypeOK',
         NEW d0 \in Dependents, NEW t, NEW n \in Objects,
         Emit(d0, t, n), UNCHANGED <<queue, seen>>,
         LET e == [type |-> t, old |-> objects[d0], new |-> n]
         IN  \/ Observed(n) = Observed(objects[d0])
             \/ /\ PassesEventFilter(e)
                /\ Responsible(d0) \subseteq getOwnerReconcileRequest(d0, e)
  PROVE  WakeUpPending'
<1> DEFINE e == [type |-> t, old |-> objects[d0], new |-> n]
<1>1. /\ events' = Append(events, <<d0, e>>)
      /\ objects' = [objects EXCEPT ![d0] = n]
  BY DEF Emit
<1> SUFFICES ASSUME NEW d \in Dependents, NEW k \in Owners,
                    k \in Responsible(d), k \notin queue'
             PROVE  \/ seen'[k][d] = Observed(objects'[d])
                    \/ \E i \in 1..Len(events') :
                         events'[i][1] = d /\ WakesUp(i, k)'
  BY DEF WakeUpPending
\* A witness among the events already delivered stays at its index.
<1>2. ASSUME NEW i \in 1..Len(events), events[i][1] = d, WakesUp(i, k)
      PROVE  \E j \in 1..Len(events') : events'[j][1] = d /\ WakesUp(j, k)'
  <2>1. i \in 1..Len(events') /\ events'[i] = events[i]
    BY <1>1 DEF TypeOK
  <2> QED
    BY <1>2, <2>1 DEF WakesUp
<1>3. CASE d # d0
  <2>1. objects'[d] = objects[d]
    BY <1>1, <1>3 DEF TypeOK
  <2> QED
    BY <1>2, <2>1 DEF WakeUpPending
<1>4. CASE d = d0 /\ Observed(n) = Observed(objects[d0])
  <2>1. objects'[d] = n
    BY <1>1, <1>4 DEF TypeOK
  <2> QED
    BY <1>2, <1>4, <2>1 DEF WakeUpPending
<1>5. CASE d = d0 /\ Observed(n) # Observed(objects[d0])
  <2> DEFINE j == Len(events) + 1
  <2>1. j \in 1..Len(events') /\ events'[j] = <<d0, e>>
    BY <1>1 DEF TypeOK
  <2>2. PassesEventFilter(e) /\ k \in getOwnerReconcileRequest(d0, e)
    BY <1>5
  <2> QED
    BY <1>5, <2>1, <2>2 DEF WakesUp
<1> QED
  BY <1>3, <1>4, <1>5

\* With only the controller reference followed and no generation filter,
\* every step keeps the pending wake-ups.
LEMMA WakeUpStep ==
  ASSUME IsController, ~UseGenerationPredicate,
         IInv, [Next]_vars
  PROVE  WakeUpPending'
<1> USE DEF IInv
<1>0. TypeOK'
  BY TypeStep
<1>p. \A e : PassesEventFilter(e)
  BY DEF PassesEventFilter
<1>1. CASE HandleEvent
  <2> DEFINE d0 == Head(events)[1]
             e0 == Head(events)[2]
  <2>1. /\ events # <<>>
        /\ queue' = queue \cup getOwnerReconcileRequest(d0, e0)
        /\ events' = Tail(events)
        /\ UNCHANGED <<objects, seen>>
    BY <1>1, <1>p DEF HandleEvent
  <2> SUFFICES ASSUME NEW d \in Dependents, NEW k \in Owners,
                      k \in Responsible(d), k \notin queue'
               PROVE  \/ seen'[k][d] = Observed(objects'[d])
                      \/ \E i \in 1..Len(events') :
                           events'[i][1] = d /\ WakesUp(i, k)'
    BY DEF WakeUpPending
  <2>2. k \notin queue /\ k \notin getOwnerReconcileRequest(d0, e0)
    BY <2>1
  <2>3. CASE seen[k][d] = Observed(objects[d])
    BY <2>1, <2>3
  <2>4. ASSUME NEW i \in 1..Len(events), events[i][1] = d, WakesUp(i, k)
        PROVE  FALSE \/ \E j \in 1..Len(events') :
                          events'[j][1] = d /\ WakesUp(j, k)'
    <3>1. i # 1
      BY <2>2, <2>4, <2>1 DEF WakesUp, TypeOK
    <3>2. i - 1 \in 1..Len(events') /\ events'[i - 1] = events[i]
      BY <2>1, <3>1 DEF TypeOK
    <3> QED
      BY <2>4, <3>2 DEF WakesUp
  <2> QED
    BY <2>2, <2>3, <2>4 DEF WakeUpPending
<1>2. ASSUME NEW k0 \in Owners, Reconcile(k0)
      PROVE  WakeUpPending'
  <2> SUFFICES ASSUME NEW d \in Dependents, NEW k \in Owners,
                      k \in Responsible(d), k \notin queue'
               PROVE  \/ seen'[k][d] = Observed(objects'[d])
                      \/ \E i \in 1..Len(events') :
                           events'[i][1] = d /\ WakesUp(i, k)'
    BY DEF WakeUpPending
  <2>1. CASE k = k0
    BY <1>2, <2>1 DEF Reconcile, TypeOK
  <2>2. CASE k # k0
    <3>1. k \notin queue /\ seen'[k] = seen[k]
      BY <1>2, <2>2 DEF Reconcile, TypeOK
    <3> QED
      BY <1>2, <3>1 DEF Reconcile, WakeUpPending, WakesUp
  <2> QED
    BY <2>1, <2>2
<1>3. ASSUME NEW d \in Dependents, CreateDependent(d)
      PROVE  WakeUpPending'
  <2> DEFINE n == [exists |-> TRUE, state |-> Missing,
                   generation |-> objects[d].generation + 1]
             e == [type |-> "create", old |-> objects[d], new |-> n]
  <2>1. n \in Objects
    BY DEF TypeOK, Objects
  <2>2. Responsible(d) \subseteq getOwnerReconcileRequest(d, e)
    BY RequestCoversResponsible
  <2> QED
    BY <1>0, <1>3, <1>p, <2>1, <2>2, EmitKeepsWakeUps DEF CreateDependent
<1>4. ASSUME NEW d \in Dependents, NEW s \in States, SetState(d, s)
      PROVE  WakeUpPending'
  <2> DEFINE n == [objects[d] EXCEPT !.state = s]
             e == [type |-> "update", old |-> objects[d], new |-> n]
  <2>1. n \in Objects /\ n.state = s
    BY ObjectUpdates DEF TypeOK
  <2>2. NestedState(e.old) # NestedState(e.new)
    BY <1>4, <2>1, NestedStateChanges DEF SetState, TypeOK
  <2>3. Responsible(d) \subseteq getOwnerReconcileRequest(d, e)
    BY <2>2, RequestCoversResponsible
  <2> QED
    BY <1>0, <1>4, <1>p, <2>1, <2>3, EmitKeepsWakeUps DEF SetState
<1>5. ASSUME NEW d \in Dependents, UpdateSpec(d)
      PROVE  WakeUpPending'
  <2> DEFINE n == [objects[d] EXCEPT !.generation = @ + 1]
  <2>1. n \in Objects /\ n.exists = objects[d].exists
        /\ n.state = objects[d].state
    BY ObjectUpdates DEF TypeOK
  <2>2. Observed(n) = Observed(objects[d])
    BY <2>1 DEF Observed
  <2> QED
    BY <1>0, <1>5, <2>1, <2>2, EmitKeepsWakeUps DEF UpdateSpec
<1>6. ASSUME NEW d \in Dependents, DeleteDependent(d)
      PROVE  WakeUpPending'
  <2> DEFINE n == [objects[d] EXCEPT !.exists = FALSE]
             e == [type |-> "delete", old |-> objects[d], new |-> n]
  <2>1. n \in Objects
    BY ObjectUpdates DEF TypeOK
  <2>2. Responsible(d) \subseteq getOwnerReconcileRequest(d, e)
    BY RequestCoversResponsible
  <2> QED
    BY <1>0, <1>6, <1>p, <2>1, <2>2, EmitKeepsWakeUps DEF DeleteDependent
<1>7. CASE UNCHANGED vars
  BY <1>7 DEF vars, WakeUpPending, WakesUp
<1> QED
  BY <1>1, <1>2, <1>3, <1>4, <1>5, <1>6, <1>7 DEF Next

\* No lost wake-up (NoLostStateChange, checked by run owner_enqueue): with
\* the handler following only the controller reference, as setup.go
\* installs it, and no generation filter on the controller, an owner that
\* is not waiting in the queue once every event is handled has read the
\* current state of each dependent it owns.
THEOREM NoLostWakeUp ==
  IsController /\ ~UseGenerationPredicate => (Spec => []NoLostStateChange)
<1> SUFFICES ASSUME IsController, ~UseGenerationPredicate
             PROVE  Spec => []NoLostStateChange
  OBVIOUS
<1>1. Init => IInv
  BY DEF Init, IInv, TypeOK, WakeUpPending, Objects, Observed
<1>2. IInv /\ [Next]_vars => IInv'
  BY TypeStep, WakeUpStep DEF IInv
<1>3. IInv => NoLostStateChange
  BY DEF IInv, WakeUpPending, NoLostStateChange
<1> QED
  BY <1>1, <1>2, <1>3, PTL DEF Spec

=============================================================================
