--------------------------- MODULE MCOwnerEnqueue ---------------------------
(***************************************************************************)
(* Two Kymas and two Manifests.  m1 carries a reference of another kind   *)
(* to k2 before its controller reference to k1; m2 carries a reference to *)
(* k1 with an unparsable apiVersion before its controller reference to    *)
(* k2.                                                                     *)
(***************************************************************************)
EXTENDS OwnerEnqueue

Ref(name, kindMatch, gvOk, controller) ==
  [name |-> name, kindMatch |-> kindMatch, gvOk |-> gvOk,
   controller |-> controller]

MCDependentRefs ==
  [d \in Dependents |->
     IF d = "m1"
       THEN <<Ref("k2", FALSE, TRUE, FALSE), Ref("k1", TRUE, TRUE, TRUE)>>
       ELSE <<Ref("k1", TRUE, FALSE, FALSE), Ref("k2", TRUE, TRUE, TRUE)>>]

=============================================================================
