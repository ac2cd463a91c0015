------------------------- MODULE MCLegacyReconcile -------------------------
(* The instance of MCKymaReconcile, reconciled with the older lookup. *)
EXTENDS MCKymaReconcile, LegacyReconcile
=============================================================================
