-------------------------- MODULE MCKymaReconcile --------------------------
(***************************************************************************)
(* A small instance of KymaReconcile: modules A and B, channels regular   *)
(* and fast, and six templates:                                           *)
(*   t1  A, regular, label A, version 1, authored (new generations)        *)
(*   t2  A, fast,    label A, version 2, authored                          *)
(*   t3  A, regular, matched only by its descriptor, absent at start       *)
(*       (creating it makes A ambiguous in regular)                        *)
(*   t4  B, regular, label B, version 1                                    *)
(*   t5  B, fast,    label B, mandatory                                    *)
(*   t6  B, fast,    label B, undecodable descriptor, absent at start      *)
(*       (while it exists every lookup of A aborts, and B can be installed *)
(*       from it once t5 is deleted)                                       *)
(* Moving A from fast (v2) to regular (v1) is the downgrade the guard must *)
(* block until t1 reaches version 2.                                       *)
(***************************************************************************)
EXTENDS KymaReconcile

Tpl(present, meta, dname, dversion, ch, mandatory) ==
  [present |-> present, metaNames |-> meta,
   desc |-> IF dname = DecodeError THEN DecodeError
            ELSE [name |-> dname, version |-> dversion],
   channel |-> ch, generation |-> 1, mandatory |-> mandatory,
   internal |-> FALSE, beta |-> FALSE]

\* The catalog of the passing runs: no template is internal or beta.
MCInitCatalog ==
  [t \in TemplateIds |->
     CASE t = "t1" -> Tpl(TRUE,  {"A"}, "A", 1, "regular", FALSE)
       [] t = "t2" -> Tpl(TRUE,  {"A"}, "A", 2, "fast",    FALSE)
       [] t = "t3" -> Tpl(FALSE, {},    "A", 2, "regular", FALSE)
       [] t = "t4" -> Tpl(TRUE,  {"B"}, "B", 1, "regular", FALSE)
       [] t = "t5" -> Tpl(TRUE,  {"B"}, "B", 2, "fast",    TRUE)
       [] t = "t6" -> Tpl(FALSE, {"B"}, DecodeError, 0, "fast", FALSE)]

\* The same catalog with B's regular template marked internal.
MCInternalCatalog ==
  [MCInitCatalog EXCEPT !["t4"].internal = TRUE]

MCInitKyma ==
  [channel |-> "", moduleChannel |-> [m \in ModuleNames |-> ""],
   valid |-> [m \in ModuleNames |-> TRUE],
   internal |-> FALSE, beta |-> FALSE]

=============================================================================
