--------------------------- MODULE MCFlowControl ---------------------------
(* Model-checking instances of FlowControl, one unit being 16 KiB: the      *)
(* watermarks of types.rs are 4 and 1, READ_CHUNK_SIZE is 4.                *)
EXTENDS FlowControl
=============================================================================
