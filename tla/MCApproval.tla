----------------------------- MODULE MCApproval -----------------------------
(* The model-checking instance of Approval: a plain agent shares the queue  *)
(* with two that do whatever agents may do, one of them local.              *)
EXTENDS Approval

CONSTANT plain

OneIsPlain == [s \in Session |-> IF s = plain THEN {} ELSE {"parallel", "interrupts", "noId"}]
=============================================================================
