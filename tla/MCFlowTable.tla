----------------------------- MODULE MCFlowTable -----------------------------
(* FlowTable on a small instance for TLC. *)
EXTENDS FlowTable
=============================================================================
