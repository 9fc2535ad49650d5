---------------------------- MODULE MCEvaluator ----------------------------
(* Instances of Evaluator for TLC. *)
EXTENDS Evaluator

\* programs that use every construct
EveryStatement == StatementKinds

\* programs without explicit scope surgery, whose returning blocks do return
Structured ==
  { "throw", "rethrow", "return", "block", "function", "catch", "for",
    "not_a_node" }
=============================================================================
