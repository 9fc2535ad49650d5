------------------------------ MODULE Dispatch ------------------------------
(***************************************************************************)
(* What an expression does with its objects: it uses their attributes      *)
(* (ClassSystem) or compares them (Operators).  The two share no state, so *)
(* a behaviour does one of them.                                           *)
(***************************************************************************)
EXTENDS ClassSystem, Operators

VARIABLE doing   \* "attributes" or "operators"
vars == << doing, classVars, operatorVars >>

Init == ClassInit /\ OperatorInit /\ doing \in {"attributes", "operators"}

Next ==
  /\ UNCHANGED doing
  /\ \/ doing = "attributes" /\ ClassNext /\ UNCHANGED operatorVars
     \/ doing = "operators" /\ OperatorNext /\ UNCHANGED classVars

Spec ==
  /\ Init /\ [][Next]_vars
  /\ WF_vars(LookupStep /\ UNCHANGED << doing, operatorVars >>)
  /\ WF_vars(CompareStep /\ UNCHANGED << doing, classVars >>)

(***************************************************************************)
(* Every attribute lookup ends: the chain of base classes has no cycle,    *)
(* because the setter of baseclass is gone before the program starts       *)
(* (attribute.c:157, builtins.ö:493).  Every comparison ends if the        *)
(* functions that are asked push to eq_array only finitely often: in an    *)
(* answer, in an error where Options and Arrays that contain themselves    *)
(* meet the limit of interp->stack (operator.c:61), or, for Mappings that  *)
(* contain themselves, in the end of the process (mapping.c:435).          *)
(***************************************************************************)
DispatchEnds ==
  /\ (looking # NoLookup) ~> (looking = NoLookup)
  /\ (ops # << >>) ~> (ops = << >>)
=============================================================================
