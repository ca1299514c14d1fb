---------------------------- MODULE MCNativeFrame ----------------------------
(***************************************************************************)
(* Three functions with frames of different parity on a machine with two   *)
(* allocatable registers.  allocateTemps spills only when every register   *)
(* is in use, so `spilling` uses both.  `leaf` has neither locals nor      *)
(* spill slots, as a function that returns a constant.                     *)
(***************************************************************************)
EXTENDS NativeFrame

MCFunctions == {"leaf", "unary", "spilling"}
MCParams == [f \in MCFunctions |-> IF f = "unary" THEN 1 ELSE 0]
MCLocals == [f \in MCFunctions |-> IF f = "unary" THEN 2 ELSE 0]
MCSpills == [f \in MCFunctions |-> IF f = "spilling" THEN 3 ELSE 0]
MCUsedRegs == [f \in MCFunctions |-> IF f = "spilling" THEN <<"rbx", "r12">> ELSE <<"rbx">>]
MCCalleeSaved == {"rbx", "r12"}
=============================================================================
