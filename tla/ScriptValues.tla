----------------------------- MODULE ScriptValues -----------------------------
(* What scripts put in the structures of the standard library. *)
CONSTANTS
  Values,      \* values other than undefined
  undefined

ASSUME UndefinedAssumption == undefined \notin Values
=============================================================================
