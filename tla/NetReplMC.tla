----------------------------- MODULE NetReplMC ------------------------------
(* The instance of NetRepl that is model-checked: a function with a result *)
(* of two parts, and one with a unit result.                               *)
EXTENDS NetRepl

TwoPartsAndUnit == <<2, 0>>
=============================================================================
