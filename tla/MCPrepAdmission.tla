-------------------------- MODULE MCPrepAdmission --------------------------
(* Four calls of Acquire over two places: two small bodies, one of them      *)
(* empty, and two that need the whole byte budget.                           *)
EXTENDS PrepAdmission

CONSTANTS a, b, c, d

MCRequest == (a :> 0) @@ (b :> 1) @@ (c :> 2) @@ (d :> 2)
=============================================================================
