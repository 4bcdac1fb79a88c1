--------------------------- MODULE MCQuotaLimiter ---------------------------
(* Three calls of one group: enough for two objects of the group to be in   *)
(* use at once, on both sides of a midnight, with a third call refused.     *)
(* One call has no estimate, one reports no usage.                          *)
EXTENDS QuotaLimiter, TLC

CONSTANTS c1, c2, c3, grp

MCGroup == [call \in {c1, c2, c3} |-> grp]
MCEstimate == (c1 :> 2) @@ (c2 :> 2) @@ (c3 :> 0)
MCActual == (c1 :> 1) @@ (c2 :> 0) @@ (c3 :> 2)
MCConcurrency == (grp :> 2)
MCRequests == (grp :> 2)
MCTokens == (grp :> 3)
=============================================================================
