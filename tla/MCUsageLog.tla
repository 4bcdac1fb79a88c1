------------------------------ MODULE MCUsageLog ------------------------------
(* Two requests that share an attachment and do not fit the budget together, *)
(* with the settlement of a job, a reset, retention and a queue of one; or    *)
(* one request whose record is written and a reset while two others read.     *)
EXTENDS UsageLog, TLC

CONSTANTS r1, r2, j1, a, b, shared, own

MCCasts == {{r1, r2, j1, Reset, Keeper}, {r1, a, b, Reset}}
MCSize == [r \in Records |-> 1]
MCAsset == [r \in Records |-> IF r \in Jobs THEN own ELSE shared]
MCFlushers == Records \cup {Writer, Reset, Keeper}
=============================================================================
