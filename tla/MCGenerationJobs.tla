-------------------------- MODULE MCGenerationJobs --------------------------
(* One idempotency key and what meets on its row: two equal requests, a     *)
(* different one, a client that cancels, and a crash.                       *)
EXTENDS GenerationJobs

CONSTANTS s1, s2, s3, x1, k1

MCKey == [s \in Requests |-> k1]
MCDigest == [s \in Requests |-> IF s = s3 THEN "b" ELSE "a"]
=============================================================================
