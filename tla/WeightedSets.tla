---------------------------- MODULE WeightedSets ----------------------------
(***************************************************************************)
(* The total weight of a finite set, defined as the number of "units" its  *)
(* members carry.  The components that keep a running total of what their  *)
(* clients hold (bytes reserved by admission leases, tokens reserved by    *)
(* requests in flight) are specified against this definition: it needs no  *)
(* recursion, so the prover can reason about it.                           *)
(***************************************************************************)
EXTENDS Integers, FiniteSets

\* The units carried by the members of S when x carries weight[x] of them.
Units(S, weight) == UNION {{x} \X (1..weight[x]) : x \in S}

Weight(S, weight) == Cardinality(Units(S, weight))
=============================================================================
