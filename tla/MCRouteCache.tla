---------------------------- MODULE MCRouteCache ----------------------------
(* Two readers, who may ask again and again, make a leader and a follower   *)
(* or the leaders of two generations; two writers make changes that commit  *)
(* in one order and invalidate in the other.                                *)
EXTENDS RouteCache

CONSTANTS r1, r2, w1, w2
=============================================================================
