-------------------------- MODULE MCServerLifecycle ---------------------------
(* A limiter with one place: requests that fit but have to wait for each other, *)
(* and one whose body exceeds the budget; alone, or beside what they start.      *)
EXTENDS ServerLifecycle

CONSTANTS a, b, c

MCRequest == (a :> 0) @@ (b :> 2) @@ (c :> 3)
MCCasts == {[requests |-> {a, b, c}, starts |-> {}],
            [requests |-> {a}, starts |-> Starts],
            [requests |-> {a, b}, starts |-> {"shutdown", "session"}],
            [requests |-> {b, c}, starts |-> {"shutdown", "worker"}]}
===============================================================================
