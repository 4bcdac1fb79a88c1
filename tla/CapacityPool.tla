---------------------------- MODULE CapacityPool ----------------------------
(***************************************************************************)
(* What internal/admission promises, without queue, timers or counters: a  *)
(* pool with a number of places and a number of bytes.  Clients hold a     *)
(* place and some bytes from the moment they are taken to the moment they  *)
(* are given back, each client takes at most once, the pool never hands    *)
(* out more than it has, and nothing is handed out once it is shut.        *)
(***************************************************************************)
EXTENDS WeightedSets

CONSTANTS Clients,   \* calls that may take from the pool
          Share,     \* Share[c]: the bytes client c asks for
          Bounded,   \* whether the two limits apply at all
          Places,    \* the number of places
          Bytes      \* the number of bytes

VARIABLES holders,   \* clients that hold their place and bytes now
          former,    \* clients that have given them back
          shut       \* the pool is closed

poolVars == <<holders, former, shut>>

WithinPool(S) == Bounded => /\ Cardinality(S) <= Places
                            /\ Weight(S, Share) <= Bytes

Init == holders = {} /\ former = {} /\ shut = FALSE

\* A group of clients receives its places, in one step.
Take(S) == /\ ~shut
           /\ S \cap (holders \cup former) = {}
           /\ WithinPool(holders \cup S)
           /\ holders' = holders \cup S
           /\ UNCHANGED <<former, shut>>

\* A client gives its place back; what this frees may go to others at once.
GiveAndTake(c, S) == /\ c \in holders
                     /\ S # {} => ~shut
                     /\ S \cap (holders \cup former) = {}
                     /\ S # {} => WithinPool((holders \ {c}) \cup S)
                     /\ holders' = (holders \ {c}) \cup S
                     /\ former' = former \cup {c}
                     /\ UNCHANGED shut

Shut == shut' = TRUE /\ UNCHANGED <<holders, former>>

Next == \/ \E S \in SUBSET Clients : Take(S)
        \/ \E c \in Clients, S \in SUBSET Clients : GiveAndTake(c, S)
        \/ Shut

Spec == Init /\ [][Next]_poolVars
=============================================================================
