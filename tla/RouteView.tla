------------------------------ MODULE RouteView ------------------------------
(* What the route cache promises to a request, with no cache in sight: it   *)
(* asks, and is answered with a state of the store that contains every      *)
(* change finished by the moment of the answer; or with nothing, when the   *)
(* store fails or a change was finished while it asked.                     *)
EXTENDS Naturals

CONSTANTS Readers, MaxVersion

VARIABLES version,      \* changes committed
          completed,    \* newest change that is finished
          epoch,        \* how many times a change was finished
          busy, since,  \* who is asking, and the epoch in which it asked
          answer, failed

vars == <<version, completed, epoch, busy, since, answer, failed>>

Nothing == [groups |-> 0, tokens |-> 0]

\* Answers that are right now: fresh, read in order, and not from the future.
Fresh == {v \in [groups : 1..(MaxVersion + 1), tokens : 1..(MaxVersion + 1)] :
            completed <= v.groups /\ v.groups <= v.tokens /\ v.tokens <= version}

Init == /\ version = 1 /\ completed = 1 /\ epoch = 0
        /\ busy = [r \in Readers |-> FALSE] /\ since = [r \in Readers |-> 0]
        /\ answer = [r \in Readers |-> Nothing] /\ failed = [r \in Readers |-> FALSE]

\* The answer may be there at once.
Ask(r) == /\ ~busy[r]
          /\ since' = [since EXCEPT ![r] = epoch]
          /\ failed' = [failed EXCEPT ![r] = FALSE]
          /\ \/ /\ busy' = [busy EXCEPT ![r] = TRUE]
                /\ answer' = [answer EXCEPT ![r] = Nothing]
             \/ /\ UNCHANGED busy
                /\ \E v \in Fresh : answer' = [answer EXCEPT ![r] = v]
          /\ UNCHANGED <<version, completed, epoch>>

Reply(r) == /\ busy[r]
            /\ busy' = [busy EXCEPT ![r] = FALSE]
            /\ \/ \E v \in Fresh : answer' = [answer EXCEPT ![r] = v] /\ UNCHANGED failed
               \/ UNCHANGED answer /\ failed' = [failed EXCEPT ![r] = TRUE]
               \/ since[r] # epoch /\ UNCHANGED <<answer, failed>>
            /\ UNCHANGED <<version, completed, epoch, since>>

Change == /\ version <= MaxVersion
          /\ version' = version + 1
          /\ UNCHANGED <<completed, epoch, busy, since, answer, failed>>

Settle == /\ epoch' = epoch + 1
          /\ completed' \in completed..version
          /\ UNCHANGED <<version, busy, since, answer, failed>>

Next == Change \/ Settle \/ \E r \in Readers : Ask(r) \/ Reply(r)

Spec == Init /\ [][Next]_vars
=============================================================================
