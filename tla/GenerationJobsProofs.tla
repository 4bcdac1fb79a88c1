------------------------- MODULE GenerationJobsProofs -------------------------
(***************************************************************************)
(* Proofs about GenerationJobs, for any requests, keys, cancellations and  *)
(* number of crashes: a generation is submitted at most once, charged as it*)
(* ended, keeps the intent to cancel it and never moves back.              *)
(***************************************************************************)
EXTENDS GenerationJobs, TLAPS

Submitters == Requests \cup {Worker}
Working == {"send", "call", "commit", "reread", "recommit", "update"}

\* An operation that is under way has a row and a copy of it.
OnARow ==
  /\ \A o \in Operations : pc[o] \in Working =>
        on[o] \in Keys /\ row[on[o]].phase # "none" /\ copy[o].phase # "none"
  /\ pc[Worker] = "ack" => /\ on[Worker] \in Keys /\ outbox[on[Worker]] = "pending"
                           /\ charged[on[Worker]] # "none"
  /\ \A c \in Cancels : /\ pc[c] = "idle" => tries[c] < JobMutationAttempts
                        /\ pc[c] = "update" => copy[c].cancel /\ copy[c].phase # "terminal"
  /\ \A o \in Submitters : pc[o] \in {"send", "call"} => copy[o].phase # "terminal"

\* A row that was never reserved was never sent, charged or cancelled; a terminal
\* row has a final status.
RowState == \A k \in Keys :
  /\ row[k].phase = "none" => row[k] = Absent /\ accepted[k] = 0 /\ ~promised[k]
  /\ row[k].phase = "terminal" => row[k].status \in Final

\* One request sends for a row, and nothing was accepted for it before.
OneSender ==
  /\ \A s \in Requests : pc[s] = "send" => accepted[on[s]] = 0
  /\ \A s, t \in Requests : pc[s] = "send" /\ pc[t] = "send" /\ on[s] = on[t] => s = t

\* Whoever may still write a row back has, unless the row changed meanwhile, a row
\* that has not ended, and knows of the intent to cancel it.
KnowsIntent == \A o \in Submitters : pc[o] \in Working /\ seen[o] # "stale" =>
  /\ row[on[o]].phase # "terminal"
  /\ seen[o] = "fresh" /\ (row[on[o]].cancel \/ promised[on[o]])
       => copy[o].cancel \/ copy[o].phase = "terminal" \/ asked[on[o]]

IInv == ChargedRight /\ SubmittedOnce /\ CancelKept /\ OnARow /\ RowState /\ OneSender /\ KnowsIntent
-----------------------------------------------------------------------------
\* Requests, clients that cancel and the worker are different operations.
LEMMA Roles ==
  /\ Worker \in Operations /\ Requests \subseteq Operations /\ Cancels \subseteq Operations
  /\ Submitters \subseteq Operations /\ Worker \in Submitters /\ Requests \subseteq Submitters
  /\ \A c \in Cancels : c \notin Submitters /\ c # Worker /\ c \notin Requests
  /\ \A s \in Requests : s # Worker /\ s \notin Cancels /\ Key[s] \in Keys
  /\ \A o \in Operations : o \in Submitters \/ o \in Cancels
  /\ NoKey \notin Keys
BY JobsAssumption DEF Operations, Submitters

\* The records that a row goes through are records of a job.
LEMMA JobShapes ==
  /\ Absent \in JobRecords /\ Reserved \in JobRecords
  /\ \A j \in JobRecords : Uncertain(j) \in JobRecords /\ Uncertain(j).cancel = j.cancel
                           /\ Uncertain(j).phase = "uncertain"
  /\ \A j \in JobRecords, l \in {"free", "held", "lapsed"} :
        /\ [j EXCEPT !.lease = l] \in JobRecords
        /\ [j EXCEPT !.lease = l].phase = j.phase /\ [j EXCEPT !.lease = l].status = j.status
        /\ [j EXCEPT !.lease = l].cancel = j.cancel /\ [j EXCEPT !.lease = l].upstream = j.upstream
        /\ [j EXCEPT !.lease = l].lease = l
  /\ \A j \in JobRecords, b \in BOOLEAN :
        /\ [j EXCEPT !.cancel = b] \in JobRecords
        /\ [j EXCEPT !.cancel = b].phase = j.phase /\ [j EXCEPT !.cancel = b].status = j.status
        /\ [j EXCEPT !.cancel = b].cancel = b /\ [j EXCEPT !.cancel = b].upstream = j.upstream
<1>1. Absent \in JobRecords /\ Reserved \in JobRecords
  BY DEF JobRecords, Absent, Reserved, Phases, Final
<1>2. ASSUME NEW j \in JobRecords
      PROVE  /\ Uncertain(j) \in JobRecords /\ Uncertain(j).cancel = j.cancel
             /\ Uncertain(j).phase = "uncertain"
  BY DEF JobRecords, Uncertain, Phases, Final
<1>3. ASSUME NEW j \in JobRecords, NEW l \in {"free", "held", "lapsed"}
      PROVE  /\ [j EXCEPT !.lease = l] \in JobRecords
             /\ [j EXCEPT !.lease = l].phase = j.phase /\ [j EXCEPT !.lease = l].status = j.status
             /\ [j EXCEPT !.lease = l].cancel = j.cancel
             /\ [j EXCEPT !.lease = l].upstream = j.upstream
             /\ [j EXCEPT !.lease = l].lease = l
  BY DEF JobRecords
<1>4. ASSUME NEW j \in JobRecords, NEW b \in BOOLEAN
      PROVE  /\ [j EXCEPT !.cancel = b] \in JobRecords
             /\ [j EXCEPT !.cancel = b].phase = j.phase /\ [j EXCEPT !.cancel = b].status = j.status
             /\ [j EXCEPT !.cancel = b].cancel = b
             /\ [j EXCEPT !.cancel = b].upstream = j.upstream
  BY DEF JobRecords
<1> QED BY <1>1, <1>2, <1>3, <1>4

\* applyJobUpdate leaves a job record, with the intent to cancel it untouched.
LEMMA ApplyShape ==
  ASSUME NEW j \in JobRecords, NEW status \in {"queued", "running"} \cup Final, j.phase # "none"
  PROVE  Apply(j, status) \in JobRecords /\ Apply(j, status).cancel = j.cancel
         /\ Apply(j, status).phase # "none"
<1>1. CASE Rejects(j, status)
  BY <1>1 DEF Apply
<1>2. CASE ~Rejects(j, status)
  <2> PICK next : next = CASE status \in {"queued", "running"} -> "polling"
                           [] status = "completed" -> "fetching"
                           [] OTHER -> "terminal"
    OBVIOUS
  <2>1. next \in Phases /\ next # "none"
    BY DEF Phases
  <2>2. Apply(j, status) = [j EXCEPT !.status = status, !.upstream = TRUE, !.phase = next]
    BY <1>2 DEF Apply
  <2>3. /\ [j EXCEPT !.status = status, !.upstream = TRUE, !.phase = next] \in JobRecords
        /\ [j EXCEPT !.status = status, !.upstream = TRUE, !.phase = next].cancel = j.cancel
        /\ [j EXCEPT !.status = status, !.upstream = TRUE, !.phase = next].phase = next
    BY ONLY <2>1, j \in JobRecords, status \in {"queued", "running"} \cup Final DEF JobRecords
  <2> QED BY <2>1, <2>2, <2>3
<1> QED BY <1>1, <1>2

\* What CheckJobTransition lets through.
LEMMA AllowedSteps ==
  ASSUME NEW old \in JobRecords, NEW new \in JobRecords, Allowed(old, new), new.phase # "none"
  PROVE  /\ old.phase \notin {"terminal", "uncertain"}
         /\ old.phase = "fetching" => new.phase \in {"fetching", "terminal"}
         /\ old.upstream => new.upstream
         /\ new.phase = "terminal" => new.status \in Final
BY DEF Allowed, JobRecords, Phases

-----------------------------------------------------------------------------
\* A submitter or the worker writes back the row it read.
WriteBack(o) ==
  /\ pc[o] \in {"commit", "recommit"} /\ seen[o] = "fresh" /\ Allowed(row[on[o]], copy[o])
  /\ Stored(o, on[o], [copy[o] EXCEPT !.lease = "free"], FALSE)
  /\ Ends(o, Over(o))
  /\ UNCHANGED <<digest, charged, env, tries, history, crashes>>

LEMMA WriteBackKeeps ==
  ASSUME IInv, NEW o \in Submitters, WriteBack(o)
  PROVE  IInv'
<1> PICK k : k = on[o]
  OBVIOUS
<1> PICK j : j = [copy[o] EXCEPT !.lease = "free"]
  OBVIOUS
<1>1. /\ o \in Operations /\ k \in Keys /\ row[k].phase # "none" /\ copy[o].phase # "none"
      /\ row \in [Keys -> JobRecords] /\ copy[o] \in JobRecords /\ row[k] \in JobRecords
      /\ pc[o] \in {"commit", "recommit"} /\ seen[o] = "fresh" /\ Allowed(row[k], copy[o])
  BY Roles DEF IInv, ChargedRight, TypeOK, OnARow, Working, WriteBack
<1>2. /\ j \in JobRecords /\ j.phase = copy[o].phase /\ j.status = copy[o].status
      /\ j.cancel = copy[o].cancel /\ j.upstream = copy[o].upstream
  BY <1>1, JobShapes
<1>3. /\ row[k].phase \notin {"terminal", "uncertain"}
      /\ j.phase = "terminal" => j.status \in Final
  BY <1>1, <1>2, AllowedSteps
<1>4. /\ row' = [row EXCEPT ![k] = j]
      /\ outbox' = IF j.phase = "terminal" /\ outbox[k] = "none"
                   THEN [outbox EXCEPT ![k] = "pending"] ELSE outbox
      /\ seen' = [x \in Operations |->
                   IF x = o THEN "fresh" ELSE IF on[x] # k THEN seen[x] ELSE "stale"]
      /\ pc' = [pc EXCEPT ![o] = Over(o)] /\ on' = [on EXCEPT ![o] = NoKey]
      /\ copy' = [copy EXCEPT ![o] = Absent]
      /\ UNCHANGED <<charged, provider, accepted, tries, promised, asked, crashes>>
  BY DEF WriteBack, Stored, Ages, Ends, env, history
<1>5. row'[k] = j /\ \A x \in Keys : x # k => row'[x] = row[x]
  BY <1>1, <1>4
<1>6. /\ pc \in [Operations -> Steps] /\ on \in [Operations -> Keys \cup {NoKey}]
      /\ copy \in [Operations -> JobRecords]
      /\ \A x \in Operations : x # o => pc'[x] = pc[x] /\ on'[x] = on[x] /\ copy'[x] = copy[x]
      /\ pc'[o] = Over(o) /\ on'[o] = NoKey /\ Over(o) \notin Working /\ Over(o) \in {"idle", "done"}
      /\ Over(o) = "idle" <=> o = Worker
  BY <1>1, <1>4 DEF IInv, ChargedRight, TypeOK, Over, Working
<1>7. TypeOK'
  <2>1. row' \in [Keys -> JobRecords] /\ copy' \in [Operations -> JobRecords]
    BY <1>1, <1>2, <1>4, <1>6, JobShapes
  <2>2. /\ outbox' \in [Keys -> {"none", "pending", "delivered"}]
        /\ seen' \in [Operations -> {"fresh", "cancelled", "stale"}]
        /\ pc' \in [Operations -> Steps] /\ on' \in [Operations -> Keys \cup {NoKey}]
    BY <1>4, <1>6 DEF IInv, ChargedRight, TypeOK, Steps
  <2>3. /\ \A x \in Operations : pc'[x] \in {"done", "replayed", "conflict"} => on'[x] = NoKey
        /\ \A x \in Submitters : pc'[x] = "idle" => on'[x] = NoKey
    BY <1>6, Roles DEF IInv, ChargedRight, TypeOK, Submitters
  <2> QED BY <1>4, <2>1, <2>2, <2>3 DEF IInv, ChargedRight, TypeOK, Submitters
<1>8. ChargedRight'
  BY <1>1, <1>3, <1>4, <1>5, <1>7 DEF IInv, ChargedRight, TypeOK
<1>9. SubmittedOnce'
  BY <1>4 DEF IInv, SubmittedOnce
<1>10. CancelKept'
  <2>1. promised[k] => j.phase = "terminal" \/ j.cancel \/ asked[k]
    BY <1>1, <1>2 DEF IInv, KnowsIntent, Working
  <2> QED BY <1>4, <1>5, <2>1 DEF IInv, CancelKept
<1>11. OnARow'
  <2>1. ASSUME NEW x \in Operations, pc'[x] \in Working
        PROVE  on'[x] \in Keys /\ row'[on'[x]].phase # "none" /\ copy'[x].phase # "none"
    <3>1. x # o
      BY <1>6, <2>1
    <3>2. on[x] \in Keys /\ row[on[x]].phase # "none" /\ copy[x].phase # "none"
      BY <1>6, <2>1, <3>1 DEF IInv, OnARow
    <3>3. on'[x] = on[x] /\ copy'[x] = copy[x]
      BY <1>6, <3>1
    <3>4. row'[on[x]].phase # "none"
      <4>1. j.phase # "none"
        BY <1>1, <1>2
      <4>2. CASE on[x] = k
        BY ONLY <1>5, <4>1, <4>2
      <4>3. CASE on[x] # k
        BY ONLY <1>5, <3>2, <4>3
      <4> QED BY ONLY <4>2, <4>3
    <3> QED BY <3>2, <3>3, <3>4
  <2>2. pc'[Worker] = "ack" => /\ on'[Worker] \in Keys /\ outbox'[on'[Worker]] = "pending"
                               /\ charged'[on'[Worker]] # "none"
    BY <1>4, <1>6, Roles DEF IInv, OnARow, ChargedRight, TypeOK
  <2>3. \A c \in Cancels : c # o /\ c \in Operations
    BY Roles
  <2>4. \A x \in Submitters : pc'[x] \in {"send", "call"} => copy'[x].phase # "terminal"
    BY <1>6, Roles DEF IInv, OnARow
  <2> QED BY <1>4, <1>6, <2>1, <2>2, <2>3, <2>4 DEF IInv, OnARow
<1>12. RowState'
  BY <1>1, <1>2, <1>3, <1>4, <1>5 DEF IInv, RowState
<1>13. OneSender'
  BY <1>4, <1>6, Roles DEF IInv, OneSender, Working
<1>14. KnowsIntent'
  <2> SUFFICES ASSUME NEW x \in Submitters, pc'[x] \in Working, seen'[x] # "stale"
               PROVE  /\ row'[on'[x]].phase # "terminal"
                      /\ seen'[x] = "fresh" /\ (row'[on'[x]].cancel \/ promised'[on'[x]])
                           => copy'[x].cancel \/ copy'[x].phase = "terminal" \/ asked'[on'[x]]
    BY DEF KnowsIntent
  <2>1. x # o /\ x \in Operations
    BY <1>6, Roles
  <2>2. on[x] # k /\ seen'[x] = seen[x] /\ pc'[x] = pc[x] /\ on'[x] = on[x] /\ copy'[x] = copy[x]
    BY <1>4, <1>6, <2>1
  <2>3. on[x] \in Keys
    BY <2>1, <2>2 DEF IInv, OnARow
  <2> QED BY <1>4, <1>5, <2>2, <2>3 DEF IInv, KnowsIntent
<1> QED BY <1>7, <1>8, <1>9, <1>10, <1>11, <1>12, <1>13, <1>14 DEF IInv

\* A step in which an operation changes only what it holds itself, and the
\* provider may have answered a cancel, keeps the invariant if the operation still
\* knows of the intent.
LEMMA OwnStepKeeps ==
  ASSUME IInv, NEW o \in Submitters, TypeOK',
         UNCHANGED <<row, outbox, charged, tries, promised>>,
         \/ UNCHANGED accepted
         \/ o \in Requests /\ pc[o] = "send" /\ accepted' = [accepted EXCEPT ![on[o]] = @ + 1],
         \A k \in Keys : asked[k] => asked'[k],
         \A x \in Operations : x # o => /\ pc'[x] = pc[x] /\ on'[x] = on[x]
                                        /\ copy'[x] = copy[x] /\ seen'[x] = seen[x],
         \/ pc'[o] \in {"idle", "done"}
         \/ /\ pc[o] \in Working /\ pc'[o] \in Working \ {"send", "call"} /\ on'[o] = on[o]
            /\ copy'[o].phase # "none"
            /\ seen'[o] # "stale" =>
                 /\ row[on[o]].phase # "terminal"
                 /\ seen'[o] = "fresh" /\ (row[on[o]].cancel \/ promised[on[o]])
                      => copy'[o].cancel \/ copy'[o].phase = "terminal" \/ asked'[on[o]]
  PROVE  IInv'
<1>1. o \in Operations /\ {"idle", "done"} \cap (Working \cup {"ack", "update"}) = {}
  BY Roles DEF Working
<1>2. ChargedRight' /\ RowState'
  <2>1. \A k \in Keys : accepted'[k] # accepted[k] => row[k].phase # "none"
    BY <1>1 DEF IInv, OnARow, Working, ChargedRight, TypeOK
  <2> QED BY <2>1 DEF IInv, ChargedRight, RowState
<1>7. SubmittedOnce'
  BY DEF IInv, SubmittedOnce, OneSender, ChargedRight, TypeOK
<1>3. CancelKept'
  BY DEF IInv, CancelKept
<1>4. OnARow'
  <2>1. ASSUME NEW x \in Operations, pc'[x] \in Working
        PROVE  on'[x] \in Keys /\ row'[on'[x]].phase # "none" /\ copy'[x].phase # "none"
    <3>1. CASE x = o
      BY <1>1, <2>1, <3>1 DEF IInv, OnARow
    <3>2. CASE x # o
      BY <1>1, <2>1, <3>2 DEF IInv, OnARow
    <3> QED BY <3>1, <3>2
  <2>2. pc'[Worker] = "ack" => /\ on'[Worker] \in Keys /\ outbox'[on'[Worker]] = "pending"
                               /\ charged'[on'[Worker]] # "none"
    BY <1>1, Roles DEF IInv, OnARow, Working
  <2>3. \A c \in Cancels : c # o /\ c \in Operations
    BY Roles
  <2>4. \A x \in Submitters : pc'[x] \in {"send", "call"} => copy'[x].phase # "terminal"
    BY <1>1, Roles DEF IInv, OnARow
  <2> QED BY <2>1, <2>2, <2>3, <2>4 DEF IInv, OnARow
<1>5. OneSender'
  <2>1. \A s \in Requests : pc'[s] = "send" => s # o /\ pc[s] = "send" /\ on'[s] = on[s]
    BY <1>1, Roles DEF Working
  <2>2. \A s \in Requests : pc'[s] = "send" => accepted'[on[s]] = accepted[on[s]]
    <3>1. CASE UNCHANGED accepted
      BY <3>1
    <3>2. CASE o \in Requests /\ pc[o] = "send" /\ accepted' = [accepted EXCEPT ![on[o]] = @ + 1]
      <4>1. \A s \in Requests : pc'[s] = "send" => on[s] # on[o] /\ on[s] \in Keys /\ on[o] \in Keys
        BY <1>1, <2>1, <3>2, Roles DEF IInv, OneSender, OnARow, Working
      <4>2. accepted \in [Keys -> Nat]
        BY DEF IInv, ChargedRight, TypeOK
      <4> QED BY <3>2, <4>1, <4>2
    <3> QED BY <3>1, <3>2
  <2> QED BY <2>1, <2>2 DEF IInv, OneSender
<1>6. KnowsIntent'
  <2> SUFFICES ASSUME NEW x \in Submitters, pc'[x] \in Working, seen'[x] # "stale"
               PROVE  /\ row'[on'[x]].phase # "terminal"
                      /\ seen'[x] = "fresh" /\ (row'[on'[x]].cancel \/ promised'[on'[x]])
                           => copy'[x].cancel \/ copy'[x].phase = "terminal" \/ asked'[on'[x]]
    BY DEF KnowsIntent
  <2>1. CASE x = o
    BY <1>1, <2>1
  <2>2. CASE x # o
    <3>1. x \in Operations /\ pc'[x] = pc[x] /\ on'[x] = on[x] /\ copy'[x] = copy[x] /\ seen'[x] = seen[x]
      BY <2>2, Roles
    <3>2. on[x] \in Keys
      BY <3>1 DEF IInv, OnARow
    <3> QED BY <3>1, <3>2 DEF IInv, KnowsIntent
  <2> QED BY <2>1, <2>2
<1> QED BY <1>2, <1>3, <1>4, <1>5, <1>6, <1>7 DEF IInv

\* Whoever ends forgets his row and his copy.
LEMMA GivesUpKeeps ==
  ASSUME IInv, NEW o \in Submitters, Ends(o, Over(o)),
         seen' = seen \/ seen' = [seen EXCEPT ![o] = "fresh"],
         UNCHANGED <<row, digest, outbox, charged, env, tries, history, crashes>>
  PROVE  IInv'
<1>1. o \in Operations /\ Over(o) \in {"idle", "done"}
  BY Roles DEF Over
<1>2. /\ pc' = [pc EXCEPT ![o] = Over(o)] /\ on' = [on EXCEPT ![o] = NoKey]
      /\ copy' = [copy EXCEPT ![o] = Absent]
  BY DEF Ends
<1>3. TypeOK'
  <2>1. /\ pc' \in [Operations -> Steps] /\ on' \in [Operations -> Keys \cup {NoKey}]
        /\ copy' \in [Operations -> JobRecords]
        /\ seen' \in [Operations -> {"fresh", "cancelled", "stale"}]
    BY <1>1, <1>2, JobShapes DEF IInv, ChargedRight, TypeOK, Steps
  <2>2. /\ \A x \in Operations : pc'[x] \in {"done", "replayed", "conflict"} => on'[x] = NoKey
        /\ \A x \in Requests \cup {Worker} : pc'[x] = "idle" => on'[x] = NoKey
    BY <1>1, <1>2, Roles DEF IInv, ChargedRight, TypeOK
  <2> QED BY <2>1, <2>2 DEF IInv, ChargedRight, TypeOK, env, history
<1>4. /\ pc'[o] \in {"idle", "done"}
      /\ \A x \in Operations : x # o => /\ pc'[x] = pc[x] /\ on'[x] = on[x]
                                        /\ copy'[x] = copy[x] /\ seen'[x] = seen[x]
      /\ UNCHANGED <<row, outbox, charged, accepted, tries, promised, asked>>
  BY <1>1, <1>2 DEF IInv, ChargedRight, TypeOK, env, history
<1> QED BY <1>3, <1>4, OwnStepKeeps

\* commit and what follows a conflict.
LEMMA CommitKeeps ==
  ASSUME IInv, NEW o \in Submitters,
         Commit(o) \/ Conflict(o) \/ CommitFails(o) \/ Reread(o) \/ Recommit(o)
  PROVE  IInv'
<1>1. CASE Commit(o)
  BY <1>1, WriteBackKeeps DEF Commit, WriteBack
<1>2. CASE Conflict(o)
  <2>1. /\ o \in Operations /\ pc[o] \in Working /\ seen[o] # "fresh"
        /\ pc' = [pc EXCEPT ![o] = "reread"]
        /\ UNCHANGED <<row, digest, outbox, charged, env, on, copy, seen, tries, history, crashes>>
    BY <1>2, Roles DEF Conflict, Working
  <2>2. TypeOK'
    BY <2>1, Roles DEF IInv, ChargedRight, TypeOK, Steps, env, history
  <2>3. pc'[o] = "reread" /\ \A x \in Operations : x # o => pc'[x] = pc[x]
    BY <2>1 DEF IInv, ChargedRight, TypeOK
  <2>4. copy[o].phase # "none" /\ (seen[o] # "stale" => row[on[o]].phase # "terminal")
    BY <2>1 DEF IInv, OnARow, KnowsIntent
  <2>5. "reread" \in Working \ {"send", "call"} /\ UNCHANGED <<accepted, promised, asked>>
    BY <2>1 DEF Working, env, history
  <2> QED BY <2>1, <2>2, <2>3, <2>4, <2>5, OwnStepKeeps
<1>3. CASE CommitFails(o)
  BY <1>3, GivesUpKeeps DEF CommitFails, GivesUp
<1>4. CASE Reread(o)
  <2>1. CASE seen[o] # "cancelled"
    BY <1>4, <2>1, GivesUpKeeps DEF Reread, GivesUp
  <2>2. CASE seen[o] = "cancelled"
    <3>1. /\ o \in Operations /\ pc[o] = "reread"
          /\ copy' = [copy EXCEPT ![o].cancel = copy[o].phase # "terminal"]
          /\ seen' = [seen EXCEPT ![o] = "fresh"] /\ pc' = [pc EXCEPT ![o] = "recommit"]
          /\ UNCHANGED <<on, row, digest, outbox, charged, env, tries, history, crashes>>
      BY <1>4, <2>2, Roles DEF Reread
    <3>2. /\ copy[o] \in JobRecords /\ copy \in [Operations -> JobRecords]
          /\ (copy[o].phase # "terminal") \in BOOLEAN
      BY <3>1 DEF IInv, ChargedRight, TypeOK
    <3> PICK b \in BOOLEAN : b = (copy[o].phase # "terminal")
      BY <3>2
    <3>x. copy' = [copy EXCEPT ![o] = [copy[o] EXCEPT !.cancel = b]]
      BY <3>1, <3>2, Zenon
    <3>3. /\ copy'[o] = [copy[o] EXCEPT !.cancel = b]
          /\ \A x \in Operations : x # o => copy'[x] = copy[x]
      BY <3>1, <3>2, <3>x, Zenon
    <3>4. copy'[o] \in JobRecords /\ copy'[o].phase = copy[o].phase /\ copy'[o].cancel = b
      <4> PICK r \in JobRecords : r = copy[o]
        BY <3>2
      <4>1. [r EXCEPT !.cancel = b] \in JobRecords
        BY JobShapes, Zenon
      <4>2. [r EXCEPT !.cancel = b].phase = r.phase
        BY Zenon DEF JobRecords
      <4>3. [r EXCEPT !.cancel = b].cancel = b
        BY Zenon DEF JobRecords
      <4> QED BY <3>3, <4>1, <4>2, <4>3, Zenon
    <3>5. TypeOK'
      BY <3>1, <3>2, <3>x, <3>3, <3>4, Roles DEF IInv, ChargedRight, TypeOK, Steps, env, history
    <3>6. /\ pc'[o] = "recommit" /\ seen'[o] = "fresh"
          /\ \A x \in Operations : x # o => /\ pc'[x] = pc[x] /\ on'[x] = on[x]
                                            /\ copy'[x] = copy[x] /\ seen'[x] = seen[x]
          /\ UNCHANGED <<row, outbox, charged, accepted, tries, promised, asked>>
      BY <3>1, <3>2, <3>3 DEF IInv, ChargedRight, TypeOK, env, history
    <3>7. pc[o] \in Working /\ "recommit" \in Working \ {"send", "call"} /\ on'[o] = on[o]
      BY <3>1 DEF Working
    <3>8. /\ copy'[o].phase # "none" /\ row[on[o]].phase # "terminal"
          /\ copy'[o].cancel \/ copy'[o].phase = "terminal"
      BY <2>2, <3>1, <3>4, <3>7 DEF IInv, OnARow, KnowsIntent
    <3> QED BY <3>5, <3>6, <3>7, <3>8, OwnStepKeeps
  <2> QED BY <2>1, <2>2
<1>5. CASE Recommit(o)
  <2>1. CASE seen[o] = "fresh" /\ Allowed(row[on[o]], copy[o])
    BY <1>5, <2>1, WriteBackKeeps DEF Recommit, WriteBack
  <2>2. CASE ~(seen[o] = "fresh" /\ Allowed(row[on[o]], copy[o]))
    BY <1>5, <2>2, GivesUpKeeps DEF Recommit, GivesUp
  <2> QED BY <2>1, <2>2
<1> QED BY <1>1, <1>2, <1>3, <1>4, <1>5
\* A row that nobody holds is reserved, or the request is answered from it.
LEMMA ReserveKeeps ==
  ASSUME IInv, NEW s \in Requests, Reserve(s)
  PROVE  IInv'
<1> PICK k \in Keys : k = Key[s]
  BY Roles
<1>1. /\ s \in Operations /\ s \in Submitters /\ s # Worker /\ s \notin Cancels /\ pc[s] = "idle"
      /\ UNCHANGED <<outbox, charged, provider, accepted, tries, promised, asked, crashes>>
  BY Roles DEF Reserve, env, history
<1>2. /\ pc \in [Operations -> Steps] /\ on \in [Operations -> Keys \cup {NoKey}]
      /\ copy \in [Operations -> JobRecords] /\ row \in [Keys -> JobRecords]
      /\ seen \in [Operations -> {"fresh", "cancelled", "stale"}]
  BY DEF IInv, ChargedRight, TypeOK
<1>3. CASE row[k] = Absent
  <2>1. /\ row' = [row EXCEPT ![k] = Reserved] /\ pc' = [pc EXCEPT ![s] = "send"]
        /\ on' = [on EXCEPT ![s] = k] /\ copy' = [copy EXCEPT ![s] = Reserved]
        /\ seen' = [x \in Operations |->
                      IF x = s THEN "fresh" ELSE IF on[x] # k THEN seen[x] ELSE "stale"]
    BY <1>3 DEF Reserve, Ages
  <2>2. /\ row'[k] = Reserved /\ \A x \in Keys : x # k => row'[x] = row[x]
        /\ pc'[s] = "send" /\ on'[s] = k /\ copy'[s] = Reserved /\ seen'[s] = "fresh"
        /\ \A x \in Operations : x # s => /\ pc'[x] = pc[x] /\ on'[x] = on[x] /\ copy'[x] = copy[x]
                                          /\ (on[x] # k => seen'[x] = seen[x])
    BY <1>1, <1>2, <2>1
  <2>3. /\ row[k].phase = "none" /\ Reserved.phase = "submitting" /\ ~Reserved.cancel
        /\ accepted[k] = 0 /\ ~promised[k]
    BY <1>3 DEF IInv, RowState, Absent, Reserved
  <2>4. \A x \in Operations : x # s /\ pc[x] \in Working => on[x] \in Keys /\ on[x] # k
    BY <2>3 DEF IInv, OnARow
  <2>5. TypeOK'
    <3>1. /\ row' \in [Keys -> JobRecords] /\ copy' \in [Operations -> JobRecords]
          /\ seen' \in [Operations -> {"fresh", "cancelled", "stale"}]
      BY <1>2, <2>1, JobShapes
    <3>2. pc' \in [Operations -> Steps] /\ on' \in [Operations -> Keys \cup {NoKey}]
      BY <1>2, <2>1 DEF Steps
    <3>3. \A x \in Operations : pc'[x] \in {"done", "replayed", "conflict"} => on'[x] = NoKey
      BY <2>2 DEF IInv, ChargedRight, TypeOK
    <3>4. \A x \in Requests \cup {Worker} : pc'[x] = "idle" => on'[x] = NoKey
      BY <2>2, Roles DEF IInv, ChargedRight, TypeOK
    <3> QED BY <1>1, <3>1, <3>2, <3>3, <3>4 DEF IInv, ChargedRight, TypeOK
  <2>6. ChargedRight'
    BY <1>1, <2>2, <2>3, <2>5 DEF IInv, ChargedRight
  <2>7. SubmittedOnce' /\ CancelKept' /\ RowState'
    BY <1>1, <2>2, <2>3 DEF IInv, SubmittedOnce, CancelKept, RowState
  <2>8. OnARow'
    <3>1. ASSUME NEW x \in Operations, pc'[x] \in Working
          PROVE  on'[x] \in Keys /\ row'[on'[x]].phase # "none" /\ copy'[x].phase # "none"
      <4>1. CASE x = s
        BY <2>2, <2>3, <4>1
      <4>2. CASE x # s
        BY <2>2, <2>4, <3>1, <4>2 DEF IInv, OnARow
      <4> QED BY <4>1, <4>2
    <3>2. pc'[Worker] = "ack" => /\ on'[Worker] \in Keys /\ outbox'[on'[Worker]] = "pending"
                                 /\ charged'[on'[Worker]] # "none"
      BY <1>1, <2>2, Roles DEF IInv, OnARow
    <3>3. \A c \in Cancels : /\ pc'[c] = "idle" => tries'[c] < JobMutationAttempts
                             /\ pc'[c] = "update" => copy'[c].cancel /\ copy'[c].phase # "terminal"
      BY <1>1, <2>2, Roles DEF IInv, OnARow
    <3>4. \A x \in Submitters : pc'[x] \in {"send", "call"} => copy'[x].phase # "terminal"
      BY <1>1, <2>2, <2>3, Roles DEF IInv, OnARow
    <3> QED BY <3>1, <3>2, <3>3, <3>4 DEF OnARow
  <2>9. OneSender'
    BY <1>1, <2>2, <2>3, <2>4, Roles DEF IInv, OneSender, Working
  <2>10. KnowsIntent'
    <3> SUFFICES ASSUME NEW x \in Submitters, pc'[x] \in Working, seen'[x] # "stale"
                 PROVE  /\ row'[on'[x]].phase # "terminal"
                        /\ seen'[x] = "fresh" /\ (row'[on'[x]].cancel \/ promised'[on'[x]])
                             => copy'[x].cancel \/ copy'[x].phase = "terminal" \/ asked'[on'[x]]
      BY DEF KnowsIntent
    <3>1. CASE x = s
      BY <1>1, <2>2, <2>3, <3>1
    <3>2. CASE x # s
      <4>1. /\ pc'[x] = pc[x] /\ on'[x] = on[x] /\ copy'[x] = copy[x] /\ seen'[x] = seen[x]
            /\ on[x] \in Keys /\ row'[on[x]] = row[on[x]]
        BY <2>2, <2>4, <3>2, Roles
      <4> QED BY <1>1, <4>1 DEF IInv, KnowsIntent
    <3> QED BY <3>1, <3>2
  <2> QED BY <2>6, <2>7, <2>8, <2>9, <2>10 DEF IInv
<1>4. CASE row[k] # Absent
  <2>1. /\ UNCHANGED <<row, digest, on, copy, seen>>
        /\ pc' = [pc EXCEPT ![s] = IF digest[k] = Digest[s] THEN "replayed" ELSE "conflict"]
    BY <1>4 DEF Reserve
  <2>2. /\ pc'[s] \in {"replayed", "conflict"} /\ on[s] = NoKey
        /\ \A x \in Operations : x # s => pc'[x] = pc[x]
    BY <1>1, <1>2, <2>1 DEF IInv, ChargedRight, TypeOK
  <2>3. TypeOK'
    BY <1>1, <1>2, <2>1, <2>2 DEF IInv, ChargedRight, TypeOK, Steps
  <2>4. ChargedRight' /\ SubmittedOnce' /\ CancelKept' /\ RowState'
    BY <1>1, <2>1, <2>3 DEF IInv, ChargedRight, SubmittedOnce, CancelKept, RowState
  <2>5. OnARow'
    BY <1>1, <2>1, <2>2, Roles DEF IInv, OnARow, Working
  <2>6. OneSender' /\ KnowsIntent'
    BY <1>1, <2>1, <2>2, Roles DEF IInv, OneSender, KnowsIntent, Working
  <2> QED BY <2>4, <2>5, <2>6 DEF IInv
<1> QED BY <1>3, <1>4

\* The provider accepts, once, or nothing is known of it.
LEMMA SendKeeps ==
  ASSUME IInv, NEW s \in Requests, Send(s)
  PROVE  IInv'
<1> PICK k : k = on[s]
  OBVIOUS
<1>1. /\ s \in Operations /\ s \in Submitters /\ pc[s] = "send" /\ k \in Keys
      /\ copy[s] \in JobRecords /\ copy[s].phase \notin {"none", "terminal"}
      /\ pc' = [pc EXCEPT ![s] = "commit"]
      /\ UNCHANGED <<row, digest, outbox, charged, on, seen, tries, promised, asked, crashes>>
  BY Roles DEF IInv, OnARow, Working, Send, history, ChargedRight, TypeOK
<1>2. /\ pc \in [Operations -> Steps] /\ copy \in [Operations -> JobRecords]
      /\ accepted \in [Keys -> Nat] /\ provider \in [Keys -> {"none", "queued", "running"} \cup Final]
  BY DEF IInv, ChargedRight, TypeOK
<1> DEFINE Kept(j) == j \in JobRecords /\ j.cancel = copy[s].cancel /\ j.phase # "none"
<1>3. Kept(Uncertain(copy[s]))
  BY <1>1, JobShapes
<1>4. \A status \in {"queued", "running", "completed", "failed"} : Kept(Apply(copy[s], status))
  BY <1>1, ApplyShape DEF Final
<1>5. PICK j : Kept(j) /\ copy' = [copy EXCEPT ![s] = j]
  <2>1. CASE copy' = [copy EXCEPT ![s] = Uncertain(copy[s])]
    BY <1>3, <2>1
  <2>2. CASE \E status \in {"queued", "running", "completed", "failed"} :
               copy' = [copy EXCEPT ![s] = Apply(copy[s], status)]
    BY <1>4, <2>2
  <2> QED BY <2>1, <2>2 DEF Send
<1>6. \/ UNCHANGED accepted
      \/ accepted' = [accepted EXCEPT ![on[s]] = @ + 1]
  BY DEF Send, env
<1>7. provider' \in [Keys -> {"none", "queued", "running"} \cup Final] /\ accepted' \in [Keys -> Nat]
  BY <1>1, <1>2 DEF Send, env, Final
<1>8. TypeOK'
  BY <1>1, <1>2, <1>5, <1>7 DEF IInv, ChargedRight, TypeOK, Steps
<1>9. /\ pc'[s] = "commit" /\ on'[s] = on[s] /\ copy'[s] = j /\ seen'[s] = seen[s]
      /\ \A x \in Operations : x # s => /\ pc'[x] = pc[x] /\ on'[x] = on[x]
                                        /\ copy'[x] = copy[x] /\ seen'[x] = seen[x]
  BY <1>1, <1>2, <1>5
<1>10. seen'[s] # "stale" =>
         /\ row[on[s]].phase # "terminal"
         /\ seen'[s] = "fresh" /\ (row[on[s]].cancel \/ promised[on[s]])
              => copy'[s].cancel \/ copy'[s].phase = "terminal" \/ asked'[on[s]]
  BY <1>1, <1>5, <1>9 DEF IInv, KnowsIntent, Working
<1>11. pc[s] \in Working /\ pc'[s] \in Working \ {"send", "call"} /\ copy'[s].phase # "none"
  BY <1>1, <1>5, <1>9 DEF Working
<1> QED BY <1>1, <1>6, <1>8, <1>9, <1>10, <1>11, OwnStepKeeps
\* The worker takes a lease on a row that has not ended.
LEMMA ClaimKeeps ==
  ASSUME IInv, NEW k \in Keys, Claim(k)
  PROVE  IInv'
<1> PICK j : j = [row[k] EXCEPT !.lease = "held"]
  OBVIOUS
<1> PICK h : h = IF j.phase = "submitting" THEN Uncertain(j) ELSE j
  OBVIOUS
<1>1. /\ Worker \in Operations /\ Worker \in Submitters /\ pc[Worker] = "idle"
      /\ Worker \notin Requests /\ Worker \notin Cancels
      /\ row[k].phase \in {"submitting", "polling", "fetching"}
      /\ UNCHANGED <<digest, outbox, charged, provider, accepted, tries, promised, asked, crashes>>
  BY Roles DEF Claim, env, history
<1>2. /\ pc \in [Operations -> Steps] /\ on \in [Operations -> Keys \cup {NoKey}]
      /\ copy \in [Operations -> JobRecords] /\ row \in [Keys -> JobRecords]
      /\ seen \in [Operations -> {"fresh", "cancelled", "stale"}]
  BY DEF IInv, ChargedRight, TypeOK
<1>3. /\ j \in JobRecords /\ j.phase = row[k].phase /\ j.status = row[k].status
      /\ j.cancel = row[k].cancel
  BY <1>2, JobShapes
<1>4. h \in JobRecords /\ h.phase \notin {"none", "terminal"} /\ h.cancel = row[k].cancel
  BY <1>1, <1>3, JobShapes
<1>5. /\ row' = [row EXCEPT ![k] = j] /\ on' = [on EXCEPT ![Worker] = k]
      /\ copy' = [copy EXCEPT ![Worker] = h]
      /\ pc' = [pc EXCEPT ![Worker] = IF j.phase = "submitting" THEN "commit" ELSE "call"]
      /\ seen' = [x \in Operations |->
                    IF x = Worker THEN "fresh" ELSE IF on[x] # k THEN seen[x] ELSE "stale"]
  BY DEF Claim, Ages
<1>13. row'[k] = j /\ \A x \in Keys : x # k => row'[x] = row[x]
  BY <1>2, <1>5
<1>14. \A x \in Keys : /\ row'[x].phase = row[x].phase /\ row'[x].status = row[x].status
                       /\ row'[x].cancel = row[x].cancel
  BY <1>3, <1>13
<1>6. /\ pc'[Worker] \in {"commit", "call"} /\ on'[Worker] = k /\ copy'[Worker] = h
      /\ seen'[Worker] = "fresh"
      /\ \A x \in Operations : x # Worker =>
           /\ pc'[x] = pc[x] /\ on'[x] = on[x] /\ copy'[x] = copy[x]
           /\ seen'[x] = IF on[x] # k THEN seen[x] ELSE "stale"
  BY <1>1, <1>2, <1>5
<1>7. TypeOK'
  BY <1>1, <1>2, <1>3, <1>4, <1>5, <1>6, Roles DEF IInv, ChargedRight, TypeOK, Steps
<1>8. ChargedRight'
  BY <1>1, <1>7, <1>14 DEF IInv, ChargedRight
<1>9. SubmittedOnce' /\ CancelKept' /\ RowState'
  BY <1>1, <1>13, <1>14 DEF IInv, SubmittedOnce, CancelKept, RowState
<1>10. OnARow'
  <2>1. ASSUME NEW x \in Operations, pc'[x] \in Working
        PROVE  on'[x] \in Keys /\ row'[on'[x]].phase # "none" /\ copy'[x].phase # "none"
    <3>1. CASE x = Worker
      BY <1>1, <1>4, <1>6, <1>14, <3>1
    <3>2. CASE x # Worker
      <4>1. on[x] \in Keys /\ row[on[x]].phase # "none" /\ copy[x].phase # "none"
        BY <1>6, <2>1, <3>2 DEF IInv, OnARow
      <4> QED BY <1>6, <1>14, <3>2, <4>1
    <3> QED BY <3>1, <3>2
  <2>2. \A c \in Cancels : /\ pc'[c] = "idle" => tries'[c] < JobMutationAttempts
                           /\ pc'[c] = "update" => copy'[c].cancel /\ copy'[c].phase # "terminal"
    BY <1>1, <1>6, Roles DEF IInv, OnARow
  <2>3. ASSUME NEW x \in Submitters, pc'[x] \in {"send", "call"}
        PROVE  copy'[x].phase # "terminal"
    <3>1. CASE x = Worker
      BY <1>4, <1>6, <3>1
    <3>2. CASE x # Worker
      BY <1>6, <2>3, <3>2, Roles DEF IInv, OnARow
    <3> QED BY <3>1, <3>2
  <2> QED BY <1>6, <2>1, <2>2, <2>3 DEF OnARow
<1>11. OneSender'
  BY <1>1, <1>6, Roles DEF IInv, OneSender
<1>12. KnowsIntent'
  <2> SUFFICES ASSUME NEW x \in Submitters, pc'[x] \in Working, seen'[x] # "stale"
               PROVE  /\ row'[on'[x]].phase # "terminal"
                      /\ seen'[x] = "fresh" /\ (row'[on'[x]].cancel \/ promised'[on'[x]])
                           => copy'[x].cancel \/ copy'[x].phase = "terminal" \/ asked'[on'[x]]
    BY DEF KnowsIntent
  <2>1. CASE x = Worker
    <3>1. promised[k] => row[k].cancel \/ asked[k]
      BY <1>1 DEF IInv, CancelKept
    <3> QED BY <1>1, <1>4, <1>6, <1>14, <2>1, <3>1
  <2>2. CASE x # Worker
    <3>1. /\ x \in Operations /\ on[x] # k /\ seen'[x] = seen[x] /\ pc'[x] = pc[x]
          /\ on'[x] = on[x] /\ copy'[x] = copy[x]
      BY <1>6, <2>2, Roles
    <3>2. on[x] \in Keys
      BY <3>1 DEF IInv, OnARow
    <3> QED BY <1>1, <1>14, <3>1, <3>2 DEF IInv, KnowsIntent
  <2> QED BY <2>1, <2>2
<1> QED BY <1>8, <1>9, <1>10, <1>11, <1>12 DEF IInv

\* What the worker holds after a call to the provider, answered or not: the intent
\* stays in its copy unless the provider has answered a cancel.
LEMMA AnsweredKeeps ==
  ASSUME IInv, NEW j \in JobRecords, Answered(j), j.phase # "none",
         provider' \in [Keys -> {"none", "queued", "running"} \cup Final],
         \/ UNCHANGED asked /\ (j.cancel = copy[Worker].cancel \/ j.phase = "terminal")
         \/ asked' = [asked EXCEPT ![on[Worker]] = TRUE]
  PROVE  IInv'
<1>1. /\ Worker \in Operations /\ Worker \in Submitters /\ pc[Worker] = "call"
      /\ copy' = [copy EXCEPT ![Worker] = j] /\ pc' = [pc EXCEPT ![Worker] = "commit"]
      /\ UNCHANGED <<row, digest, outbox, charged, accepted, on, seen, tries, promised, crashes>>
  BY Roles DEF Answered
<1>2. /\ pc \in [Operations -> Steps] /\ copy \in [Operations -> JobRecords]
      /\ on[Worker] \in Keys /\ copy[Worker].phase \notin {"none", "terminal"}
      /\ asked \in [Keys -> BOOLEAN]
  BY <1>1, Roles DEF IInv, ChargedRight, TypeOK, OnARow, Working
<1>3. asked' \in [Keys -> BOOLEAN] /\ \A k \in Keys : asked[k] => asked'[k]
  BY <1>2
<1>4. TypeOK'
  BY <1>1, <1>2, <1>3 DEF IInv, ChargedRight, TypeOK, Steps
<1>5. /\ pc'[Worker] = "commit" /\ copy'[Worker] = j /\ on'[Worker] = on[Worker]
      /\ \A x \in Operations : x # Worker => /\ pc'[x] = pc[x] /\ on'[x] = on[x]
                                             /\ copy'[x] = copy[x] /\ seen'[x] = seen[x]
  BY <1>1, <1>2
<1>6. seen'[Worker] # "stale" =>
         /\ row[on[Worker]].phase # "terminal"
         /\ seen'[Worker] = "fresh" /\ (row[on[Worker]].cancel \/ promised[on[Worker]])
              => copy'[Worker].cancel \/ copy'[Worker].phase = "terminal" \/ asked'[on[Worker]]
  <2>1. seen[Worker] # "stale" =>
         /\ row[on[Worker]].phase # "terminal"
         /\ seen[Worker] = "fresh" /\ (row[on[Worker]].cancel \/ promised[on[Worker]])
              => copy[Worker].cancel \/ asked[on[Worker]]
    BY <1>1, <1>2 DEF IInv, KnowsIntent, Working
  <2>2. seen'[Worker] = seen[Worker]
    BY <1>1
  <2>3. CASE UNCHANGED asked /\ j.cancel = copy[Worker].cancel
    BY <1>5, <2>1, <2>2, <2>3
  <2>4. CASE j.phase = "terminal"
    BY <1>5, <2>1, <2>2, <2>4
  <2>5. CASE asked' = [asked EXCEPT ![on[Worker]] = TRUE]
    BY <1>2, <2>1, <2>2, <2>5
  <2> QED BY <2>3, <2>4, <2>5
<1>7. /\ pc[Worker] \in Working /\ pc'[Worker] \in Working \ {"send", "call"}
      /\ copy'[Worker].phase # "none"
  BY <1>1, <1>5 DEF Working
<1> QED BY <1>1, <1>3, <1>4, <1>5, <1>6, <1>7, OwnStepKeeps

\* Polls, cancels and results, and calls without an answer.
LEMMA CallKeeps ==
  ASSUME IInv, NEW status \in {"queued", "running"} \cup Final,
         Poll(status) \/ Cancel(status) \/ Result(status) \/ CallFails
  PROVE  IInv'
<1> PICK j : j = copy[Worker]
  OBVIOUS
<1>1. /\ Worker \in Operations /\ pc[Worker] = "call" /\ on[Worker] \in Keys
      /\ j \in JobRecords /\ j.phase \notin {"none", "terminal"}
      /\ provider \in [Keys -> {"none", "queued", "running"} \cup Final]
  BY Roles DEF IInv, ChargedRight, TypeOK, OnARow, Working, Poll, Cancel, Result, CallFails
<1>2. /\ Apply(j, status) \in JobRecords /\ Apply(j, status).cancel = j.cancel
      /\ Apply(j, status).phase # "none"
  BY <1>1, ApplyShape
<1>3. CASE Poll(status)
  BY <1>1, <1>2, <1>3, AnsweredKeeps DEF Poll
<1>4. CASE Cancel(status)
  <2>1. provider' \in [Keys -> {"none", "queued", "running"} \cup Final]
    BY <1>1, <1>4 DEF Cancel, Final
  <2>2. CASE Rejects(j, status)
    BY <1>1, <1>4, <2>1, <2>2, AnsweredKeeps DEF Cancel
  <2>3. CASE ~Rejects(j, status)
    <3>1. PICK a : a = [Apply(j, status) EXCEPT !.cancel = FALSE]
      OBVIOUS
    <3>2. a \in JobRecords /\ a.phase # "none"
      BY <1>2, <3>1, JobShapes
    <3>3. Answered(a) /\ asked' = [asked EXCEPT ![on[Worker]] = TRUE]
      BY <1>4, <2>3, <3>1 DEF Cancel
    <3> QED BY <2>1, <3>2, <3>3, AnsweredKeeps
  <2> QED BY <2>2, <2>3
<1>5. CASE Result(status)
  <2>1. PICK a : a = [j EXCEPT !.phase = "terminal", !.status = status]
    OBVIOUS
  <2>2. status \in Final /\ Answered(a) /\ UNCHANGED <<provider, asked>>
    BY <1>5, <2>1 DEF Result
  <2>3. a \in JobRecords /\ a.phase = "terminal"
    BY <1>1, <2>1, <2>2 DEF JobRecords, Phases
  <2> QED BY <1>1, <2>2, <2>3, AnsweredKeeps
<1>6. CASE CallFails
  <2>1. provider' \in [Keys -> {"none", "queued", "running"} \cup Final]
    BY <1>1, <1>6 DEF CallFails, Final
  <2> QED BY <1>1, <1>6, <2>1, AnsweredKeeps DEF CallFails
<1> QED BY <1>3, <1>4, <1>5, <1>6
\* The second half of a tick: the charge, and what the outbox learns of it.
LEMMA SettleKeeps ==
  ASSUME IInv, NEW k \in Keys, Settle(k)
  PROVE  IInv'
<1>1. /\ Worker \in Operations /\ Worker \in Submitters /\ pc[Worker] = "idle"
      /\ Worker \notin Requests /\ Worker \notin Cancels
      /\ outbox[k] = "pending"
      /\ charged' = IF charged[k] = "none" THEN [charged EXCEPT ![k] = row[k].status] ELSE charged
      /\ pc' = [pc EXCEPT ![Worker] = "ack"] /\ on' = [on EXCEPT ![Worker] = k]
      /\ UNCHANGED <<row, digest, outbox, provider, accepted, copy, seen, tries, promised, asked,
                     crashes>>
  BY Roles DEF Settle, env, history
<1>2. row[k].phase = "terminal" /\ row[k].status \in Final
  BY <1>1 DEF IInv, ChargedRight, RowState
<1>3. /\ charged \in [Keys -> {"none"} \cup Final] /\ charged' \in [Keys -> {"none"} \cup Final]
      /\ charged'[k] # "none" /\ (charged[k] = "none" => charged'[k] = row[k].status)
      /\ \A x \in Keys : x # k \/ charged[k] # "none" => charged'[x] = charged[x]
  BY <1>1, <1>2 DEF IInv, ChargedRight, TypeOK, Final
<1>4. /\ pc'[Worker] = "ack" /\ on'[Worker] = k
      /\ \A x \in Operations : x # Worker => pc'[x] = pc[x] /\ on'[x] = on[x]
  BY <1>1 DEF IInv, ChargedRight, TypeOK
<1>5. TypeOK'
  BY <1>1, <1>3, <1>4 DEF IInv, ChargedRight, TypeOK, Steps
<1>6. ChargedRight'
  BY <1>1, <1>2, <1>3, <1>5 DEF IInv, ChargedRight
<1>7. SubmittedOnce' /\ CancelKept' /\ RowState'
  BY <1>1 DEF IInv, SubmittedOnce, CancelKept, RowState
<1>8. OnARow'
  <2>1. \A x \in Operations : pc'[x] \in Working \cup {"idle"} => x # Worker
    BY <1>4 DEF Working
  <2> QED BY <1>1, <1>3, <1>4, <2>1, Roles DEF IInv, OnARow
<1>9. OneSender' /\ KnowsIntent'
  BY <1>1, <1>4, Roles DEF IInv, OneSender, KnowsIntent, Working
<1> QED BY <1>6, <1>7, <1>8, <1>9 DEF IInv

\* A delivered settlement has been charged.
LEMMA AcknowledgeKeeps ==
  ASSUME IInv, Acknowledge
  PROVE  IInv'
<1> PICK k : k = on[Worker]
  OBVIOUS
<1>1. /\ Worker \in Operations /\ pc[Worker] = "ack" /\ k \in Keys
      /\ Worker \notin Requests /\ Worker \notin Cancels
      /\ outbox[k] = "pending" /\ charged[k] # "none"
      /\ outbox' = [outbox EXCEPT ![k] = "delivered"]
      /\ pc' = [pc EXCEPT ![Worker] = "idle"] /\ on' = [on EXCEPT ![Worker] = NoKey]
      /\ copy' = [copy EXCEPT ![Worker] = Absent]
      /\ UNCHANGED <<row, digest, charged, provider, accepted, seen, tries, promised, asked, crashes>>
  BY Roles DEF Acknowledge, Ends, env, history, IInv, OnARow
<1>2. /\ pc'[Worker] = "idle" /\ on'[Worker] = NoKey
      /\ \A x \in Operations : x # Worker => pc'[x] = pc[x] /\ on'[x] = on[x] /\ copy'[x] = copy[x]
      /\ outbox'[k] = "delivered" /\ \A x \in Keys : x # k => outbox'[x] = outbox[x]
  BY <1>1 DEF IInv, ChargedRight, TypeOK
<1>3. TypeOK'
  BY <1>1, <1>2, JobShapes, Roles DEF IInv, ChargedRight, TypeOK, Steps
<1>4. ChargedRight'
  BY <1>1, <1>2, <1>3 DEF IInv, ChargedRight
<1>5. SubmittedOnce' /\ CancelKept' /\ RowState'
  BY <1>1 DEF IInv, SubmittedOnce, CancelKept, RowState
<1>6. OnARow'
  <2>1. \A x \in Operations : pc'[x] \in Working \cup {"ack"} => x # Worker
    BY <1>2 DEF Working
  <2> QED BY <1>1, <1>2, <2>1, Roles DEF IInv, OnARow
<1>7. OneSender' /\ KnowsIntent'
  BY <1>1, <1>2, Roles DEF IInv, OneSender, KnowsIntent, Working
<1> QED BY <1>4, <1>5, <1>6, <1>7 DEF IInv
\* A cancellation that only reads: what it promises is true of the row.
LEMMA ReadToCancelKeeps ==
  ASSUME IInv, NEW c \in Cancels, NEW k \in Keys, ReadToCancel(c, k)
  PROVE  IInv'
<1> DEFINE promise == row[k].phase = "terminal" \/ row[k].cancel
<1>1. /\ c \in Operations /\ c \notin Submitters /\ c # Worker /\ c \notin Requests
      /\ pc[c] = "idle" /\ row[k] # Absent /\ tries[c] < JobMutationAttempts
      /\ UNCHANGED <<row, digest, outbox, charged, provider, accepted, asked, crashes>>
  BY Roles DEF ReadToCancel, env, IInv, OnARow
<1>2. /\ pc \in [Operations -> Steps] /\ on \in [Operations -> Keys \cup {NoKey}]
      /\ copy \in [Operations -> JobRecords] /\ row \in [Keys -> JobRecords]
      /\ seen \in [Operations -> {"fresh", "cancelled", "stale"}]
      /\ tries \in [Cancels -> 0..JobMutationAttempts] /\ promised \in [Keys -> BOOLEAN]
  BY DEF IInv, ChargedRight, TypeOK
<1>3. /\ promised' \in [Keys -> BOOLEAN]
      /\ \A x \in Keys : promised'[x] => promised[x] \/ (x = k /\ promise)
  <2>1. promised' = IF promise THEN [promised EXCEPT ![k] = TRUE] ELSE promised
    BY DEF ReadToCancel
  <2>2. CASE promise
    <3>1. promised' = [promised EXCEPT ![k] = TRUE]
      BY <2>1, <2>2
    <3>2. \A x \in Keys : x # k => promised'[x] = promised[x]
      BY <1>2, <3>1
    <3> QED BY <1>2, <2>2, <3>1, <3>2
  <2>3. CASE ~promise
    BY <1>2, <2>1, <2>3
  <2> QED BY <2>2, <2>3
<1>4. PICK j \in JobRecords, p \in {"done", "update"}, o \in Keys \cup {NoKey} :
        /\ pc' = [pc EXCEPT ![c] = p] /\ on' = [on EXCEPT ![c] = o]
        /\ copy' = [copy EXCEPT ![c] = j] /\ seen' = [seen EXCEPT ![c] = "fresh"]
        /\ tries' \in [Cancels -> 0..JobMutationAttempts]
        /\ \A x \in Cancels : x # c => tries'[x] = tries[x]
        /\ p = "done" => o = NoKey
        /\ p = "update" => o = k /\ j.cancel /\ j.phase \notin {"none", "terminal"}
  <2>1. CASE promise \/ ~row[k].upstream
    <3>1. GivesUp(c, "done") /\ UNCHANGED tries
      BY <2>1 DEF ReadToCancel
    <3> QED BY <1>2, <3>1, JobShapes DEF GivesUp, Ends
  <2>2. CASE ~(promise \/ ~row[k].upstream)
    <3> PICK r : r = [row[k] EXCEPT !.cancel = TRUE]
      OBVIOUS
    <3>1. /\ copy' = [copy EXCEPT ![c] = r] /\ seen' = [seen EXCEPT ![c] = "fresh"]
          /\ on' = [on EXCEPT ![c] = k] /\ pc' = [pc EXCEPT ![c] = "update"]
          /\ tries' = [tries EXCEPT ![c] = @ + 1]
      BY <2>2 DEF ReadToCancel
    <3>2. r \in JobRecords /\ r.cancel /\ r.phase = row[k].phase
      BY <1>2, JobShapes
    <3>3. row[k].phase \notin {"none", "terminal"}
      BY <1>1, <2>2 DEF IInv, RowState
    <3>4. /\ tries' \in [Cancels -> 0..JobMutationAttempts]
          /\ \A x \in Cancels : x # c => tries'[x] = tries[x]
      BY <1>1, <1>2, <3>1 DEF JobMutationAttempts
    <3> QED BY <3>1, <3>2, <3>3, <3>4
  <2> QED BY <2>1, <2>2
<1>5. /\ pc'[c] = p /\ on'[c] = o /\ copy'[c] = j /\ seen'[c] = "fresh"
      /\ \A x \in Operations : x # c => /\ pc'[x] = pc[x] /\ on'[x] = on[x]
                                        /\ copy'[x] = copy[x] /\ seen'[x] = seen[x]
  BY <1>1, <1>2, <1>4
<1>6. \A x \in Submitters \cup Requests \cup {Worker} : x # c /\ x \in Operations
  BY <1>1, Roles
<1>7. TypeOK'
  <2>1. /\ pc' \in [Operations -> Steps] /\ on' \in [Operations -> Keys \cup {NoKey}]
        /\ copy' \in [Operations -> JobRecords]
        /\ seen' \in [Operations -> {"fresh", "cancelled", "stale"}]
    BY <1>2, <1>4 DEF Steps
  <2>2. \A x \in Operations : pc'[x] \in {"done", "replayed", "conflict"} => on'[x] = NoKey
    BY <1>4, <1>5 DEF IInv, ChargedRight, TypeOK
  <2>3. \A x \in Requests \cup {Worker} : pc'[x] = "idle" => on'[x] = NoKey
    BY <1>5, <1>6 DEF IInv, ChargedRight, TypeOK
  <2> QED BY <1>1, <1>3, <1>4, <2>1, <2>2, <2>3 DEF IInv, ChargedRight, TypeOK
<1>8. ChargedRight' /\ SubmittedOnce'
  BY <1>1, <1>7 DEF IInv, ChargedRight, SubmittedOnce
<1>9. CancelKept'
  BY <1>1, <1>3 DEF IInv, CancelKept
<1>10. RowState'
  BY <1>1, <1>3 DEF IInv, RowState
<1>11. OnARow'
  <2>1. ASSUME NEW x \in Operations, pc'[x] \in Working
        PROVE  on'[x] \in Keys /\ row'[on'[x]].phase # "none" /\ copy'[x].phase # "none"
    <3>1. CASE x = c
      <4>1. p = "update"
        BY <1>4, <1>5, <2>1, <3>1 DEF Working
      <4>2. row[k].phase # "none"
        BY <1>1 DEF IInv, RowState
      <4> QED BY <1>1, <1>4, <1>5, <3>1, <4>1, <4>2
    <3>2. CASE x # c
      BY <1>1, <1>5, <2>1, <3>2 DEF IInv, OnARow
    <3> QED BY <3>1, <3>2
  <2>2. ASSUME NEW x \in Cancels
        PROVE  /\ pc'[x] = "idle" => tries'[x] < JobMutationAttempts
               /\ pc'[x] = "update" => copy'[x].cancel /\ copy'[x].phase # "terminal"
    <3>1. CASE x = c
      BY <1>4, <1>5, <3>1
    <3>2. CASE x # c
      BY <1>4, <1>5, <3>2, Roles DEF IInv, OnARow
    <3> QED BY <3>1, <3>2
  <2>3. \A x \in Submitters : pc'[x] \in {"send", "call"} => copy'[x].phase # "terminal"
    BY <1>5, <1>6 DEF IInv, OnARow
  <2>4. pc'[Worker] = "ack" => /\ on'[Worker] \in Keys /\ outbox'[on'[Worker]] = "pending"
                               /\ charged'[on'[Worker]] # "none"
    BY <1>1, <1>5, <1>6 DEF IInv, OnARow
  <2> QED BY <2>1, <2>2, <2>3, <2>4 DEF OnARow
<1>12. OneSender'
  BY <1>1, <1>5, <1>6 DEF IInv, OneSender
<1>13. KnowsIntent'
  <2> SUFFICES ASSUME NEW x \in Submitters, pc'[x] \in Working, seen'[x] # "stale"
               PROVE  /\ row'[on'[x]].phase # "terminal"
                      /\ seen'[x] = "fresh" /\ (row'[on'[x]].cancel \/ promised'[on'[x]])
                           => copy'[x].cancel \/ copy'[x].phase = "terminal" \/ asked'[on'[x]]
    BY DEF KnowsIntent
  <2>1. /\ x \in Operations /\ pc'[x] = pc[x] /\ on'[x] = on[x] /\ copy'[x] = copy[x]
        /\ seen'[x] = seen[x]
    BY <1>5, <1>6
  <2>2. on[x] \in Keys /\ row[on[x]].phase # "terminal"
    BY <2>1 DEF IInv, OnARow, KnowsIntent
  <2>3. promised'[on[x]] => promised[on[x]] \/ row[on[x]].cancel
    BY <1>3, <2>2
  <2> QED BY <1>1, <2>1, <2>2, <2>3 DEF IInv, KnowsIntent
<1> QED BY <1>8, <1>9, <1>10, <1>11, <1>12, <1>13 DEF IInv
\* The intent is written, or another attempt or nothing follows.
LEMMA WriteCancelKeeps ==
  ASSUME IInv, NEW c \in Cancels, WriteCancel(c)
  PROVE  IInv'
<1> PICK k : k = on[c]
  OBVIOUS
<1>1. /\ c \in Operations /\ c \notin Submitters /\ c # Worker /\ c \notin Requests
      /\ pc[c] = "update" /\ k \in Keys /\ row[k].phase # "none"
      /\ copy[c].cancel /\ copy[c].phase \notin {"none", "terminal"}
      /\ UNCHANGED <<digest, charged, provider, accepted, tries, crashes>>
  BY Roles DEF WriteCancel, env, IInv, OnARow, Working
<1>2. /\ pc \in [Operations -> Steps] /\ on \in [Operations -> Keys \cup {NoKey}]
      /\ copy \in [Operations -> JobRecords] /\ row \in [Keys -> JobRecords]
      /\ seen \in [Operations -> {"fresh", "cancelled", "stale"}]
      /\ promised \in [Keys -> BOOLEAN] /\ asked \in [Keys -> BOOLEAN]
  BY DEF IInv, ChargedRight, TypeOK
<1>3. \A x \in Submitters \cup Requests \cup {Worker} : x # c /\ x \in Operations
  BY <1>1, Roles
<1>4. CASE /\ seen[c] = "fresh" /\ Allowed(row[k], copy[c])
           /\ Stored(c, k, [copy[c] EXCEPT !.lease = row[k].lease], TRUE)
           /\ Ends(c, "done")
           /\ promised' = [promised EXCEPT ![k] = TRUE] /\ asked' = [asked EXCEPT ![k] = FALSE]
  <2> PICK l \in {"free", "held", "lapsed"} : l = row[k].lease
    BY <1>1, <1>2 DEF JobRecords
  <2> PICK j : j = [copy[c] EXCEPT !.lease = l]
    OBVIOUS
  <2>1. j \in JobRecords /\ j.cancel /\ j.phase \notin {"none", "terminal"}
    <3>1. copy[c] \in JobRecords
      BY <1>1, <1>2
    <3> PICK r \in JobRecords : r = copy[c]
      BY <3>1
    <3>2. j = [r EXCEPT !.lease = l]
      OBVIOUS
    <3>3. j \in JobRecords /\ j.phase = r.phase
      <4>1. j \in JobRecords
        BY <3>2 DEF JobRecords
      <4>2. j.phase = r.phase
        BY <3>2, Zenon DEF JobRecords
      <4> QED BY <4>1, <4>2
    <3>4. j.cancel = r.cancel
      BY <3>2, Zenon DEF JobRecords
    <3> QED BY <1>1, <3>3, <3>4, Zenon
  <2>2. row[k].phase # "terminal"
    BY <1>4 DEF Allowed
  <2>3. /\ row' = [row EXCEPT ![k] = j] /\ UNCHANGED outbox
        /\ seen' = [x \in Operations |->
                      IF x = c THEN "fresh" ELSE IF on[x] # k THEN seen[x]
                      ELSE IF seen[x] = "fresh" THEN "cancelled" ELSE "stale"]
        /\ pc' = [pc EXCEPT ![c] = "done"] /\ on' = [on EXCEPT ![c] = NoKey]
        /\ copy' = [copy EXCEPT ![c] = Absent]
    BY <1>4, <2>1 DEF Stored, Ages, Ends
  <2>4. row'[k] = j /\ \A x \in Keys : x # k => row'[x] = row[x]
    BY <1>1, <1>2, <2>3
  <2>14. \A x \in Keys : /\ row[x].phase # "none" => row'[x].phase # "none"
                         /\ row'[x].phase = "terminal" <=> row[x].phase = "terminal"
                         /\ row'[x].phase = "terminal" => row'[x].status = row[x].status
    BY <2>1, <2>2, <2>4
  <2>5. /\ promised' \in [Keys -> BOOLEAN] /\ asked' \in [Keys -> BOOLEAN]
        /\ \A x \in Keys : x # k => promised'[x] = promised[x] /\ asked'[x] = asked[x]
    BY <1>1, <1>2, <1>4
  <2>6. /\ pc'[c] = "done" /\ on'[c] = NoKey
        /\ \A x \in Operations : x # c => pc'[x] = pc[x] /\ on'[x] = on[x] /\ copy'[x] = copy[x]
    BY <1>1, <1>2, <2>3
  <2>7. \A x \in Operations : /\ x # c /\ on[x] # k => seen'[x] = seen[x]
                              /\ x # c /\ on[x] = k => seen'[x] # "fresh"
                              /\ x # c /\ seen'[x] # "stale" => seen[x] # "stale"
    BY <1>2, <2>3
  <2>8. TypeOK'
    <3>1. /\ row' \in [Keys -> JobRecords] /\ copy' \in [Operations -> JobRecords]
          /\ seen' \in [Operations -> {"fresh", "cancelled", "stale"}]
      BY <1>2, <2>1, <2>3, JobShapes
    <3>2. pc' \in [Operations -> Steps] /\ on' \in [Operations -> Keys \cup {NoKey}]
      BY <1>2, <2>3 DEF Steps
    <3>3. \A x \in Operations : pc'[x] \in {"done", "replayed", "conflict"} => on'[x] = NoKey
      BY <2>6 DEF IInv, ChargedRight, TypeOK
    <3>4. \A x \in Requests \cup {Worker} : pc'[x] = "idle" => on'[x] = NoKey
      BY <1>3, <2>6 DEF IInv, ChargedRight, TypeOK
    <3> QED BY <1>1, <2>3, <2>5, <3>1, <3>2, <3>3, <3>4 DEF IInv, ChargedRight, TypeOK
  <2>9. ChargedRight'
    BY <1>1, <2>3, <2>8, <2>14 DEF IInv, ChargedRight
  <2>10. SubmittedOnce' /\ CancelKept' /\ RowState'
    <3>1. SubmittedOnce'
      BY <1>1 DEF IInv, SubmittedOnce
    <3>2. ASSUME NEW x \in Keys, promised'[x], row'[x].phase # "terminal"
          PROVE  row'[x].cancel \/ asked'[x]
      <4>1. CASE x = k
        BY <2>1, <2>4, <4>1, Zenon
      <4>2. CASE x # k
        BY <2>4, <2>5, <3>2, <4>2 DEF IInv, CancelKept
      <4> QED BY <4>1, <4>2
    <3>3. ASSUME NEW x \in Keys
          PROVE  /\ row'[x].phase = "none" => row'[x] = Absent /\ accepted'[x] = 0 /\ ~promised'[x]
                 /\ row'[x].phase = "terminal" => row'[x].status \in Final
      <4>1. CASE x = k
        <5>1. row'[x].phase \notin {"none", "terminal"}
          BY <2>1, <2>4, <4>1
        <5> QED BY <5>1
      <4>2. CASE x # k
        BY <1>1, <2>4, <2>5, <4>2 DEF IInv, RowState
      <4> QED BY <4>1, <4>2
    <3> QED BY <3>1, <3>2, <3>3 DEF CancelKept, RowState
  <2>11. OnARow'
    <3>1. ASSUME NEW x \in Operations, pc'[x] \in Working
          PROVE  on'[x] \in Keys /\ row'[on'[x]].phase # "none" /\ copy'[x].phase # "none"
      <4>1. x # c
        BY <2>6, <3>1 DEF Working
      <4> QED BY <2>6, <2>14, <3>1, <4>1 DEF IInv, OnARow
    <3>2. \A x \in Cancels : /\ pc'[x] = "idle" => tries'[x] < JobMutationAttempts
                             /\ pc'[x] = "update" => copy'[x].cancel /\ copy'[x].phase # "terminal"
      BY <1>1, <2>6, Roles DEF IInv, OnARow
    <3>3. \A x \in Submitters : pc'[x] \in {"send", "call"} => copy'[x].phase # "terminal"
      BY <1>3, <2>6 DEF IInv, OnARow
    <3>4. pc'[Worker] = "ack" => /\ on'[Worker] \in Keys /\ outbox'[on'[Worker]] = "pending"
                                 /\ charged'[on'[Worker]] # "none"
      BY <1>1, <1>3, <2>3, <2>6 DEF IInv, OnARow
    <3> QED BY <3>1, <3>2, <3>3, <3>4 DEF OnARow
  <2>12. OneSender'
    BY <1>1, <1>3, <2>6 DEF IInv, OneSender
  <2>13. KnowsIntent'
    <3> SUFFICES ASSUME NEW x \in Submitters, pc'[x] \in Working, seen'[x] # "stale"
                 PROVE  /\ row'[on'[x]].phase # "terminal"
                        /\ seen'[x] = "fresh" /\ (row'[on'[x]].cancel \/ promised'[on'[x]])
                             => copy'[x].cancel \/ copy'[x].phase = "terminal" \/ asked'[on'[x]]
      BY DEF KnowsIntent
    <3>1. x \in Operations /\ x # c /\ pc'[x] = pc[x] /\ on'[x] = on[x] /\ copy'[x] = copy[x]
      BY <1>3, <2>6
    <3>2. CASE on[x] = k
      <4>1. on'[x] = k /\ seen'[x] # "fresh" /\ row'[k].phase # "terminal"
        BY <2>1, <2>4, <2>7, <3>1, <3>2
      <4> QED BY <4>1
    <3>3. CASE on[x] # k
      <4>1. seen'[x] = seen[x] /\ on[x] \in Keys
        BY <2>7, <3>1, <3>3 DEF IInv, OnARow
      <4> QED BY <2>4, <2>5, <3>1, <3>3, <4>1 DEF IInv, KnowsIntent
    <3> QED BY <3>2, <3>3
  <2> QED BY <2>9, <2>10, <2>11, <2>12, <2>13 DEF IInv
<1>5. CASE UNCHANGED <<row, outbox, history>> /\ seen[c] # "fresh"
  <2>1. PICK p \in {"idle", "done"} :
          /\ pc' = [pc EXCEPT ![c] = p]
          /\ p = "idle" => tries[c] < JobMutationAttempts
          /\ p = "idle" => UNCHANGED <<on, copy, seen>>
          /\ p = "done" => /\ on' = [on EXCEPT ![c] = NoKey] /\ copy' = [copy EXCEPT ![c] = Absent]
                           /\ seen' = [seen EXCEPT ![c] = "fresh"]
    BY <1>5 DEF WriteCancel, GivesUp, Ends
  <2>2. /\ pc'[c] = p /\ (p = "done" => on'[c] = NoKey)
        /\ \A x \in Operations : x # c => /\ pc'[x] = pc[x] /\ on'[x] = on[x]
                                          /\ copy'[x] = copy[x] /\ seen'[x] = seen[x]
    <3>1. pc'[c] = p /\ \A x \in Operations : x # c => pc'[x] = pc[x]
      BY <1>1, <1>2, <2>1
    <3>2. CASE p = "idle"
      BY <2>1, <3>1, <3>2
    <3>3. CASE p = "done"
      BY <1>1, <1>2, <2>1, <3>1, <3>3
    <3> QED BY <3>2, <3>3
  <2>3. UNCHANGED <<row, outbox, promised, asked>>
    BY <1>5 DEF history
  <2>4. TypeOK'
    <3>1. /\ copy' \in [Operations -> JobRecords] /\ on' \in [Operations -> Keys \cup {NoKey}]
          /\ seen' \in [Operations -> {"fresh", "cancelled", "stale"}]
          /\ pc' \in [Operations -> Steps]
      <4>1. CASE p = "idle"
        BY <1>2, <2>1, <4>1 DEF Steps
      <4>2. CASE p = "done"
        <5>1. /\ pc' = [pc EXCEPT ![c] = "done"] /\ on' = [on EXCEPT ![c] = NoKey]
              /\ copy' = [copy EXCEPT ![c] = Absent] /\ seen' = [seen EXCEPT ![c] = "fresh"]
          BY <2>1, <4>2
        <5> QED BY <1>2, <5>1, JobShapes DEF Steps
      <4> QED BY <4>1, <4>2
    <3>2. \A x \in Operations : pc'[x] \in {"done", "replayed", "conflict"} => on'[x] = NoKey
      BY <2>1, <2>2 DEF IInv, ChargedRight, TypeOK
    <3>3. \A x \in Requests \cup {Worker} : pc'[x] = "idle" => on'[x] = NoKey
      BY <1>3, <2>2 DEF IInv, ChargedRight, TypeOK
    <3> QED BY <1>1, <2>3, <3>1, <3>2, <3>3 DEF IInv, ChargedRight, TypeOK
  <2>5. ChargedRight' /\ SubmittedOnce' /\ CancelKept' /\ RowState'
    BY <1>1, <2>3, <2>4 DEF IInv, ChargedRight, SubmittedOnce, CancelKept, RowState
  <2>6. OnARow'
    <3>1. \A x \in Operations : pc'[x] \in Working \cup {"update"} => x # c
      BY <2>2 DEF Working
    <3>2. \A x \in Cancels : x \in Operations /\ (pc'[x] = "idle" => tries'[x] < JobMutationAttempts)
      BY <1>1, <2>1, <2>2, Roles DEF IInv, OnARow
    <3> QED BY <1>1, <1>3, <2>2, <2>3, <3>1, <3>2 DEF IInv, OnARow
  <2>7. OneSender' /\ KnowsIntent'
    BY <1>1, <1>3, <2>2, <2>3 DEF IInv, OneSender, KnowsIntent
  <2> QED BY <2>5, <2>6, <2>7 DEF IInv
<1> QED BY <1>4, <1>5 DEF WriteCancel

\* What happens outside the process, and its death.
LEMMA OutsideKeeps ==
  ASSUME IInv, (\E k \in Keys : Advance(k) \/ Lapse(k)) \/ Crash \/ UNCHANGED vars
  PROVE  IInv'
<1>1. ASSUME NEW k \in Keys, Advance(k)
      PROVE  IInv'
  <2>1. /\ provider' \in [Keys -> {"none", "queued", "running"} \cup Final]
        /\ UNCHANGED <<row, digest, outbox, charged, accepted, pc, on, copy, seen, tries, promised,
                       asked, crashes>>
    <3>1. provider \in [Keys -> {"none", "queued", "running"} \cup Final]
      BY DEF IInv, ChargedRight, TypeOK
    <3> QED BY <1>1, <3>1 DEF Advance, history, Final
  <2>2. TypeOK'
    BY <2>1 DEF IInv, ChargedRight, TypeOK
  <2>3. ChargedRight'
    BY <2>1, <2>2 DEF IInv, ChargedRight
  <2>4. SubmittedOnce' /\ CancelKept'
    BY <2>1 DEF IInv, SubmittedOnce, CancelKept
  <2>5. RowState'
    BY <2>1 DEF IInv, RowState
  <2>6. OnARow' /\ OneSender'
    BY <2>1 DEF IInv, OnARow, OneSender
  <2>7. KnowsIntent'
    BY <2>1 DEF IInv, KnowsIntent
  <2> QED BY <2>3, <2>4, <2>5, <2>6, <2>7 DEF IInv
<1>2. ASSUME NEW k \in Keys, Lapse(k)
      PROVE  IInv'
  <2> PICK j : j = [row[k] EXCEPT !.lease = "lapsed"]
    OBVIOUS
  <2>1. /\ row' = [row EXCEPT ![k] = j] /\ row[k].lease = "held"
        /\ UNCHANGED <<digest, outbox, charged, provider, accepted, pc, on, copy, seen, tries, promised,
                       asked, crashes>>
    BY <1>2 DEF Lapse, env, history
  <2>2. /\ row \in [Keys -> JobRecords] /\ j \in JobRecords /\ j.phase = row[k].phase
        /\ j.status = row[k].status /\ j.cancel = row[k].cancel
    <3>1. row \in [Keys -> JobRecords] /\ row[k] \in JobRecords
      BY DEF IInv, ChargedRight, TypeOK
    <3> QED BY <3>1, JobShapes
  <2>3. row'[k] = j /\ \A x \in Keys : x # k => row'[x] = row[x]
    BY <2>1, <2>2
  <2>4. ASSUME NEW x \in Keys
        PROVE  /\ row'[x].phase = row[x].phase /\ row'[x].status = row[x].status
               /\ row'[x].cancel = row[x].cancel
    BY <2>2, <2>3
  <2>5. row[k].phase # "none"
    BY <2>1 DEF IInv, RowState, Absent
  <2>6. TypeOK'
    BY <2>1, <2>2 DEF IInv, ChargedRight, TypeOK
  <2>7. ChargedRight' /\ SubmittedOnce' /\ CancelKept'
    BY <2>1, <2>4, <2>6 DEF IInv, ChargedRight, SubmittedOnce, CancelKept
  <2>8. RowState'
    BY <2>1, <2>2, <2>3, <2>5 DEF IInv, RowState
  <2>9. OnARow' /\ OneSender'
    BY <2>1, <2>4 DEF IInv, OnARow, OneSender
  <2>10. KnowsIntent'
    <3>1. \A x \in Submitters : pc[x] \in Working => on[x] \in Keys
      BY Roles DEF IInv, OnARow
    <3> QED BY <2>1, <2>4, <3>1 DEF IInv, KnowsIntent
  <2> QED BY <2>7, <2>8, <2>9, <2>10 DEF IInv
<1>3. CASE Crash
  <2>1. /\ pc' = [o \in Operations |-> IF on[o] = NoKey THEN pc[o] ELSE Over(o)]
        /\ on' = [o \in Operations |-> NoKey] /\ copy' = [o \in Operations |-> Absent]
        /\ seen' = [o \in Operations |-> "fresh"]
        /\ UNCHANGED <<row, digest, outbox, charged, provider, accepted, tries, promised, asked>>
    BY <1>3 DEF Crash, env, history
  <2>8. crashes' \in 0..MaxCrashes
    BY <1>3, JobsAssumption DEF Crash, IInv, ChargedRight, TypeOK
  <2>2. ASSUME NEW o \in Operations
        PROVE  pc'[o] \notin Working /\ ~(o = Worker /\ pc'[o] = "ack")
    <3>1. Over(o) \in {"idle", "done"} /\ pc'[o] = IF on[o] = NoKey THEN pc[o] ELSE Over(o)
      BY <2>1 DEF Over
    <3>2. on[o] = NoKey => pc[o] \notin Working /\ ~(o = Worker /\ pc[o] = "ack")
      BY Roles DEF IInv, OnARow
    <3> QED BY <3>1, <3>2 DEF Working
  <2>3. TypeOK'
    <3>1. pc' \in [Operations -> Steps]
      BY <2>1 DEF IInv, ChargedRight, TypeOK, Over, Steps
    <3>2. /\ on' \in [Operations -> Keys \cup {NoKey}] /\ copy' \in [Operations -> JobRecords]
          /\ seen' \in [Operations -> {"fresh", "cancelled", "stale"}]
      BY <2>1, JobShapes
    <3>3. \A o \in Operations : on'[o] = NoKey
      BY <2>1
    <3> QED BY <2>1, <2>8, <3>1, <3>2, <3>3, Roles DEF IInv, ChargedRight, TypeOK
  <2>4. ChargedRight' /\ SubmittedOnce' /\ CancelKept' /\ RowState'
    BY <2>1, <2>3 DEF IInv, ChargedRight, SubmittedOnce, CancelKept, RowState
  <2>5. \A c \in Cancels : pc'[c] = "idle" => tries'[c] < JobMutationAttempts
    BY <2>1, Roles DEF IInv, OnARow, Over
  <2>6. OnARow'
    BY <2>2, <2>5, Roles DEF OnARow, Working
  <2>7. OneSender' /\ KnowsIntent'
    BY <2>2, Roles DEF OneSender, KnowsIntent, Working
  <2> QED BY <2>4, <2>6, <2>7 DEF IInv
<1>4. CASE UNCHANGED vars
  BY <1>4 DEF vars, env, history, IInv, ChargedRight, TypeOK, SubmittedOnce, CancelKept, RowState,
              OnARow, OneSender, KnowsIntent
<1> QED BY <1>1, <1>2, <1>3, <1>4
-----------------------------------------------------------------------------
\* Nothing was asked for yet.
LEMMA InitIInv == Init => IInv
<1> SUFFICES ASSUME Init PROVE IInv
  OBVIOUS
<1>1. /\ row = [k \in Keys |-> Absent] /\ outbox = [k \in Keys |-> "none"]
      /\ charged = [k \in Keys |-> "none"] /\ provider = [k \in Keys |-> "none"]
      /\ accepted = [k \in Keys |-> 0] /\ pc = [o \in Operations |-> "idle"]
      /\ on = [o \in Operations |-> NoKey] /\ copy = [o \in Operations |-> Absent]
      /\ seen = [o \in Operations |-> "fresh"] /\ tries = [o \in Cancels |-> 0]
      /\ promised = [k \in Keys |-> FALSE] /\ asked = [k \in Keys |-> FALSE] /\ crashes = 0
  BY DEF Init
<1>2. Absent.phase = "none"
  BY DEF Absent
<1>3. TypeOK
  BY <1>1, JobShapes, Roles, JobsAssumption DEF TypeOK, Steps, JobMutationAttempts
<1>4. ChargedRight /\ SubmittedOnce /\ CancelKept /\ RowState
  BY <1>1, <1>2, <1>3 DEF ChargedRight, SubmittedOnce, CancelKept, RowState
<1>5. OnARow /\ OneSender /\ KnowsIntent
  BY <1>1, Roles DEF OnARow, OneSender, KnowsIntent, Working, JobMutationAttempts
<1> QED BY <1>4, <1>5 DEF IInv

\* Every step of requests, clients, worker, provider, leases and crashes keeps the
\* invariant.
LEMMA StepKeeps == IInv /\ [Next]_vars => IInv'
<1> SUFFICES ASSUME IInv, [Next]_vars PROVE IInv'
  OBVIOUS
<1>1. ASSUME NEW s \in Requests, Reserve(s) \/ Send(s)
      PROVE  IInv'
  BY <1>1, ReserveKeeps, SendKeeps
<1>2. ASSUME NEW o \in Requests \cup {Worker},
             Commit(o) \/ Conflict(o) \/ CommitFails(o) \/ Reread(o) \/ Recommit(o)
      PROVE  IInv'
  BY <1>2, CommitKeeps DEF Submitters
<1>3. ASSUME NEW k \in Keys, Claim(k) \/ Settle(k) \/ Advance(k) \/ Lapse(k)
      PROVE  IInv'
  BY <1>3, ClaimKeeps, SettleKeeps, OutsideKeeps
<1>4. ASSUME NEW status \in {"queued", "running"} \cup Final,
             Poll(status) \/ Cancel(status) \/ Result(status)
      PROVE  IInv'
  BY <1>4, CallKeeps
<1>5. CASE CallFails
  BY <1>5, CallKeeps
<1>6. CASE Acknowledge
  BY <1>6, AcknowledgeKeeps
<1>7. CASE AcknowledgeFails
  BY <1>7, GivesUpKeeps, Roles DEF AcknowledgeFails, Over, Ends
<1>8. ASSUME NEW c \in Cancels, NEW k \in Keys, ReadToCancel(c, k)
      PROVE  IInv'
  BY <1>8, ReadToCancelKeeps
<1>9. ASSUME NEW c \in Cancels, WriteCancel(c)
      PROVE  IInv'
  BY <1>9, WriteCancelKeeps
<1>10. CASE Crash \/ UNCHANGED vars
  BY <1>10, OutsideKeeps
<1> QED BY <1>1, <1>2, <1>3, <1>4, <1>5, <1>6, <1>7, <1>8, <1>9, <1>10 DEF Next

\* The inductive invariant: whoever holds a row and may still write it back has, as
\* long as the comparison of revisions lets it, a row that has not ended and a copy
\* that knows of the intent to cancel it.
THEOREM Invariance == Spec => []IInv
<1> QED BY InitIInv, StepKeeps, PTL DEF Spec

\* "Submit is called once for a newly reserved job": for any requests, keys, crashes
\* and lost answers the provider accepts a generation at most once.
THEOREM SentOnce == Spec => []SubmittedOnce
<1>1. IInv => SubmittedOnce
  BY DEF IInv
<1> QED BY <1>1, Invariance, PTL

\* The outbox holds exactly the jobs that ended, and a job is charged as it ended.
THEOREM ChargedAsEnded == Spec => []ChargedRight
<1>1. IInv => ChargedRight
  BY DEF IInv
<1> QED BY <1>1, Invariance, PTL

\* The intent to cancel that a client was told of is not lost to a poll or a result
\* that crossed it, by any number of clients and attempts.
THEOREM IntentKept == Spec => []CancelKept
<1>1. IInv => CancelKept
  BY DEF IInv
<1> QED BY <1>1, Invariance, PTL
\* How a row goes on: as it was, from nothing, or as CheckJobTransition allows.
GoesOn(old, new) ==
  \/ old.phase = new.phase /\ old.status = new.status /\ old.upstream = new.upstream
  \/ old = Absent
  \/ /\ old.phase \notin {"terminal", "uncertain"} /\ (old.upstream => new.upstream)
     /\ old.phase = "fetching" => new.phase \in {"fetching", "terminal"}

\* Only a write that was allowed changes more of a row than its lease.
LEMMA RowsGoOn ==
  ASSUME IInv, Next, NEW k \in Keys
  PROVE  GoesOn(row[k], row'[k])
<1>1. row \in [Keys -> JobRecords] /\ copy \in [Operations -> JobRecords]
  BY DEF IInv, ChargedRight, TypeOK
<1>2. ASSUME row'[k] = row[k]
      PROVE  GoesOn(row[k], row'[k])
  BY <1>2 DEF GoesOn
<1>3. ASSUME NEW o \in Operations, NEW l \in {"free", "held", "lapsed"}, pc[o] \in Working,
             Allowed(row[on[o]], copy[o]), row' = [row EXCEPT ![on[o]] = [copy[o] EXCEPT !.lease = l]]
      PROVE  GoesOn(row[k], row'[k])
  <2> PICK j : j = [copy[o] EXCEPT !.lease = l]
    OBVIOUS
  <2>1. /\ on[o] \in Keys /\ row[on[o]] \in JobRecords /\ copy[o] \in JobRecords
        /\ copy[o].phase # "none"
    BY <1>1, <1>3 DEF IInv, OnARow
  <2>2. /\ row[on[o]].phase \notin {"terminal", "uncertain"}
        /\ row[on[o]].upstream => copy[o].upstream
        /\ row[on[o]].phase = "fetching" => copy[o].phase \in {"fetching", "terminal"}
    BY <1>3, <2>1, AllowedSteps
  <2>3. j.phase = copy[o].phase /\ j.upstream = copy[o].upstream
    BY <2>1, JobShapes
  <2>4. CASE k = on[o]
    <3>1. row'[k] = j
      BY <1>1, <1>3, <2>4
    <3> QED BY <2>2, <2>3, <2>4, <3>1 DEF GoesOn
  <2>5. CASE k # on[o]
    BY <1>1, <1>2, <1>3, <2>5
  <2> QED BY <2>4, <2>5
<1>4. ASSUME NEW o \in Requests \cup {Worker},
             Commit(o) \/ Conflict(o) \/ CommitFails(o) \/ Reread(o) \/ Recommit(o)
      PROVE  GoesOn(row[k], row'[k])
  <2>1. \/ UNCHANGED row
        \/ /\ pc[o] \in {"commit", "recommit"} /\ Allowed(row[on[o]], copy[o])
           /\ row' = [row EXCEPT ![on[o]] = [copy[o] EXCEPT !.lease = "free"]]
    BY <1>4 DEF Commit, Conflict, CommitFails, Reread, Recommit, Stored
  <2> QED BY <1>2, <1>3, <1>4, <2>1, Roles DEF Working
<1>5. ASSUME NEW s \in Requests, Reserve(s) \/ Send(s)
      PROVE  GoesOn(row[k], row'[k])
  <2>1. UNCHANGED row \/ (row[Key[s]] = Absent /\ row' = [row EXCEPT ![Key[s]] = Reserved])
    BY <1>5 DEF Reserve, Send
  <2> QED BY <1>1, <1>2, <2>1, Roles DEF GoesOn
<1>6. ASSUME NEW x \in Keys, Claim(x) \/ Settle(x) \/ Advance(x) \/ Lapse(x)
      PROVE  GoesOn(row[k], row'[k])
  <2>1. CASE UNCHANGED row
    BY <1>2, <2>1
  <2>2. ASSUME NEW l \in {"held", "lapsed"}, row' = [row EXCEPT ![x] = [row[x] EXCEPT !.lease = l]]
        PROVE  GoesOn(row[k], row'[k])
    <3> PICK j : j = [row[x] EXCEPT !.lease = l]
      OBVIOUS
    <3>1. j.phase = row[x].phase /\ j.status = row[x].status /\ j.upstream = row[x].upstream
      BY <1>1, JobShapes
    <3>2. row'[k] = IF k = x THEN j ELSE row[k]
      BY <1>1, <2>2
    <3> QED BY <1>2, <3>1, <3>2 DEF GoesOn
  <2>3. Claim(x) => row' = [row EXCEPT ![x] = [row[x] EXCEPT !.lease = "held"]]
    BY DEF Claim
  <2>4. Lapse(x) => row' = [row EXCEPT ![x] = [row[x] EXCEPT !.lease = "lapsed"]]
    BY DEF Lapse
  <2> QED BY <1>6, <2>1, <2>2, <2>3, <2>4 DEF Settle, Advance
<1>7. ASSUME NEW c \in Cancels, NEW x \in Keys, ReadToCancel(c, x)
      PROVE  GoesOn(row[k], row'[k])
  BY <1>2, <1>7 DEF ReadToCancel
<1>8. ASSUME NEW c \in Cancels, WriteCancel(c)
      PROVE  GoesOn(row[k], row'[k])
  <2>1. c \in Operations /\ pc[c] = "update" /\ pc[c] \in Working /\ on[c] \in Keys
    BY <1>8, Roles DEF WriteCancel, Working, IInv, OnARow
  <2>2. \/ UNCHANGED row
        \/ /\ Allowed(row[on[c]], copy[c])
           /\ row' = [row EXCEPT ![on[c]] = [copy[c] EXCEPT !.lease = row[on[c]].lease]]
    BY <1>8 DEF WriteCancel, Stored
  <2>3. row[on[c]].lease \in {"free", "held", "lapsed"}
    BY <1>1, <2>1 DEF JobRecords
  <2> QED BY <1>2, <1>3, <2>1, <2>2, <2>3
<1>9. CASE \/ CallFails \/ Acknowledge \/ AcknowledgeFails \/ Crash
           \/ \E status \in {"queued", "running"} \cup Final :
                Poll(status) \/ Cancel(status) \/ Result(status)
  <2>1. UNCHANGED row
    BY <1>9 DEF CallFails, Acknowledge, AcknowledgeFails, Crash, Poll, Cancel, Result, Answered
  <2> QED BY <1>2, <2>1
<1> QED BY <1>4, <1>5, <1>6, <1>7, <1>8, <1>9 DEF Next

\* What has ended stays as it ended, a fetched result is not polled for again and the
\* upstream name of a job is kept, whatever crossed it.
THEOREM NoWayBack == Spec => NeverBack
<1> DEFINE Keeps == \A k \in Keys :
             /\ row[k].phase \in {"uncertain", "terminal"} =>
                  row'[k].phase = row[k].phase /\ row'[k].status = row[k].status
             /\ row[k].phase = "fetching" => row'[k].phase \in {"fetching", "terminal"}
             /\ row[k].upstream => row'[k].upstream
<1>1. IInv /\ [Next]_vars => [Keeps]_vars
  <2> SUFFICES ASSUME IInv, Next, NEW k \in Keys
               PROVE  /\ row[k].phase \in {"uncertain", "terminal"} =>
                           row'[k].phase = row[k].phase /\ row'[k].status = row[k].status
                      /\ row[k].phase = "fetching" => row'[k].phase \in {"fetching", "terminal"}
                      /\ row[k].upstream => row'[k].upstream
    OBVIOUS
  <2>1. GoesOn(row[k], row'[k])
    BY RowsGoOn
  <2>2. Absent.phase = "none" /\ ~Absent.upstream
    BY DEF Absent
  <2> QED BY <2>1, <2>2 DEF GoesOn
<1> QED BY <1>1, Invariance, PTL DEF Spec, NeverBack
=============================================================================
