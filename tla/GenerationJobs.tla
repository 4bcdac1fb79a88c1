--------------------------- MODULE GenerationJobs ---------------------------
(***************************************************************************)
(* protocol.JobCoordinator over its repository: asynchronous generations   *)
(* that are reserved in the store before they are sent to a provider, then *)
(* polled, fetched, cancelled and charged by one background worker.        *)
(* Requests submit, clients cancel, the process crashes and restarts, calls*)
(* to the provider lose their answer and writes to the store fail.         *)
(*                                                                         *)
(* The revision of a row is compared in one place, so it is kept as what   *)
(* the comparison can see: for every operation, whether the row it read is *)
(* still the same (fresh), was changed by exactly one cancellation under   *)
(* the same lease (cancelled), or by anything else (stale).                *)
(***************************************************************************)
EXTENDS FiniteSets, Naturals

CONSTANTS Requests, Cancels,   \* calls of Submit and of RequestCancel
          Worker, NoKey,
          Keys,                \* deduplication hashes: one row each
          Key, Digest,         \* of each request
          MaxCrashes           \* bound: crashes of the process

Operations == Requests \cup Cancels \cup {Worker}

ASSUME JobsAssumption ==
  /\ Key \in [Requests -> Keys] /\ NoKey \notin Keys
  /\ Worker \notin Requests \cup Cancels /\ Requests \cap Cancels = {}
  /\ MaxCrashes \in Nat

VARIABLES row,        \* table generation_jobs
          digest,     \* RequestHash of the row
          outbox,     \* table generation_job_settlements
          charged,    \* usage record of the job: its status, or "none"
          provider,   \* the task at the provider
          accepted,   \* how many submissions the provider has accepted
          pc, on,     \* what each operation does next, and on which row
          copy, seen, \* the GenerationJob it holds, and how that relates to the row
          tries,      \* attempts of RequestCancel
          promised,   \* history: clients were told that the job is to be cancelled
          asked,      \* history: since then the provider has answered a cancel
          crashes

env == <<provider, accepted>>
history == <<promised, asked>>
vars == <<row, digest, outbox, charged, provider, accepted, pc, on, copy, seen, tries,
          promised, asked, crashes>>

Phases == {"none", "submitting", "uncertain", "polling", "fetching", "terminal"}
Final == {"completed", "failed", "cancelled"}
Absent == [phase |-> "none", status |-> "none", upstream |-> FALSE, cancel |-> FALSE, lease |-> "free"]
Reserved == [Absent EXCEPT !.phase = "submitting", !.status = "submitting", !.lease = "held"]
Uncertain(j) == [j EXCEPT !.phase = "uncertain", !.status = "uncertain"]

Init == /\ row = [k \in Keys |-> Absent] /\ digest = [k \in Keys |-> "none"]
        /\ outbox = [k \in Keys |-> "none"] /\ charged = [k \in Keys |-> "none"]
        /\ provider = [k \in Keys |-> "none"] /\ accepted = [k \in Keys |-> 0]
        /\ pc = [o \in Operations |-> "idle"] /\ on = [o \in Operations |-> NoKey]
        /\ copy = [o \in Operations |-> Absent] /\ seen = [o \in Operations |-> "fresh"]
        /\ tries = [o \in Cancels |-> 0]
        /\ promised = [k \in Keys |-> FALSE] /\ asked = [k \in Keys |-> FALSE]
        /\ crashes = 0
-----------------------------------------------------------------------------
\* applyJobUpdate: a provider's report; a step back from running is an error
\* and leaves the job as it was.
Rejects(j, status) == j.status = "running" /\ status = "queued"
Apply(j, status) ==
  IF Rejects(j, status) THEN j
  ELSE [j EXCEPT !.status = status, !.upstream = TRUE,
                 !.phase = CASE status \in {"queued", "running"} -> "polling"
                             [] status = "completed" -> "fetching"
                             [] OTHER -> "terminal"]

\* CheckJobTransition, at the storage boundary.
Allowed(old, new) ==
  /\ old.phase \notin {"terminal", "uncertain"}
  /\ old.upstream => new.upstream
  /\ ~(old.status = "running" /\ new.status = "queued")
  /\ CASE new.phase = "submitting" -> old.phase = "submitting"
       [] new.phase = "uncertain" -> old.phase = "submitting"
       [] new.phase = "polling" -> old.phase # "fetching" /\ new.status \in {"queued", "running"}
       [] new.phase = "fetching" -> new.status = "completed"
       [] OTHER -> new.status \in Final
  /\ new.phase \in {"polling", "fetching", "terminal"} => new.upstream

\* The row changes under the other operations that hold it.
Ages(o, k, isCancel) ==
  seen' = [x \in Operations |->
             IF x = o THEN "fresh"
             ELSE IF on[x] # k THEN seen[x]
             ELSE IF seen[x] = "fresh" /\ isCancel THEN "cancelled" ELSE "stale"]

\* What an operation forgets when it ends.
Ends(o, how) == /\ pc' = [pc EXCEPT ![o] = how]
                /\ on' = [on EXCEPT ![o] = NoKey]
                /\ copy' = [copy EXCEPT ![o] = Absent]
GivesUp(o, how) == Ends(o, how) /\ seen' = [seen EXCEPT ![o] = "fresh"]
Over(o) == IF o = Worker THEN "idle" ELSE "done"

\* Planted mistake: a terminal job is not entered in the outbox.
StoredWithoutOutbox(o, k, j, isCancel) ==
  /\ row' = [row EXCEPT ![k] = j]
  /\ UNCHANGED outbox
  /\ Ages(o, k, isCancel)

\* A successful UpdateGenerationJob: a terminal row enters the outbox in the
\* same transaction, once.
Stored(o, k, j, isCancel) ==
  /\ row' = [row EXCEPT ![k] = j]
  /\ outbox' = IF j.phase = "terminal" /\ outbox[k] = "none"
               THEN [outbox EXCEPT ![k] = "pending"] ELSE outbox
  /\ Ages(o, k, isCancel)
-----------------------------------------------------------------------------
\* Planted mistake: an existing row is replaced.
ReserveAlways(s) ==
  LET k == Key[s]
  IN  /\ pc[s] = "idle"
      /\ row' = [row EXCEPT ![k] = Reserved] /\ digest' = [digest EXCEPT ![k] = Digest[s]]
      /\ pc' = [pc EXCEPT ![s] = "send"] /\ on' = [on EXCEPT ![s] = k]
      /\ copy' = [copy EXCEPT ![s] = Reserved] /\ Ages(s, k, FALSE)
      /\ UNCHANGED <<outbox, charged, env, tries, history, crashes>>

\* CreateGenerationJob: an insert that does nothing when the key exists.
Reserve(s) ==
  LET k == Key[s]
  IN  /\ pc[s] = "idle"
      /\ \/ /\ row[k] = Absent
            /\ row' = [row EXCEPT ![k] = Reserved] /\ digest' = [digest EXCEPT ![k] = Digest[s]]
            /\ pc' = [pc EXCEPT ![s] = "send"] /\ on' = [on EXCEPT ![s] = k]
            /\ copy' = [copy EXCEPT ![s] = Reserved] /\ Ages(s, k, FALSE)
         \/ /\ row[k] # Absent
            /\ pc' = [pc EXCEPT ![s] = IF digest[k] = Digest[s] THEN "replayed" ELSE "conflict"]
            /\ UNCHANGED <<row, digest, on, copy, seen>>
      /\ UNCHANGED <<outbox, charged, env, tries, history, crashes>>

\* executor.Submit: the provider may accept without the answer arriving, and an
\* answer may report any status.
Send(s) ==
  LET k == on[s]
  IN  /\ pc[s] = "send"
      /\ pc' = [pc EXCEPT ![s] = "commit"]
      /\ \/ UNCHANGED env /\ copy' = [copy EXCEPT ![s] = Uncertain(@)]
         \/ \E status \in {"queued", "running", "completed", "failed"} :
              /\ accepted' = [accepted EXCEPT ![k] = @ + 1]
              /\ provider' = [provider EXCEPT ![k] = status]
              /\ \/ copy' = [copy EXCEPT ![s] = Apply(@, status)]
                 \/ copy' = [copy EXCEPT ![s] = Uncertain(@)]
      /\ UNCHANGED <<row, digest, outbox, charged, on, seen, tries, history, crashes>>

\* Planted mistake: the revision is not compared.
CommitBlindly(o) ==
  /\ pc[o] = "commit"
  /\ Stored(o, on[o], [copy[o] EXCEPT !.lease = "free"], FALSE)
  /\ Ends(o, Over(o))
  /\ UNCHANGED <<digest, charged, env, tries, history, crashes>>

\* commit: the update releases the lease.  It is refused when the row moved, and
\* fails when the transition is not allowed or the store is unavailable; then
\* the lease stays until it lapses.
Commit(o) ==
  /\ pc[o] = "commit"
  /\ seen[o] = "fresh" /\ Allowed(row[on[o]], copy[o])
  /\ Stored(o, on[o], [copy[o] EXCEPT !.lease = "free"], FALSE)
  /\ Ends(o, Over(o))
  /\ UNCHANGED <<digest, charged, env, tries, history, crashes>>

Conflict(o) ==
  /\ pc[o] = "commit" /\ seen[o] # "fresh"
  /\ pc' = [pc EXCEPT ![o] = "reread"]
  /\ UNCHANGED <<row, digest, outbox, charged, env, on, copy, seen, tries, history, crashes>>

CommitFails(o) ==
  /\ pc[o] \in {"commit", "reread", "recommit"}
  /\ GivesUp(o, Over(o))
  /\ UNCHANGED <<row, digest, outbox, charged, env, tries, history, crashes>>

\* Planted mistake: the intent recorded meanwhile is not taken over.
RereadDropsCancel(o) ==
  /\ pc[o] = "reread"
  /\ IF seen[o] = "cancelled"
     THEN /\ seen' = [seen EXCEPT ![o] = "fresh"]
          /\ pc' = [pc EXCEPT ![o] = "recommit"]
          /\ UNCHANGED <<on, copy>>
     ELSE GivesUp(o, Over(o))
  /\ UNCHANGED <<row, digest, outbox, charged, env, tries, history, crashes>>

\* The outcome is rebased onto a cancellation that crossed it, and only onto that.
Reread(o) ==
  /\ pc[o] = "reread"
  /\ IF seen[o] = "cancelled"
     THEN /\ copy' = [copy EXCEPT ![o].cancel = copy[o].phase # "terminal"]
          /\ seen' = [seen EXCEPT ![o] = "fresh"]
          /\ pc' = [pc EXCEPT ![o] = "recommit"]
          /\ UNCHANGED on
     ELSE GivesUp(o, Over(o))
  /\ UNCHANGED <<row, digest, outbox, charged, env, tries, history, crashes>>

Recommit(o) ==
  /\ pc[o] = "recommit"
  /\ \/ /\ seen[o] = "fresh" /\ Allowed(row[on[o]], copy[o])
        /\ Stored(o, on[o], [copy[o] EXCEPT !.lease = "free"], FALSE)
        /\ Ends(o, Over(o))
     \/ /\ ~(seen[o] = "fresh" /\ Allowed(row[on[o]], copy[o]))
        /\ GivesUp(o, Over(o))
        /\ UNCHANGED <<row, outbox>>
  /\ UNCHANGED <<digest, charged, env, tries, history, crashes>>
-----------------------------------------------------------------------------
\* Planted mistake: abandoned submissions are not claimed.
ClaimSkipsSubmitting(k) ==
  LET j == [row[k] EXCEPT !.lease = "held"]
  IN  /\ pc[Worker] = "idle"
      /\ row[k].phase \in {"polling", "fetching"} /\ row[k].lease # "held"
      /\ row' = [row EXCEPT ![k] = j]
      /\ Ages(Worker, k, FALSE)
      /\ on' = [on EXCEPT ![Worker] = k]
      /\ copy' = [copy EXCEPT ![Worker] = j]
      /\ pc' = [pc EXCEPT ![Worker] = "call"]
      /\ UNCHANGED <<digest, outbox, charged, env, tries, history, crashes>>

\* ClaimGenerationJobs and the head of process: a lease on due work.  A
\* submission whose lease lapsed is closed as uncertain, never sent again.
Claim(k) ==
  LET j == [row[k] EXCEPT !.lease = "held"]
  IN  /\ pc[Worker] = "idle"
      /\ row[k].phase \in {"submitting", "polling", "fetching"} /\ row[k].lease # "held"
      /\ row' = [row EXCEPT ![k] = j]
      /\ Ages(Worker, k, FALSE)
      /\ on' = [on EXCEPT ![Worker] = k]
      /\ copy' = [copy EXCEPT ![Worker] = IF j.phase = "submitting" THEN Uncertain(j) ELSE j]
      /\ pc' = [pc EXCEPT ![Worker] = IF j.phase = "submitting" THEN "commit" ELSE "call"]
      /\ UNCHANGED <<digest, outbox, charged, env, tries, history, crashes>>

\* process: an intent to cancel comes first, then the result, then a poll.
Stage(j) == IF j.cancel THEN "cancel" ELSE IF j.phase = "fetching" THEN "result" ELSE "poll"

\* What a provider in state p may report: its state, or an earlier one.
Reports(p) == {p} \cup (IF p = "queued" THEN {} ELSE {"queued", "running"})

Answered(j) == /\ pc[Worker] = "call"
               /\ copy' = [copy EXCEPT ![Worker] = j]
               /\ pc' = [pc EXCEPT ![Worker] = "commit"]
               /\ UNCHANGED <<row, digest, outbox, charged, accepted, on, seen, tries, promised, crashes>>

Poll(status) ==
  /\ pc[Worker] = "call" /\ Stage(copy[Worker]) = "poll"
  /\ status \in Reports(provider[on[Worker]])
  /\ Answered(Apply(copy[Worker], status))
  /\ UNCHANGED <<provider, asked>>

\* The intent is done with once the provider has answered with a usable status.
Cancel(status) ==
  LET k == on[Worker]
  IN  /\ pc[Worker] = "call" /\ Stage(copy[Worker]) = "cancel"
      /\ \/ UNCHANGED provider
         \/ provider[k] \notin Final /\ provider' = [provider EXCEPT ![k] = "cancelled"]
      /\ status \in Reports(provider'[k])
      /\ IF Rejects(copy[Worker], status)
         THEN Answered(copy[Worker]) /\ UNCHANGED asked
         ELSE /\ Answered([Apply(copy[Worker], status) EXCEPT !.cancel = FALSE])
              /\ asked' = [asked EXCEPT ![k] = TRUE]

\* The result itself may say that the generation failed or was cancelled.
Result(verdict) ==
  /\ pc[Worker] = "call" /\ Stage(copy[Worker]) = "result"
  /\ provider[on[Worker]] = "completed"
  /\ verdict \in Final
  /\ Answered([copy[Worker] EXCEPT !.phase = "terminal", !.status = verdict])
  /\ UNCHANGED <<provider, asked>>

\* The call fails or its answer is lost; a cancel may have reached the provider.
CallFails ==
  LET k == on[Worker]
  IN  /\ pc[Worker] = "call"
      /\ \/ UNCHANGED provider
         \/ /\ Stage(copy[Worker]) = "cancel" /\ provider[k] \notin Final
            /\ provider' = [provider EXCEPT ![k] = "cancelled"]
      /\ Answered(copy[Worker]) /\ UNCHANGED asked

\* Planted mistake: a failed usage write counts as delivered.
SettleFailsUnnoticed(k) ==
  /\ pc[Worker] = "idle" /\ outbox[k] = "pending"
  /\ \/ charged' = IF charged[k] = "none" THEN [charged EXCEPT ![k] = row[k].status] ELSE charged
     \/ UNCHANGED charged
  /\ pc' = [pc EXCEPT ![Worker] = "ack"] /\ on' = [on EXCEPT ![Worker] = k]
  /\ UNCHANGED <<row, digest, outbox, env, copy, seen, tries, history, crashes>>

\* Tick, second half: the usage record is written once per settlement id, and
\* the outbox entry acknowledged afterwards.
Settle(k) ==
  /\ pc[Worker] = "idle" /\ outbox[k] = "pending"
  /\ charged' = IF charged[k] = "none" THEN [charged EXCEPT ![k] = row[k].status] ELSE charged
  /\ pc' = [pc EXCEPT ![Worker] = "ack"] /\ on' = [on EXCEPT ![Worker] = k]
  /\ UNCHANGED <<row, digest, outbox, env, copy, seen, tries, history, crashes>>

Acknowledge ==
  /\ pc[Worker] = "ack"
  /\ outbox' = [outbox EXCEPT ![on[Worker]] = "delivered"]
  /\ Ends(Worker, "idle")
  /\ UNCHANGED <<row, digest, charged, env, seen, tries, history, crashes>>

AcknowledgeFails ==
  /\ pc[Worker] = "ack"
  /\ Ends(Worker, "idle")
  /\ UNCHANGED <<row, digest, outbox, charged, env, seen, tries, history, crashes>>
-----------------------------------------------------------------------------
\* RequestCancel, first half: read, and answer when there is nothing to do.
ReadToCancel(c, k) ==
  LET promise == row[k].phase = "terminal" \/ row[k].cancel
  IN  /\ pc[c] = "idle" /\ row[k] # Absent /\ on[c] \in {k, NoKey}
      /\ IF promise \/ ~row[k].upstream
         THEN GivesUp(c, "done") /\ UNCHANGED tries
         ELSE /\ copy' = [copy EXCEPT ![c] = [row[k] EXCEPT !.cancel = TRUE]]
              /\ seen' = [seen EXCEPT ![c] = "fresh"]
              /\ on' = [on EXCEPT ![c] = k] /\ pc' = [pc EXCEPT ![c] = "update"]
              /\ tries' = [tries EXCEPT ![c] = @ + 1]
      /\ promised' = IF promise THEN [promised EXCEPT ![k] = TRUE] ELSE promised
      /\ UNCHANGED <<row, digest, outbox, charged, env, asked, crashes>>

JobMutationAttempts == 3

\* RequestCancel, second half: the intent is written, or the row is read again.
WriteCancel(c) ==
  LET k == on[c]
  IN  /\ pc[c] = "update"
      /\ \/ /\ seen[c] = "fresh" /\ Allowed(row[k], copy[c])
            /\ Stored(c, k, [copy[c] EXCEPT !.lease = row[k].lease], TRUE)
            /\ Ends(c, "done")
            /\ promised' = [promised EXCEPT ![k] = TRUE] /\ asked' = [asked EXCEPT ![k] = FALSE]
         \/ /\ seen[c] # "fresh"
            /\ IF tries[c] < JobMutationAttempts
               THEN pc' = [pc EXCEPT ![c] = "idle"] /\ UNCHANGED <<on, copy, seen>>
               ELSE GivesUp(c, "done")
            /\ UNCHANGED <<row, outbox, history>>
      /\ UNCHANGED <<digest, charged, env, tries, crashes>>

\* The task advances at the provider.
Advance(k) ==
  /\ \/ provider[k] = "queued" /\ provider' = [provider EXCEPT ![k] = "running"]
     \/ provider[k] = "running" /\ \E p \in {"completed", "failed"} : provider' = [provider EXCEPT ![k] = p]
  /\ UNCHANGED <<row, digest, outbox, charged, accepted, pc, on, copy, seen, tries, history, crashes>>

\* A lease runs out, whether or not its holder is still at work.
Lapse(k) ==
  /\ row[k].lease = "held"
  /\ row' = [row EXCEPT ![k].lease = "lapsed"]
  /\ UNCHANGED <<digest, outbox, charged, env, pc, on, copy, seen, tries, history, crashes>>

\* The process dies and is started again: only the tables survive.
Crash ==
  /\ crashes < MaxCrashes /\ crashes' = crashes + 1
  /\ pc' = [o \in Operations |-> IF on[o] = NoKey THEN pc[o] ELSE Over(o)]
  /\ on' = [o \in Operations |-> NoKey]
  /\ copy' = [o \in Operations |-> Absent]
  /\ seen' = [o \in Operations |-> "fresh"]
  /\ UNCHANGED <<row, digest, outbox, charged, env, tries, history>>

Next == \/ \E s \in Requests : Reserve(s) \/ Send(s)
        \/ \E o \in Requests \cup {Worker} :
             Commit(o) \/ Conflict(o) \/ CommitFails(o) \/ Reread(o) \/ Recommit(o)
        \/ \E k \in Keys : Claim(k) \/ Settle(k) \/ Advance(k) \/ Lapse(k)
        \/ \E status \in {"queued", "running"} \cup Final : Poll(status) \/ Cancel(status) \/ Result(status)
        \/ CallFails \/ Acknowledge \/ AcknowledgeFails
        \/ \E c \in Cancels, k \in Keys : ReadToCancel(c, k)
        \/ \E c \in Cancels : WriteCancel(c)
        \/ Crash

Spec == Init /\ [][Next]_vars
\* What must go on: the process ticks and its calls and writes succeed again and
\* again; leases run out; providers finish what they accepted and report it, to a
\* poll and to a cancellation that comes too late alike.
Truthful == \E status \in Final : Poll(status) \/ Cancel(status) \/ Result(status)
Returns == CallFails \/ \E status \in {"queued", "running"} \cup Final :
                           Poll(status) \/ Cancel(status) \/ Result(status)
\* Failures of the store do not single out the writes that carry news.
CommitNews == /\ pc[Worker] = "commit"
              /\ copy[Worker].phase # row[on[Worker]].phase \/ copy[Worker].cancel # row[on[Worker]].cancel
              /\ Commit(Worker)
FairSpec ==
  /\ Spec
  /\ \A s \in Requests : WF_vars(Send(s))
  /\ \A o \in Requests \cup {Worker} : /\ WF_vars(Conflict(o) \/ Reread(o) \/ Recommit(o))
                                       /\ WF_vars(Commit(o) \/ CommitFails(o))
  /\ SF_vars(CommitNews) /\ SF_vars(Truthful) /\ WF_vars(Returns)
  /\ SF_vars(Acknowledge)
  /\ \A k \in Keys : /\ SF_vars(Claim(k)) /\ SF_vars(Settle(k))
                     /\ WF_vars(Lapse(k)) /\ WF_vars(Advance(k))
-----------------------------------------------------------------------------
\* Types, and an operation works on a row exactly while it is under way.
Steps == {"idle", "send", "commit", "reread", "recommit", "call", "ack", "update",
          "done", "replayed", "conflict"}
JobRecords == [phase : Phases, status : {"none", "submitting", "uncertain", "queued", "running"} \cup Final,
               upstream : BOOLEAN, cancel : BOOLEAN, lease : {"free", "held", "lapsed"}]
TypeOK ==
  /\ row \in [Keys -> JobRecords] /\ copy \in [Operations -> JobRecords]
  /\ outbox \in [Keys -> {"none", "pending", "delivered"}]
  /\ charged \in [Keys -> {"none"} \cup Final]
  /\ provider \in [Keys -> {"none", "queued", "running"} \cup Final]
  /\ accepted \in [Keys -> Nat] /\ crashes \in 0..MaxCrashes
  /\ pc \in [Operations -> Steps] /\ on \in [Operations -> Keys \cup {NoKey}]
  /\ seen \in [Operations -> {"fresh", "cancelled", "stale"}]
  /\ tries \in [Cancels -> 0..JobMutationAttempts]
  /\ promised \in [Keys -> BOOLEAN] /\ asked \in [Keys -> BOOLEAN]
  /\ \A o \in Operations : pc[o] \in {"done", "replayed", "conflict"} => on[o] = NoKey
  /\ \A o \in Requests \cup {Worker} : pc[o] = "idle" => on[o] = NoKey

\* "Submit is called once for a newly reserved job": whatever is retried,
\* replayed, lapses or crashes, the provider accepts a generation at most once.
SubmittedOnce == \A k \in Keys : accepted[k] <= 1

\* The outbox holds a job exactly when it is terminal, a delivered job was
\* charged, and what was charged is how the job ended.
ChargedRight == TypeOK /\ \A k \in Keys :
  /\ outbox[k] # "none" <=> row[k].phase = "terminal"
  /\ outbox[k] = "delivered" => charged[k] # "none"
  /\ charged[k] # "none" => row[k].phase = "terminal" /\ charged[k] = row[k].status

\* "Records intent": once a client was told that the job will be cancelled, the
\* intent stays with the job until the provider has answered a cancel, although
\* polls and results that crossed it write the whole job back.
CancelKept == \A k \in Keys :
  promised[k] /\ row[k].phase # "terminal" => row[k].cancel \/ asked[k]

\* What has ended stays as it ended, and nobody who read the job earlier moves it
\* back: not a poll that crossed the result, nor a submitter whose lease lapsed.
NeverBack == [][\A k \in Keys :
  /\ row[k].phase \in {"uncertain", "terminal"} =>
       row'[k].phase = row[k].phase /\ row'[k].status = row[k].status
  /\ row[k].phase = "fetching" => row'[k].phase \in {"fetching", "terminal"}
  /\ row[k].upstream => row'[k].upstream]_vars

\* Every terminal job is charged and acknowledged in the end.
Settled == \A k \in Keys : row[k].phase = "terminal" ~> outbox[k] = "delivered"

\* Every job that was reserved reaches an end: a submission that was abandoned
\* is closed as uncertain, one that the provider accepted ends, cancelled or not.
JobEnds == \A k \in Keys :
  row[k].phase \in {"submitting", "polling", "fetching"} ~> row[k].phase \in {"uncertain", "terminal"}
=============================================================================
