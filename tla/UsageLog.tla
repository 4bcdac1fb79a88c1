------------------------------- MODULE UsageLog -------------------------------
(***************************************************************************)
(* Usage records: the queue and its writer (server/usage_writer.go,        *)
(* usage.go, usage_sqlite.go), the tables (storage/usage_logs.go), reset,  *)
(* retention with its attachments (usage_retention.go, storage/assets.go), *)
(* on top of the response cache they flush.                                *)
(*                                                                         *)
(* usagePersistMu serialises all writers of the tables; the writer's mutex *)
(* guards the queue's admission and is held across steps by a reset only.  *)
(***************************************************************************)
EXTENDS UsageCache, WeightedSets, SequencesExt

CONSTANTS Requests,      \* records of requests: queued, or written synchronously
          Jobs,          \* settlements of jobs: written synchronously, delivered until acknowledged
          Size, Asset,   \* payload bytes of a record; its attachment
          QueueCapacity, BatchCapacity, Budget, Attempts,
          Casts,         \* bound: who takes part together with the writer
          Writer, Reset, Keeper,    \* the queue's goroutine, a reset, retention
          MaxFaults,     \* bound: errors of the tables
          MaxResets, MaxKeeps, MaxRepeats    \* bounds: resets, retention's steps, deliveries

Records == Requests \cup Jobs

ASSUME UsageAssumption ==
  /\ Attempts \in Nat \ {0} /\ BatchCapacity \in Nat \ {0}
  /\ QueueCapacity \in Nat /\ Budget \in Nat
  /\ Requests \cap Jobs = {} /\ {Writer, Reset, Keeper} \cap Records = {}
  /\ Writer # Reset /\ Reset # Keeper /\ Keeper # Writer
  /\ Size \in [Records -> Nat]
  /\ Flushers = Records \cup {Writer, Reset, Keeper}

VARIABLES step,          \* what each flusher does next
          writeGen,      \* writeGen of each record
          current,       \* usageWriteGen
          queue, batch,  \* the channel; what its goroutine has taken from it
          retained,      \* retainedBytes
          closed, cut,   \* the queue is closed; usageWriteCtx is cancelled
          lock,          \* who is inside usagePersistMu
          saving, left,  \* the records it saves, and the attempts left
          rows, rollup,  \* usage_records; how often usage_rollup_hour counts each
          files,         \* attachments on disk
          doomed,        \* attachments retention found unreferenced
          failed,        \* records reported as not committed
          pruned,        \* history: rows retention has deleted since the last reset
          faults, resets, keeps, repeats

queueVars == <<queue, batch, retained, closed>>
lockVars == <<lock, saving, left>>
tables == <<rows, rollup, pruned>>
disk == <<files, doomed>>
bounds == <<faults, resets, keeps, repeats>>
vars == <<cacheVars, step, writeGen, current, queueVars, cut, lockVars, tables, disk, failed, bounds>>

Init ==
  /\ \E cast \in Casts :
       /\ CacheInit(cast)
       /\ step = [f \in Flushers |-> IF f \in cast \cup {Writer} THEN "idle" ELSE "absent"]
  /\ writeGen = [r \in Records |-> 0] /\ current = 0
  /\ queue = <<>> /\ batch = {} /\ retained = 0 /\ closed = FALSE /\ cut = FALSE
  /\ lock = {} /\ saving = {} /\ left = 0
  /\ rows = {} /\ rollup = [r \in Records |-> 0] /\ pruned = {}
  /\ files = {} /\ doomed = {} /\ failed = {}
  /\ faults = 0 /\ resets = 0 /\ keeps = 0 /\ repeats = 0

To(f, s) == step' = [step EXCEPT ![f] = s]
Bytes(s) == Weight(s, Size)
\* A reset keeps the writer's mutex from its first step to the new generation.
QueueFree == step[Reset] \notin {"lock", "clear", "drain"}
-----------------------------------------------------------------------------
(* Admission: recordHTTPUsage, recordUsage, writePreparedUsage.            *)

\* prepareUsageWrite, at the settlement of the request.
Prepare(r) ==
  /\ r \in Requests /\ step[r] = "idle" /\ To(r, "ready")
  /\ writeGen' = [writeGen EXCEPT ![r] = current]
  /\ UNCHANGED <<cacheVars, current, queueVars, cut, lockVars, tables, disk, failed, bounds>>

CanQueue(r) == /\ ~closed /\ Len(queue) < QueueCapacity
               /\ Size[r] <= Budget - retained

\* enqueueUsageRecord at the completion of the request, or the synchronous write.
Enqueue(r) ==
  /\ step[r] = "ready" /\ QueueFree
  /\ IF CanQueue(r)
     THEN queue' = Append(queue, r) /\ retained' = retained + Size[r] /\ To(r, "done")
     ELSE To(r, "lock") /\ UNCHANGED <<queue, retained>>
  /\ UNCHANGED <<cacheVars, writeGen, current, batch, closed, cut, lockVars, tables, disk,
                 failed, bounds>>

\* SettleJob, and again while its outbox entry is not acknowledged.
Settle(j) ==
  /\ j \in Jobs
  /\ \/ step[j] = "idle" /\ UNCHANGED repeats
     \/ step[j] = "done" /\ repeats < MaxRepeats /\ repeats' = repeats + 1
  /\ To(j, "lock")
  /\ UNCHANGED <<cacheVars, writeGen, current, queueVars, cut, lockVars, tables, disk, failed,
                 faults, resets, keeps>>
-----------------------------------------------------------------------------
(* usageWriterState.run.                                                   *)

Take ==
  /\ step[Writer] \in {"idle", "collect"} /\ queue # <<>>
  /\ Cardinality(batch) < BatchCapacity
  /\ batch' = batch \cup {Head(queue)} /\ queue' = Tail(queue) /\ To(Writer, "collect")
  /\ UNCHANGED <<cacheVars, writeGen, current, retained, closed, cut, lockVars, tables, disk,
                 failed, bounds>>

\* The batch is full, the interval is over or the queue is closed and empty.
CloseBatch ==
  /\ step[Writer] = "collect" /\ To(Writer, "lock")
  /\ UNCHANGED <<cacheVars, writeGen, current, queueVars, cut, lockVars, tables, disk, failed,
                 bounds>>

GiveBack ==
  /\ step[Writer] = "giveback" /\ QueueFree
  /\ retained' = retained - Bytes(batch) /\ batch' = {} /\ To(Writer, "idle")
  /\ UNCHANGED <<cacheVars, writeGen, current, queue, closed, cut, lockVars, tables, disk,
                 failed, bounds>>

WriterEnds ==
  /\ step[Writer] = "idle" /\ closed /\ queue = <<>> /\ To(Writer, "gone")
  /\ UNCHANGED <<cacheVars, writeGen, current, queueVars, cut, lockVars, tables, disk, failed,
                 bounds>>
-----------------------------------------------------------------------------
(* persistUsageBatch and saveUsageBatchToStore, by the writer or a record's *)
(* own goroutine.                                                           *)

Persisters == Records \cup {Writer}
After(f) == IF f = Writer THEN "giveback" ELSE "done"
Items(f) == IF f = Writer THEN batch ELSE {f}
\* A settlement belongs to the current generation; the others to theirs.
Pinned(f) == IF f \in Jobs THEN [writeGen EXCEPT ![f] = current] ELSE writeGen
\* Planted mistake: records of an earlier generation are saved too.
SelectedAll(s) == s
Selected(s) == {r \in s : Pinned(r)[r] = current}
Attachments(s) == {Asset[r] : r \in s}

\* The lock, the generations, then writeUsageAssets of the records that remain.
Acquire(f) ==
  LET kept == Selected(Items(f)) IN
  /\ f \in Persisters /\ step[f] = "lock" /\ lock = {}
  /\ writeGen' = Pinned(f)
  /\ IF cut \/ kept = {}
     THEN /\ failed' = failed \cup kept /\ To(f, After(f))
          /\ UNCHANGED <<lockVars, files>>
     ELSE /\ lock' = {f} /\ saving' = kept /\ left' = Attempts /\ To(f, "save")
          /\ files' = files \cup Attachments(kept) /\ UNCHANGED failed
  /\ UNCHANGED <<cacheVars, current, queueVars, cut, tables, doomed, bounds>>

Unlock == lock' = {} /\ saving' = {} /\ left' = 0

\* SaveUsageBatch fails: another attempt, or all of the batch is reported.
SaveFails(f) ==
  /\ step[f] = "save"
  /\ IF cut THEN UNCHANGED faults ELSE faults < MaxFaults /\ faults' = faults + 1
  /\ IF cut \/ left = 1
     THEN failed' = failed \cup saving /\ Unlock /\ To(f, After(f))
     ELSE left' = left - 1 /\ UNCHANGED <<lock, saving, step, failed>>
  /\ UNCHANGED <<cacheVars, writeGen, current, queueVars, cut, tables, disk,
                 resets, keeps, repeats>>

\* ON CONFLICT(request_id) DO NOTHING, and then no increment either.
New(s) == s \ rows

SaveUsageBatch(f) ==
  /\ step[f] = "save" /\ ~cut
  /\ rows' = rows \cup saving
  /\ rollup' = [r \in Records |-> rollup[r] + IF r \in New(saving) THEN 1 ELSE 0]
  /\ Commits /\ To(f, "flush")
  /\ UNCHANGED <<writeGen, current, queueVars, cut, lockVars, pruned, disk, failed, bounds>>

\* usageCache.flush and usageSeq.Add; a persister then leaves usagePersistMu.
FlushBegins(f) ==
  /\ step[f] = "flush" /\ InvalidateAll(f) /\ To(f, "flushing")
  /\ UNCHANGED <<writeGen, current, queueVars, cut, lockVars, tables, disk, failed, bounds>>

FlushEnds(f) ==
  /\ step[f] = "flushing" /\ NextGeneration(f)
  /\ IF f \in Persisters THEN To(f, After(f)) /\ Unlock ELSE To(f, "idle") /\ UNCHANGED lockVars
  /\ UNCHANGED <<writeGen, current, queueVars, cut, tables, disk, failed, bounds>>
-----------------------------------------------------------------------------
(* resetUsage: the writer's mutex, then usagePersistMu.                    *)

ResetBegins ==
  /\ step[Reset] = "idle" /\ resets < MaxResets /\ resets' = resets + 1 /\ To(Reset, "lock")
  /\ UNCHANGED <<cacheVars, writeGen, current, queueVars, cut, lockVars, tables, disk, failed,
                 faults, keeps, repeats>>

ResetLocks ==
  /\ step[Reset] = "lock" /\ lock = {} /\ lock' = {Reset} /\ To(Reset, "clear")
  /\ UNCHANGED <<cacheVars, writeGen, current, queueVars, cut, saving, left, tables, disk,
                 failed, bounds>>

\* Planted mistakes: the early return leaves usagePersistMu locked; the queue is
\* drained before the tables are cleared.
ClearFailsLocked ==
  /\ step[Reset] = "clear" /\ To(Reset, "idle")
  /\ UNCHANGED <<cacheVars, writeGen, current, queueVars, cut, lockVars, tables, disk, failed,
                 bounds>>
ClearFailsDrained ==
  /\ step[Reset] = "clear" /\ lock' = {} /\ To(Reset, "idle")
  /\ queue' = <<>> /\ retained' = retained - Bytes(ToSet(queue))
  /\ UNCHANGED <<cacheVars, writeGen, current, batch, closed, cut, saving, left, tables, disk,
                 failed, bounds>>

\* An error, or the rollup is being filled: nothing has changed.
ClearFails ==
  /\ step[Reset] = "clear" /\ lock' = {} /\ To(Reset, "idle")
  /\ UNCHANGED <<cacheVars, writeGen, current, queueVars, cut, saving, left, tables, disk,
                 failed, bounds>>

ClearUsage ==
  /\ step[Reset] = "clear" /\ Commits /\ To(Reset, "drain")
  /\ rows' = {} /\ rollup' = [r \in Records |-> 0] /\ pruned' = {}
  /\ UNCHANGED <<writeGen, current, queueVars, cut, lockVars, disk, failed, bounds>>

\* Planted mistake: the bytes of the drained records stay reserved.
DrainKeepsBytes == queue' = <<>> /\ retained' = retained
DrainUsageQueue == queue' = <<>> /\ retained' = retained - Bytes(ToSet(queue))

\* drainUsageQueueFrom, the next generation, and both mutexes are left.
NewGeneration ==
  /\ step[Reset] = "drain" /\ DrainUsageQueue
  /\ current' = current + 1 /\ lock' = {} /\ To(Reset, "flush")
  /\ UNCHANGED <<cacheVars, writeGen, batch, closed, cut, saving, left, tables, disk, failed,
                 bounds>>
-----------------------------------------------------------------------------
(* usageRetention: batches of old rows, then unreferenced attachments.     *)

Keeping == ~closed /\ step[Keeper] = "idle" /\ keeps < MaxKeeps

\* PruneLogBatch; the rollup keeps counting what it deletes.
PruneLogBatch ==
  /\ Keeping /\ keeps' = keeps + 1 /\ lock = {}
  /\ \E r \in rows : rows' = rows \ {r} /\ pruned' = pruned \cup {r}
  /\ Commits /\ To(Keeper, "flush")
  /\ UNCHANGED <<writeGen, current, queueVars, cut, lockVars, rollup, disk, failed, faults,
                 resets, repeats>>

\* Planted mistake: the sweep does not wait for who is saving records.
SweepBlindly == TRUE
SweepAlone == lock = {}

\* sweepAssets reads which attachments are referenced, then removes the others.
SweepReads ==
  /\ Keeping /\ keeps' = keeps + 1 /\ SweepAlone
  /\ lock' = lock \cup {Keeper} /\ doomed' = files \ Attachments(rows) /\ To(Keeper, "sweep")
  /\ UNCHANGED <<cacheVars, writeGen, current, queueVars, cut, saving, left, tables, files,
                 failed, faults, resets, repeats>>

SweepRemoves ==
  /\ step[Keeper] = "sweep" /\ files' = files \ doomed /\ doomed' = {}
  /\ lock' = lock \ {Keeper} /\ To(Keeper, "idle")
  /\ UNCHANGED <<cacheVars, writeGen, current, queueVars, cut, saving, left, tables, failed,
                 bounds>>
-----------------------------------------------------------------------------
(* doShutdown: retention is joined, the queue closed; later the time to     *)
(* write what is left is over.                                              *)

StopUsageWriter ==
  /\ ~closed /\ QueueFree /\ step[Keeper] \in {"absent", "idle"} /\ closed' = TRUE
  /\ UNCHANGED <<cacheVars, step, writeGen, current, queue, batch, retained, cut, lockVars,
                 tables, disk, failed, bounds>>

CutWrites ==
  /\ closed /\ ~cut /\ cut' = TRUE
  /\ UNCHANGED <<cacheVars, step, writeGen, current, queueVars, lockVars, tables, disk, failed,
                 bounds>>
-----------------------------------------------------------------------------
logVars == <<step, writeGen, current, queueVars, cut, lockVars, tables, disk, failed, bounds>>

WriterStep == Take \/ CloseBatch \/ GiveBack \/ WriterEnds
PersistStep(f) == Acquire(f) \/ SaveFails(f) \/ SaveUsageBatch(f)
FlushStep(f) == FlushBegins(f) \/ FlushEnds(f)
ResetStep == ResetLocks \/ ClearFails \/ ClearUsage \/ NewGeneration

Next == \/ \E r \in Records : Prepare(r) \/ Enqueue(r) \/ Settle(r)
        \/ WriterStep
        \/ \E f \in Flushers : PersistStep(f) \/ FlushStep(f)
        \/ ResetBegins \/ ResetStep
        \/ PruneLogBatch \/ SweepReads \/ SweepRemoves
        \/ StopUsageWriter \/ CutWrites
        \/ \E r \in Readers : (Begin(r) \/ Read(r)) /\ UNCHANGED logVars
        \/ Expire /\ UNCHANGED logVars

Spec == Init /\ [][Next]_vars

\* Some goroutine that can go on does.  Nobody has to settle, read, reset or
\* stop, and what can repeat is bounded, so no mutex needs to be fair.
Running == \/ \E r \in Records : Enqueue(r)
           \/ WriterStep \/ ResetStep \/ SweepRemoves
           \/ \E f \in Flushers : PersistStep(f) \/ FlushStep(f)
           \/ \E r \in Readers : Read(r) /\ UNCHANGED logVars
Fairness == WF_vars(Running)
FairSpec == Spec /\ Fairness
-----------------------------------------------------------------------------
(* Properties.                                                             *)

TypeOK ==
  /\ CacheTypeOK
  /\ step \in [Flushers -> {"absent", "idle", "ready", "lock", "save", "flush", "flushing",
                            "collect", "giveback", "gone", "clear", "drain", "sweep", "done"}]
  /\ current \in Nat /\ writeGen \in [Records -> 0..current] /\ queue \in Seq(Requests)
  /\ batch \subseteq Requests /\ retained \in 0..Budget
  /\ saving \subseteq Records /\ left \in 0..Attempts
  /\ rows \subseteq Records /\ pruned \subseteq Records /\ failed \subseteq Records
  /\ rollup \in [Records -> Nat] /\ lock \subseteq Flushers

\* The budget of the queue is what its records and the writer's batch hold, and
\* no path of admission, reset or failure leaks any of it.
BudgetExact == TypeOK /\ retained = Bytes(ToSet(queue) \cup batch)

\* After a reset nothing of an earlier generation is in the tables or comes
\* back into them, whichever of queue, batch or request held it meanwhile; and
\* what the rollup counts it counts once, a settlement that is delivered again
\* included, unless retention had deleted its row in between.
ClearedStaysCleared ==
  \A r \in Records : /\ rollup[r] > 0 => writeGen[r] = current
                     /\ rollup[r] > 1 => r \in pruned
                     /\ r \in rows => rollup[r] > 0

Held == ToSet(queue) \cup batch

\* A record is never lost without a trace: once it has been handed over and
\* nobody holds it, it is counted, reported as failed or older than a reset (one
\* that has cleared the tables and not yet counted its generation included).
NoSilentLoss ==
  \A r \in Records : step[r] = "done" /\ r \notin Held =>
    \/ rollup[r] > 0 \/ r \in failed \/ writeGen[r] < current
    \/ step[Reset] = "drain"

\* No stored record's attachment is removed by a sweep that looked before it was
\* stored.
AttachmentsKept == Attachments(rows) \subseteq files

Quiet == /\ \A f \in Flushers \ {Writer} : step[f] \in {"absent", "idle", "done"}
         /\ step[Writer] = (IF closed THEN "gone" ELSE "idle") /\ queue = <<>>
         /\ \A r \in Readers : at[r] \in {"absent", "idle", "served"}

\* Every record handed over is dealt with, every reset, every round of retention
\* and the closing of the queue comes to an end and every request is answered:
\* the two mutexes are never waited for in a circle, nor left locked on a path
\* that fails.
Settles == []<>Quiet
=============================================================================
