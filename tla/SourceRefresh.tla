---------------------------- MODULE SourceRefresh ----------------------------
(***************************************************************************)
(* Model sources, their catalog of models and the background refresh that  *)
(* keeps the catalog (server/refresh_jobs.go, source_service.go,           *)
(* source_protocol.go, model_refresh.go, storage/sources.go).              *)
(*                                                                         *)
(* Administrators and the agent's tools save, switch and delete sources;   *)
(* a job per source reads the row, asks the upstream for its models and    *)
(* commits them if the row is still the one it read.  Saves made during a  *)
(* job are coalesced into one more round of it.                            *)
(*                                                                         *)
(* A configuration is the number of the edit that saved it; model rows are *)
(* the number of the configuration they were derived from.                 *)
(***************************************************************************)
EXTENDS Naturals, FiniteSets

CONSTANTS Sources,       \* model sources
          Editors,       \* requests and tool calls that edit sources
          Slots,         \* sourceRefreshConcurrency
          MaxEdits,      \* bound: edits
          Casts          \* bound: who takes part, with how many edits, refreshes asked
                         \* for (clicks), callers that give up (cancels) and jobs whose
                         \* budget runs out (timeouts)

ASSUME RefreshAssumption ==
  /\ IsFiniteSet(Sources) /\ Sources # {} /\ Sources \cap Editors = {}
  /\ Slots \in Nat \ {0} /\ MaxEdits \in Nat
  /\ \A c \in Casts : /\ c.who \subseteq Sources \cup Editors /\ c.edits \in 0..MaxEdits
                     /\ c.clicks \in Nat /\ c.cancels \in Nat /\ c.timeouts \in Nat

VARIABLES row,           \* model_sources: the row of a source, or Gone
          models,        \* models: configurations the rows of a source came from
          running, pending, last, sem, wg,    \* fields of sourceRefreshJobs
          at,            \* what each job and each editor does next
          on,            \* the source it works on
          snap,          \* the row it has read
          auto,          \* item.AutoFetchModels of an editor
          outcome,       \* err of the job's last round
          caller,        \* the job runs on a caller's context
          over,          \* the job's own context has ended: its caller gave up, or
                         \* sourceRefreshBudget is used up
          owed,          \* a caller of refreshSourceSync has yet to invalidate
          life,          \* lifecycle of the server
          stale,         \* history: a change of the store no Invalidate followed
          cutOff,        \* history: a handler that failed after such a change returned
                         \* before its own: the evidence could not be refreshed, or the
                         \* source just created could not be read again
          wanted,        \* history: configuration an administrator's save promised to fetch
          tried,         \* history: newest configuration a round was completed for
          dropped,       \* history: the context of the job of that save ended, or another
                         \* editor took the note of it back, and no round began since
          edits,         \* edits so far
          clicks, cancels, timeouts    \* what else is still to come

jobVars == <<running, pending, last, sem, wg>>
handVars == <<on, snap, auto>>
ctxVars == <<caller, over, owed>>
history == <<stale, cutOff, wanted, tried, dropped>>
bounds == <<edits, clicks, cancels, timeouts>>
vars == <<row, models, jobVars, at, handVars, outcome, ctxVars, life, history, bounds>>

Workers == Sources \cup Editors
Gone == [cfg |-> 0, auto |-> FALSE, rev |-> 0]
NoModels == [fetched |-> 0, manual |-> 0]
Up == life = "up"
Holding == {"top", "read", "fetch", "sync", "evidence", "publish", "check", "record", "leave"}
\* j.mu is held only across the lookup of run; every other section is one step.
MutexFree == \A s \in Sources : at[s] # "record"
\* The context of a job: its caller's or the server's, with a budget of its own.
Cancelled(w) == w \in Sources /\ (~Up \/ over[w])
Idle(w) == at[w] \in {"idle", "absent"}
Edit == /\ edits < MaxEdits /\ edits' = edits + 1
To(w, step) == at' = [at EXCEPT ![w] = step]

Init == /\ row = [s \in Sources |-> Gone] /\ models = [s \in Sources |-> NoModels]
        /\ running = [s \in Sources |-> FALSE] /\ pending = [s \in Sources |-> FALSE]
        /\ last = [s \in Sources |-> "none"] /\ sem = 0 /\ wg = 0
        /\ on = [w \in Workers |-> IF w \in Sources THEN w ELSE CHOOSE s \in Sources : TRUE]
        /\ snap = [w \in Workers |-> Gone] /\ auto = [e \in Editors |-> FALSE]
        /\ outcome = [s \in Sources |-> "none"]
        /\ caller = [s \in Sources |-> FALSE] /\ over = [s \in Sources |-> FALSE]
        /\ owed = [s \in Sources |-> FALSE] /\ life = "up"
        /\ stale = FALSE /\ cutOff = FALSE
        /\ wanted = [s \in Sources |-> 0] /\ tried = [s \in Sources |-> 0]
        /\ dropped = [s \in Sources |-> FALSE]
        /\ \E c \in Casts : /\ at = [w \in Workers |-> IF w \in c.who THEN "idle" ELSE "absent"]
                             /\ edits = MaxEdits - c.edits /\ clicks = c.clicks
                             /\ cancels = c.cancels /\ timeouts = c.timeouts
-----------------------------------------------------------------------------
(* Editing.  An administrator's handler and a tool's share saveSourceChanges; *)
(* only the administrator's goes on to synchronise or launch a refresh.        *)

\* A request admitted before the shutdown may still write while the server stops.
Free(e, s) == /\ at[e] = "idle" /\ at[s] # "absent" /\ life # "closed"
              /\ Edit /\ on' = [on EXCEPT ![e] = s]
Saved(s, a) == [cfg |-> edits + 1, auto |-> a, rev |-> 0]

\* SaveBoundSource in adminUpsertSource: the row alone.
AdminSave(e, s, a) ==
  /\ Free(e, s)
  /\ row' = [row EXCEPT ![s] = Saved(s, a)] /\ stale' = TRUE
  /\ wanted' = [wanted EXCEPT ![s] = IF a THEN edits + 1 ELSE 0]
  /\ dropped' = [dropped EXCEPT ![s] = over[s]]
  /\ auto' = [auto EXCEPT ![e] = a] /\ To(e, "note")
  /\ UNCHANGED <<models, jobVars, snap, outcome, ctxVars, life, cutOff, tried, clicks, cancels,
                 timeouts>>

\* SaveBoundSource in the create and update tools: with SyncManualModels the
\* model rows are replaced in the same transaction.  A creation only inserts; an
\* update inserts again what was deleted since the tool looked the source up.
ToolSave(e, s, a, manual, isCreate) ==
  /\ Free(e, s) /\ (isCreate => row[s] = Gone)
  /\ row' = [row EXCEPT ![s] = Saved(s, a)] /\ stale' = TRUE
  /\ models' = IF manual THEN [models EXCEPT ![s] = [fetched |-> 0, manual |-> edits + 1]]
                ELSE models
  /\ wanted' = [wanted EXCEPT ![s] = 0]
  /\ auto' = [auto EXCEPT ![e] = a]
  /\ To(e, IF isCreate THEN IF manual THEN "noteNewManual" ELSE "noteNew"
           ELSE IF manual THEN "noteManual" ELSE "noteTool")
  /\ UNCHANGED <<jobVars, snap, outcome, ctxVars, life, cutOff, tried, dropped, clicks, cancels,
                 timeouts>>

\* The notes of saves, and what comes after each.
Notes == {"note", "noteTool", "noteManual", "noteNew", "noteNewManual"}
Noted(e) == /\ at[e] \in Notes
            /\ To(e, CASE at[e] = "note" -> "invalidate" [] at[e] = "noteTool" -> "last"
                         [] at[e] = "noteManual" -> "evidence" [] at[e] = "noteNew" -> "reread"
                         [] at[e] = "noteNewManual" -> "rereadManual")

\* Planted mistake: a save during a job is forgotten.
NoteNothing(e) ==
  /\ MutexFree /\ Noted(e)
  /\ UNCHANGED <<row, models, jobVars, handVars, outcome, ctxVars, life, history, bounds>>

\* A save noted for this source is noted no longer.
Drops(s) == dropped' = [dropped EXCEPT ![s] = @ \/ (pending[s] /\ ~pending'[s])]

\* noteSourceSaved, deferred to the return of saveSourceChanges.
NoteSaved(e) ==
  LET s == on[e] IN
  /\ MutexFree /\ Noted(e)
  /\ pending' = IF running[s] THEN [pending EXCEPT ![s] = auto[e]] ELSE pending
  /\ Drops(s)
  /\ UNCHANGED <<row, models, running, last, sem, wg, handVars, outcome, ctxVars, life, stale,
                 cutOff, wanted, tried, bounds>>

\* requireSource after a creation: when the source cannot be read again, its context
\* having ended or the source being gone, the tool returns without an invalidation.
RequireSource(e) ==
  /\ at[e] \in {"reread", "rereadManual"}
  /\ \E ok \in {b \in BOOLEAN : b => row[on[e]] # Gone} :
       /\ To(e, IF ~ok THEN "idle" ELSE IF at[e] = "rereadManual" THEN "evidence" ELSE "last")
       /\ cutOff' = (cutOff \/ (stale /\ ~ok))
  /\ UNCHANGED <<row, models, jobVars, handVars, outcome, ctxVars, life, stale, wanted, tried,
                 dropped, bounds>>

\* invalidateRouteCache, in the middle or at the end of a handler.
Invalidates(e) ==
  /\ at[e] \in {"invalidate", "last"}
  /\ stale' = FALSE /\ cutOff' = FALSE
  /\ To(e, IF at[e] = "last" THEN "idle" ELSE IF auto[e] THEN "launch" ELSE "read")
  /\ UNCHANGED <<row, models, jobVars, handVars, outcome, ctxVars, life, wanted, tried, dropped, bounds>>

\* adminSetSourceEnabled: updated_at changes with the switch.
Switch(e, s) ==
  /\ Free(e, s) /\ row[s] # Gone
  /\ row' = [row EXCEPT ![s].rev = @ + 1] /\ stale' = TRUE /\ To(e, "last")
  /\ UNCHANGED <<models, jobVars, snap, auto, outcome, ctxVars, life, cutOff, wanted, tried,
                 dropped, clicks, cancels,
                 timeouts>>

\* deleteSourceCascade: the transaction, then forget, then the route cache.
Delete(e, s) ==
  /\ Free(e, s) /\ row[s] # Gone
  /\ row' = [row EXCEPT ![s] = Gone] /\ models' = [models EXCEPT ![s] = NoModels]
  /\ stale' = TRUE /\ wanted' = [wanted EXCEPT ![s] = 0] /\ To(e, "forget")
  /\ UNCHANGED <<jobVars, snap, auto, outcome, ctxVars, life, cutOff, tried, dropped, clicks, cancels,
                 timeouts>>

Forget(e) ==
  /\ at[e] = "forget" /\ MutexFree
  /\ pending' = [pending EXCEPT ![on[e]] = FALSE] /\ Drops(on[e])
  /\ last' = [last EXCEPT ![on[e]] = "none"] /\ To(e, "last")
  /\ UNCHANGED <<row, models, running, sem, wg, handVars, outcome, ctxVars, life, stale,
                 cutOff, wanted, tried, bounds>>
-----------------------------------------------------------------------------
(* Registration of jobs.                                                   *)

CanBegin(s) == MutexFree /\ Up /\ ~running[s]
Register(s, onCaller) ==
  /\ running' = [running EXCEPT ![s] = TRUE] /\ wg' = wg + 1
  /\ caller' = [caller EXCEPT ![s] = onCaller] /\ over' = [over EXCEPT ![s] = FALSE]
  /\ dropped' = [dropped EXCEPT ![s] = FALSE]

\* launchSourceRefresh at the end of adminUpsertSource: begin, or nothing.
Launch(e) ==
  LET s == on[e] IN
  /\ at[e] = "launch" /\ MutexFree
  /\ IF CanBegin(s) THEN Register(s, FALSE) /\ at' = [at EXCEPT ![e] = "idle", ![s] = "queued"]
     ELSE To(e, "idle") /\ UNCHANGED <<running, wg, caller, over, dropped>>
  /\ UNCHANGED <<row, models, pending, last, sem, handVars, outcome, owed, life, stale, cutOff,
                 wanted, tried, bounds>>

\* adminFetchSource finds the source and launches; a refused click does nothing.
Click(s) ==
  /\ row[s] # Gone /\ CanBegin(s) /\ clicks > 0
  /\ Register(s, FALSE) /\ clicks' = clicks - 1 /\ To(s, "queued")
  /\ UNCHANGED <<row, models, pending, last, sem, handVars, outcome, owed, life, stale, cutOff,
                 wanted, tried, edits, cancels, timeouts>>

\* refresh_model_source runs the job in the tool call; the tool invalidates
\* once refreshSourceSync returned, even when it was refused.
CallerRefresh(s) ==
  /\ row[s] # Gone /\ life # "closed" /\ clicks > 0 /\ clicks' = clicks - 1
  /\ MutexFree
  /\ IF CanBegin(s)
     THEN Register(s, TRUE) /\ To(s, "queued") /\ UNCHANGED owed
     ELSE /\ owed' = [owed EXCEPT ![s] = TRUE]
          /\ UNCHANGED <<running, wg, caller, over, dropped, at>>
  /\ UNCHANGED <<row, models, pending, last, sem, handVars, outcome, life, stale, cutOff, wanted,
                 tried, edits, cancels, timeouts>>

\* The context of a job ends before the server's.
ContextEnds(s) ==
  /\ ~Idle(s) /\ ~over[s] /\ over' = [over EXCEPT ![s] = TRUE]
  /\ dropped' = [dropped EXCEPT ![s] = TRUE]
  /\ UNCHANGED <<row, models, jobVars, at, handVars, outcome, caller, owed, life, stale,
                 cutOff, wanted, tried, edits, clicks>>

CallerLeaves(s) ==
  /\ caller[s] /\ cancels > 0 /\ cancels' = cancels - 1 /\ UNCHANGED timeouts
  /\ ContextEnds(s)

\* sourceRefreshBudget runs from the start of the job, its wait for a slot and all
\* its rounds included.
BudgetEnds(s) ==
  /\ timeouts > 0 /\ timeouts' = timeouts - 1 /\ UNCHANGED cancels
  /\ ContextEnds(s)

CallerInvalidates(s) ==
  /\ owed[s] /\ owed' = [owed EXCEPT ![s] = FALSE] /\ stale' = FALSE /\ cutOff' = FALSE
  /\ UNCHANGED <<row, models, jobVars, at, handVars, outcome, caller, over, life,
                 wanted, tried, dropped, bounds>>
-----------------------------------------------------------------------------
(* refreshSourceByID, run by a job's round or inside adminUpsertSource.    *)

\* Planted mistake: the handler does not invalidate after its synchronisation.
ReturnsSilently(w, ok) ==
  /\ To(w, IF w \notin Sources THEN "idle" ELSE IF ok THEN "publish" ELSE "check")
  /\ outcome' = IF w \in Sources THEN [outcome EXCEPT ![w] = IF ok THEN "ok" ELSE "error"]
                ELSE outcome
  /\ tried' = tried /\ snap' = [snap EXCEPT ![w] = Gone]

\* It returns: a job publishes a success before it looks at pending, the
\* handler invalidates once more or gives up with a log line.  A round whose
\* context ended has tried nothing.
Returns(w, ok) ==
  /\ To(w, IF w \in Sources THEN IF ok THEN "publish" ELSE "check"
           ELSE IF ok THEN "last" ELSE "idle")
  /\ outcome' = IF w \in Sources THEN [outcome EXCEPT ![w] = IF ok THEN "ok" ELSE "error"]
                ELSE outcome
  /\ tried' = IF Cancelled(w) \/ snap[w].cfg <= tried[on[w]] THEN tried
              ELSE [tried EXCEPT ![on[w]] = snap[w].cfg]
  /\ snap' = [snap EXCEPT ![w] = Gone]

ReadSource(w) ==
  LET s == on[w] IN
  /\ at[w] = "read"
  /\ IF Cancelled(w) \/ row[s] = Gone THEN Returns(w, FALSE)
     ELSE /\ snap' = [snap EXCEPT ![w] = row[s]]
          /\ To(w, IF row[s].auto THEN "fetch" ELSE "sync")
          /\ UNCHANGED <<outcome, tried>>
  /\ UNCHANGED <<row, models, jobVars, on, auto, ctxVars, life, stale, cutOff, wanted,
                 dropped, bounds>>

\* fetchSourceModelsByKey fails, returns nothing, or its context ends.
FetchFails(w) ==
  /\ at[w] = "fetch" /\ Returns(w, FALSE)
  /\ UNCHANGED <<row, models, jobVars, on, auto, ctxVars, life, stale, cutOff, wanted,
                 dropped, bounds>>

\* Planted mistake: the commit asks only whether the source is still there.
UnchangedIfPresent(w) == row[on[w]] # Gone
\* reflect.DeepEqual(original, current) in the transaction of CommitSourceRefresh.
Unchanged(w) == row[on[w]] = snap[w]

CommitSourceRefresh(w) ==
  LET s == on[w] IN
  /\ at[w] = "fetch" /\ ~Cancelled(w)
  /\ IF Unchanged(w)
     THEN /\ row' = [row EXCEPT ![s].rev = @ + 1]
          /\ models' = [models EXCEPT ![s].fetched = snap[w].cfg]
          /\ stale' = TRUE /\ To(w, "evidence") /\ UNCHANGED <<outcome, tried, snap>>
     ELSE Returns(w, FALSE) /\ UNCHANGED <<row, models, stale>>
  /\ UNCHANGED <<jobVars, on, auto, ctxVars, life, cutOff, wanted, dropped, bounds>>

\* SyncManualSourceModels: every row not in the manual set goes.
SyncManualSourceModels(w) ==
  LET s == on[w] IN
  /\ at[w] = "sync"
  /\ IF Cancelled(w) THEN Returns(w, FALSE) /\ UNCHANGED <<models, stale>>
     ELSE /\ models' = [models EXCEPT ![s] = [fetched |-> 0, manual |-> snap[w].cfg]]
          /\ stale' = TRUE /\ To(w, "evidence") /\ UNCHANGED <<outcome, tried, snap>>
  /\ UNCHANGED <<row, jobVars, on, auto, ctxVars, life, cutOff, wanted, dropped, bounds>>

\* refreshModelProtocolEvidence, after the models were committed.
RefreshEvidence(w) ==
  /\ at[w] = "evidence"
  /\ \E ok \in {b \in BOOLEAN : b => ~Cancelled(w)} :
       Returns(w, ok) /\ cutOff' = (cutOff \/ (stale /\ ~ok))
  /\ UNCHANGED <<row, models, jobVars, on, auto, ctxVars, life, stale, wanted, dropped, bounds>>
-----------------------------------------------------------------------------
(* sourceRefreshJobs.run.                                                  *)

Acquire(s) ==
  /\ at[s] = "queued" /\ sem < Slots /\ sem' = sem + 1 /\ To(s, "top")
  /\ UNCHANGED <<row, models, running, pending, last, wg, handVars, outcome, ctxVars, life,
                 history, bounds>>

\* Planted mistake: a job whose context ends in the queue is never released.
LeaveQueueOwning(s) ==
  /\ at[s] = "queued" /\ Cancelled(s) /\ To(s, "gone")
  /\ UNCHANGED <<row, models, jobVars, handVars, outcome, ctxVars, life, history, bounds>>

LeaveQueue(s) ==
  /\ at[s] = "queued" /\ Cancelled(s) /\ To(s, "quit")
  /\ UNCHANGED <<row, models, jobVars, handVars, outcome, ctxVars, life, history, bounds>>

\* The top of the loop: the round about to start covers every save noted so far.
StartRound(s) ==
  /\ at[s] = "top" /\ MutexFree
  /\ pending' = [pending EXCEPT ![s] = FALSE] /\ To(s, "read")
  /\ dropped' = [dropped EXCEPT ![s] = over[s]]
  /\ UNCHANGED <<row, models, running, last, sem, wg, handVars, outcome, ctxVars, life,
                 stale, cutOff, wanted, tried, bounds>>

Publish(s) ==
  /\ at[s] = "publish" /\ stale' = FALSE /\ cutOff' = FALSE /\ To(s, "check")
  /\ UNCHANGED <<row, models, jobVars, handVars, outcome, ctxVars, life, wanted, tried, dropped, bounds>>

\* Planted mistake: the result is recorded without looking the source up.
EndRoundBlindly(s) ==
  /\ at[s] = "check" /\ MutexFree
  /\ To(s, IF pending[s] /\ ~Cancelled(s) THEN "top" ELSE "record")
  /\ UNCHANGED <<row, models, jobVars, handVars, outcome, ctxVars, life, history, bounds>>

\* Another round for a save noted meanwhile, else look the source up; the
\* mutex is kept until the result is recorded.
EndRound(s) ==
  /\ at[s] = "check" /\ MutexFree
  /\ To(s, IF pending[s] /\ ~Cancelled(s) THEN "top"
           ELSE IF row[s] # Gone THEN "record" ELSE "leave")
  /\ UNCHANGED <<row, models, jobVars, handVars, outcome, ctxVars, life, history, bounds>>

Record(s) ==
  /\ at[s] = "record" /\ last' = [last EXCEPT ![s] = outcome[s]] /\ To(s, "leave")
  /\ UNCHANGED <<row, models, running, pending, sem, wg, handVars, outcome, ctxVars, life,
                 history, bounds>>

\* Planted mistake: the source is released although a follow-up was started.
LeaveReleasesFirst(s) ==
  /\ at[s] \in {"leave", "quit"} /\ MutexFree
  /\ sem' = IF at[s] = "leave" THEN sem - 1 ELSE sem
  /\ running' = [running EXCEPT ![s] = FALSE] /\ pending' = [pending EXCEPT ![s] = FALSE]
  /\ IF pending[s] /\ Up THEN wg' = wg /\ To(s, "queued") ELSE wg' = wg - 1 /\ To(s, "idle")
  /\ owed' = [owed EXCEPT ![s] = @ \/ caller[s]]
  /\ caller' = [caller EXCEPT ![s] = FALSE] /\ over' = [over EXCEPT ![s] = FALSE]
  /\ outcome' = [outcome EXCEPT ![s] = "none"]
  /\ UNCHANGED <<row, models, last, handVars, life, history, bounds>>

\* The deferred functions: the slot, then a follow-up on the server's context
\* for a save noted since, or the release of the source; then wg.Done.
Release(s) == sem' = IF at[s] = "leave" THEN sem - 1 ELSE sem
Leave(s) ==
  /\ at[s] \in {"leave", "quit"} /\ MutexFree /\ Release(s)
  /\ IF pending[s] /\ Up
     THEN /\ wg' = (wg + 1) - 1 /\ To(s, "queued")
          /\ dropped' = [dropped EXCEPT ![s] = FALSE] /\ UNCHANGED <<running, pending>>
     ELSE /\ running' = [running EXCEPT ![s] = FALSE]
          /\ pending' = [pending EXCEPT ![s] = FALSE]
          /\ wg' = wg - 1 /\ To(s, "idle") /\ UNCHANGED dropped
  /\ owed' = [owed EXCEPT ![s] = @ \/ caller[s]]
  /\ caller' = [caller EXCEPT ![s] = FALSE] /\ over' = [over EXCEPT ![s] = FALSE]
  /\ outcome' = [outcome EXCEPT ![s] = "none"]
  /\ UNCHANGED <<row, models, last, handVars, life, stale, cutOff, wanted, tried, bounds>>
-----------------------------------------------------------------------------
(* doShutdown, as far as it concerns sources.                              *)

Stop == /\ Up /\ life' = "stopping"
        /\ UNCHANGED <<row, models, jobVars, at, handVars, outcome, ctxVars, history, bounds>>

\* httpRequests.wait and sourceRefreshJobs.wait have returned; the store closes.
Joined == wg = 0 /\ MutexFree
Close == /\ life = "stopping" /\ Joined
         /\ \A e \in Editors : Idle(e)
         /\ \A s \in Sources : ~owed[s]
         /\ life' = "closed"
         /\ UNCHANGED <<row, models, jobVars, at, handVars, outcome, ctxVars, history, bounds>>
-----------------------------------------------------------------------------
EditorStep(e) == \/ NoteSaved(e) \/ RequireSource(e) \/ Invalidates(e)
                 \/ Forget(e) \/ Launch(e)
RefreshStep(w) == \/ ReadSource(w) \/ FetchFails(w) \/ CommitSourceRefresh(w)
                  \/ SyncManualSourceModels(w) \/ RefreshEvidence(w)
RoundStep(s) == StartRound(s) \/ Publish(s) \/ EndRound(s) \/ Record(s) \/ Leave(s)
JobStep(s) == Acquire(s) \/ LeaveQueue(s) \/ RoundStep(s)

Next == \/ \E e \in Editors, s \in Sources :
             \/ \E a \in BOOLEAN : AdminSave(e, s, a)
             \/ \E a, manual, isCreate \in BOOLEAN : ToolSave(e, s, a, manual, isCreate)
             \/ Switch(e, s) \/ Delete(e, s)
        \/ \E e \in Editors : EditorStep(e)
        \/ \E w \in Workers : RefreshStep(w)
        \/ \E s \in Sources :
             \/ JobStep(s) \/ Click(s) \/ CallerRefresh(s)
             \/ CallerLeaves(s) \/ BudgetEnds(s) \/ CallerInvalidates(s)
        \/ Stop \/ Close

Spec == Init /\ [][Next]_vars

\* Handlers and goroutines run on; a round ends within sourceRefreshBudget, a
\* slot is handed to some waiter.  Nobody has to edit, click, leave or stop.
Fairness == /\ \A e \in Editors : WF_vars(EditorStep(e))
            /\ \A w \in Workers : WF_vars(RefreshStep(w))
            /\ \A s \in Sources : /\ WF_vars(RoundStep(s)) /\ SF_vars(Acquire(s))
                                   /\ WF_vars(LeaveQueue(s))
                                   /\ WF_vars(CallerInvalidates(s))
            /\ WF_vars(Close)
FairSpec == Spec /\ Fairness
-----------------------------------------------------------------------------
(* Properties.                                                             *)

Steps == Holding \cup Notes \cup {"absent", "idle", "reread", "rereadManual", "invalidate",
                                   "launch", "last", "forget", "queued", "quit"}
Configs == 0..MaxEdits
Rows == [cfg : Configs, auto : BOOLEAN, rev : Nat]

\* Types, and counters within their capacity: the semaphore's slots and the
\* WaitGroup, which Go would panic on below zero.
TypeOK ==
  /\ row \in [Sources -> Rows]
  /\ models \in [Sources -> [fetched : Configs, manual : Configs]]
  /\ running \in [Sources -> BOOLEAN] /\ pending \in [Sources -> BOOLEAN]
  /\ last \in [Sources -> {"none", "ok", "error"}]
  /\ sem \in 0..Slots /\ wg \in 0..Cardinality(Sources)
  /\ at \in [Workers -> Steps] /\ on \in [Workers -> Sources]
  /\ snap \in [Workers -> Rows] /\ auto \in [Editors -> BOOLEAN]
  /\ outcome \in [Sources -> {"none", "ok", "error"}]
  /\ caller \in [Sources -> BOOLEAN] /\ over \in [Sources -> BOOLEAN]
  /\ owed \in [Sources -> BOOLEAN] /\ life \in {"up", "stopping", "closed"}
  /\ stale \in BOOLEAN /\ cutOff \in BOOLEAN
  /\ wanted \in [Sources -> Configs] /\ tried \in [Sources -> Configs]
  /\ dropped \in [Sources -> BOOLEAN]
  /\ edits \in 0..MaxEdits /\ clicks \in Nat /\ cancels \in Nat /\ timeouts \in Nat

\* One job per source: a source is registered exactly while a job of it lives,
\* the follow-up of a job included; the WaitGroup counts these jobs and the
\* semaphore those past it; a save is pending only at a registered source.
JobsOwned ==
  /\ TypeOK
  /\ \A s \in Sources : running[s] <=> ~Idle(s)
  /\ \A s \in Sources : pending[s] => running[s]
  /\ wg = Cardinality({s \in Sources : running[s]})
  /\ sem = Cardinality({s \in Sources : at[s] \in Holding})

\* Discovered models are committed only by a refresh that read the very row that
\* stands when they are committed: never after the source was saved again, switched
\* or deleted meanwhile.
FetchedForThisRow ==
  [][\A s \in Sources :
       models'[s].fetched \notin {0, models[s].fetched} =>
         \E w \in Workers : /\ at[w] = "fetch" /\ on[w] = s /\ row[s].auto
                            /\ snap[w] = row[s] /\ models'[s].fetched = row[s].cfg]_vars

\* While there is no source of an id, no result of its last job is kept for it, unless
\* the deletion has yet to forget it, however job and deletion interleave.
NoGhostState ==
  \A s \in Sources : last[s] # "none" /\ row[s] = Gone =>
    \E e \in Editors : at[e] = "forget" /\ on[e] = s

Quiet == /\ \A w \in Workers : Idle(w)
         /\ \A s \in Sources : ~owed[s]

\* Once nothing is under way, the published routes cover every change of the
\* store, unless a handler failed between its commit and its invalidation and
\* returned: the protocol evidence could not be refreshed, or the source the create
\* tool had committed could not be read again.
RoutesCurrent == Quiet /\ stale => cutOff

\* A configuration saved with automatic fetching has been tried, by a round whose
\* context lasted, before the source falls quiet: by the job of the save, or by the job
\* that was running and took the save over (noteSaved, the follow-up).  Excused are a
\* save that a job had taken over, or was started for, when its budget ran out or its
\* caller gave up, and one whose note an editor took back that had committed earlier
\* and noted later; a round or a job that begins afterwards ends the excuse.
SavedIsTried ==
  Quiet /\ Up => \A s \in Sources : wanted[s] <= tried[s] \/ dropped[s]

\* "A saved configuration outlives a canceled synchronous caller."
OutlivesCaller == Quiet /\ Up => \A s \in Sources : wanted[s] <= tried[s]

\* Every job ends, a slot being free or not, and with it the refreshing flag.
JobEnds == \A s \in Sources : running[s] ~> ~running[s]
==============================================================================
