--------------------------- MODULE ServerLifecycle ----------------------------
(***************************************************************************)
(* The shutdown of the server (server/lifecycle.go, http_lifecycle.go) and *)
(* what it has to end: requests with their preparation leases, sessions,   *)
(* the job worker, a turn of the assistant, refreshes that requests leave  *)
(* behind, the periodic loops and the writer of usage records.             *)
(*                                                                         *)
(* Every call of Acquire belongs to one HTTP request; the limiter is the   *)
(* one of PrepAdmission.                                                   *)
(***************************************************************************)
EXTENDS PrepAdmission

CONSTANT Casts    \* bound: the requests that arrive and what may start

Starts == {"session", "worker", "refresh", "turn", "shutdown"}
ASSUME CastsAssumption == Casts \subseteq [requests : SUBSET Callers, starts : SUBSET Starts]

VARIABLES phase,      \* where doShutdown is
          http,       \* each request: not arrived, refused, active, over
          stopped,    \* httpRequests.stopped
          cancelled,  \* lifecycleCtx is cancelled
          sessions,   \* gatewaySessions.active: requests that are open sessions
          sessionsStopped, jobsStopped, agentClosed,
          refreshes,  \* requests whose background refresh is running
          worker, turn, loops,     \* job worker; a turn; health, catalog, retention
          records,    \* the usage record of each request
          writerClosed, writerGone,
          late, cut,  \* the 12 s deadline; the flush's 15 s
          storageSafe, storeOpen,
          may         \* bound: what may start besides the requests

limiter == vars
requestVars == <<http, stopped, cancelled>>
sessionVars == <<sessions, sessionsStopped>>
workers == <<jobsStopped, agentClosed, refreshes, worker, turn, loops>>
usage == <<records, writerClosed, writerGone>>
clocks == <<late, cut>>
store == <<storageSafe, storeOpen, may>>
serverVars == <<phase, requestVars, sessionVars, workers, usage, clocks, store>>
allVars == <<limiter, serverVars>>

Phases == <<"up", "stop", "close", "cancel", "closeAgent", "agent", "stopSessions", "sessions",
            "stopJobs", "jobs", "requests", "loops", "stopWriter", "writer", "store", "done">>
At(p) == phase = p
Then(p) == phase' = p
Active(c) == http[c] = "active"

ServerInit ==
  /\ Init /\ phase = "up"
  /\ \E cast \in Casts :
       /\ http = [c \in Callers |-> IF c \in cast.requests THEN "new" ELSE "absent"]
       /\ may = cast.starts
  /\ stopped = FALSE /\ cancelled = FALSE
  /\ sessions = {} /\ sessionsStopped = FALSE
  /\ jobsStopped = FALSE /\ agentClosed = FALSE /\ refreshes = {}
  /\ worker = "none" /\ turn = "none" /\ loops = "running"
  /\ records = [c \in Callers |-> "none"] /\ writerClosed = FALSE /\ writerGone = FALSE
  /\ late = FALSE /\ cut = FALSE /\ storageSafe = TRUE /\ storeOpen = TRUE
-----------------------------------------------------------------------------
(* Requests.                                                               *)

\* Planted mistake: the flag is not compared, as if registering were enough.
AdmitsAlways == TRUE

Admits == ~stopped

\* httpRequests.enter; a context made after the cancellation starts cancelled.
Enter(c) ==
  /\ http[c] = "new"
  /\ http' = [http EXCEPT ![c] = IF Admits THEN "active" ELSE "refused"]
  /\ UNCHANGED <<limiter, phase, stopped, cancelled, sessionVars, workers, usage, clocks, store>>

\* The AfterFunc on lifecycleCtx, or the client that goes away.
Interrupt(c) == Active(c) /\ cancelled /\ CancelContext(c) /\ UNCHANGED serverVars
LoseClient(c) == Active(c) /\ ~cancelled /\ CancelContext(c) /\ UNCHANGED serverVars

Prepare(c) == Active(c) /\ Proceed(c) /\ UNCHANGED serverVars
QueueTimer(c) == Active(c) /\ GiveUp(c) /\ UNCHANGED serverVars

\* The lease goes back before anything long begins, and again when the handler ends.
Handling(c) == Active(c) /\ pc[c] = "returned"
GiveLeaseBack(c) == Handling(c) /\ lease[c] = "live" /\ Release(c) /\ UNCHANGED serverVars
Served(c) == Handling(c) /\ lease[c] = "released"

\* gatewaySessions.begin: its context survives the request's own cancellation.
BeginSession(c) ==
  /\ "session" \in may /\ Served(c) /\ c \notin sessions /\ ~sessionsStopped /\ ~ctxDone[c] /\ records[c] = "none"
  /\ sessions' = sessions \cup {c}
  /\ UNCHANGED <<limiter, phase, requestVars, sessionsStopped, workers, usage, clocks, store>>

\* The session's clean-up records its usage and then releases it.
EndSession(c) ==
  /\ c \in sessions /\ sessions' = sessions \ {c}
  /\ records' = [records EXCEPT ![c] = IF writerClosed THEN "stored" ELSE "queued"]
  /\ UNCHANGED <<limiter, phase, requestVars, sessionsStopped, workers, writerClosed, writerGone,
                 clocks, store>>

\* startGatewayJobs, once for all; sourceRefreshJobs.begin.
StartWorker(c) ==
  /\ "worker" \in may /\ Served(c) /\ ~jobsStopped /\ worker = "none" /\ worker' = "running"
  /\ UNCHANGED <<limiter, phase, requestVars, sessionVars, jobsStopped, agentClosed, refreshes,
                 turn, loops, usage, clocks, store>>

StartRefresh(c) ==
  /\ "refresh" \in may /\ Served(c) /\ ~cancelled /\ refreshes = {} /\ refreshes' = {c}
  /\ UNCHANGED <<limiter, phase, requestVars, sessionVars, jobsStopped, agentClosed, worker,
                 turn, loops, usage, clocks, store>>

EndRefresh ==
  /\ refreshes # {} /\ refreshes' = {}
  /\ UNCHANGED <<limiter, phase, requestVars, sessionVars, jobsStopped, agentClosed, worker,
                 turn, loops, usage, clocks, store>>

StartTurn(c) ==
  /\ "turn" \in may /\ Active(c) /\ ~agentClosed /\ turn = "none" /\ turn' = "running"
  /\ UNCHANGED <<limiter, phase, requestVars, sessionVars, jobsStopped, agentClosed, refreshes,
                 worker, loops, usage, clocks, store>>

\* finishHTTPRequest: the record is enqueued, then the request leaves.
Complete(c) ==
  /\ Handling(c) /\ lease[c] # "live" /\ c \notin sessions
  /\ http' = [http EXCEPT ![c] = "over"]
  /\ records' = [records EXCEPT ![c] = IF @ # "none" THEN @
                                       ELSE IF writerClosed THEN "stored" ELSE "queued"]
  /\ UNCHANGED <<limiter, phase, stopped, cancelled, sessionVars, workers, writerClosed,
                 writerGone, clocks, store>>
-----------------------------------------------------------------------------
(* What runs beside them.                                                  *)

EndTurn ==
  /\ turn = "running" /\ turn' = "ended"
  /\ UNCHANGED <<limiter, phase, requestVars, sessionVars, jobsStopped, agentClosed, refreshes,
                 worker, loops, usage, clocks, store>>

EndWorker ==
  /\ worker = "running" /\ jobsStopped /\ worker' = "ended"
  /\ UNCHANGED <<limiter, phase, requestVars, sessionVars, jobsStopped, agentClosed, refreshes,
                 turn, loops, usage, clocks, store>>

EndLoops ==
  /\ loops = "running" /\ cancelled /\ loops' = "ended"
  /\ UNCHANGED <<limiter, phase, requestVars, sessionVars, jobsStopped, agentClosed, refreshes,
                 worker, turn, usage, clocks, store>>

\* The writer stores a record, or fails once its context is cancelled.
WriteRecord(c) ==
  /\ records[c] = "queued" /\ ~writerGone
  /\ records' = [records EXCEPT ![c] = IF cut THEN "reported" ELSE "stored"]
  /\ UNCHANGED <<limiter, phase, requestVars, sessionVars, workers, writerClosed, writerGone,
                 clocks, store>>

WriterEnds ==
  /\ writerClosed /\ ~writerGone /\ \A c \in Callers : records[c] # "queued"
  /\ writerGone' = TRUE
  /\ UNCHANGED <<limiter, phase, requestVars, sessionVars, workers, records, writerClosed,
                 clocks, store>>

Deadline ==
  /\ (At("agent") \/ At("requests")) /\ ~late /\ late' = TRUE
  /\ UNCHANGED <<limiter, phase, requestVars, sessionVars, workers, usage, cut, store>>

FlushDeadline ==
  /\ writerClosed /\ ~cut /\ cut' = TRUE
  /\ UNCHANGED <<limiter, phase, requestVars, sessionVars, workers, usage, late, store>>
-----------------------------------------------------------------------------
(* doShutdown, in the order of its steps.                                  *)

\* A request of an administrator, or a signal.
RequestShutdown ==
  /\ "shutdown" \in may /\ At("up") /\ Then("stop")
  /\ UNCHANGED <<limiter, requestVars, sessionVars, workers, usage, clocks, store>>

StopRequests ==
  /\ At("stop") /\ Then("close") /\ stopped' = TRUE
  /\ UNCHANGED <<limiter, http, cancelled, sessionVars, workers, usage, clocks, store>>

CloseLimiter ==
  /\ At("close") /\ Then("cancel") /\ Close
  /\ UNCHANGED <<requestVars, sessionVars, workers, usage, clocks, store>>

CancelLifecycle ==
  /\ At("cancel") /\ Then("closeAgent") /\ cancelled' = TRUE
  /\ UNCHANGED <<limiter, http, stopped, sessionVars, workers, usage, clocks, store>>

CloseAgent ==
  /\ At("closeAgent") /\ Then("agent") /\ agentClosed' = TRUE
  /\ UNCHANGED <<limiter, requestVars, sessionVars, jobsStopped, refreshes, worker, turn, loops,
                 usage, clocks, store>>

\* Wait for what has ended, or give up at the deadline and keep the store open.
WaitUntilLate(ended) == \/ ended /\ UNCHANGED storageSafe
                        \/ late /\ storageSafe' = FALSE

AgentShutdown ==
  /\ At("agent") /\ Then("stopSessions") /\ WaitUntilLate(turn # "running")
  /\ UNCHANGED <<limiter, requestVars, sessionVars, workers, usage, clocks, storeOpen, may>>

StopSessions ==
  /\ At("stopSessions") /\ Then("sessions") /\ sessionsStopped' = TRUE
  /\ UNCHANGED <<limiter, requestVars, sessions, workers, usage, clocks, store>>

SessionsEnded ==
  /\ At("sessions") /\ sessions = {} /\ Then("stopJobs")
  /\ UNCHANGED <<limiter, requestVars, sessionVars, workers, usage, clocks, store>>

\* Planted mistake: the worker is awaited without being cancelled.
StopJobsUncancelled ==
  /\ At("stopJobs") /\ Then("jobs")
  /\ UNCHANGED <<limiter, requestVars, sessionVars, workers, usage, clocks, store>>

StopJobs ==
  /\ At("stopJobs") /\ Then("jobs") /\ jobsStopped' = TRUE
  /\ UNCHANGED <<limiter, requestVars, sessionVars, agentClosed, refreshes, worker, turn, loops,
                 usage, clocks, store>>

JobsEnded ==
  /\ At("jobs") /\ worker # "running" /\ Then("requests")
  /\ UNCHANGED <<limiter, requestVars, sessionVars, workers, usage, clocks, store>>

\* Connections are closed; then the handlers and the refreshes they left.
RequestsEnded ==
  /\ At("requests") /\ Then("loops")
  /\ WaitUntilLate((\A c \in Callers : ~Active(c)) /\ refreshes = {})
  /\ UNCHANGED <<limiter, requestVars, sessionVars, workers, usage, clocks, storeOpen, may>>

LoopsEnded ==
  /\ At("loops") /\ loops = "ended" /\ Then("stopWriter")
  /\ UNCHANGED <<limiter, requestVars, sessionVars, workers, usage, clocks, store>>

StopUsageWriter ==
  /\ At("stopWriter") /\ Then("writer") /\ writerClosed' = TRUE
  /\ UNCHANGED <<limiter, requestVars, sessionVars, workers, records, writerGone, clocks, store>>

WriterEnded ==
  /\ At("writer") /\ writerGone /\ Then("store")
  /\ UNCHANGED <<limiter, requestVars, sessionVars, workers, usage, clocks, store>>

CloseStore ==
  /\ At("store") /\ Then("done") /\ storeOpen' = ~storageSafe
  /\ UNCHANGED <<limiter, requestVars, sessionVars, workers, usage, clocks, storageSafe, may>>

ShutdownStep ==
  \/ StopRequests \/ CloseLimiter \/ CancelLifecycle \/ CloseAgent \/ AgentShutdown
  \/ StopSessions \/ SessionsEnded \/ StopJobs \/ JobsEnded \/ RequestsEnded \/ LoopsEnded
  \/ StopUsageWriter \/ WriterEnded \/ CloseStore

ServerNext ==
  \/ \E c \in Callers :
       \/ Enter(c) \/ Interrupt(c) \/ LoseClient(c) \/ Prepare(c) \/ QueueTimer(c)
       \/ GiveLeaseBack(c) \/ BeginSession(c) \/ EndSession(c) \/ StartWorker(c)
       \/ StartRefresh(c) \/ StartTurn(c) \/ Complete(c) \/ WriteRecord(c)
  \/ EndRefresh \/ EndTurn \/ EndWorker \/ EndLoops \/ WriterEnds \/ Deadline \/ FlushDeadline
  \/ RequestShutdown \/ ShutdownStep

ServerSpec == ServerInit /\ [][ServerNext]_allVars

\* Goroutines that can run do, a handler gives its lease back, time passes, and
\* a cancelled session or loop ends.  Neither handlers, turns nor refreshes need
\* ever end, no timer of the queue needs to fire, and nobody has to shut down.
ServerFairSpec ==
  /\ ServerSpec
  /\ \A c \in Callers : /\ WF_allVars(Prepare(c)) /\ WF_allVars(GiveLeaseBack(c))
                        /\ WF_allVars(sessionsStopped /\ EndSession(c))
                        /\ WF_allVars(WriteRecord(c))
  /\ WF_allVars(EndWorker) /\ WF_allVars(EndLoops) /\ WF_allVars(WriterEnds)
  /\ WF_allVars(Deadline) /\ WF_allVars(ShutdownStep)
-----------------------------------------------------------------------------
ServerTypeOK ==
  /\ phase \in Range(Phases)
  /\ http \in [Callers -> {"absent", "new", "refused", "active", "over"}]
  /\ records \in [Callers -> {"none", "queued", "stored", "reported"}]
  /\ sessions \subseteq {c \in Callers : Active(c)} /\ Cardinality(refreshes) <= 1
  /\ {worker, turn, loops} \subseteq {"none", "running", "ended"}

\* The store is closed only when nothing can use it any more: no request, lease,
\* session, job, turn, refresh or loop is left, the writer has gone, and every
\* record is stored or reported (lifecycle.go:98-183).
StoreOutlivesWork ==
  /\ ServerTypeOK
  /\ ~storeOpen =>
       /\ \A c \in Callers : ~Active(c) /\ lease[c] # "live" /\ records[c] # "queued"
       /\ sessions = {} /\ refreshes = {} /\ writerGone
       /\ "running" \notin {worker, turn, loops}

\* A shutdown comes to its end whatever handlers, turns and refreshes do, and
\* the closed limiter empties (lifecycle.go:98-190).
ShutdownEnds == (phase = "stop" ~> phase = "done") /\ CloseDrains
===============================================================================
