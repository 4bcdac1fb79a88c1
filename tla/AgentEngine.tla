---------------------------- MODULE AgentEngine ----------------------------
(***************************************************************************)
(* The turns of one session of the built-in assistant: the guard that lets *)
(* one turn run at a time, the model loop and its batches of tool calls,   *)
(* the pause for an approval, a question or a plan, its resumption or its  *)
(* replacement by a new message, Stop and the turn timeout, Shutdown, and  *)
(* the reconciliation of the stored status after a crash.                  *)
(*                                                                         *)
(* The store (status, pending action, messages) outlives the process; of   *)
(* the messages only tool calls and tool results matter, so a history is   *)
(* the set of calls asked for and the set of calls answered.  Every write  *)
(* to the store is a step of its own: a stop, a crash or a write failure   *)
(* can fall between any two.                                               *)
(***************************************************************************)
EXTENDS Integers, Sequences

CONSTANTS Clients,      \* the requests that approve, send or clear at the same time
          MaxCalls,     \* bound: tool calls the model makes in all
          MaxBatch,     \* bound: tool calls of one model reply
          MaxStops,     \* bound: stops and timeouts of turns
          MaxFailures   \* bound: failed writes and crashes together

ASSUME AgentAssumption ==
  /\ MaxCalls \in Nat /\ MaxBatch \in Nat /\ MaxStops \in Nat /\ MaxFailures \in Nat

VARIABLES status, pending, asked, answered,   \* the stored session
          engine,     \* up, closing, closed, or down after a crash
          turn,       \* the running turn: Engine.running and its goroutine
          held,       \* what each client's request has read before beginTurn
          failures, cancels,
          kind, issued,      \* the calls the model has made
          stale,             \* history: a request has used what no longer held
          ran,               \* history: how often each call was executed
          synthesized        \* history: calls given a result without running

store == <<status, pending, asked, answered>>
calls == <<kind, issued>>
vars == <<store, engine, turn, held, failures, cancels, calls, stale, ran, synthesized>>

Calls == 1..MaxCalls
\* A call of an ungated tool, of a gated one, or of ask_user.
Kinds == {"plain", "gated", "ask"}

Nothing == [kind |-> "none", calls |-> <<>>]
Clearing == [kind |-> "clearing", calls |-> <<>>]
NoTurn == [pc |-> "none", resume |-> Nothing, approved |-> FALSE, old |-> Nothing,
           todo |-> <<>>, asked |-> {}, answered |-> {}, looping |-> FALSE, cancelled |-> FALSE]

Init == /\ status = "idle" /\ pending = Nothing /\ asked = {} /\ answered = {}
        /\ engine = "up" /\ turn = NoTurn /\ held = [c \in Clients |-> Nothing]
        /\ failures = 0 /\ cancels = 0 /\ stale = FALSE
        /\ kind = [c \in Calls |-> "plain"] /\ issued = 0
        /\ ran = [c \in Calls |-> 0] /\ synthesized = {}
-----------------------------------------------------------------------------
\* A use of the store under the turn's context, or detached from it
\* (context.WithoutCancel): a cancelled turn's context always fails.
Works(detached) == (detached \/ ~turn.cancelled) /\ UNCHANGED failures
Fails(detached) == \/ ~detached /\ turn.cancelled /\ UNCHANGED failures
                   \/ failures < MaxFailures /\ failures' = failures + 1

\* The turn is at p and goes to q; the rest of it stays.
At(p) == turn.pc = p
Goto(q) == turn' = [turn EXCEPT !.pc = q]

Begin(t) == /\ engine = "up" /\ turn = NoTurn
            /\ turn' = [t EXCEPT !.pc = "read"]

\* RunTurn takes the guard first and reads the session under it.
RunTurn(c) == /\ held[c] = Nothing
              /\ Begin(NoTurn)
              /\ UNCHANGED <<store, engine, held, failures, cancels, calls, stale, ran, synthesized>>

\* ResumeApproval reads the session before it asks for the guard...
ReadPending(c) ==
  /\ engine = "up" /\ held[c] = Nothing
  /\ status = "waiting_approval" /\ pending # Nothing
  /\ held' = [held EXCEPT ![c] = pending]
  /\ UNCHANGED <<store, engine, turn, failures, cancels, calls, stale, ran, synthesized>>

\* ... and starts the turn with what it read, or is told that one is running
\* (or that a tool of the pending action no longer exists).
ResumeApproval(c) ==
  /\ held[c] \notin {Nothing, Clearing}
  /\ held' = [held EXCEPT ![c] = Nothing]
  /\ \/ /\ \E approved \in BOOLEAN :
             Begin([NoTurn EXCEPT !.resume = held[c], !.approved = approved])
        /\ stale' = (stale \/ status # "waiting_approval" \/ pending # held[c])
     \/ UNCHANGED <<turn, stale>>
  /\ UNCHANGED <<store, engine, failures, cancels, calls, ran, synthesized>>

\* Clearing the messages: no turn may be running when the request looks.
LookBeforeClear(c) ==
  /\ held[c] = Nothing /\ turn = NoTurn /\ engine = "up"
  /\ held' = [held EXCEPT ![c] = Clearing]
  /\ UNCHANGED <<store, engine, turn, failures, cancels, calls, stale, ran, synthesized>>

TruncateMessages(c) ==
  /\ held[c] = Clearing
  /\ held' = [held EXCEPT ![c] = Nothing]
  /\ asked' = {} /\ answered' = {} /\ pending' = Nothing /\ status' = "idle"
  /\ stale' = (stale \/ turn # NoTurn)
  /\ UNCHANGED <<engine, turn, failures, cancels, calls, ran, synthesized>>
-----------------------------------------------------------------------------
\* startTurn.  A waiting session that gets a new message loses its pending
\* calls; an idle one may still hold a stale action, which is nobody's.
GetSession ==
  /\ At("read")
  /\ \/ /\ Works(FALSE)
        /\ turn' = [turn EXCEPT !.pc = "mark",
                      !.old = IF turn.resume = Nothing /\ status = "waiting_approval"
                              THEN pending ELSE Nothing]
     \/ Fails(FALSE) /\ Goto("end")
  /\ UNCHANGED <<store, engine, held, cancels, calls, stale, ran, synthesized>>

\* Planted mistake: a resumed turn leaves the status as it was.
MarkOnlyNewTurns ==
  /\ At("mark") /\ Goto("load")
  /\ \/ /\ Works(FALSE) /\ status' = IF turn.resume = Nothing THEN "running" ELSE status
        /\ pending' = IF turn.resume = Nothing /\ turn.old = Nothing THEN Nothing ELSE pending
     \/ Fails(FALSE) /\ UNCHANGED <<status, pending>>
  /\ UNCHANGED <<asked, answered, engine, held, cancels, calls, stale, ran, synthesized>>

\* setStatus(running): a failure is reported and the turn goes on.
Mark ==
  /\ At("mark") /\ Goto("load")
  /\ \/ /\ Works(FALSE) /\ status' = "running"
        /\ pending' = IF turn.resume = Nothing /\ turn.old = Nothing THEN Nothing ELSE pending
     \/ Fails(FALSE) /\ UNCHANGED <<status, pending>>
  /\ UNCHANGED <<asked, answered, engine, held, cancels, calls, stale, ran, synthesized>>

\* prepareTurnHistory: the stored messages become the conversation.
LoadConversation ==
  /\ At("load")
  /\ \/ /\ Works(FALSE)
        /\ turn' = [turn EXCEPT !.asked = asked, !.answered = answered,
                      !.looping = turn.resume = Nothing /\ turn.old = Nothing,
                      !.pc = IF turn.old # Nothing THEN "retire"
                             ELSE IF turn.resume # Nothing THEN "prefix" ELSE "model"]
     \/ Fails(FALSE) /\ Goto("failed")
  /\ UNCHANGED <<store, engine, held, cancels, calls, stale, ran, synthesized>>

\* A superseded action is cleared before its calls get their cancellation.
Retire ==
  /\ At("retire")
  /\ \/ /\ Works(FALSE) /\ pending' = Nothing
        /\ turn' = [turn EXCEPT !.pc = "refuse", !.todo = turn.old.calls]
     \/ Fails(FALSE) /\ Goto("failed") /\ UNCHANGED pending
  /\ UNCHANGED <<status, asked, answered, engine, held, cancels, calls, stale, ran, synthesized>>

\* The message that replaced the action closes the history of the new turn.
AppendUserMessage ==
  /\ At("user")
  /\ \/ Works(FALSE) /\ turn' = [turn EXCEPT !.pc = "model", !.looping = TRUE, !.old = Nothing]
     \/ Fails(FALSE) /\ Goto("failed")
  /\ UNCHANGED <<store, engine, held, cancels, calls, stale, ran, synthesized>>

\* Planted mistake: the other calls of the question's batch get no result.
AnswerOnlyTheQuestion ==
  LET p == turn.resume
  IN  /\ At("prefix")
      /\ \/ /\ p.kind = "question" /\ UNCHANGED failures
            /\ turn' = [turn EXCEPT !.pc = "refuse", !.todo = <<Head(p.calls)>>]
         \/ /\ p.kind # "question" /\ Works(FALSE)
            /\ turn' = [turn EXCEPT !.todo = p.calls,
                          !.pc = IF p.kind = "plan" THEN "clear"
                                 ELSE IF turn.approved THEN "execute" ELSE "refuse"]
         \/ p.kind # "question" /\ Fails(FALSE) /\ Goto("failed")
      /\ UNCHANGED <<store, engine, held, cancels, calls, stale, ran, synthesized>>

\* resumeApprovalPrefix: record the decision (a question needs no record) and
\* execute the calls, or synthesize a result for every one of them.
ResumePrefix ==
  LET p == turn.resume
  IN  /\ At("prefix")
      /\ \/ /\ p.kind = "question" /\ UNCHANGED failures
            /\ turn' = [turn EXCEPT !.pc = "refuse", !.todo = p.calls]
         \/ /\ p.kind # "question" /\ Works(FALSE)
            /\ turn' = [turn EXCEPT !.todo = p.calls,
                          !.pc = IF p.kind = "plan" THEN "clear"
                                 ELSE IF turn.approved THEN "execute" ELSE "refuse"]
         \/ p.kind # "question" /\ Fails(FALSE) /\ Goto("failed")
      /\ UNCHANGED <<store, engine, held, cancels, calls, stale, ran, synthesized>>

\* appendToolResult: the model sees the result even when it cannot be stored.
Synthesize(detached) ==
  LET c == Head(turn.todo)
  IN  /\ synthesized' = synthesized \cup {c}
      /\ turn' = [turn EXCEPT !.todo = Tail(@), !.answered = @ \cup {c}]
      /\ \/ Works(detached) /\ answered' = answered \cup {c}
         \/ Fails(detached) /\ UNCHANGED answered
      /\ UNCHANGED <<status, pending, asked, engine, held, cancels, calls, stale, ran>>

SynthesizeResult == At("refuse") /\ turn.todo # <<>> /\ Synthesize(FALSE)

AllSynthesized ==
  /\ At("refuse") /\ turn.todo = <<>>
  /\ Goto(IF turn.resume = Nothing THEN "user" ELSE "clear")
  /\ UNCHANGED <<store, engine, held, failures, cancels, calls, stale, ran, synthesized>>

\* The action has been consumed.
ClearPending ==
  /\ At("clear")
  /\ \/ /\ Works(FALSE) /\ pending' = Nothing
        /\ turn' = [turn EXCEPT !.pc = "model", !.looping = TRUE,
                                 !.resume = Nothing, !.approved = FALSE]
     \/ Fails(FALSE) /\ Goto("failed") /\ UNCHANGED pending
  /\ UNCHANGED <<status, asked, answered, engine, held, cancels, calls, stale, ran, synthesized>>
-----------------------------------------------------------------------------
\* modelLoop: a turn that is cancelled or has used up its calls goes to its end.
CallModel ==
  /\ At("model")
  /\ \/ ~turn.cancelled /\ Goto("calling")
     \/ Goto("final")
  /\ UNCHANGED <<store, engine, held, failures, cancels, calls, stale, ran, synthesized>>

ModelFails ==
  /\ At("calling") /\ Goto("failed")
  /\ UNCHANGED <<store, engine, held, failures, cancels, calls, stale, ran, synthesized>>

\* A final text, or a batch of calls whose message may fail to be stored.
ModelReplies ==
  /\ At("calling")
  /\ \E n \in 0..MaxBatch, k \in [1..MaxBatch -> Kinds] :
       LET new == (issued + 1)..(issued + n)
       IN  /\ issued + n <= MaxCalls
           /\ issued' = issued + n
           /\ kind' = [c \in Calls |-> IF c \in new THEN k[c - issued] ELSE kind[c]]
           /\ turn' = [turn EXCEPT !.pc = IF n = 0 THEN "final" ELSE "execute",
                         !.asked = @ \cup new, !.todo = [i \in 1..n |-> issued + i]]
           /\ \/ Works(FALSE) /\ asked' = asked \cup new
              \/ Fails(FALSE) /\ UNCHANGED asked
  /\ UNCHANGED <<status, pending, answered, engine, held, cancels, stale, ran, synthesized>>

\* Store the pending action and the waiting status in one update.
Pause(action) ==
  /\ \/ Works(FALSE) /\ status' = "waiting_approval" /\ pending' = action /\ Goto("end")
     \/ Fails(FALSE) /\ Goto("failed") /\ UNCHANGED <<status, pending>>
  /\ UNCHANGED <<asked, answered, engine, held, cancels, calls, stale, ran, synthesized>>

\* executeCalls.  ask_user pauses even in an approved batch; a gated call pauses
\* when its permission is "ask" and it has not been approved.
PauseForCall ==
  /\ At("execute") /\ turn.todo # <<>>
  /\ LET k == kind[Head(turn.todo)]
     IN  \/ k = "ask" /\ Pause([kind |-> "question", calls |-> turn.todo])
         \/ k = "gated" /\ ~turn.approved /\ Pause([kind |-> "approval", calls |-> turn.todo])

\* A forbidden permission, the plan mode or an unknown tool; also a call of ask_user
\* whose arguments cannot be parsed, which goes the way of any other call.
DenyCall == At("execute") /\ turn.todo # <<>> /\ Synthesize(FALSE)

\* The tool runs, whatever has become of the turn's context.
RunOneTool ==
  /\ At("execute") /\ turn.todo # <<>>
  /\ ran' = [ran EXCEPT ![Head(turn.todo)] = @ + 1]
  /\ Goto("record")
  /\ UNCHANGED <<store, engine, held, failures, cancels, calls, stale, synthesized>>

RecordResult ==
  /\ At("record")
  /\ turn' = [turn EXCEPT !.pc = "execute", !.todo = Tail(@),
                          !.answered = @ \cup {Head(turn.todo)}]
  /\ \/ Works(TRUE) /\ answered' = answered \cup {Head(turn.todo)}
     \/ Fails(TRUE) /\ UNCHANGED answered
  /\ UNCHANGED <<status, pending, asked, engine, held, cancels, calls, stale, ran, synthesized>>

\* The batch is done: back to the action it came from, or to the model.
BatchDone ==
  /\ At("execute") /\ turn.todo = <<>>
  /\ Goto(IF turn.looping THEN "model" ELSE "clear")
  /\ UNCHANGED <<store, engine, held, failures, cancels, calls, stale, ran, synthesized>>

\* update_plan declared the plan ready: pause after the whole batch.
PauseForPlan == /\ At("execute") /\ turn.todo = <<>> /\ turn.looping
                /\ Pause([kind |-> "plan", calls |-> <<>>])

SetIdle(detached) ==
  /\ \/ Works(detached) /\ status' = "idle"
     \/ Fails(detached) /\ UNCHANGED status
  /\ UNCHANGED <<pending, asked, answered, engine, held, cancels, calls, stale, ran, synthesized>>

\* Planted mistake: the last status is written under the turn's own context.
FailTurnWithContext ==
  /\ At("failed") /\ Goto(IF turn.looping THEN "final" ELSE "end") /\ SetIdle(FALSE)

\* failTurn and handleCallFailure; inside the model loop finalizeTurn follows.
FailTurn ==
  /\ At("failed") /\ Goto(IF turn.looping THEN "final" ELSE "end") /\ SetIdle(TRUE)

FinalizeTurn == At("final") /\ Goto("end") /\ SetIdle(TRUE)

\* Planted mistake: a turn that paused keeps the guard.
EndTurnUnlessPaused ==
  /\ At("end") /\ status # "waiting_approval" /\ turn' = NoTurn
  /\ UNCHANGED <<store, engine, held, failures, cancels, calls, stale, ran, synthesized>>

EndTurn ==
  /\ At("end") /\ turn' = NoTurn
  /\ UNCHANGED <<store, engine, held, failures, cancels, calls, stale, ran, synthesized>>

TurnStep ==
  \/ GetSession \/ Mark \/ LoadConversation \/ Retire \/ AppendUserMessage
  \/ ResumePrefix \/ SynthesizeResult \/ AllSynthesized \/ ClearPending
  \/ CallModel \/ ModelFails \/ ModelReplies
  \/ PauseForCall \/ DenyCall \/ RunOneTool \/ RecordResult \/ BatchDone \/ PauseForPlan
  \/ FailTurn \/ FinalizeTurn \/ EndTurn
-----------------------------------------------------------------------------
\* Stop, or the turn's timeout.
Stop == /\ turn # NoTurn /\ ~turn.cancelled /\ cancels < MaxStops
        /\ turn' = [turn EXCEPT !.cancelled = TRUE]
        /\ cancels' = cancels + 1
        /\ UNCHANGED <<store, engine, held, failures, calls, stale, ran, synthesized>>

\* Planted mistake: Shutdown does not wait for the running turn.
ShutdownWaitsForNobody ==
  /\ engine = "closing" /\ engine' = "closed"
  /\ UNCHANGED <<store, turn, held, failures, cancels, calls, stale, ran, synthesized>>

\* Shutdown refuses new turns and cancels the running one ...
Shutdown ==
  /\ engine = "up" /\ engine' = "closing"
  /\ turn' = IF turn = NoTurn THEN turn ELSE [turn EXCEPT !.cancelled = TRUE]
  /\ UNCHANGED <<store, held, failures, cancels, calls, stale, ran, synthesized>>

\* ... and reports success, which lets the store be closed, only after it ended.
ShutdownReturns ==
  /\ engine = "closing" /\ turn = NoTurn /\ engine' = "closed"
  /\ UNCHANGED <<store, turn, held, failures, cancels, calls, stale, ran, synthesized>>

Crash ==
  /\ engine \in {"up", "closing"} /\ failures < MaxFailures
  /\ failures' = failures + 1
  /\ engine' = "down" /\ turn' = NoTurn /\ held' = [c \in Clients |-> Nothing]
  /\ UNCHANGED <<store, cancels, calls, stale, ran, synthesized>>

\* Planted mistake: an interrupted session goes back to the action it still stores.
ReconcileToPending ==
  /\ engine = "down" /\ engine' = "up"
  /\ \/ /\ Works(TRUE)
        /\ status' = IF status # "running" THEN status
                     ELSE IF pending # Nothing THEN "waiting_approval" ELSE "idle"
     \/ Fails(TRUE) /\ UNCHANGED status
  /\ UNCHANGED <<pending, asked, answered, turn, held, cancels, calls, stale, ran, synthesized>>

\* The next process: ResetRunningSessions, before any request reaches the engine.
Reconcile ==
  /\ engine = "down" /\ engine' = "up"
  /\ \/ Works(TRUE) /\ status' = IF status = "running" THEN "idle" ELSE status
     \/ Fails(TRUE) /\ UNCHANGED status
  /\ UNCHANGED <<pending, asked, answered, turn, held, cancels, calls, stale, ran, synthesized>>

Next == \/ \E c \in Clients : \/ RunTurn(c) \/ ReadPending(c) \/ ResumeApproval(c)
                              \/ LookBeforeClear(c) \/ TruncateMessages(c)
        \/ TurnStep
        \/ Stop \/ Shutdown \/ ShutdownReturns \/ Crash \/ Reconcile

Spec == Init /\ [][Next]_vars

\* The goroutine of a turn runs on, neither the model nor a tool outlives the turn's
\* context, and Shutdown waits.  Nobody has to send a request.
FairSpec == Spec /\ WF_vars(TurnStep) /\ WF_vars(ShutdownReturns)
-----------------------------------------------------------------------------
Actions == [kind : {"none", "clearing", "approval", "question", "plan"},
            calls : Seq(Calls)]
Steps == {"none", "read", "mark", "load", "retire", "refuse", "user", "prefix", "clear", "model",
          "calling", "execute", "record", "failed", "final", "end"}
Turns == [pc : Steps, resume : Actions, approved : BOOLEAN, old : Actions, todo : Seq(Calls),
          asked : SUBSET Calls, answered : SUBSET Calls, looping : BOOLEAN, cancelled : BOOLEAN]
CallsOf(action) == {action.calls[i] : i \in DOMAIN action.calls}

\* Types.
TypeOK ==
  /\ status \in {"idle", "running", "waiting_approval"} /\ pending \in Actions
  /\ asked \subseteq Calls /\ answered \subseteq Calls /\ synthesized \subseteq Calls
  /\ engine \in {"up", "closing", "closed", "down"}
  /\ turn \in Turns /\ held \in [Clients -> Actions]
  /\ failures \in 0..MaxFailures /\ cancels \in 0..MaxStops
  /\ issued \in 0..MaxCalls /\ kind \in [Calls -> Kinds] /\ ran \in [Calls -> Nat]
  /\ stale \in BOOLEAN

\* A call gets one outcome: it runs once, or it is told not to have run and then
\* it never runs.  Approvals, replacements, stops and any single failure of the
\* store or of the process cannot make an approved call run a second time.  (Two
\* can: the write that marks the session running fails, and then the process.)
OneOutcome ==
  failures <= 1 => \A c \in Calls : ran[c] + (IF c \in synthesized THEN 1 ELSE 0) <= 1

\* ... as long as no request has acted on a session that had changed since it looked:
\* ResumeApproval and the clearing of messages look before they take the guard.
OneOutcomeUnlessStale == ~stale => OneOutcome

\* "Only a waiting snapshot owns unexecuted calls": when nothing is running, a
\* waiting session can be resumed and none of its calls has had an outcome, as
\* long as at most one write or process has failed and no request has acted on a
\* session that had changed (a stale approval runs calls, and the session can come
\* to wait with them again).
WaitingOwnsUnexecuted ==
  /\ TypeOK
  /\ failures <= 1 /\ ~stale /\ status = "waiting_approval" /\ turn = NoTurn =>
       /\ pending # Nothing
       /\ \A c \in CallsOf(pending) : ran[c] = 0 /\ c \notin synthesized

\* Every request to the model answers exactly the calls it contains.
HistoryPaired == turn.pc = "calling" => turn.asked = turn.answered

\* ... as long as no turn was interrupted, no write failed and no request has acted
\* on a session that had changed since it looked, a stale approval or a clearing of
\* the messages that falls into a turn.
PairedUnlessInterrupted ==
  failures = 0 /\ cancels = 0 /\ engine = "up" /\ ~stale => HistoryPaired

\* A stopped, failed or crashed turn never leaves the session "running": that
\* takes a failed write.
NotStuckRunning ==
  turn = NoTurn /\ engine = "up" /\ failures = 0 => status # "running"

\* After Shutdown has returned no turn runs or starts, so the store can be closed;
\* an approval that had read the session before comes too late.
NoTurnAfterShutdown == engine = "closed" => turn = NoTurn

\* Every turn ends and releases the session, with which Shutdown returns.
TurnEnds == turn # NoTurn ~> turn = NoTurn
=============================================================================
