-------------------------- MODULE AgentEngineProofs --------------------------
(***************************************************************************)
(* Proofs about AgentEngine, for any clients, calls, batches, stops and    *)
(* failures: no turn after Shutdown and no session left running; and,      *)
(* until a request acts on a session that has changed since it looked, one *)
(* outcome per call, a waiting session whose calls have had none, and      *)
(* histories whose calls are all answered.                                 *)
(***************************************************************************)
EXTENDS AgentEngine, SequenceTheorems, TLAPS

\* Where a turn that has marked the session running can be before its end.
Marked == {"load", "retire", "refuse", "user", "prefix", "clear", "model", "calling",
           "execute", "record", "failed", "final"}
Idle == {"none", "read", "end"}

\* A turn runs only in a process that is up; a cancelled one was stopped, or
\* the process is being stopped.
Running == /\ turn.pc = "none" => turn = NoTurn
           /\ turn # NoTurn => engine \in {"up", "closing"}
           /\ engine = "down" => failures > 0
           /\ turn.cancelled => cancels > 0 \/ engine # "up"
           /\ turn.pc = "record" => turn.todo # <<>>
           /\ turn.old # Nothing => turn.resume = Nothing

\* Without a failure it is running only while a turn is.
StatusKept == failures = 0 /\ status = "running" => turn.pc \in Marked

\* The calls of an action: made by the model, none if the plan waits.
Made(q) == \A i \in DOMAIN q : q[i] \in 1..issued
Proper(action) == /\ action # Clearing /\ (action.kind = "plan" => action.calls = <<>>)
                  /\ Made(action.calls)
Issued == /\ Proper(pending) /\ Proper(turn.resume) /\ Proper(turn.old) /\ Made(turn.todo)
          /\ \A c \in Calls : c > issued => ran[c] = 0 /\ c \notin synthesized

\* What a request has read is an action like those.
Looking == \A c \in Clients : held[c] # Clearing => Proper(held[c])

\* Calls without an outcome, each of them once in the list.
Fresh(c) == ran[c] = 0 /\ c \notin synthesized
FreshCalls(q) == /\ \A i \in DOMAIN q : Fresh(q[i])
                 /\ \A i, j \in DOMAIN q : q[i] = q[j] => i = j
Owning == pending # Nothing /\ FreshCalls(pending.calls)

\* The calls that are still to be decided are fresh: those of the action until it is
\* taken up, then those of the batch.  A session that is waiting owns fresh calls,
\* unless the write that should have marked it running has failed.
Decided ==
  /\ \A c \in Calls : ran[c] + (IF c \in synthesized THEN 1 ELSE 0) <= 1
  /\ turn.pc \in {"read", "mark", "load", "prefix"} => FreshCalls(turn.resume.calls)
  /\ turn.pc \in {"mark", "load", "retire"} => FreshCalls(turn.old.calls)
  /\ turn.pc \in {"execute", "refuse"} => FreshCalls(turn.todo)
  /\ turn.pc = "record" => FreshCalls(Tail(turn.todo))
  /\ status = "waiting_approval" =>
       /\ turn.pc \in Idle \cup {"mark", "load"} => Owning
       /\ turn.pc = "load" => turn.cancelled \/ failures > 0
       /\ turn.pc = "failed" => Owning \/ failures > 0
       /\ turn.pc \in Marked \ {"load", "failed"} => failures > 0

\* What is asked for and not answered, in the store and in the conversation, is
\* what is left to be decided.
Of(q) == {q[i] : i \in DOMAIN q}
Open == CASE turn.pc \in Idle -> IF status = "waiting_approval" THEN Of(pending.calls) ELSE {}
          [] turn.pc \in {"mark", "load"} -> Of(turn.resume.calls) \cup Of(turn.old.calls)
          [] turn.pc = "retire" -> Of(turn.old.calls)
          [] turn.pc = "prefix" -> Of(turn.resume.calls)
          [] turn.pc \in {"refuse", "execute", "record"} -> Of(turn.todo)
          [] OTHER -> {}
Paired ==
  /\ asked = answered \cup Open
  /\ turn.pc = "read" /\ turn.resume # Nothing =>
       status = "waiting_approval" /\ turn.resume = pending
  /\ turn.pc \in Marked \ {"load", "failed", "final"} =>
       turn.asked = asked /\ turn.answered = answered

Quiet == failures = 0 /\ cancels = 0 /\ engine = "up" /\ ~stale
IInv == TypeOK /\ Running /\ StatusKept
CInv == /\ IInv /\ Issued /\ Looking
        /\ failures <= 1 /\ ~stale => Decided
        /\ Quiet => Paired

\* What a step leaves of the turn.
SamePlan == turn'.resume = turn.resume /\ turn'.old = turn.old
SameTalk == turn'.asked = turn.asked /\ turn'.answered = turn.answered
SameTodo == turn'.todo = turn.todo
SameContext == turn'.cancelled = turn.cancelled
\* A use of the store that works or fails; only a failure that is nobody's choice counts.
Worked(detached) == (detached \/ ~turn.cancelled) /\ failures' = failures
Failed(detached) == \/ ~detached /\ turn.cancelled /\ failures' = failures
                    \/ failures < MaxFailures /\ failures' = failures + 1
-----------------------------------------------------------------------------
(* Helpers.                                                                *)

\* Values that the steps assign.
LEMMA Values ==
  /\ Nothing \in Actions /\ Clearing \in Actions /\ NoTurn \in Turns
  /\ Nothing # Clearing
BY DEF Nothing, Clearing, NoTurn, Actions, Turns, Steps

\* A list of calls is its head and its tail, also in what it is made of.
LEMMA DecidesHead ==
  ASSUME turn \in Turns, turn.todo # <<>>
  PROVE  /\ Head(turn.todo) \in Calls /\ Tail(turn.todo) \in Seq(Calls)
         /\ Of(turn.todo) = Of(Tail(turn.todo)) \cup {Head(turn.todo)}
         /\ Made(turn.todo) => Made(Tail(turn.todo)) /\ Head(turn.todo) \in 1..issued
         /\ FreshCalls(turn.todo) => /\ Fresh(Head(turn.todo)) /\ FreshCalls(Tail(turn.todo))
                                     /\ Head(turn.todo) \notin Of(Tail(turn.todo))
<1> DEFINE q == turn.todo
<1>1. q \in Seq(Calls) /\ q # <<>>
  BY DEF Turns
<1> HIDE DEF q
<1>2. /\ Len(q) \in Nat /\ Len(q) >= 1 /\ Head(q) = q[1] /\ q[1] \in Calls
      /\ Tail(q) \in Seq(Calls) /\ Len(Tail(q)) = Len(q) - 1
      /\ DOMAIN q = 1..Len(q) /\ DOMAIN Tail(q) = 1..(Len(q) - 1)
      /\ \A i \in 1..(Len(q) - 1) : Tail(q)[i] = q[i + 1]
  BY <1>1
<1>3. Of(q) = Of(Tail(q)) \cup {Head(q)}
  <2>1. \A i \in DOMAIN q : i = 1 \/ (i - 1 \in DOMAIN Tail(q) /\ q[i] = Tail(q)[i - 1])
    BY <1>2
  <2>2. \A i \in DOMAIN Tail(q) : i + 1 \in DOMAIN q /\ q[i + 1] = Tail(q)[i]
    BY <1>2
  <2>3. 1 \in DOMAIN q
    BY <1>2
  <2>4. Of(q) \subseteq Of(Tail(q)) \cup {Head(q)}
    BY <1>2, <2>1 DEF Of
  <2>5. Of(Tail(q)) \subseteq Of(q) /\ Head(q) \in Of(q)
    BY <1>2, <2>2, <2>3 DEF Of
  <2> QED BY <2>4, <2>5
<1>4. Made(q) => Made(Tail(q)) /\ Head(q) \in 1..issued
  BY <1>2 DEF Made
<1>5. FreshCalls(q) => Fresh(Head(q)) /\ FreshCalls(Tail(q)) /\ Head(q) \notin Of(Tail(q))
  <2> SUFFICES ASSUME FreshCalls(q)
               PROVE  Fresh(Head(q)) /\ FreshCalls(Tail(q)) /\ Head(q) \notin Of(Tail(q))
    OBVIOUS
  <2>1. \A i, j \in 1..Len(q) : q[i] = q[j] => i = j
    BY <1>2 DEF FreshCalls
  <2>2. \A i \in 1..Len(q) : Fresh(q[i])
    BY <1>2 DEF FreshCalls
  <2>3. Head(q) \notin Of(Tail(q))
    BY <1>2, <2>1 DEF Of
  <2>4. FreshCalls(Tail(q))
    <3>1. \A i \in DOMAIN Tail(q) : Fresh(Tail(q)[i])
      BY <1>2, <2>2
    <3>2. \A i, j \in DOMAIN Tail(q) : Tail(q)[i] = Tail(q)[j] => i = j
      <4> SUFFICES ASSUME NEW i \in DOMAIN Tail(q), NEW j \in DOMAIN Tail(q),
           Tail(q)[i] = Tail(q)[j]
                   PROVE  i = j
        OBVIOUS
      <4>1. i + 1 \in 1..Len(q) /\ j + 1 \in 1..Len(q) /\ q[i + 1] = q[j + 1] /\ i \in Nat
               /\ j \in Nat
        BY <1>2
      <4>2. i + 1 = j + 1
        BY <4>1, <2>1
      <4> QED BY <4>1, <4>2
    <3> QED BY <3>1, <3>2 DEF FreshCalls
  <2> QED BY <1>2, <2>2, <2>3, <2>4
<1> QED BY <1>2, <1>3, <1>4, <1>5 DEF q

\* A turn that only moves on stays what it is.
LEMMA Going ==
  ASSUME turn \in Turns, NEW q \in Steps, Goto(q)
  PROVE  turn' \in Turns /\ turn'.pc = q /\ SamePlan /\ SameTalk /\ SameTodo /\ SameContext
BY DEF Goto, Turns, SamePlan, SameTalk, SameTodo, SameContext

-----------------------------------------------------------------------------
(* The steps of a turn.                                                    *)

\* The session is read under the guard: an action that waits is the one to retire.
LEMMA GetSessionKeeps ==
  ASSUME IInv, GetSession
  PROVE  IInv' /\ (CInv => CInv')
<1>0. /\ turn.pc = "read" /\ turn' \in Turns
      /\ SameTalk /\ SameTodo /\ SameContext /\ turn'.resume = turn.resume
      /\ \/ /\ turn'.pc = "mark" /\ Worked(FALSE)
            /\ turn'.old = IF turn.resume = Nothing /\ status = "waiting_approval"
                 THEN pending ELSE Nothing
         \/ turn'.pc = "end" /\ turn'.old = turn.old /\ Failed(FALSE)
      /\ UNCHANGED <<store, engine, held, cancels, calls, stale, ran, synthesized>>
  <2>0. turn \in Turns /\ pending \in Actions /\ asked \in SUBSET Calls
           /\ answered \in SUBSET Calls
    BY DEF IInv, TypeOK
  <2>1. turn.pc = "read" /\ UNCHANGED <<store, engine, held, cancels, calls, stale, ran, synthesized>>
    BY DEF GetSession, At
  <2> DEFINE o == IF turn.resume = Nothing /\ status = "waiting_approval" THEN pending
                    ELSE Nothing
  <2>2. \/ Worked(FALSE) /\ turn' = [turn EXCEPT !.pc = "mark", !.old = o]
        \/ Failed(FALSE) /\ turn' = [turn EXCEPT !.pc = "end"]
    BY DEF GetSession, Goto, Works, Fails, Worked, Failed
  <2>3. o \in Actions
    BY <2>0, Values
  <2> HIDE DEF o
  <2>4. CASE Worked(FALSE) /\ turn' = [turn EXCEPT !.pc = "mark", !.old = o]
    <3>1. /\ turn' \in Turns /\ turn'.pc = "mark" /\ turn'.old = o /\ turn'.resume = turn.resume
          /\ SameTalk /\ SameTodo /\ SameContext
      BY <2>0, <2>3, <2>4 DEF Turns, Steps, SameTalk, SameTodo, SameContext
    <3> QED BY <2>1, <2>4, <3>1 DEF o
  <2>5. CASE Failed(FALSE) /\ turn' = [turn EXCEPT !.pc = "end"]
    <3>1. turn' \in Turns /\ turn'.pc = "end" /\ SamePlan /\ SameTalk /\ SameTodo /\ SameContext
      BY <2>0, <2>5 DEF Turns, Steps, SamePlan, SameTalk, SameTodo, SameContext
    <3> QED BY <2>1, <2>5, <3>1 DEF SamePlan
  <2> QED BY <2>2, <2>4, <2>5
<1>1. TypeOK'
  BY AgentAssumption, Values, <1>0 DEF IInv, TypeOK, Worked, Failed, SamePlan, SameTalk,
     SameTodo, SameContext, store, calls
<1>2. Running'
  BY <1>0 DEF IInv, TypeOK, Running, NoTurn, Nothing, Worked, Failed, SamePlan, SameTalk,
     SameTodo, SameContext, store, calls
<1>3. StatusKept'
  BY <1>0 DEF IInv, TypeOK, Running, StatusKept, Marked, Worked, Failed, SamePlan, SameTalk,
     SameTodo, SameContext, store, calls
<1>4. ASSUME CInv
      PROVE  CInv'
  <2>1. Issued'
    BY <1>4, <1>0 DEF CInv, IInv, TypeOK, Issued, Proper, Made, Nothing, Clearing, Worked,
       Failed, SamePlan, SameTalk, SameTodo, SameContext, store, calls
  <2>2. Looking'
    BY <1>4, <1>0 DEF CInv, Looking, Proper, Made, Worked, Failed, SamePlan, SameTalk, SameTodo,
       SameContext, store, calls
  <2>3. ASSUME (failures <= 1 /\ ~stale)'
        PROVE  Decided'
    <3>1. failures <= 1 /\ ~stale /\ Decided
      BY <1>4, <2>3, <1>0 DEF CInv, IInv, TypeOK, Worked, Failed, SamePlan, SameTalk, SameTodo,
         SameContext, store, calls
    <3> QED
      BY <1>4, <2>3, <3>1, <1>0 DEF Decided, Owning, FreshCalls, Fresh, CInv, IInv, TypeOK,
         Running, Marked, Idle, Nothing, Worked, Failed, SamePlan, SameTalk, SameTodo,
         SameContext, store, calls
  <2>4. ASSUME Quiet'
        PROVE  Paired'
    <3>1. Quiet /\ Paired /\ ~turn.cancelled
      BY <1>4, <2>4, <1>0 DEF CInv, Quiet, IInv, TypeOK, Running, Worked, Failed, SamePlan,
         SameTalk, SameTodo, SameContext, store, calls
    <3> QED
      BY <1>4, <2>4, <3>1, <1>0 DEF Paired, Open, Of, Quiet, CInv, IInv, TypeOK, Running, Issued,
         Proper, Marked, Idle, Nothing, Worked, Failed, SamePlan, SameTalk, SameTodo, SameContext,
         store, calls
  <2> QED BY <1>1, <1>2, <1>3, <2>1, <2>2, <2>3, <2>4 DEF CInv, IInv
<1> QED BY <1>1, <1>2, <1>3, <1>4 DEF IInv

\* The session is marked running, or the failure to do so is only told.
LEMMA MarkKeeps ==
  ASSUME IInv, Mark
  PROVE  IInv' /\ (CInv => CInv')
<1>0. /\ turn.pc = "mark" /\ turn' \in Turns
      /\ turn'.pc = "load" /\ SamePlan /\ SameTalk /\ SameTodo /\ SameContext
      /\ \/ /\ Worked(FALSE) /\ status' = "running"
            /\ pending' = IF turn.resume = Nothing /\ turn.old = Nothing THEN Nothing ELSE pending
         \/ Failed(FALSE) /\ status' = status /\ pending' = pending
      /\ UNCHANGED <<asked, answered, engine, held, cancels, calls, stale, ran, synthesized>>
  <2>1. turn \in Turns
    BY DEF IInv, TypeOK
  <2>2. PICK q \in {"load"} : Goto(q)
    BY DEF Mark
  <2>3. turn' \in Turns /\ turn'.pc = q /\ SamePlan /\ SameTalk /\ SameTodo /\ SameContext
    BY <2>1, <2>2, Going DEF Steps
  <2> QED BY <2>2, <2>3 DEF Mark, At, Works, Fails, Worked, Failed
<1>1. TypeOK'
  BY AgentAssumption, Values, <1>0 DEF IInv, TypeOK, Worked, Failed, SamePlan, SameTalk,
     SameTodo, SameContext, store, calls
<1>2. Running'
  BY <1>0 DEF IInv, TypeOK, Running, NoTurn, Nothing, Worked, Failed, SamePlan, SameTalk,
     SameTodo, SameContext, store, calls
<1>3. StatusKept'
  BY <1>0 DEF IInv, TypeOK, Running, StatusKept, Marked, Worked, Failed, SamePlan, SameTalk,
     SameTodo, SameContext, store, calls
<1>4. ASSUME CInv
      PROVE  CInv'
  <2>1. Issued'
    BY <1>4, <1>0 DEF CInv, IInv, TypeOK, Issued, Proper, Made, Nothing, Clearing, Worked,
       Failed, SamePlan, SameTalk, SameTodo, SameContext, store, calls
  <2>2. Looking'
    BY <1>4, <1>0 DEF CInv, Looking, Proper, Made, Worked, Failed, SamePlan, SameTalk, SameTodo,
       SameContext, store, calls
  <2>3. ASSUME (failures <= 1 /\ ~stale)'
        PROVE  Decided'
    <3>1. failures <= 1 /\ ~stale /\ Decided
      BY <1>4, <2>3, <1>0 DEF CInv, IInv, TypeOK, Worked, Failed, SamePlan, SameTalk, SameTodo,
         SameContext, store, calls
    <3> QED
      BY <1>4, <2>3, <3>1, <1>0 DEF Decided, Owning, FreshCalls, Fresh, CInv, IInv, TypeOK,
         Running, Marked, Idle, Nothing, Worked, Failed, SamePlan, SameTalk, SameTodo,
         SameContext, store, calls
  <2>4. ASSUME Quiet'
        PROVE  Paired'
    <3>1. Quiet /\ Paired /\ ~turn.cancelled
      BY <1>4, <2>4, <1>0 DEF CInv, Quiet, IInv, TypeOK, Running, Worked, Failed, SamePlan,
         SameTalk, SameTodo, SameContext, store, calls
    <3> QED
      BY <1>4, <2>4, <3>1, <1>0 DEF Paired, Open, Of, Quiet, CInv, IInv, TypeOK, Running, Issued,
         Proper, Marked, Idle, Nothing, Worked, Failed, SamePlan, SameTalk, SameTodo, SameContext,
         store, calls
  <2> QED BY <1>1, <1>2, <1>3, <2>1, <2>2, <2>3, <2>4 DEF CInv, IInv
<1> QED BY <1>1, <1>2, <1>3, <1>4 DEF IInv

\* The stored messages become the conversation.
LEMMA LoadConversationKeeps ==
  ASSUME IInv, LoadConversation
  PROVE  IInv' /\ (CInv => CInv')
<1>0. /\ turn.pc = "load" /\ turn' \in Turns
      /\ SamePlan /\ SameTodo /\ SameContext
      /\ \/ /\ Worked(FALSE) /\ turn'.asked = asked /\ turn'.answered = answered
            /\ turn'.pc = IF turn.old # Nothing THEN "retire"
                          ELSE IF turn.resume # Nothing THEN "prefix" ELSE "model"
         \/ Failed(FALSE) /\ turn'.pc = "failed" /\ SameTalk
      /\ UNCHANGED <<store, engine, held, cancels, calls, stale, ran, synthesized>>
  <2>0. turn \in Turns /\ pending \in Actions /\ asked \in SUBSET Calls
           /\ answered \in SUBSET Calls
    BY DEF IInv, TypeOK
  <2>1. turn.pc = "load" /\ UNCHANGED <<store, engine, held, cancels, calls, stale, ran, synthesized>>
    BY DEF LoadConversation, At
  <2> DEFINE q == IF turn.old # Nothing THEN "retire" ELSE IF turn.resume # Nothing
                    THEN "prefix" ELSE "model"
             l == turn.resume = Nothing /\ turn.old = Nothing
  <2>2. \/ /\ Worked(FALSE)
           /\ turn' = [turn EXCEPT !.asked = asked, !.answered = answered, !.looping = l, !.pc = q]
        \/ Failed(FALSE) /\ turn' = [turn EXCEPT !.pc = "failed"]
    BY DEF LoadConversation, Goto, Works, Fails, Worked, Failed
  <2>3. q \in {"retire", "prefix", "model"} /\ l \in BOOLEAN
    OBVIOUS
  <2> HIDE DEF q, l
  <2>4. CASE Worked(FALSE) /\ turn' = [turn EXCEPT !.asked = asked, !.answered = answered, !.looping = l, !.pc = q]
    <3>1. /\ turn' \in Turns /\ turn'.pc = q /\ turn'.asked = asked /\ turn'.answered = answered
          /\ SamePlan /\ SameTodo /\ SameContext
      BY <2>0, <2>3, <2>4 DEF Turns, Steps, SamePlan, SameTodo, SameContext
    <3> QED BY <2>1, <2>4, <3>1 DEF q
  <2>5. CASE Failed(FALSE) /\ turn' = [turn EXCEPT !.pc = "failed"]
    <3>1. turn' \in Turns /\ turn'.pc = "failed" /\ SamePlan /\ SameTalk /\ SameTodo
             /\ SameContext
      BY <2>0, <2>5 DEF Turns, Steps, SamePlan, SameTalk, SameTodo, SameContext
    <3> QED BY <2>1, <2>5, <3>1
  <2> QED BY <2>2, <2>4, <2>5
<1>1. TypeOK'
  BY AgentAssumption, Values, <1>0 DEF IInv, TypeOK, Worked, Failed, SamePlan, SameTalk,
     SameTodo, SameContext, store, calls
<1>2. Running'
  BY <1>0 DEF IInv, TypeOK, Running, NoTurn, Nothing, Worked, Failed, SamePlan, SameTalk,
     SameTodo, SameContext, store, calls
<1>3. StatusKept'
  BY <1>0 DEF IInv, TypeOK, Running, StatusKept, Marked, Worked, Failed, SamePlan, SameTalk,
     SameTodo, SameContext, store, calls
<1>4. ASSUME CInv
      PROVE  CInv'
  <2>1. Issued'
    BY <1>4, <1>0 DEF CInv, IInv, TypeOK, Issued, Proper, Made, Nothing, Clearing, Worked,
       Failed, SamePlan, SameTalk, SameTodo, SameContext, store, calls
  <2>2. Looking'
    BY <1>4, <1>0 DEF CInv, Looking, Proper, Made, Worked, Failed, SamePlan, SameTalk, SameTodo,
       SameContext, store, calls
  <2>3. ASSUME (failures <= 1 /\ ~stale)'
        PROVE  Decided'
    <3>1. failures <= 1 /\ ~stale /\ Decided
      BY <1>4, <2>3, <1>0 DEF CInv, IInv, TypeOK, Worked, Failed, SamePlan, SameTalk, SameTodo,
         SameContext, store, calls
    <3> QED
      BY <1>4, <2>3, <3>1, <1>0 DEF Decided, Owning, FreshCalls, Fresh, CInv, IInv, TypeOK,
         Running, Marked, Idle, Nothing, Worked, Failed, SamePlan, SameTalk, SameTodo,
         SameContext, store, calls
  <2>4. ASSUME Quiet'
        PROVE  Paired'
    <3>1. Quiet /\ Paired /\ ~turn.cancelled
      BY <1>4, <2>4, <1>0 DEF CInv, Quiet, IInv, TypeOK, Running, Worked, Failed, SamePlan,
         SameTalk, SameTodo, SameContext, store, calls
    <3> QED
      BY <1>4, <2>4, <3>1, <1>0 DEF Paired, Open, Of, Quiet, CInv, IInv, Running, Marked, Idle,
         Nothing, Worked, Failed, SamePlan, store
  <2> QED BY <1>1, <1>2, <1>3, <2>1, <2>2, <2>3, <2>4 DEF CInv, IInv
<1> QED BY <1>1, <1>2, <1>3, <1>4 DEF IInv

\* The superseded action is cleared, and its calls are what is left to refuse.
LEMMA RetireKeeps ==
  ASSUME IInv, Retire
  PROVE  IInv' /\ (CInv => CInv')
<1>0. /\ turn.pc = "retire" /\ turn' \in Turns
      /\ SamePlan /\ SameTalk /\ SameContext
      /\ \/ Worked(FALSE) /\ pending' = Nothing /\ turn'.pc = "refuse"
               /\ turn'.todo = turn.old.calls
         \/ Failed(FALSE) /\ pending' = pending /\ turn'.pc = "failed" /\ SameTodo
      /\ UNCHANGED <<status, asked, answered, engine, held, cancels, calls, stale, ran, synthesized>>
  <2>0. turn \in Turns /\ turn.old.calls \in Seq(Calls)
    BY DEF IInv, TypeOK, Turns, Actions
  <2>1. /\ turn.pc = "retire"
        /\ UNCHANGED <<status, asked, answered, engine, held, cancels, calls, stale, ran, synthesized>>
    BY DEF Retire, At
  <2>2. \/ /\ Worked(FALSE) /\ pending' = Nothing
           /\ turn' = [turn EXCEPT !.pc = "refuse", !.todo = turn.old.calls]
        \/ Failed(FALSE) /\ pending' = pending /\ Goto("failed")
    BY DEF Retire, Works, Fails, Worked, Failed
  <2>3. CASE /\ Worked(FALSE) /\ pending' = Nothing
             /\ turn' = [turn EXCEPT !.pc = "refuse", !.todo = turn.old.calls]
    <3>1. /\ turn' \in Turns /\ turn'.pc = "refuse" /\ turn'.todo = turn.old.calls
          /\ SamePlan /\ SameTalk /\ SameContext
      BY <2>0, <2>3 DEF Turns, Steps, SamePlan, SameTalk, SameContext
    <3> QED BY <2>1, <2>3, <3>1
  <2>4. CASE Failed(FALSE) /\ pending' = pending /\ Goto("failed")
    <3>1. /\ turn' \in Turns /\ turn'.pc = "failed"
          /\ SamePlan /\ SameTalk /\ SameTodo /\ SameContext
      BY <2>0, <2>4, Going DEF Steps
    <3> QED BY <2>1, <2>4, <3>1
  <2> QED BY <2>2, <2>3, <2>4
<1>1. TypeOK'
  BY AgentAssumption, Values, <1>0 DEF IInv, TypeOK, Worked, Failed, SamePlan, SameTalk,
     SameTodo, SameContext, store, calls
<1>2. Running'
  BY <1>0 DEF IInv, TypeOK, Running, NoTurn, Nothing, Worked, Failed, SamePlan, SameTalk,
     SameTodo, SameContext, store, calls
<1>3. StatusKept'
  BY <1>0 DEF IInv, TypeOK, Running, StatusKept, Marked, Worked, Failed, SamePlan, SameTalk,
     SameTodo, SameContext, store, calls
<1>4. ASSUME CInv
      PROVE  CInv'
  <2>1. Issued'
    BY <1>4, <1>0 DEF CInv, IInv, TypeOK, Issued, Proper, Made, Nothing, Clearing, Worked,
       Failed, SamePlan, SameTalk, SameTodo, SameContext, store, calls
  <2>2. Looking'
    BY <1>4, <1>0 DEF CInv, Looking, Proper, Made, Worked, Failed, SamePlan, SameTalk, SameTodo,
       SameContext, store, calls
  <2>3. ASSUME (failures <= 1 /\ ~stale)'
        PROVE  Decided'
    <3>1. failures <= 1 /\ ~stale /\ Decided
      BY <1>4, <2>3, <1>0 DEF CInv, IInv, TypeOK, Worked, Failed, SamePlan, SameTalk, SameTodo,
         SameContext, store, calls
    <3> QED
      BY <1>4, <2>3, <3>1, <1>0 DEF Decided, Owning, FreshCalls, Fresh, CInv, IInv, TypeOK,
         Running, Marked, Idle, Nothing, Worked, Failed, SamePlan, SameTalk, SameTodo,
         SameContext, store, calls
  <2>4. ASSUME Quiet'
        PROVE  Paired'
    <3>1. Quiet /\ Paired /\ ~turn.cancelled
      BY <1>4, <2>4, <1>0 DEF CInv, Quiet, IInv, TypeOK, Running, Worked, Failed, SamePlan,
         SameTalk, SameTodo, SameContext, store, calls
    <3> QED
      BY <1>4, <2>4, <3>1, <1>0 DEF Paired, Open, Of, Quiet, CInv, IInv, TypeOK, Running, Issued,
         Proper, Marked, Idle, Nothing, Worked, Failed, SamePlan, SameTalk, SameTodo, SameContext,
         store, calls
  <2> QED BY <1>1, <1>2, <1>3, <2>1, <2>2, <2>3, <2>4 DEF CInv, IInv
<1> QED BY <1>1, <1>2, <1>3, <1>4 DEF IInv

\* The message that replaced the action opens the loop.
LEMMA AppendUserMessageKeeps ==
  ASSUME IInv, AppendUserMessage
  PROVE  IInv' /\ (CInv => CInv')
<1>0. /\ turn.pc = "user" /\ turn' \in Turns
      /\ SameTalk /\ SameTodo /\ SameContext /\ turn'.resume = turn.resume
      /\ \/ Worked(FALSE) /\ turn'.pc = "model" /\ turn'.old = Nothing
         \/ Failed(FALSE) /\ turn'.pc = "failed" /\ turn'.old = turn.old
      /\ UNCHANGED <<store, engine, held, cancels, calls, stale, ran, synthesized>>
  <2>0. turn \in Turns /\ pending \in Actions /\ asked \in SUBSET Calls
           /\ answered \in SUBSET Calls
    BY DEF IInv, TypeOK
  <2>1. turn.pc = "user" /\ UNCHANGED <<store, engine, held, cancels, calls, stale, ran, synthesized>>
    BY DEF AppendUserMessage, At
  <2>2. \/ Worked(FALSE) /\ turn' = [turn EXCEPT !.pc = "model", !.looping = TRUE, !.old = Nothing]
        \/ Failed(FALSE) /\ turn' = [turn EXCEPT !.pc = "failed"]
    BY DEF AppendUserMessage, Goto, Works, Fails, Worked, Failed
  <2>4. CASE Worked(FALSE) /\ turn' = [turn EXCEPT !.pc = "model", !.looping = TRUE, !.old = Nothing]
    <3>1. /\ turn' \in Turns /\ turn'.pc = "model" /\ turn'.old = Nothing
                /\ turn'.resume = turn.resume
          /\ SameTalk /\ SameTodo /\ SameContext
      BY <2>0, <2>4, Values DEF Turns, Steps, SameTalk, SameTodo, SameContext
    <3> QED BY <2>1, <2>4, <3>1
  <2>5. CASE Failed(FALSE) /\ turn' = [turn EXCEPT !.pc = "failed"]
    <3>1. turn' \in Turns /\ turn'.pc = "failed" /\ SamePlan /\ SameTalk /\ SameTodo
             /\ SameContext
      BY <2>0, <2>5 DEF Turns, Steps, SamePlan, SameTalk, SameTodo, SameContext
    <3> QED BY <2>1, <2>5, <3>1 DEF SamePlan
  <2> QED BY <2>2, <2>4, <2>5
<1>1. TypeOK'
  BY AgentAssumption, Values, <1>0 DEF IInv, TypeOK, Worked, Failed, SamePlan, SameTalk,
     SameTodo, SameContext, store, calls
<1>2. Running'
  BY <1>0 DEF IInv, TypeOK, Running, NoTurn, Nothing, Worked, Failed, SamePlan, SameTalk,
     SameTodo, SameContext, store, calls
<1>3. StatusKept'
  BY <1>0 DEF IInv, TypeOK, Running, StatusKept, Marked, Worked, Failed, SamePlan, SameTalk,
     SameTodo, SameContext, store, calls
<1>4. ASSUME CInv
      PROVE  CInv'
  <2>1. Issued'
    BY <1>4, <1>0 DEF CInv, IInv, TypeOK, Issued, Proper, Made, Nothing, Clearing, Worked,
       Failed, SamePlan, SameTalk, SameTodo, SameContext, store, calls
  <2>2. Looking'
    BY <1>4, <1>0 DEF CInv, Looking, Proper, Made, Worked, Failed, SamePlan, SameTalk, SameTodo,
       SameContext, store, calls
  <2>3. ASSUME (failures <= 1 /\ ~stale)'
        PROVE  Decided'
    <3>1. failures <= 1 /\ ~stale /\ Decided
      BY <1>4, <2>3, <1>0 DEF CInv, IInv, TypeOK, Worked, Failed, SamePlan, SameTalk, SameTodo,
         SameContext, store, calls
    <3> QED
      BY <1>4, <2>3, <3>1, <1>0 DEF Decided, Owning, FreshCalls, Fresh, CInv, IInv, TypeOK,
         Running, Marked, Idle, Nothing, Worked, Failed, SamePlan, SameTalk, SameTodo,
         SameContext, store, calls
  <2>4. ASSUME Quiet'
        PROVE  Paired'
    <3>1. Quiet /\ Paired /\ ~turn.cancelled
      BY <1>4, <2>4, <1>0 DEF CInv, Quiet, IInv, TypeOK, Running, Worked, Failed, SamePlan,
         SameTalk, SameTodo, SameContext, store, calls
    <3> QED
      BY <1>4, <2>4, <3>1, <1>0 DEF Paired, Open, Of, Quiet, CInv, IInv, TypeOK, Running, Issued,
         Proper, Marked, Idle, Nothing, Worked, Failed, SamePlan, SameTalk, SameTodo, SameContext,
         store, calls
  <2> QED BY <1>1, <1>2, <1>3, <2>1, <2>2, <2>3, <2>4 DEF CInv, IInv
<1> QED BY <1>1, <1>2, <1>3, <1>4 DEF IInv

\* The calls of a resumed action become the batch.
LEMMA ResumePrefixKeeps ==
  ASSUME IInv, ResumePrefix
  PROVE  IInv' /\ (CInv => CInv')
<1>0. /\ turn.pc = "prefix" /\ turn' \in Turns
      /\ SamePlan /\ SameTalk /\ SameContext
      /\ \/ /\ failures' = failures \/ Worked(FALSE)
            /\ turn'.pc \in {"refuse", "clear", "execute"} /\ turn'.todo = turn.resume.calls
            /\ turn'.pc = "clear" => turn.resume.kind = "plan"
         \/ Failed(FALSE) /\ turn'.pc = "failed" /\ SameTodo
      /\ UNCHANGED <<store, engine, held, cancels, calls, stale, ran, synthesized>>
  <2>0. turn \in Turns /\ pending \in Actions /\ asked \in SUBSET Calls
           /\ answered \in SUBSET Calls
    BY DEF IInv, TypeOK
  <2>1. turn.pc = "prefix"
           /\ UNCHANGED <<store, engine, held, cancels, calls, stale, ran, synthesized>>
    BY DEF ResumePrefix, At
  <2>2. \/ /\ failures' = failures \/ Worked(FALSE)
           /\ \E q \in {"refuse", "clear", "execute"} :
                /\ turn' = [turn EXCEPT !.pc = q, !.todo = turn.resume.calls]
                /\ q = "clear" => turn.resume.kind = "plan"
        \/ Failed(FALSE) /\ turn' = [turn EXCEPT !.pc = "failed"]
    <3>1. CASE turn.resume.kind = "question"
      <4>1. failures' = failures /\ turn' = [turn EXCEPT !.pc = "refuse", !.todo = turn.resume.calls]
        BY <3>1 DEF ResumePrefix
      <4> QED BY <4>1
    <3>2. CASE turn.resume.kind # "question"
      <4> DEFINE q == IF turn.resume.kind = "plan" THEN "clear"
                      ELSE IF turn.approved THEN "execute" ELSE "refuse"
      <4>1. \/ Worked(FALSE) /\ turn' = [turn EXCEPT !.pc = q, !.todo = turn.resume.calls]
            \/ Failed(FALSE) /\ turn' = [turn EXCEPT !.pc = "failed"]
        <5>1. [turn EXCEPT !.todo = turn.resume.calls, !.pc = q] = [turn EXCEPT !.pc = q, !.todo = turn.resume.calls]
          BY <2>0 DEF Turns
        <5> QED BY <3>2, <5>1 DEF ResumePrefix, Goto, Works, Fails, Worked, Failed
      <4> QED BY <4>1
    <3> QED BY <3>1, <3>2
  <2>3. turn.resume.calls \in Seq(Calls)
    BY <2>0 DEF Turns, Actions
  <2>4. ASSUME failures' = failures \/ Worked(FALSE), NEW q \in {"refuse", "clear", "execute"},
               turn' = [turn EXCEPT !.pc = q, !.todo = turn.resume.calls],
               q = "clear" => turn.resume.kind = "plan"
        PROVE  /\ turn' \in Turns /\ turn'.pc = q /\ turn'.todo = turn.resume.calls
               /\ SamePlan /\ SameTalk /\ SameContext
    BY <2>0, <2>3, <2>4 DEF Turns, Steps, SamePlan, SameTalk, SameContext
  <2>5. ASSUME Failed(FALSE), turn' = [turn EXCEPT !.pc = "failed"]
        PROVE  turn' \in Turns /\ turn'.pc = "failed" /\ SamePlan /\ SameTalk /\ SameTodo
                  /\ SameContext
    BY <2>0, <2>5 DEF Turns, Steps, SamePlan, SameTalk, SameTodo, SameContext
  <2> QED BY <2>1, <2>2, <2>4, <2>5
<1>1. TypeOK'
  BY AgentAssumption, Values, <1>0 DEF IInv, TypeOK, Worked, Failed, SamePlan, SameTalk,
     SameTodo, SameContext, store, calls
<1>2. Running'
  BY <1>0 DEF IInv, TypeOK, Running, NoTurn, Nothing, Worked, Failed, SamePlan, SameTalk,
     SameTodo, SameContext, store, calls
<1>3. StatusKept'
  BY <1>0 DEF IInv, TypeOK, Running, StatusKept, Marked, Worked, Failed, SamePlan, SameTalk,
     SameTodo, SameContext, store, calls
<1>4. ASSUME CInv
      PROVE  CInv'
  <2>1. Issued'
    BY <1>4, <1>0 DEF CInv, IInv, TypeOK, Issued, Proper, Made, Nothing, Clearing, Worked,
       Failed, SamePlan, SameTalk, SameTodo, SameContext, store, calls
  <2>2. Looking'
    BY <1>4, <1>0 DEF CInv, Looking, Proper, Made, Worked, Failed, SamePlan, SameTalk, SameTodo,
       SameContext, store, calls
  <2>3. ASSUME (failures <= 1 /\ ~stale)'
        PROVE  Decided'
    <3>1. failures <= 1 /\ ~stale /\ Decided
      BY <1>4, <2>3, <1>0 DEF CInv, IInv, TypeOK, Worked, Failed, SamePlan, SameTalk, SameTodo,
         SameContext, store, calls
    <3> QED
      BY <1>4, <2>3, <3>1, <1>0 DEF Decided, Owning, FreshCalls, Fresh, CInv, IInv, TypeOK,
         Running, Marked, Idle, Nothing, Worked, Failed, SamePlan, SameTalk, SameTodo,
         SameContext, store, calls
  <2>4. ASSUME Quiet'
        PROVE  Paired'
    <3>1. Quiet /\ Paired /\ ~turn.cancelled
      BY <1>4, <2>4, <1>0 DEF CInv, Quiet, IInv, TypeOK, Running, Worked, Failed, SamePlan,
         SameTalk, SameTodo, SameContext, store, calls
    <3> QED
      BY <1>4, <2>4, <3>1, <1>0 DEF Paired, Open, Of, Quiet, CInv, IInv, TypeOK, Running, Issued,
         Proper, Marked, Idle, Nothing, Worked, Failed, SamePlan, SameTalk, SameTodo, SameContext,
         store, calls
  <2> QED BY <1>1, <1>2, <1>3, <2>1, <2>2, <2>3, <2>4 DEF CInv, IInv
<1> QED BY <1>1, <1>2, <1>3, <1>4 DEF IInv

\* All calls of the batch have been told that they did not run.
LEMMA AllSynthesizedKeeps ==
  ASSUME IInv, AllSynthesized
  PROVE  IInv' /\ (CInv => CInv')
<1>0. /\ turn.pc = "refuse" /\ turn' \in Turns
      /\ turn'.pc \in {"user", "clear"} /\ turn.todo = <<>> /\ SamePlan /\ SameTalk
            /\ SameTodo /\ SameContext
      /\ UNCHANGED <<store, engine, held, failures, cancels, calls, stale, ran, synthesized>>
  <2>1. turn \in Turns
    BY DEF IInv, TypeOK
  <2>2. PICK q \in {"user", "clear"} : Goto(q)
    BY DEF AllSynthesized
  <2>3. turn' \in Turns /\ turn'.pc = q /\ SamePlan /\ SameTalk /\ SameTodo /\ SameContext
    BY <2>1, <2>2, Going DEF Steps
  <2> QED BY <2>2, <2>3 DEF AllSynthesized, At
<1>1. TypeOK'
  BY AgentAssumption, Values, <1>0 DEF IInv, TypeOK, Worked, Failed, SamePlan, SameTalk,
     SameTodo, SameContext, store, calls
<1>2. Running'
  BY <1>0 DEF IInv, TypeOK, Running, NoTurn, Nothing, Worked, Failed, SamePlan, SameTalk,
     SameTodo, SameContext, store, calls
<1>3. StatusKept'
  BY <1>0 DEF IInv, TypeOK, Running, StatusKept, Marked, Worked, Failed, SamePlan, SameTalk,
     SameTodo, SameContext, store, calls
<1>4. ASSUME CInv
      PROVE  CInv'
  <2>1. Issued'
    BY <1>4, <1>0 DEF CInv, IInv, TypeOK, Issued, Proper, Made, Nothing, Clearing, Worked,
       Failed, SamePlan, SameTalk, SameTodo, SameContext, store, calls
  <2>2. Looking'
    BY <1>4, <1>0 DEF CInv, Looking, Proper, Made, Worked, Failed, SamePlan, SameTalk, SameTodo,
       SameContext, store, calls
  <2>3. ASSUME (failures <= 1 /\ ~stale)'
        PROVE  Decided'
    <3>1. failures <= 1 /\ ~stale /\ Decided
      BY <1>4, <2>3, <1>0 DEF CInv, IInv, TypeOK, Worked, Failed, SamePlan, SameTalk, SameTodo,
         SameContext, store, calls
    <3> QED
      BY <1>4, <2>3, <3>1, <1>0 DEF Decided, Owning, FreshCalls, Fresh, CInv, IInv, TypeOK,
         Running, Marked, Idle, Nothing, Worked, Failed, SamePlan, SameTalk, SameTodo,
         SameContext, store, calls
  <2>4. ASSUME Quiet'
        PROVE  Paired'
    <3>1. Quiet /\ Paired /\ ~turn.cancelled
      BY <1>4, <2>4, <1>0 DEF CInv, Quiet, IInv, TypeOK, Running, Worked, Failed, SamePlan,
         SameTalk, SameTodo, SameContext, store, calls
    <3> QED
      BY <1>4, <2>4, <3>1, <1>0 DEF Paired, Open, Of, Quiet, CInv, IInv, TypeOK, Running, Issued,
         Proper, Marked, Idle, Nothing, Worked, Failed, SamePlan, SameTalk, SameTodo, SameContext,
         store, calls
  <2> QED BY <1>1, <1>2, <1>3, <2>1, <2>2, <2>3, <2>4 DEF CInv, IInv
<1> QED BY <1>1, <1>2, <1>3, <1>4 DEF IInv

\* The action has been consumed.
LEMMA ClearPendingKeeps ==
  ASSUME IInv, ClearPending
  PROVE  IInv' /\ (CInv => CInv')
<1>0. /\ turn.pc = "clear" /\ turn' \in Turns
      /\ SameTalk /\ SameTodo /\ SameContext /\ turn'.old = turn.old
      /\ \/ Worked(FALSE) /\ pending' = Nothing /\ turn'.pc = "model" /\ turn'.resume = Nothing
         \/ Failed(FALSE) /\ pending' = pending /\ turn'.pc = "failed"
               /\ turn'.resume = turn.resume
      /\ UNCHANGED <<status, asked, answered, engine, held, cancels, calls, stale, ran, synthesized>>
  <2>0. turn \in Turns /\ pending \in Actions /\ asked \in SUBSET Calls
           /\ answered \in SUBSET Calls
    BY DEF IInv, TypeOK
  <2>1. turn.pc = "clear"
           /\ UNCHANGED <<status, asked, answered, engine, held, cancels, calls, stale, ran, synthesized>>
    BY DEF ClearPending, At
  <2>2. \/ /\ Worked(FALSE) /\ pending' = Nothing
           /\ turn' = [turn EXCEPT !.pc = "model", !.looping = TRUE, !.resume = Nothing, !.approved = FALSE]
        \/ Failed(FALSE) /\ pending' = pending /\ turn' = [turn EXCEPT !.pc = "failed"]
    BY DEF ClearPending, Goto, Works, Fails, Worked, Failed
  <2>4. CASE /\ Worked(FALSE) /\ pending' = Nothing
             /\ turn' = [turn EXCEPT !.pc = "model", !.looping = TRUE, !.resume = Nothing, !.approved = FALSE]
    <3>1. /\ turn' \in Turns /\ turn'.pc = "model" /\ turn'.resume = Nothing
                /\ turn'.old = turn.old
          /\ SameTalk /\ SameTodo /\ SameContext
      BY <2>0, <2>4, Values DEF Turns, Steps, SameTalk, SameTodo, SameContext
    <3> QED BY <2>1, <2>4, <3>1
  <2>5. CASE Failed(FALSE) /\ pending' = pending /\ turn' = [turn EXCEPT !.pc = "failed"]
    <3>1. turn' \in Turns /\ turn'.pc = "failed" /\ SamePlan /\ SameTalk /\ SameTodo
             /\ SameContext
      BY <2>0, <2>5 DEF Turns, Steps, SamePlan, SameTalk, SameTodo, SameContext
    <3> QED BY <2>1, <2>5, <3>1 DEF SamePlan
  <2> QED BY <2>2, <2>4, <2>5
<1>1. TypeOK'
  BY AgentAssumption, Values, <1>0 DEF IInv, TypeOK, Worked, Failed, SamePlan, SameTalk,
     SameTodo, SameContext, store, calls
<1>2. Running'
  BY <1>0 DEF IInv, TypeOK, Running, NoTurn, Nothing, Worked, Failed, SamePlan, SameTalk,
     SameTodo, SameContext, store, calls
<1>3. StatusKept'
  BY <1>0 DEF IInv, TypeOK, Running, StatusKept, Marked, Worked, Failed, SamePlan, SameTalk,
     SameTodo, SameContext, store, calls
<1>4. ASSUME CInv
      PROVE  CInv'
  <2>1. Issued'
    BY <1>4, <1>0 DEF CInv, IInv, TypeOK, Issued, Proper, Made, Nothing, Clearing, Worked,
       Failed, SamePlan, SameTalk, SameTodo, SameContext, store, calls
  <2>2. Looking'
    BY <1>4, <1>0 DEF CInv, Looking, Proper, Made, Worked, Failed, SamePlan, SameTalk, SameTodo,
       SameContext, store, calls
  <2>3. ASSUME (failures <= 1 /\ ~stale)'
        PROVE  Decided'
    <3>1. failures <= 1 /\ ~stale /\ Decided
      BY <1>4, <2>3, <1>0 DEF CInv, IInv, TypeOK, Worked, Failed, SamePlan, SameTalk, SameTodo,
         SameContext, store, calls
    <3> QED
      BY <1>4, <2>3, <3>1, <1>0 DEF Decided, Owning, FreshCalls, Fresh, CInv, IInv, TypeOK,
         Running, Marked, Idle, Nothing, Worked, Failed, SamePlan, SameTalk, SameTodo,
         SameContext, store, calls
  <2>4. ASSUME Quiet'
        PROVE  Paired'
    <3>1. Quiet /\ Paired /\ ~turn.cancelled
      BY <1>4, <2>4, <1>0 DEF CInv, Quiet, IInv, TypeOK, Running, Worked, Failed, SamePlan,
         SameTalk, SameTodo, SameContext, store, calls
    <3> QED
      BY <1>4, <2>4, <3>1, <1>0 DEF Paired, Open, Of, Quiet, CInv, IInv, TypeOK, Running, Issued,
         Proper, Marked, Idle, Nothing, Worked, Failed, SamePlan, SameTalk, SameTodo, SameContext,
         store, calls
  <2> QED BY <1>1, <1>2, <1>3, <2>1, <2>2, <2>3, <2>4 DEF CInv, IInv
<1> QED BY <1>1, <1>2, <1>3, <1>4 DEF IInv

\* The model is asked, or the turn goes to its end.
LEMMA CallModelKeeps ==
  ASSUME IInv, CallModel
  PROVE  IInv' /\ (CInv => CInv')
<1>0. /\ turn.pc = "model" /\ turn' \in Turns
      /\ turn'.pc \in {"calling", "final"} /\ SamePlan /\ SameTalk /\ SameTodo /\ SameContext
      /\ UNCHANGED <<store, engine, held, failures, cancels, calls, stale, ran, synthesized>>
  <2>1. turn \in Turns
    BY DEF IInv, TypeOK
  <2>2. PICK q \in {"calling", "final"} : Goto(q)
    BY DEF CallModel
  <2>3. turn' \in Turns /\ turn'.pc = q /\ SamePlan /\ SameTalk /\ SameTodo /\ SameContext
    BY <2>1, <2>2, Going DEF Steps
  <2> QED BY <2>2, <2>3 DEF CallModel, At
<1>1. TypeOK'
  BY AgentAssumption, Values, <1>0 DEF IInv, TypeOK, Worked, Failed, SamePlan, SameTalk,
     SameTodo, SameContext, store, calls
<1>2. Running'
  BY <1>0 DEF IInv, TypeOK, Running, NoTurn, Nothing, Worked, Failed, SamePlan, SameTalk,
     SameTodo, SameContext, store, calls
<1>3. StatusKept'
  BY <1>0 DEF IInv, TypeOK, Running, StatusKept, Marked, Worked, Failed, SamePlan, SameTalk,
     SameTodo, SameContext, store, calls
<1>4. ASSUME CInv
      PROVE  CInv'
  <2>1. Issued'
    BY <1>4, <1>0 DEF CInv, IInv, TypeOK, Issued, Proper, Made, Nothing, Clearing, Worked,
       Failed, SamePlan, SameTalk, SameTodo, SameContext, store, calls
  <2>2. Looking'
    BY <1>4, <1>0 DEF CInv, Looking, Proper, Made, Worked, Failed, SamePlan, SameTalk, SameTodo,
       SameContext, store, calls
  <2>3. ASSUME (failures <= 1 /\ ~stale)'
        PROVE  Decided'
    <3>1. failures <= 1 /\ ~stale /\ Decided
      BY <1>4, <2>3, <1>0 DEF CInv, IInv, TypeOK, Worked, Failed, SamePlan, SameTalk, SameTodo,
         SameContext, store, calls
    <3> QED
      BY <1>4, <2>3, <3>1, <1>0 DEF Decided, Owning, FreshCalls, Fresh, CInv, IInv, TypeOK,
         Running, Marked, Idle, Nothing, Worked, Failed, SamePlan, SameTalk, SameTodo,
         SameContext, store, calls
  <2>4. ASSUME Quiet'
        PROVE  Paired'
    <3>1. Quiet /\ Paired /\ ~turn.cancelled
      BY <1>4, <2>4, <1>0 DEF CInv, Quiet, IInv, TypeOK, Running, Worked, Failed, SamePlan,
         SameTalk, SameTodo, SameContext, store, calls
    <3> QED
      BY <1>4, <2>4, <3>1, <1>0 DEF Paired, Open, Of, Quiet, CInv, IInv, TypeOK, Running, Issued,
         Proper, Marked, Idle, Nothing, Worked, Failed, SamePlan, SameTalk, SameTodo, SameContext,
         store, calls
  <2> QED BY <1>1, <1>2, <1>3, <2>1, <2>2, <2>3, <2>4 DEF CInv, IInv
<1> QED BY <1>1, <1>2, <1>3, <1>4 DEF IInv

\* The model fails.
LEMMA ModelFailsKeeps ==
  ASSUME IInv, ModelFails
  PROVE  IInv' /\ (CInv => CInv')
<1>0. /\ turn.pc = "calling" /\ turn' \in Turns
      /\ turn'.pc = "failed" /\ SamePlan /\ SameTalk /\ SameTodo /\ SameContext
      /\ UNCHANGED <<store, engine, held, failures, cancels, calls, stale, ran, synthesized>>
  <2>1. turn \in Turns
    BY DEF IInv, TypeOK
  <2>2. PICK q \in {"failed"} : Goto(q)
    BY DEF ModelFails
  <2>3. turn' \in Turns /\ turn'.pc = q /\ SamePlan /\ SameTalk /\ SameTodo /\ SameContext
    BY <2>1, <2>2, Going DEF Steps
  <2> QED BY <2>2, <2>3 DEF ModelFails, At
<1>1. TypeOK'
  BY AgentAssumption, Values, <1>0 DEF IInv, TypeOK, Worked, Failed, SamePlan, SameTalk,
     SameTodo, SameContext, store, calls
<1>2. Running'
  BY <1>0 DEF IInv, TypeOK, Running, NoTurn, Nothing, Worked, Failed, SamePlan, SameTalk,
     SameTodo, SameContext, store, calls
<1>3. StatusKept'
  BY <1>0 DEF IInv, TypeOK, Running, StatusKept, Marked, Worked, Failed, SamePlan, SameTalk,
     SameTodo, SameContext, store, calls
<1>4. ASSUME CInv
      PROVE  CInv'
  <2>1. Issued'
    BY <1>4, <1>0 DEF CInv, IInv, TypeOK, Issued, Proper, Made, Nothing, Clearing, Worked,
       Failed, SamePlan, SameTalk, SameTodo, SameContext, store, calls
  <2>2. Looking'
    BY <1>4, <1>0 DEF CInv, Looking, Proper, Made, Worked, Failed, SamePlan, SameTalk, SameTodo,
       SameContext, store, calls
  <2>3. ASSUME (failures <= 1 /\ ~stale)'
        PROVE  Decided'
    <3>1. failures <= 1 /\ ~stale /\ Decided
      BY <1>4, <2>3, <1>0 DEF CInv, IInv, TypeOK, Worked, Failed, SamePlan, SameTalk, SameTodo,
         SameContext, store, calls
    <3> QED
      BY <1>4, <2>3, <3>1, <1>0 DEF Decided, Owning, FreshCalls, Fresh, CInv, IInv, TypeOK,
         Running, Marked, Idle, Nothing, Worked, Failed, SamePlan, SameTalk, SameTodo,
         SameContext, store, calls
  <2>4. ASSUME Quiet'
        PROVE  Paired'
    <3>1. Quiet /\ Paired /\ ~turn.cancelled
      BY <1>4, <2>4, <1>0 DEF CInv, Quiet, IInv, TypeOK, Running, Worked, Failed, SamePlan,
         SameTalk, SameTodo, SameContext, store, calls
    <3> QED
      BY <1>4, <2>4, <3>1, <1>0 DEF Paired, Open, Of, Quiet, CInv, IInv, TypeOK, Running, Issued,
         Proper, Marked, Idle, Nothing, Worked, Failed, SamePlan, SameTalk, SameTodo, SameContext,
         store, calls
  <2> QED BY <1>1, <1>2, <1>3, <2>1, <2>2, <2>3, <2>4 DEF CInv, IInv
<1> QED BY <1>1, <1>2, <1>3, <1>4 DEF IInv

\* A call that had no outcome runs.
LEMMA RunOneToolKeeps ==
  ASSUME IInv, RunOneTool
  PROVE  IInv' /\ (CInv => CInv')
<1>0. /\ turn.pc = "execute" /\ turn' \in Turns
      /\ turn'.pc = "record" /\ turn.todo # <<>> /\ SamePlan /\ SameTalk /\ SameTodo
            /\ SameContext
      /\ ran' = [ran EXCEPT ![Head(turn.todo)] = @ + 1]
      /\ UNCHANGED <<store, engine, held, failures, cancels, calls, stale, synthesized>>
  <2>1. turn \in Turns
    BY DEF IInv, TypeOK
  <2>2. PICK q \in {"record"} : Goto(q)
    BY DEF RunOneTool
  <2>3. turn' \in Turns /\ turn'.pc = q /\ SamePlan /\ SameTalk /\ SameTodo /\ SameContext
    BY <2>1, <2>2, Going DEF Steps
  <2> QED BY <2>2, <2>3 DEF RunOneTool, At
<1>a. /\ Head(turn.todo) \in Calls /\ ran' \in [Calls -> Nat]
      /\ ran'[Head(turn.todo)] = ran[Head(turn.todo)] + 1
      /\ \A c \in Calls : c # Head(turn.todo) => ran'[c] = ran[c]
  <2>1. turn \in Turns /\ ran \in [Calls -> Nat]
    BY DEF IInv, TypeOK
  <2>2. Head(turn.todo) \in Calls
    BY <1>0, <2>1, DecidesHead
  <2> DEFINE h == Head(turn.todo)
  <2>3. h \in Calls /\ ran' = [ran EXCEPT ![h] = @ + 1]
    BY <1>0, <2>2
  <2> HIDE DEF h
  <2>4. /\ ran' \in [Calls -> Nat] /\ ran'[h] = ran[h] + 1
        /\ \A c \in Calls : c # h => ran'[c] = ran[c]
    BY <2>1, <2>3
  <2> QED BY <2>3, <2>4 DEF h
<1>1. TypeOK'
  BY AgentAssumption, Values, <1>0, <1>a DEF IInv, TypeOK, Worked, Failed, SamePlan, SameTalk,
     SameTodo, SameContext, store, calls
<1>2. Running'
  BY <1>0, <1>a DEF IInv, TypeOK, Running, NoTurn, Nothing, Worked, Failed, SamePlan, SameTalk,
     SameTodo, SameContext, store, calls
<1>3. StatusKept'
  BY <1>0, <1>a DEF IInv, TypeOK, Running, StatusKept, Marked, Worked, Failed, SamePlan,
     SameTalk, SameTodo, SameContext, store, calls
<1>4. ASSUME CInv
      PROVE  CInv'
  <2>1. Issued'
    <3>1. Head(turn.todo) \in 1..issued /\ issued \in Nat
      BY <1>0, <1>4, DecidesHead DEF CInv, Issued, IInv, TypeOK
    <3>2. \A c \in Calls : c > issued => ran'[c] = 0 /\ c \notin synthesized'
      BY <1>0, <1>4, <1>a, <3>1 DEF CInv, Issued, Calls
    <3> QED BY <1>4, <1>0, <3>2 DEF CInv, Issued, Proper, Made, SamePlan, SameTodo, store, calls
  <2>2. Looking'
    BY <1>4, <1>0, <1>a DEF CInv, Looking, Proper, Made, Worked, Failed, SamePlan, SameTalk,
       SameTodo, SameContext, store, calls
  <2>3. ASSUME (failures <= 1 /\ ~stale)'
        PROVE  Decided'
    <3>1. failures <= 1 /\ ~stale /\ Decided
      BY <1>4, <2>3, <1>0, <1>a DEF CInv, IInv, TypeOK, Worked, Failed, SamePlan, SameTalk,
         SameTodo, SameContext, store, calls
    <3> DEFINE q == turn.todo
    <3>2. Fresh(Head(q)) /\ FreshCalls(Tail(q)) /\ Head(q) \notin Of(Tail(q))
      BY <1>0, <3>1, DecidesHead DEF Decided, IInv, TypeOK
    <3>3. \A c \in Calls : ran'[c] + (IF c \in synthesized' THEN 1 ELSE 0) <= 1
      <4> SUFFICES ASSUME NEW c \in Calls
                   PROVE  ran'[c] + (IF c \in synthesized' THEN 1 ELSE 0) <= 1
        OBVIOUS
      <4>1. synthesized' = synthesized
        BY <1>0
      <4>2. CASE c = Head(q)
        <5>1. ran'[c] = 1 /\ c \notin synthesized'
          BY <1>a, <3>2, <4>1, <4>2 DEF Fresh
        <5> QED BY <5>1
      <4>3. CASE c # Head(q)
        BY <1>a, <3>1, <4>1, <4>3 DEF Decided
      <4> QED BY <4>2, <4>3
    <3>4. FreshCalls(Tail(q))'
      <4>1. \A i \in DOMAIN Tail(q) : Tail(q)[i] \in Calls /\ Tail(q)[i] # Head(q)
        <5>1. turn \in Turns
          BY DEF IInv, TypeOK
        <5> DEFINE t == Tail(q)
        <5>2. t \in Seq(Calls) /\ Head(q) \notin Of(t)
          BY <1>0, <3>2, <5>1, DecidesHead
        <5> HIDE DEF t
        <5>3. \A i \in DOMAIN t : t[i] \in Calls /\ t[i] # Head(q)
          BY <5>2 DEF Of
        <5> QED BY <5>3 DEF t
      <4>2. \A c \in Calls : c # Head(q) /\ Fresh(c) => Fresh(c)'
        BY <1>0, <1>a DEF Fresh
      <4>3. Tail(q)' = Tail(q)
        BY <1>0 DEF SameTodo
      <4>4. FreshCalls(Tail(q))
        BY <3>2
      <4> QED BY <4>1, <4>2, <4>3, <4>4 DEF FreshCalls
    <3> QED
      BY <1>0, <3>1, <3>3, <3>4 DEF Decided, Idle, Marked, SameTodo, SameContext, store
  <2>4. ASSUME Quiet'
        PROVE  Paired'
    <3>1. Quiet /\ Paired /\ ~turn.cancelled
      BY <1>4, <2>4, <1>0, <1>a DEF CInv, Quiet, IInv, TypeOK, Running, Worked, Failed, SamePlan,
         SameTalk, SameTodo, SameContext, store, calls
    <3> QED
      BY <1>4, <2>4, <3>1, <1>0, <1>a DEF Paired, Open, Of, Quiet, CInv, IInv, TypeOK, Running,
         Issued, Proper, Marked, Idle, Nothing, Worked, Failed, SamePlan, SameTalk, SameTodo,
         SameContext, store, calls
  <2> QED BY <1>1, <1>2, <1>3, <2>1, <2>2, <2>3, <2>4 DEF CInv, IInv
<1> QED BY <1>1, <1>2, <1>3, <1>4 DEF IInv

\* The result of the call that ran is recorded.
LEMMA RecordResultKeeps ==
  ASSUME IInv, RecordResult
  PROVE  IInv' /\ (CInv => CInv')
<1>0. /\ turn.pc = "record" /\ turn' \in Turns
      /\ turn'.pc = "execute" /\ turn.todo # <<>> /\ turn'.todo = Tail(turn.todo) /\ SamePlan
            /\ SameContext
      /\ turn'.asked = turn.asked /\ turn'.answered = turn.answered \cup {Head(turn.todo)}
      /\ \/ Worked(TRUE) /\ answered' = answered \cup {Head(turn.todo)}
         \/ Failed(TRUE) /\ answered' = answered
      /\ UNCHANGED <<status, pending, asked, engine, held, cancels, calls, stale, ran, synthesized>>
  <2>0. turn \in Turns /\ pending \in Actions /\ asked \in SUBSET Calls
           /\ answered \in SUBSET Calls
    BY DEF IInv, TypeOK
  <2>1. /\ turn.pc = "record" /\ turn.todo # <<>>
        /\ UNCHANGED <<status, pending, asked, engine, held, cancels, calls, stale, ran, synthesized>>
    BY DEF RecordResult, At, IInv, Running
  <2>2. /\ turn' = [turn EXCEPT !.pc = "execute", !.todo = Tail(@), !.answered = @ \cup {Head(turn.todo)}]
        /\ \/ Worked(TRUE) /\ answered' = answered \cup {Head(turn.todo)}
           \/ Failed(TRUE) /\ answered' = answered
    BY DEF RecordResult, Works, Fails, Worked, Failed
  <2>3. Head(turn.todo) \in Calls /\ Tail(turn.todo) \in Seq(Calls)
    BY <2>0, <2>1, DecidesHead
  <2>4. /\ turn' \in Turns /\ turn'.pc = "execute" /\ turn'.todo = Tail(turn.todo)
        /\ turn'.asked = turn.asked /\ turn'.answered = turn.answered \cup {Head(turn.todo)}
        /\ SamePlan /\ SameContext
    BY <2>0, <2>2, <2>3 DEF Turns, Steps, SamePlan, SameContext
  <2> QED BY <2>1, <2>2, <2>4
<1>a. /\ Head(turn.todo) \in Calls /\ Tail(turn.todo) \in Seq(Calls)
      /\ Of(turn.todo) = Of(Tail(turn.todo)) \cup {Head(turn.todo)}
      /\ Made(turn.todo) => Made(Tail(turn.todo))
  BY <1>0, DecidesHead DEF IInv, TypeOK
<1>1. TypeOK'
  BY AgentAssumption, Values, <1>0, <1>a DEF IInv, TypeOK, Worked, Failed, SamePlan, SameTalk,
     SameTodo, SameContext, store, calls
<1>2. Running'
  BY <1>0, <1>a DEF IInv, TypeOK, Running, NoTurn, Nothing, Worked, Failed, SamePlan, SameTalk,
     SameTodo, SameContext, store, calls
<1>3. StatusKept'
  BY <1>0, <1>a DEF IInv, TypeOK, Running, StatusKept, Marked, Worked, Failed, SamePlan,
     SameTalk, SameTodo, SameContext, store, calls
<1>4. ASSUME CInv
      PROVE  CInv'
  <2>1. Issued'
    BY <1>4, <1>0, <1>a DEF CInv, IInv, TypeOK, Issued, Proper, Made, Nothing, Clearing, Worked,
       Failed, SamePlan, SameTalk, SameTodo, SameContext, store, calls
  <2>2. Looking'
    BY <1>4, <1>0, <1>a DEF CInv, Looking, Proper, Made, Worked, Failed, SamePlan, SameTalk,
       SameTodo, SameContext, store, calls
  <2>3. ASSUME (failures <= 1 /\ ~stale)'
        PROVE  Decided'
    <3>1. failures <= 1 /\ ~stale /\ Decided
      BY <1>4, <2>3, <1>0, <1>a DEF CInv, IInv, TypeOK, Worked, Failed, SamePlan, SameTalk,
         SameTodo, SameContext, store, calls
    <3>2. FreshCalls(turn.todo)'
      BY <1>0, <3>1 DEF Decided, FreshCalls, Fresh
    <3> QED BY <1>0, <3>1, <3>2 DEF Decided, Idle, Marked, SamePlan, SameContext, Failed,
         Worked, IInv, TypeOK
  <2>4. ASSUME Quiet'
        PROVE  Paired'
    <3>1. Quiet /\ Paired /\ ~turn.cancelled
      BY <1>4, <2>4, <1>0, <1>a DEF CInv, Quiet, IInv, TypeOK, Running, Worked, Failed, SamePlan,
         SameTalk, SameTodo, SameContext, store, calls
    <3> QED
      BY <1>0, <1>a, <2>4, <3>1 DEF Paired, Open, Quiet, Failed, Worked, Marked, Idle, SamePlan
  <2> QED BY <1>1, <1>2, <1>3, <2>1, <2>2, <2>3, <2>4 DEF CInv, IInv
<1> QED BY <1>1, <1>2, <1>3, <1>4 DEF IInv

\* The batch is done.
LEMMA BatchDoneKeeps ==
  ASSUME IInv, BatchDone
  PROVE  IInv' /\ (CInv => CInv')
<1>0. /\ turn.pc = "execute" /\ turn' \in Turns
      /\ turn'.pc \in {"model", "clear"} /\ turn.todo = <<>> /\ SamePlan /\ SameTalk
            /\ SameTodo /\ SameContext
      /\ UNCHANGED <<store, engine, held, failures, cancels, calls, stale, ran, synthesized>>
  <2>1. turn \in Turns
    BY DEF IInv, TypeOK
  <2>2. PICK q \in {"model", "clear"} : Goto(q)
    BY DEF BatchDone
  <2>3. turn' \in Turns /\ turn'.pc = q /\ SamePlan /\ SameTalk /\ SameTodo /\ SameContext
    BY <2>1, <2>2, Going DEF Steps
  <2> QED BY <2>2, <2>3 DEF BatchDone, At
<1>1. TypeOK'
  BY AgentAssumption, Values, <1>0 DEF IInv, TypeOK, Worked, Failed, SamePlan, SameTalk,
     SameTodo, SameContext, store, calls
<1>2. Running'
  BY <1>0 DEF IInv, TypeOK, Running, NoTurn, Nothing, Worked, Failed, SamePlan, SameTalk,
     SameTodo, SameContext, store, calls
<1>3. StatusKept'
  BY <1>0 DEF IInv, TypeOK, Running, StatusKept, Marked, Worked, Failed, SamePlan, SameTalk,
     SameTodo, SameContext, store, calls
<1>4. ASSUME CInv
      PROVE  CInv'
  <2>1. Issued'
    BY <1>4, <1>0 DEF CInv, IInv, TypeOK, Issued, Proper, Made, Nothing, Clearing, Worked,
       Failed, SamePlan, SameTalk, SameTodo, SameContext, store, calls
  <2>2. Looking'
    BY <1>4, <1>0 DEF CInv, Looking, Proper, Made, Worked, Failed, SamePlan, SameTalk, SameTodo,
       SameContext, store, calls
  <2>3. ASSUME (failures <= 1 /\ ~stale)'
        PROVE  Decided'
    <3>1. failures <= 1 /\ ~stale /\ Decided
      BY <1>4, <2>3, <1>0 DEF CInv, IInv, TypeOK, Worked, Failed, SamePlan, SameTalk, SameTodo,
         SameContext, store, calls
    <3> QED
      BY <1>4, <2>3, <3>1, <1>0 DEF Decided, Owning, FreshCalls, Fresh, CInv, IInv, TypeOK,
         Running, Marked, Idle, Nothing, Worked, Failed, SamePlan, SameTalk, SameTodo,
         SameContext, store, calls
  <2>4. ASSUME Quiet'
        PROVE  Paired'
    <3>1. Quiet /\ Paired /\ ~turn.cancelled
      BY <1>4, <2>4, <1>0 DEF CInv, Quiet, IInv, TypeOK, Running, Worked, Failed, SamePlan,
         SameTalk, SameTodo, SameContext, store, calls
    <3> QED
      BY <1>4, <2>4, <3>1, <1>0 DEF Paired, Open, Of, Quiet, CInv, IInv, TypeOK, Running, Issued,
         Proper, Marked, Idle, Nothing, Worked, Failed, SamePlan, SameTalk, SameTodo, SameContext,
         store, calls
  <2> QED BY <1>1, <1>2, <1>3, <2>1, <2>2, <2>3, <2>4 DEF CInv, IInv
<1> QED BY <1>1, <1>2, <1>3, <1>4 DEF IInv

\* A failed turn leaves the session idle, unless that write fails as well.
LEMMA FailTurnKeeps ==
  ASSUME IInv, FailTurn
  PROVE  IInv' /\ (CInv => CInv')
<1>0. /\ turn.pc = "failed" /\ turn' \in Turns
      /\ turn'.pc \in {"final", "end"} /\ SamePlan /\ SameTalk /\ SameTodo /\ SameContext
      /\ \/ Worked(TRUE) /\ status' = "idle"
         \/ Failed(TRUE) /\ status' = status
      /\ UNCHANGED <<pending, asked, answered, engine, held, cancels, calls, stale, ran, synthesized>>
  <2>1. turn \in Turns
    BY DEF IInv, TypeOK
  <2>2. PICK q \in {"final", "end"} : Goto(q)
    BY DEF FailTurn
  <2>3. turn' \in Turns /\ turn'.pc = q /\ SamePlan /\ SameTalk /\ SameTodo /\ SameContext
    BY <2>1, <2>2, Going DEF Steps
  <2> QED BY <2>2, <2>3 DEF FailTurn, SetIdle, At, Works, Fails, Worked, Failed
<1>1. TypeOK'
  BY AgentAssumption, Values, <1>0 DEF IInv, TypeOK, Worked, Failed, SamePlan, SameTalk,
     SameTodo, SameContext, store, calls
<1>2. Running'
  BY <1>0 DEF IInv, TypeOK, Running, NoTurn, Nothing, Worked, Failed, SamePlan, SameTalk,
     SameTodo, SameContext, store, calls
<1>3. StatusKept'
  BY <1>0 DEF IInv, TypeOK, Running, StatusKept, Marked, Worked, Failed, SamePlan, SameTalk,
     SameTodo, SameContext, store, calls
<1>4. ASSUME CInv
      PROVE  CInv'
  <2>1. Issued'
    BY <1>4, <1>0 DEF CInv, IInv, TypeOK, Issued, Proper, Made, Nothing, Clearing, Worked,
       Failed, SamePlan, SameTalk, SameTodo, SameContext, store, calls
  <2>2. Looking'
    BY <1>4, <1>0 DEF CInv, Looking, Proper, Made, Worked, Failed, SamePlan, SameTalk, SameTodo,
       SameContext, store, calls
  <2>3. ASSUME (failures <= 1 /\ ~stale)'
        PROVE  Decided'
    <3>1. failures <= 1 /\ ~stale /\ Decided
      BY <1>4, <2>3, <1>0 DEF CInv, IInv, TypeOK, Worked, Failed, SamePlan, SameTalk, SameTodo,
         SameContext, store, calls
    <3> QED
      BY <1>4, <2>3, <3>1, <1>0 DEF Decided, Owning, FreshCalls, Fresh, CInv, IInv, TypeOK,
         Running, Marked, Idle, Nothing, Worked, Failed, SamePlan, SameTalk, SameTodo,
         SameContext, store, calls
  <2>4. ASSUME Quiet'
        PROVE  Paired'
    <3>1. Quiet /\ Paired /\ ~turn.cancelled
      BY <1>4, <2>4, <1>0 DEF CInv, Quiet, IInv, TypeOK, Running, Worked, Failed, SamePlan,
         SameTalk, SameTodo, SameContext, store, calls
    <3> QED
      BY <1>4, <2>4, <3>1, <1>0 DEF Paired, Open, Of, Quiet, CInv, IInv, TypeOK, Running, Issued,
         Proper, Marked, Idle, Nothing, Worked, Failed, SamePlan, SameTalk, SameTodo, SameContext,
         store, calls
  <2> QED BY <1>1, <1>2, <1>3, <2>1, <2>2, <2>3, <2>4 DEF CInv, IInv
<1> QED BY <1>1, <1>2, <1>3, <1>4 DEF IInv

\* A turn that is done leaves the session idle, unless the write fails.
LEMMA FinalizeTurnKeeps ==
  ASSUME IInv, FinalizeTurn
  PROVE  IInv' /\ (CInv => CInv')
<1>0. /\ turn.pc = "final" /\ turn' \in Turns
      /\ turn'.pc = "end" /\ SamePlan /\ SameTalk /\ SameTodo /\ SameContext
      /\ \/ Worked(TRUE) /\ status' = "idle"
         \/ Failed(TRUE) /\ status' = status
      /\ UNCHANGED <<pending, asked, answered, engine, held, cancels, calls, stale, ran, synthesized>>
  <2>1. turn \in Turns
    BY DEF IInv, TypeOK
  <2>2. PICK q \in {"end"} : Goto(q)
    BY DEF FinalizeTurn
  <2>3. turn' \in Turns /\ turn'.pc = q /\ SamePlan /\ SameTalk /\ SameTodo /\ SameContext
    BY <2>1, <2>2, Going DEF Steps
  <2> QED BY <2>2, <2>3 DEF FinalizeTurn, SetIdle, At, Works, Fails, Worked, Failed
<1>1. TypeOK'
  BY AgentAssumption, Values, <1>0 DEF IInv, TypeOK, Worked, Failed, SamePlan, SameTalk,
     SameTodo, SameContext, store, calls
<1>2. Running'
  BY <1>0 DEF IInv, TypeOK, Running, NoTurn, Nothing, Worked, Failed, SamePlan, SameTalk,
     SameTodo, SameContext, store, calls
<1>3. StatusKept'
  BY <1>0 DEF IInv, TypeOK, Running, StatusKept, Marked, Worked, Failed, SamePlan, SameTalk,
     SameTodo, SameContext, store, calls
<1>4. ASSUME CInv
      PROVE  CInv'
  <2>1. Issued'
    BY <1>4, <1>0 DEF CInv, IInv, TypeOK, Issued, Proper, Made, Nothing, Clearing, Worked,
       Failed, SamePlan, SameTalk, SameTodo, SameContext, store, calls
  <2>2. Looking'
    BY <1>4, <1>0 DEF CInv, Looking, Proper, Made, Worked, Failed, SamePlan, SameTalk, SameTodo,
       SameContext, store, calls
  <2>3. ASSUME (failures <= 1 /\ ~stale)'
        PROVE  Decided'
    <3>1. failures <= 1 /\ ~stale /\ Decided
      BY <1>4, <2>3, <1>0 DEF CInv, IInv, TypeOK, Worked, Failed, SamePlan, SameTalk, SameTodo,
         SameContext, store, calls
    <3> QED
      BY <1>4, <2>3, <3>1, <1>0 DEF Decided, Owning, FreshCalls, Fresh, CInv, IInv, TypeOK,
         Running, Marked, Idle, Nothing, Worked, Failed, SamePlan, SameTalk, SameTodo,
         SameContext, store, calls
  <2>4. ASSUME Quiet'
        PROVE  Paired'
    <3>1. Quiet /\ Paired /\ ~turn.cancelled
      BY <1>4, <2>4, <1>0 DEF CInv, Quiet, IInv, TypeOK, Running, Worked, Failed, SamePlan,
         SameTalk, SameTodo, SameContext, store, calls
    <3> QED
      BY <1>4, <2>4, <3>1, <1>0 DEF Paired, Open, Of, Quiet, CInv, IInv, TypeOK, Running, Issued,
         Proper, Marked, Idle, Nothing, Worked, Failed, SamePlan, SameTalk, SameTodo, SameContext,
         store, calls
  <2> QED BY <1>1, <1>2, <1>3, <2>1, <2>2, <2>3, <2>4 DEF CInv, IInv
<1> QED BY <1>1, <1>2, <1>3, <1>4 DEF IInv

\* A call that had no outcome is told that it did not run.
LEMMA SynthesizeKeeps ==
  ASSUME IInv, turn.pc \in {"refuse", "execute"}, turn.todo # <<>>, Synthesize(FALSE)
  PROVE  IInv' /\ (CInv => CInv')
<1>0. /\ turn' \in Turns /\ turn'.pc = turn.pc /\ turn'.todo = Tail(turn.todo) /\ SamePlan
            /\ SameContext
      /\ turn'.asked = turn.asked /\ turn'.answered = turn.answered \cup {Head(turn.todo)}
      /\ synthesized' = synthesized \cup {Head(turn.todo)} /\ turn.pc \in {"refuse", "execute"}
      /\ \/ Worked(FALSE) /\ answered' = answered \cup {Head(turn.todo)}
         \/ Failed(FALSE) /\ answered' = answered
      /\ UNCHANGED <<status, pending, asked, engine, held, cancels, calls, stale, ran>>
  <2>0. turn \in Turns
    BY DEF IInv, TypeOK
  <2>1. /\ turn' = [turn EXCEPT !.todo = Tail(@), !.answered = @ \cup {Head(turn.todo)}]
        /\ synthesized' = synthesized \cup {Head(turn.todo)}
        /\ \/ Worked(FALSE) /\ answered' = answered \cup {Head(turn.todo)}
           \/ Failed(FALSE) /\ answered' = answered
        /\ UNCHANGED <<status, pending, asked, engine, held, cancels, calls, stale, ran>>
    BY DEF Synthesize, Works, Fails, Worked, Failed
  <2>2. Head(turn.todo) \in Calls /\ Tail(turn.todo) \in Seq(Calls)
    BY <2>0, DecidesHead
  <2>3. /\ turn' \in Turns /\ turn'.pc = turn.pc /\ turn'.todo = Tail(turn.todo)
        /\ turn'.asked = turn.asked /\ turn'.answered = turn.answered \cup {Head(turn.todo)}
        /\ SamePlan /\ SameContext
    BY <2>0, <2>1, <2>2 DEF Turns, SamePlan, SameContext
  <2> QED BY <2>1, <2>3
<1>a. /\ Head(turn.todo) \in Calls /\ Tail(turn.todo) \in Seq(Calls)
      /\ Of(turn.todo) = Of(Tail(turn.todo)) \cup {Head(turn.todo)}
      /\ Made(turn.todo) => Made(Tail(turn.todo)) /\ Head(turn.todo) \in 1..issued
  BY DecidesHead DEF IInv, TypeOK
<1>1. TypeOK'
  BY AgentAssumption, Values, <1>0, <1>a DEF IInv, TypeOK, Worked, Failed, SamePlan, SameTalk,
     SameTodo, SameContext, store, calls
<1>2. Running'
  BY <1>0, <1>a DEF IInv, TypeOK, Running, NoTurn, Nothing, Worked, Failed, SamePlan, SameTalk,
     SameTodo, SameContext, store, calls
<1>3. StatusKept'
  BY <1>0, <1>a DEF IInv, TypeOK, Running, StatusKept, Marked, Worked, Failed, SamePlan,
     SameTalk, SameTodo, SameContext, store, calls
<1>4. ASSUME CInv
      PROVE  CInv'
  <2>1. Issued'
    <3>1. Head(turn.todo) \in 1..issued /\ issued \in Nat
      BY <1>4, <1>a DEF CInv, Issued, IInv, TypeOK
    <3>2. \A c \in Calls : c > issued => ran[c] = 0 /\ c \notin synthesized'
      BY <1>0, <1>4, <3>1 DEF CInv, Issued, Calls
    <3> QED BY <1>4, <1>0, <1>a, <3>2 DEF CInv, Issued, Proper, Made, SamePlan, store, calls
  <2>2. Looking'
    BY <1>4, <1>0, <1>a DEF CInv, Looking, Proper, Made, Worked, Failed, SamePlan, SameTalk,
       SameTodo, SameContext, store, calls
  <2>3. ASSUME (failures <= 1 /\ ~stale)'
        PROVE  Decided'
    <3>1. failures <= 1 /\ ~stale /\ Decided
      BY <1>4, <2>3, <1>0, <1>a DEF CInv, IInv, TypeOK, Worked, Failed, SamePlan, SameTalk,
         SameTodo, SameContext, store, calls
    <3> DEFINE q == turn.todo
    <3>2. Fresh(Head(q)) /\ FreshCalls(Tail(q)) /\ Head(q) \notin Of(Tail(q))
      BY <1>0, <3>1, DecidesHead DEF Decided, IInv, TypeOK
    <3>3. \A c \in Calls : ran'[c] + (IF c \in synthesized' THEN 1 ELSE 0) <= 1
      <4> SUFFICES ASSUME NEW c \in Calls
                   PROVE  ran[c] + (IF c \in synthesized' THEN 1 ELSE 0) <= 1
        BY <1>0
      <4>1. CASE c = Head(q)
        <5>1. ran[c] = 0
          BY <3>2, <4>1 DEF Fresh
        <5> QED BY <5>1
      <4>2. CASE c # Head(q)
        BY <1>0, <3>1, <4>2 DEF Decided
      <4> QED BY <4>1, <4>2
    <3>4. FreshCalls(turn.todo)'
      <4>1. \A i \in DOMAIN Tail(q) : Tail(q)[i] # Head(q)
        BY <3>2 DEF Of
      <4> QED BY <1>0, <3>2, <4>1 DEF FreshCalls, Fresh
    <3> QED
      BY <1>0, <3>1, <3>3, <3>4 DEF Decided, Idle, Marked, SamePlan, SameContext, Worked, Failed,
         IInv, TypeOK
  <2>4. ASSUME Quiet'
        PROVE  Paired'
    <3>1. Quiet /\ Paired /\ ~turn.cancelled
      BY <1>4, <2>4, <1>0, <1>a DEF CInv, Quiet, IInv, TypeOK, Running, Worked, Failed, SamePlan,
         SameTalk, SameTodo, SameContext, store, calls
    <3> QED
      BY <1>0, <1>a, <2>4, <3>1 DEF Paired, Open, Quiet, Failed, Worked, Marked, Idle, SamePlan
  <2> QED BY <1>1, <1>2, <1>3, <2>1, <2>2, <2>3, <2>4 DEF CInv, IInv
<1> QED BY <1>1, <1>2, <1>3, <1>4 DEF IInv

\* A turn that pauses hands the rest of its batch to the session.
LEMMA PauseKeeps ==
  ASSUME IInv, turn.pc = "execute",
         NEW action \in Actions, action.kind \in {"question", "approval", "plan"},
         action.calls = turn.todo, action.kind = "plan" => turn.todo = <<>>, Pause(action)
  PROVE  IInv' /\ (CInv => CInv')
<1>0. /\ turn' \in Turns /\ turn.pc = "execute" /\ SamePlan /\ SameTalk /\ SameTodo /\ SameContext
      /\ \/ Worked(FALSE) /\ status' = "waiting_approval" /\ pending' = action /\ turn'.pc = "end"
         \/ Failed(FALSE) /\ status' = status /\ pending' = pending /\ turn'.pc = "failed"
      /\ UNCHANGED <<asked, answered, engine, held, cancels, calls, stale, ran, synthesized>>
  BY DEF Pause, Goto, Works, Fails, Worked, Failed, IInv, TypeOK, Turns, Steps, SamePlan,
     SameTalk, SameTodo, SameContext
<1>a. action # Nothing /\ action # Clearing
  BY DEF Nothing, Clearing
<1>1. TypeOK'
  BY AgentAssumption, Values, <1>0, <1>a DEF IInv, TypeOK, Worked, Failed, SamePlan, SameTalk,
     SameTodo, SameContext, store, calls
<1>2. Running'
  BY <1>0, <1>a DEF IInv, TypeOK, Running, NoTurn, Nothing, Worked, Failed, SamePlan, SameTalk,
     SameTodo, SameContext, store, calls
<1>3. StatusKept'
  BY <1>0, <1>a DEF IInv, TypeOK, Running, StatusKept, Marked, Worked, Failed, SamePlan,
     SameTalk, SameTodo, SameContext, store, calls
<1>4. ASSUME CInv
      PROVE  CInv'
  <2>1. Issued'
    BY <1>4, <1>0, <1>a DEF CInv, IInv, TypeOK, Issued, Proper, Made, Nothing, Clearing, Worked,
       Failed, SamePlan, SameTalk, SameTodo, SameContext, store, calls
  <2>2. Looking'
    BY <1>4, <1>0, <1>a DEF CInv, Looking, Proper, Made, Worked, Failed, SamePlan, SameTalk,
       SameTodo, SameContext, store, calls
  <2>3. ASSUME (failures <= 1 /\ ~stale)'
        PROVE  Decided'
    <3>1. failures <= 1 /\ ~stale /\ Decided
      BY <1>4, <2>3, <1>0, <1>a DEF CInv, IInv, TypeOK, Worked, Failed, SamePlan, SameTalk,
         SameTodo, SameContext, store, calls
    <3> QED
      BY <1>4, <2>3, <3>1, <1>0, <1>a DEF Decided, Owning, FreshCalls, Fresh, CInv, IInv, TypeOK,
         Running, Marked, Idle, Nothing, Worked, Failed, SamePlan, SameTalk, SameTodo,
         SameContext, store, calls
  <2>4. ASSUME Quiet'
        PROVE  Paired'
    <3>1. Quiet /\ Paired /\ ~turn.cancelled
      BY <1>4, <2>4, <1>0, <1>a DEF CInv, Quiet, IInv, TypeOK, Running, Worked, Failed, SamePlan,
         SameTalk, SameTodo, SameContext, store, calls
    <3> QED
      BY <1>4, <2>4, <3>1, <1>0, <1>a DEF Paired, Open, Of, Quiet, CInv, IInv, TypeOK, Running,
         Issued, Proper, Marked, Idle, Nothing, Worked, Failed, SamePlan, SameTalk, SameTodo,
         SameContext, store, calls
  <2> QED BY <1>1, <1>2, <1>3, <2>1, <2>2, <2>3, <2>4 DEF CInv, IInv
<1> QED BY <1>1, <1>2, <1>3, <1>4 DEF IInv

\* What the model has asked for is new, and is what there is to do.
LEMMA NewCalls ==
  ASSUME NEW m \in Nat, NEW n \in Nat, m + n <= MaxCalls, NEW q \in [1..n -> Nat],
         \A i \in 1..n : q[i] = m + i
  PROVE  /\ q \in Seq(Calls) /\ Of(q) = (m + 1)..(m + n)
         /\ \A i \in DOMAIN q : q[i] \in Calls /\ q[i] > m /\ q[i] \in 1..(m + n)
         /\ \A i, j \in DOMAIN q : q[i] = q[j] => i = j
         /\ n = 0 => q = <<>>
<1>1. DOMAIN q = 1..n /\ \A i \in 1..n : q[i] = m + i
  OBVIOUS
<1>2. \A i \in 1..n : m + i \in Calls /\ m + i > m /\ m + i \in 1..(m + n)
  BY AgentAssumption DEF Calls
<1>3. q \in Seq(Calls)
  <2>1. q \in [1..n -> Calls]
    BY <1>1, <1>2
  <2> QED BY <2>1
<1>4. Of(q) = (m + 1)..(m + n)
  <2>1. \A c \in (m + 1)..(m + n) : c - m \in 1..n /\ c = q[c - m]
    BY <1>1
  <2>2. \A i \in 1..n : q[i] \in (m + 1)..(m + n)
    BY <1>1
  <2> QED BY <1>1, <2>1, <2>2 DEF Of
<1> QED BY <1>1, <1>2, <1>3, <1>4

\* The model asks for calls nobody has heard of.
LEMMA ModelRepliesKeeps ==
  ASSUME IInv, ModelReplies
  PROVE  IInv' /\ (CInv => CInv')
<1>p. PICK n \in 0..MaxBatch, k \in [1..MaxBatch -> Kinds] :
        LET new == (issued + 1)..(issued + n)
        IN  /\ issued + n <= MaxCalls
            /\ issued' = issued + n
            /\ kind' = [c \in Calls |-> IF c \in new THEN k[c - issued] ELSE kind[c]]
            /\ turn' = [turn EXCEPT !.pc = IF n = 0 THEN "final" ELSE "execute",
                          !.asked = @ \cup new, !.todo = [i \in 1..n |-> issued + i]]
            /\ \/ Works(FALSE) /\ asked' = asked \cup new
               \/ Fails(FALSE) /\ UNCHANGED asked
  BY DEF ModelReplies
<1> DEFINE new == (issued + 1)..(issued + n)
           q == [i \in 1..n |-> issued + i]
           pc == IF n = 0 THEN "final" ELSE "execute"
<1>b. /\ issued \in Nat /\ n \in Nat /\ issued + n \in 0..MaxCalls /\ new \subseteq Calls
      /\ \A c \in new : c - issued \in 1..MaxBatch
  BY <1>p, AgentAssumption DEF IInv, TypeOK, Calls
<1>c. /\ q \in Seq(Calls) /\ Of(q) = new
      /\ \A i \in DOMAIN q : q[i] \in Calls /\ q[i] > issued /\ q[i] \in 1..(issued + n)
      /\ \A i, j \in DOMAIN q : q[i] = q[j] => i = j
      /\ n = 0 => q = <<>>
  <2>1. issued + n <= MaxCalls /\ issued \in Nat /\ n \in Nat
    BY <1>p, <1>b
  <2>2. q \in [1..n -> Nat] /\ \A i \in 1..n : q[i] = issued + i
    BY <1>b
  <2> HIDE DEF q, new
  <2>a. q \in Seq(Calls)
    BY <2>1, <2>2, NewCalls
  <2>b. Of(q) = (issued + 1)..(issued + n)
    BY <2>1, <2>2, NewCalls
  <2>c. \A i \in DOMAIN q : q[i] \in Calls /\ q[i] > issued /\ q[i] \in 1..(issued + n)
    BY <2>1, <2>2, NewCalls
  <2>d. \A i, j \in DOMAIN q : q[i] = q[j] => i = j
    BY <2>1, <2>2, NewCalls
  <2>e. n = 0 => q = <<>>
    BY <2>1, <2>2, NewCalls
  <2> QED BY <2>a, <2>b, <2>c, <2>d, <2>e DEF new
<1>d. kind' \in [Calls -> Kinds]
  BY <1>p, <1>b DEF IInv, TypeOK
<1> HIDE DEF new, q
<1>e. /\ turn' \in Turns /\ turn'.pc = pc /\ turn'.asked = turn.asked \cup new /\ turn'.todo = q
      /\ SamePlan /\ SameContext /\ turn'.answered = turn.answered
  <2>1. turn \in Turns
    BY DEF IInv, TypeOK
  <2>2. turn' = [turn EXCEPT !.pc = pc, !.asked = @ \cup new, !.todo = q]
    BY <1>p DEF new, q
  <2>3. pc \in {"final", "execute"}
    OBVIOUS
  <2> HIDE DEF pc
  <2> QED BY <2>1, <2>2, <2>3, <1>b, <1>c DEF Turns, Steps, SamePlan, SameContext
<1>0. /\ turn.pc = "calling" /\ turn' \in Turns
      /\ turn'.pc \in {"final", "execute"} /\ (turn'.pc = "final" => q = <<>>)
      /\ turn'.asked = turn.asked \cup new /\ turn'.answered = turn.answered /\ turn'.todo = q
      /\ SamePlan /\ SameContext
      /\ issued' = issued + n /\ issued' \in 0..MaxCalls /\ kind' \in [Calls -> Kinds]
      /\ \/ Worked(FALSE) /\ asked' = asked \cup new
         \/ Failed(FALSE) /\ asked' = asked
      /\ UNCHANGED <<status, pending, answered, engine, held, cancels, stale, ran, synthesized>>
  <2>1. /\ turn.pc = "calling"
        /\ UNCHANGED <<status, pending, answered, engine, held, cancels, stale, ran, synthesized>>
    BY DEF ModelReplies, At
  <2>2. \/ Worked(FALSE) /\ asked' = asked \cup new
        \/ Failed(FALSE) /\ asked' = asked
    BY <1>p DEF Works, Fails, Worked, Failed, new
  <2>3. issued' = issued + n /\ issued' \in 0..MaxCalls
    BY <1>p, <1>b
  <2> QED BY <1>c, <1>d, <1>e, <2>1, <2>2, <2>3
<1>f. Of(q) = new /\ q \in Seq(Calls) /\ new \subseteq Calls
  BY <1>b, <1>c
<1>1. TypeOK'
  <2>1. failures' \in 0..MaxFailures
    BY AgentAssumption, <1>0 DEF IInv, TypeOK, Worked, Failed
  <2>2. asked' \subseteq Calls
    BY <1>0, <1>f DEF IInv, TypeOK
  <2> QED BY <1>0, <2>1, <2>2 DEF IInv, TypeOK
<1>2. Running'
  BY <1>0, <1>f DEF IInv, TypeOK, Running, NoTurn, Nothing, Worked, Failed, SamePlan, SameTalk,
     SameTodo, SameContext, store, calls
<1>3. StatusKept'
  BY <1>0, <1>f DEF IInv, TypeOK, Running, StatusKept, Marked, Worked, Failed, SamePlan,
     SameTalk, SameTodo, SameContext, store, calls
<1>4. ASSUME CInv
      PROVE  CInv'
  <2>1. Issued'
    <3>1. 1..issued \subseteq 1..issued' /\ \A c \in Calls : c > issued' => c > issued
      BY <1>0, <1>b DEF Calls
    <3>2. Made(turn.todo)'
      BY <1>0, <1>c DEF Made
    <3> QED BY <1>4, <1>0, <3>1, <3>2 DEF CInv, Issued, Proper, Made, SamePlan
  <2>2. Looking'
    <3>1. 1..issued \subseteq 1..issued' /\ held' = held
      BY <1>0, <1>b
    <3> QED BY <1>4, <3>1 DEF CInv, Looking, Proper, Made
  <2>3. ASSUME (failures <= 1 /\ ~stale)'
        PROVE  Decided'
    <3>1. failures <= 1 /\ ~stale /\ Decided
      BY <1>4, <2>3, <1>0, <1>f DEF CInv, IInv, TypeOK, Worked, Failed, SamePlan, SameTalk,
         SameTodo, SameContext, store, calls
    <3>2. FreshCalls(turn.todo)'
      BY <1>0, <1>c, <1>4 DEF FreshCalls, Fresh, CInv, Issued
    <3> QED
      BY <1>0, <3>1, <3>2 DEF Decided, Idle, Marked, SamePlan, SameContext, Worked, Failed, IInv,
         TypeOK
  <2>4. ASSUME Quiet'
        PROVE  Paired'
    <3>1. Quiet /\ Paired /\ ~turn.cancelled
      BY <1>4, <2>4, <1>0, <1>f DEF CInv, Quiet, IInv, TypeOK, Running, Worked, Failed, SamePlan,
         SameTalk, SameTodo, SameContext, store, calls
    <3>2. Open = {} /\ asked' = asked \cup new /\ turn.asked = asked /\ turn.answered = answered
      BY <1>0, <2>4, <3>1 DEF Open, Paired, Quiet, Marked, Idle, Worked, Failed
    <3>3. Open' = new
      <4>1. CASE turn'.pc = "execute"
        BY <4>1, <1>0, <1>f DEF Open, Idle
      <4>2. CASE turn'.pc = "final"
        BY <4>2, <1>0, <1>f DEF Open, Idle, Of
      <4> QED BY <1>0, <4>1, <4>2
    <3> QED BY <1>0, <3>1, <3>2, <3>3 DEF Paired, Marked
  <2> QED BY <1>1, <1>2, <1>3, <2>1, <2>2, <2>3, <2>4 DEF CInv, IInv
<1> QED BY <1>1, <1>2, <1>3, <1>4 DEF IInv

-----------------------------------------------------------------------------
(* What befalls a turn, and the requests.                                  *)

\* A turn is stopped.
LEMMA StopKeeps ==
  ASSUME IInv, Stop
  PROVE  IInv' /\ (CInv => CInv')
<1>0. /\ turn # NoTurn /\ turn' \in Turns /\ turn'.pc = turn.pc /\ turn'.cancelled
      /\ SamePlan /\ SameTalk /\ SameTodo /\ cancels' = cancels + 1 /\ cancels' \in 0..MaxStops
      /\ UNCHANGED <<store, engine, held, failures, calls, stale, ran, synthesized>>
  <2>1. /\ turn # NoTurn /\ turn' = [turn EXCEPT !.cancelled = TRUE]
        /\ cancels < MaxStops /\ cancels' = cancels + 1
        /\ UNCHANGED <<store, engine, held, failures, calls, stale, ran, synthesized>>
    BY DEF Stop
  <2>2. turn' \in Turns /\ turn'.pc = turn.pc /\ turn'.cancelled /\ SamePlan /\ SameTalk
           /\ SameTodo
    BY <2>1 DEF IInv, TypeOK, Turns, SamePlan, SameTalk, SameTodo
  <2>3. cancels' \in 0..MaxStops
    BY <2>1, AgentAssumption DEF IInv, TypeOK
  <2> QED BY <2>1, <2>2, <2>3
<1>1. TypeOK'
  BY AgentAssumption, Values, <1>0 DEF IInv, TypeOK, SamePlan, SameTalk, SameTodo, store, calls
<1>2. Running'
  BY <1>0 DEF IInv, TypeOK, Running, NoTurn, Nothing, SamePlan, SameTalk, SameTodo, store, calls
<1>3. StatusKept'
  BY <1>0 DEF IInv, TypeOK, Running, StatusKept, Marked, SamePlan, SameTalk, SameTodo, store,
     calls
<1>4. ASSUME CInv
      PROVE  CInv'
  <2>1. Issued'
    BY <1>4, <1>0 DEF CInv, IInv, TypeOK, Issued, Proper, Made, Nothing, Clearing, SamePlan,
       SameTalk, SameTodo, store, calls
  <2>2. Looking'
    BY <1>4, <1>0 DEF CInv, Looking, Proper, Made, SamePlan, SameTalk, SameTodo, store, calls
  <2>3. ASSUME (failures <= 1 /\ ~stale)'
        PROVE  Decided'
    <3>1. failures <= 1 /\ ~stale /\ Decided
      BY <1>4, <2>3, <1>0 DEF CInv, IInv, TypeOK, SamePlan, SameTalk, SameTodo, store, calls
    <3> QED
      BY <1>4, <2>3, <3>1, <1>0 DEF Decided, Owning, FreshCalls, Fresh, CInv, IInv, TypeOK,
         Running, Marked, Idle, Nothing, SamePlan, SameTalk, SameTodo, store, calls
  <2>4. ASSUME Quiet'
        PROVE  Paired'
    BY <1>0, <2>4, AgentAssumption DEF Quiet, IInv, TypeOK
  <2> QED BY <1>1, <1>2, <1>3, <2>1, <2>2, <2>3, <2>4 DEF CInv, IInv
<1> QED BY <1>1, <1>2, <1>3, <1>4 DEF IInv

\* Shutdown cancels the turn.
LEMMA ShutdownKeeps ==
  ASSUME IInv, Shutdown
  PROVE  IInv' /\ (CInv => CInv')
<1>0. /\ engine = "up" /\ engine' = "closing"
      /\ turn' \in Turns /\ turn'.pc = turn.pc /\ SamePlan /\ SameTalk /\ SameTodo
      /\ (turn = NoTurn => turn' = NoTurn) /\ (turn'.cancelled \/ turn' = turn)
      /\ UNCHANGED <<store, held, failures, cancels, calls, stale, ran, synthesized>>
  <2>1. /\ engine = "up" /\ engine' = "closing"
        /\ turn' = turn \/ (turn # NoTurn /\ turn' = [turn EXCEPT !.cancelled = TRUE])
        /\ UNCHANGED <<store, held, failures, cancels, calls, stale, ran, synthesized>>
    BY DEF Shutdown
  <2>2. /\ turn' \in Turns /\ turn'.pc = turn.pc /\ SamePlan /\ SameTalk /\ SameTodo
        /\ turn'.cancelled \/ turn' = turn
    BY <2>1 DEF IInv, TypeOK, Turns, SamePlan, SameTalk, SameTodo
  <2> QED BY <2>1, <2>2
<1>1. TypeOK'
  BY AgentAssumption, Values, <1>0 DEF IInv, TypeOK, SamePlan, SameTalk, SameTodo, store, calls
<1>2. Running'
  BY <1>0 DEF IInv, TypeOK, Running, NoTurn, Nothing, SamePlan, SameTalk, SameTodo, store, calls
<1>3. StatusKept'
  BY <1>0 DEF IInv, TypeOK, Running, StatusKept, Marked, SamePlan, SameTalk, SameTodo, store,
     calls
<1>4. ASSUME CInv
      PROVE  CInv'
  <2>1. Issued'
    BY <1>4, <1>0 DEF CInv, IInv, TypeOK, Issued, Proper, Made, Nothing, Clearing, SamePlan,
       SameTalk, SameTodo, store, calls
  <2>2. Looking'
    BY <1>4, <1>0 DEF CInv, Looking, Proper, Made, SamePlan, SameTalk, SameTodo, store, calls
  <2>3. ASSUME (failures <= 1 /\ ~stale)'
        PROVE  Decided'
    <3>1. failures <= 1 /\ ~stale /\ Decided
      BY <1>4, <2>3, <1>0 DEF CInv, IInv, TypeOK, SamePlan, SameTalk, SameTodo, store, calls
    <3> QED
      BY <1>4, <2>3, <3>1, <1>0 DEF Decided, Owning, FreshCalls, Fresh, CInv, IInv, TypeOK,
         Running, Marked, Idle, Nothing, SamePlan, SameTalk, SameTodo, store, calls
  <2>4. ASSUME Quiet'
        PROVE  Paired'
    BY <1>0, <2>4 DEF Quiet
  <2> QED BY <1>1, <1>2, <1>3, <2>1, <2>2, <2>3, <2>4 DEF CInv, IInv
<1> QED BY <1>1, <1>2, <1>3, <1>4 DEF IInv

\* A turn ends.
LEMMA EndTurnKeeps ==
  ASSUME IInv, EndTurn
  PROVE  IInv' /\ (CInv => CInv')
<1>0. /\ turn.pc = "end" /\ turn' = NoTurn
      /\ UNCHANGED <<store, engine, held, failures, cancels, calls, stale, ran, synthesized>>
  BY DEF EndTurn, At
<1>a. /\ NoTurn.pc = "none" /\ NoTurn.resume = Nothing /\ NoTurn.old = Nothing
      /\ NoTurn.todo = <<>> /\ ~NoTurn.cancelled
  BY DEF NoTurn
<1>1. TypeOK'
  BY AgentAssumption, Values, <1>0, <1>a, Values DEF IInv, TypeOK, store, calls
<1>2. Running'
  BY <1>0, <1>a, Values DEF IInv, TypeOK, Running, NoTurn, Nothing, store, calls
<1>3. StatusKept'
  BY <1>0, <1>a, Values DEF IInv, TypeOK, Running, StatusKept, Marked, store, calls
<1>4. ASSUME CInv
      PROVE  CInv'
  <2>1. Issued'
    BY <1>4, <1>0, <1>a, Values DEF CInv, IInv, TypeOK, Issued, Proper, Made, Nothing, Clearing,
       store, calls
  <2>2. Looking'
    BY <1>4, <1>0, <1>a, Values DEF CInv, Looking, Proper, Made, store, calls
  <2>3. ASSUME (failures <= 1 /\ ~stale)'
        PROVE  Decided'
    <3>1. failures <= 1 /\ ~stale /\ Decided
      BY <1>4, <2>3, <1>0, <1>a, Values DEF CInv, IInv, TypeOK, store, calls
    <3> QED
      BY <1>4, <2>3, <3>1, <1>0, <1>a, Values DEF Decided, Owning, FreshCalls, Fresh, CInv, IInv,
         TypeOK, Running, Marked, Idle, Nothing, store, calls
  <2>4. ASSUME Quiet'
        PROVE  Paired'
    <3>1. Quiet /\ Paired /\ ~turn.cancelled
      BY <1>4, <2>4, <1>0, <1>a, Values DEF CInv, Quiet, IInv, TypeOK, Running, store, calls
    <3> QED
      BY <1>4, <2>4, <3>1, <1>0, <1>a, Values DEF Paired, Open, Of, Quiet, CInv, IInv, TypeOK,
         Running, Issued, Proper, Marked, Idle, Nothing, store, calls
  <2> QED BY <1>1, <1>2, <1>3, <2>1, <2>2, <2>3, <2>4 DEF CInv, IInv
<1> QED BY <1>1, <1>2, <1>3, <1>4 DEF IInv

\* Shutdown returns.
LEMMA ShutdownReturnsKeeps ==
  ASSUME IInv, ShutdownReturns
  PROVE  IInv' /\ (CInv => CInv')
<1>0. /\ engine = "closing" /\ turn = NoTurn /\ engine' = "closed"
      /\ UNCHANGED <<store, turn, held, failures, cancels, calls, stale, ran, synthesized>>
  BY DEF ShutdownReturns
<1>1. TypeOK'
  BY AgentAssumption, Values, <1>0 DEF IInv, TypeOK, store, calls
<1>2. Running'
  BY <1>0 DEF IInv, TypeOK, Running, NoTurn, Nothing, store, calls
<1>3. StatusKept'
  BY <1>0 DEF IInv, TypeOK, Running, StatusKept, Marked, store, calls
<1>4. ASSUME CInv
      PROVE  CInv'
  <2>1. Issued'
    BY <1>4, <1>0 DEF CInv, IInv, TypeOK, Issued, Proper, Made, Nothing, Clearing, store, calls
  <2>2. Looking'
    BY <1>4, <1>0 DEF CInv, Looking, Proper, Made, store, calls
  <2>3. ASSUME (failures <= 1 /\ ~stale)'
        PROVE  Decided'
    <3>1. failures <= 1 /\ ~stale /\ Decided
      BY <1>4, <2>3, <1>0 DEF CInv, IInv, TypeOK, store, calls
    <3> QED
      BY <1>4, <2>3, <3>1, <1>0 DEF Decided, Owning, FreshCalls, Fresh, CInv, IInv, TypeOK,
         Running, Marked, Idle, Nothing, store, calls
  <2>4. ASSUME Quiet'
        PROVE  Paired'
    BY <1>0, <2>4 DEF Quiet
  <2> QED BY <1>1, <1>2, <1>3, <2>1, <2>2, <2>3, <2>4 DEF CInv, IInv
<1> QED BY <1>1, <1>2, <1>3, <1>4 DEF IInv

\* The process ends; a session that waited before the turn took it up still does.
LEMMA CrashKeeps ==
  ASSUME IInv, Crash
  PROVE  IInv' /\ (CInv => CInv')
<1>0. /\ failures' = failures + 1 /\ failures' \in 0..MaxFailures
      /\ engine' = "down" /\ turn' = NoTurn /\ held' = [c \in Clients |-> Nothing]
      /\ UNCHANGED <<store, cancels, calls, stale, ran, synthesized>>
  BY AgentAssumption DEF Crash, IInv, TypeOK
<1>a. /\ NoTurn.pc = "none" /\ NoTurn.resume = Nothing /\ NoTurn.old = Nothing
      /\ NoTurn.todo = <<>> /\ ~NoTurn.cancelled
  BY DEF NoTurn
<1>1. TypeOK'
  BY AgentAssumption, Values, <1>0, <1>a, Values DEF IInv, TypeOK, store, calls
<1>2. Running'
  BY <1>0, <1>a, Values DEF IInv, TypeOK, Running, NoTurn, Nothing, store, calls
<1>3. StatusKept'
  BY <1>0, <1>a, Values DEF IInv, TypeOK, Running, StatusKept, Marked, store, calls
<1>4. ASSUME CInv
      PROVE  CInv'
  <2>1. Issued'
    BY <1>4, <1>0, <1>a, Values DEF CInv, IInv, TypeOK, Issued, Proper, Made, Nothing, Clearing,
       store, calls
  <2>2. Looking'
    <3>1. \A c \in Clients : held'[c] = Nothing
      BY <1>0
    <3> QED BY <3>1, Values DEF Looking, Proper, Made, Nothing
  <2>3. ASSUME (failures <= 1 /\ ~stale)'
        PROVE  Decided'
    <3>1. failures <= 1 /\ ~stale /\ Decided
      BY <1>4, <2>3, <1>0, <1>a, Values DEF CInv, IInv, TypeOK, store, calls
    <3>2. failures = 0
      BY <1>0, <2>3 DEF IInv, TypeOK
    <3>3. status = "waiting_approval" => Owning
      BY <3>1, <3>2 DEF Decided, Idle, Marked, IInv, TypeOK, Turns, Steps
    <3>4. status' = "waiting_approval" => Owning'
      BY <1>0, <3>3 DEF Owning, FreshCalls, Fresh, store
    <3> QED BY <1>0, <1>a, <3>1, <3>4 DEF Decided, Idle, Marked
  <2>4. ASSUME Quiet'
        PROVE  Paired'
    BY <1>0, <2>4 DEF Quiet
  <2> QED BY <1>1, <1>2, <1>3, <2>1, <2>2, <2>3, <2>4 DEF CInv, IInv
<1> QED BY <1>1, <1>2, <1>3, <1>4 DEF IInv

\* The next process starts.
LEMMA ReconcileKeeps ==
  ASSUME IInv, Reconcile
  PROVE  IInv' /\ (CInv => CInv')
<1>0. /\ engine = "down" /\ engine' = "up" /\ failures > 0
      /\ status' \in {"idle", status} /\ failures' \in 0..MaxFailures /\ failures' >= failures
      /\ UNCHANGED <<pending, asked, answered, turn, held, cancels, calls, stale, ran, synthesized>>
  BY AgentAssumption DEF Reconcile, Works, Fails, IInv, TypeOK, Running
<1>1. TypeOK'
  BY AgentAssumption, Values, <1>0 DEF IInv, TypeOK, store, calls
<1>2. Running'
  BY <1>0 DEF IInv, TypeOK, Running, NoTurn, Nothing, store, calls
<1>3. StatusKept'
  BY <1>0 DEF IInv, TypeOK, Running, StatusKept, Marked, store, calls
<1>4. ASSUME CInv
      PROVE  CInv'
  <2>1. Issued'
    BY <1>4, <1>0 DEF CInv, IInv, TypeOK, Issued, Proper, Made, Nothing, Clearing, store, calls
  <2>2. Looking'
    BY <1>4, <1>0 DEF CInv, Looking, Proper, Made, store, calls
  <2>3. ASSUME (failures <= 1 /\ ~stale)'
        PROVE  Decided'
    <3>1. failures <= 1 /\ ~stale /\ Decided
      BY <1>4, <2>3, <1>0 DEF CInv, IInv, TypeOK, store, calls
    <3> QED
      BY <1>4, <2>3, <3>1, <1>0 DEF Decided, Owning, FreshCalls, Fresh, CInv, IInv, TypeOK,
         Running, Marked, Idle, Nothing, store, calls
  <2>4. ASSUME Quiet'
        PROVE  Paired'
    BY <1>0, <2>4 DEF Quiet, IInv, TypeOK
  <2> QED BY <1>1, <1>2, <1>3, <2>1, <2>2, <2>3, <2>4 DEF CInv, IInv
<1> QED BY <1>1, <1>2, <1>3, <1>4 DEF IInv

\* A new message starts a turn.
LEMMA RunTurnKeeps ==
  ASSUME IInv, NEW c \in Clients, RunTurn(c)
  PROVE  IInv' /\ (CInv => CInv')
<1>0. /\ engine = "up" /\ turn = NoTurn /\ turn' = [NoTurn EXCEPT !.pc = "read"]
      /\ UNCHANGED <<store, engine, held, failures, cancels, calls, stale, ran, synthesized>>
  BY DEF RunTurn, Begin
<1>a. /\ turn' \in Turns /\ turn'.pc = "read" /\ turn'.resume = Nothing /\ turn'.old = Nothing
      /\ turn'.todo = <<>> /\ ~turn'.cancelled /\ NoTurn.pc = "none"
  BY <1>0, Values DEF NoTurn, Turns, Steps
<1>1. TypeOK'
  BY AgentAssumption, Values, <1>0, <1>a DEF IInv, TypeOK, store, calls
<1>2. Running'
  BY <1>0, <1>a DEF IInv, TypeOK, Running, NoTurn, Nothing, store, calls
<1>3. StatusKept'
  BY <1>0, <1>a DEF IInv, TypeOK, Running, StatusKept, Marked, store, calls
<1>4. ASSUME CInv
      PROVE  CInv'
  <2>1. Issued'
    BY <1>4, <1>0, <1>a DEF CInv, IInv, TypeOK, Issued, Proper, Made, Nothing, Clearing, store,
       calls
  <2>2. Looking'
    BY <1>4, <1>0, <1>a DEF CInv, Looking, Proper, Made, store, calls
  <2>3. ASSUME (failures <= 1 /\ ~stale)'
        PROVE  Decided'
    <3>1. failures <= 1 /\ ~stale /\ Decided
      BY <1>4, <2>3, <1>0, <1>a DEF CInv, IInv, TypeOK, store, calls
    <3> QED
      BY <1>4, <2>3, <3>1, <1>0, <1>a DEF Decided, Owning, FreshCalls, Fresh, CInv, IInv, TypeOK,
         Running, Marked, Idle, Nothing, store, calls
  <2>4. ASSUME Quiet'
        PROVE  Paired'
    <3>1. Quiet /\ Paired /\ ~turn.cancelled
      BY <1>4, <2>4, <1>0, <1>a DEF CInv, Quiet, IInv, TypeOK, Running, store, calls
    <3> QED
      BY <1>4, <2>4, <3>1, <1>0, <1>a DEF Paired, Open, Of, Quiet, CInv, IInv, TypeOK, Running,
         Issued, Proper, Marked, Idle, Nothing, store, calls
  <2> QED BY <1>1, <1>2, <1>3, <2>1, <2>2, <2>3, <2>4 DEF CInv, IInv
<1> QED BY <1>1, <1>2, <1>3, <1>4 DEF IInv

\* A request reads the pending action.
LEMMA ReadPendingKeeps ==
  ASSUME IInv, NEW c \in Clients, ReadPending(c)
  PROVE  IInv' /\ (CInv => CInv')
<1>0. /\ held[c] = Nothing /\ held' = [held EXCEPT ![c] = pending]
      /\ status = "waiting_approval"
      /\ UNCHANGED <<store, engine, turn, failures, cancels, calls, stale, ran, synthesized>>
  BY DEF ReadPending
<1>1. TypeOK'
  <2>1. pending \in Actions /\ held \in [Clients -> Actions]
    BY DEF IInv, TypeOK
  <2>2. held' \in [Clients -> Actions]
    BY <1>0, <2>1
  <2> QED BY <1>0, <2>2 DEF IInv, TypeOK, store, calls
<1>2. Running'
  BY <1>0 DEF IInv, TypeOK, Running, NoTurn, Nothing, store, calls
<1>3. StatusKept'
  BY <1>0 DEF IInv, TypeOK, Running, StatusKept, Marked, store, calls
<1>4. ASSUME CInv
      PROVE  CInv'
  <2>1. Issued'
    BY <1>4, <1>0 DEF CInv, IInv, TypeOK, Issued, Proper, Made, Nothing, Clearing, store, calls
  <2>2. Looking'
    <3>1. \A d \in Clients : held'[d] \in {held[d], pending}
      BY <1>0 DEF IInv, TypeOK
    <3> QED BY <1>0, <1>4, <3>1 DEF CInv, Looking, Issued, Proper, Made, store, calls
  <2>3. ASSUME (failures <= 1 /\ ~stale)'
        PROVE  Decided'
    <3>1. failures <= 1 /\ ~stale /\ Decided
      BY <1>4, <2>3, <1>0 DEF CInv, IInv, TypeOK, store, calls
    <3> QED
      BY <1>0, <3>1 DEF Decided, Owning, FreshCalls, Fresh, store
  <2>4. ASSUME Quiet'
        PROVE  Paired'
    <3>1. Quiet /\ Paired /\ ~turn.cancelled
      BY <1>4, <2>4, <1>0 DEF CInv, Quiet, IInv, TypeOK, Running, store, calls
    <3> QED
      BY <1>0, <3>1 DEF Paired, Open, store
  <2> QED BY <1>1, <1>2, <1>3, <2>1, <2>2, <2>3, <2>4 DEF CInv, IInv
<1> QED BY <1>1, <1>2, <1>3, <1>4 DEF IInv

\* The request starts a turn with what it has read, or none; the turn is as good as
\* one that has just read the session, unless the session has changed.
LEMMA ResumeApprovalKeeps ==
  ASSUME IInv, NEW c \in Clients, ResumeApproval(c)
  PROVE  IInv' /\ (CInv => CInv')
<1>0. /\ held[c] # Nothing /\ held[c] # Clearing /\ held' = [held EXCEPT ![c] = Nothing]
      /\ \/ turn' = turn /\ stale' = stale
         \/ /\ engine = "up" /\ turn = NoTurn /\ turn' \in Turns /\ turn'.pc = "read"
            /\ turn'.resume = held[c] /\ turn'.old = Nothing /\ turn'.todo = <<>>
            /\ ~turn'.cancelled /\ stale' \in BOOLEAN
            /\ ~stale' => ~stale /\ status = "waiting_approval" /\ pending = held[c]
      /\ UNCHANGED <<store, engine, failures, cancels, calls, ran, synthesized>>
  <2>1. /\ held[c] # Nothing /\ held[c] # Clearing /\ held' = [held EXCEPT ![c] = Nothing]
        /\ UNCHANGED <<store, engine, failures, cancels, calls, ran, synthesized>>
    BY DEF ResumeApproval
  <2>2. \/ turn' = turn /\ stale' = stale
        \/ /\ \E approved \in BOOLEAN :
                Begin([NoTurn EXCEPT !.resume = held[c], !.approved = approved])
           /\ stale' = (stale \/ status # "waiting_approval" \/ pending # held[c])
    BY DEF ResumeApproval
  <2>3. ASSUME NEW approved \in BOOLEAN,
               Begin([NoTurn EXCEPT !.resume = held[c], !.approved = approved])
        PROVE  /\ engine = "up" /\ turn = NoTurn /\ turn' \in Turns /\ turn'.pc = "read"
               /\ turn'.resume = held[c] /\ turn'.old = Nothing /\ turn'.todo = <<>>
               /\ ~turn'.cancelled
    <3>1. held[c] \in Actions
      BY DEF IInv, TypeOK
    <3>2. /\ engine = "up" /\ turn = NoTurn
          /\ turn' = [[NoTurn EXCEPT !.resume = held[c], !.approved = approved] EXCEPT !.pc = "read"]
      BY <2>3 DEF Begin
    <3> QED BY <3>1, <3>2, Values DEF Turns, Steps, NoTurn
  <2>4. stale \in BOOLEAN
    BY DEF IInv, TypeOK
  <2> QED BY <2>1, <2>2, <2>3, <2>4
<1>a. /\ NoTurn.pc = "none" /\ held[c] \in Actions /\ held \in [Clients -> Actions]
      /\ turn \in Turns
  BY DEF NoTurn, IInv, TypeOK
<1>1. TypeOK'
  BY AgentAssumption, Values, <1>0, <1>a DEF IInv, TypeOK, store, calls
<1>2. Running'
  BY <1>0, <1>a DEF IInv, TypeOK, Running, NoTurn, Nothing, store, calls
<1>3. StatusKept'
  BY <1>0, <1>a DEF IInv, TypeOK, Running, StatusKept, Marked, store, calls
<1>4. ASSUME CInv
      PROVE  CInv'
  <2>0. Proper(Nothing) /\ Made(<<>>)
    BY Values DEF Proper, Made, Nothing
  <2>1. Issued'
    <3>1. Proper(held[c])
      BY <1>0, <1>4 DEF CInv, Looking
    <3> QED BY <1>0, <1>4, <2>0, <3>1 DEF CInv, Issued, Proper, Made, store, calls
  <2>2. Looking'
    <3>1. \A d \in Clients : held'[d] \in {held[d], Nothing}
      BY <1>0, <1>a
    <3> QED BY <1>0, <1>4, <2>0, <3>1 DEF CInv, Looking, Proper, Made, calls
  <2>3. ASSUME ~stale'
        PROVE  /\ ~stale
               /\ \/ turn' = turn
                  \/ /\ turn.pc = "none" /\ turn'.pc = "read" /\ turn'.resume = pending
                     /\ status = "waiting_approval"
    BY <1>0, <1>a, <2>3
  <2>4. ASSUME (failures <= 1 /\ ~stale)'
        PROVE  Decided'
    <3>1. failures <= 1 /\ ~stale /\ Decided
      BY <1>4, <2>3, <2>4, <1>0 DEF CInv
    <3> QED
      BY <1>0, <2>3, <2>4, <3>1 DEF Decided, Owning, FreshCalls, Fresh, Idle, Marked, store
  <2>5. ASSUME Quiet'
        PROVE  Paired'
    <3>1. Paired
      BY <1>0, <1>4, <2>3, <2>5 DEF CInv, Quiet
    <3> QED BY <1>0, <2>3, <2>5, <3>1 DEF Paired, Open, Idle, Marked, Quiet, store
  <2> QED BY <1>1, <1>2, <1>3, <2>1, <2>2, <2>4, <2>5 DEF CInv, IInv
<1> QED BY <1>1, <1>2, <1>3, <1>4 DEF IInv

\* A request sees that no turn is running.
LEMMA LookBeforeClearKeeps ==
  ASSUME IInv, NEW c \in Clients, LookBeforeClear(c)
  PROVE  IInv' /\ (CInv => CInv')
<1>0. /\ turn = NoTurn /\ held' = [held EXCEPT ![c] = Clearing]
      /\ UNCHANGED <<store, engine, turn, failures, cancels, calls, stale, ran, synthesized>>
  BY DEF LookBeforeClear
<1>1. TypeOK'
  <2>1. held' \in [Clients -> Actions]
    BY <1>0, Values DEF IInv, TypeOK
  <2> QED BY <1>0, <2>1 DEF IInv, TypeOK, store, calls
<1>2. Running'
  BY <1>0 DEF IInv, TypeOK, Running, NoTurn, Nothing, store, calls
<1>3. StatusKept'
  BY <1>0 DEF IInv, TypeOK, Running, StatusKept, Marked, store, calls
<1>4. ASSUME CInv
      PROVE  CInv'
  <2>1. Issued'
    BY <1>4, <1>0 DEF CInv, IInv, TypeOK, Issued, Proper, Made, Nothing, Clearing, store, calls
  <2>2. Looking'
    <3>1. \A d \in Clients : held'[d] \in {held[d], Clearing}
      BY <1>0 DEF IInv, TypeOK
    <3> QED BY <1>0, <1>4, <3>1 DEF CInv, Looking, Proper, Made, calls
  <2>3. ASSUME (failures <= 1 /\ ~stale)'
        PROVE  Decided'
    <3>1. failures <= 1 /\ ~stale /\ Decided
      BY <1>4, <2>3, <1>0 DEF CInv, IInv, TypeOK, store, calls
    <3> QED
      BY <1>0, <3>1 DEF Decided, Owning, FreshCalls, Fresh, store
  <2>4. ASSUME Quiet'
        PROVE  Paired'
    <3>1. Quiet /\ Paired /\ ~turn.cancelled
      BY <1>4, <2>4, <1>0 DEF CInv, Quiet, IInv, TypeOK, Running, store, calls
    <3> QED
      BY <1>0, <3>1 DEF Paired, Open, store
  <2> QED BY <1>1, <1>2, <1>3, <2>1, <2>2, <2>3, <2>4 DEF CInv, IInv
<1> QED BY <1>1, <1>2, <1>3, <1>4 DEF IInv

\* The request clears the session; what a turn had of it no longer counts.
LEMMA TruncateMessagesKeeps ==
  ASSUME IInv, NEW c \in Clients, TruncateMessages(c)
  PROVE  IInv' /\ (CInv => CInv')
<1>0. /\ held' = [held EXCEPT ![c] = Nothing]
      /\ asked' = {} /\ answered' = {} /\ pending' = Nothing /\ status' = "idle"
      /\ stale' = (stale \/ turn # NoTurn)
      /\ UNCHANGED <<engine, turn, failures, cancels, calls, ran, synthesized>>
  BY DEF TruncateMessages
<1>a. held \in [Clients -> Actions] /\ stale \in BOOLEAN /\ stale' \in BOOLEAN
  BY <1>0 DEF IInv, TypeOK
<1>b. ~stale' => ~stale /\ turn' = NoTurn
  BY <1>0
<1>c. NoTurn.pc = "none" /\ Proper(Nothing)
  BY Values DEF NoTurn, Proper, Made, Nothing
<1>1. TypeOK'
  BY AgentAssumption, Values, <1>0, <1>a DEF IInv, TypeOK, store, calls
<1>2. Running'
  BY <1>0 DEF IInv, Running, calls
<1>3. StatusKept'
  BY <1>0 DEF StatusKept
<1>4. ASSUME CInv
      PROVE  CInv'
  <2>1. Issued'
    BY <1>4, <1>0, <1>c DEF CInv, Issued, Proper, Made, calls
  <2>2. Looking'
    <3>1. \A d \in Clients : held'[d] \in {held[d], Nothing}
      BY <1>0, <1>a
    <3> QED BY <1>0, <1>4, <1>c, <3>1 DEF CInv, Looking, Proper, Made, calls
  <2>3. ASSUME (failures <= 1 /\ ~stale)'
        PROVE  Decided'
    <3>1. Decided /\ turn'.pc = "none"
      BY <1>4, <2>3, <1>0, <1>b, <1>c DEF CInv
    <3> QED BY <1>0, <3>1 DEF Decided, Idle, Marked
  <2>4. ASSUME Quiet'
        PROVE  Paired'
    <3>1. turn'.pc = "none" /\ status' = "idle" /\ asked' = {} /\ answered' = {}
      BY <1>0, <1>b, <1>c, <2>4 DEF Quiet
    <3> QED BY <3>1 DEF Paired, Open, Idle, Marked
  <2> QED BY <1>1, <1>2, <1>3, <2>1, <2>2, <2>3, <2>4 DEF CInv, IInv
<1> QED BY <1>1, <1>2, <1>3, <1>4 DEF IInv

-----------------------------------------------------------------------------
(* The theorems.                                                           *)

\* Nobody has done anything yet.
LEMMA InitIInv == Init => IInv /\ CInv
<1> SUFFICES ASSUME Init
             PROVE  IInv /\ CInv
  OBVIOUS
<1>1. /\ NoTurn.pc = "none" /\ NoTurn.resume = Nothing /\ NoTurn.old = Nothing
      /\ NoTurn.todo = <<>> /\ ~NoTurn.cancelled
  BY DEF NoTurn
<1>2. TypeOK
  <2>1. stale \in BOOLEAN
    BY DEF Init
  <2> QED BY <2>1, AgentAssumption, Values DEF Init, TypeOK, Kinds
<1>3. Running /\ StatusKept
  BY <1>1 DEF Init, Running, StatusKept
<1>4. Issued /\ Looking
  BY <1>1, Values DEF Init, Issued, Looking, Proper, Made, Nothing
<1>5. Decided /\ Paired
  BY <1>1 DEF Init, Decided, Paired, Open, Idle, Marked
<1> QED BY <1>2, <1>3, <1>4, <1>5 DEF IInv, CInv

\* A batch pauses for a question, an approval or a plan.
LEMMA PauseForCallKeeps ==
  ASSUME IInv, PauseForCall
  PROVE  IInv' /\ (CInv => CInv')
<1>1. turn.pc = "execute" /\ turn.todo \in Seq(Calls)
  BY DEF PauseForCall, At, IInv, TypeOK, Turns
<1>2. PICK k \in {"question", "approval"} : Pause([kind |-> k, calls |-> turn.todo])
  BY DEF PauseForCall
<1>3. [kind |-> k, calls |-> turn.todo] \in Actions
  BY <1>1 DEF Actions
<1> QED BY <1>1, <1>2, <1>3, PauseKeeps

\* A plan pauses with no calls.
LEMMA PauseForPlanKeeps ==
  ASSUME IInv, PauseForPlan
  PROVE  IInv' /\ (CInv => CInv')
<1>1. turn.pc = "execute" /\ turn.todo = <<>>
         /\ Pause([kind |-> "plan", calls |-> <<>>])
  BY DEF PauseForPlan, At
<1>2. [kind |-> "plan", calls |-> <<>>] \in Actions
  BY DEF Actions
<1> QED BY <1>1, <1>2, PauseKeeps

\* Every step of a turn keeps both invariants.
LEMMA TurnStepKeeps ==
  ASSUME IInv, TurnStep
  PROVE  IInv' /\ (CInv => CInv')
<1>1. CASE SynthesizeResult
  BY <1>1, SynthesizeKeeps DEF SynthesizeResult, At
<1>2. CASE DenyCall
  BY <1>2, SynthesizeKeeps DEF DenyCall, At
<1> QED
  BY <1>1, <1>2, GetSessionKeeps, MarkKeeps, LoadConversationKeeps, RetireKeeps,
     AppendUserMessageKeeps, ResumePrefixKeeps, AllSynthesizedKeeps, ClearPendingKeeps,
     CallModelKeeps, ModelFailsKeeps, ModelRepliesKeeps, PauseForCallKeeps, RunOneToolKeeps,
     RecordResultKeeps, BatchDoneKeeps, PauseForPlanKeeps, FailTurnKeeps, FinalizeTurnKeeps,
     EndTurnKeeps DEF TurnStep

\* Nothing happens.
LEMMA StutterKeeps ==
  ASSUME IInv, UNCHANGED vars
  PROVE  IInv' /\ (CInv => CInv')
<1>1. IInv'
  BY DEF IInv, TypeOK, Running, StatusKept, vars, store, calls
<1>2. ASSUME CInv
      PROVE  CInv'
  <2>1. (Issued /\ Looking)'
    BY <1>2 DEF CInv, Issued, Looking, Proper, Made, vars, store, calls
  <2>2. (failures <= 1 /\ ~stale => Decided)'
    BY <1>2 DEF CInv, Decided, Owning, FreshCalls, Fresh, vars, store, calls
  <2>3. (Quiet => Paired)'
    BY <1>2 DEF CInv, Quiet, Paired, Open, vars, store, calls
  <2> QED BY <1>1, <2>1, <2>2, <2>3 DEF CInv
<1> QED BY <1>1, <1>2

\* Every step keeps both invariants.
LEMMA NextKeeps == IInv /\ [Next]_vars => IInv' /\ (CInv => CInv')
<1> SUFFICES ASSUME IInv, [Next]_vars
             PROVE  IInv' /\ (CInv => CInv')
  OBVIOUS
<1>1. CASE UNCHANGED vars
  BY <1>1, StutterKeeps
<1>2. ASSUME NEW c \in Clients,
             \/ RunTurn(c) \/ ReadPending(c) \/ ResumeApproval(c)
             \/ LookBeforeClear(c) \/ TruncateMessages(c)
      PROVE  IInv' /\ (CInv => CInv')
  BY <1>2, RunTurnKeeps, ReadPendingKeeps, ResumeApprovalKeeps, LookBeforeClearKeeps,
     TruncateMessagesKeeps
<1>3. CASE TurnStep
  BY <1>3, TurnStepKeeps
<1>4. CASE Stop \/ Shutdown \/ ShutdownReturns \/ Crash \/ Reconcile
  BY <1>4, StopKeeps, ShutdownKeeps, ShutdownReturnsKeeps, CrashKeeps, ReconcileKeeps
<1> QED BY <1>1, <1>2, <1>3, <1>4 DEF Next

\* Types, the guard, and the status of the session.
THEOREM Invariance == Spec => []IInv
<1>1. Init => IInv
  BY InitIInv
<1>2. IInv /\ [Next]_vars => IInv'
  BY NextKeeps
<1> QED BY <1>1, <1>2, PTL DEF Spec

\* After Shutdown has returned no turn runs or starts.
THEOREM ShutdownIsFinal == Spec => []NoTurnAfterShutdown
<1>1. IInv => NoTurnAfterShutdown
  BY DEF IInv, Running, NoTurnAfterShutdown
<1> QED BY <1>1, Invariance, PTL

\* Without a failed write or a crash no session is left running.
THEOREM StatusIsReset == Spec => []NotStuckRunning
<1>1. IInv => NotStuckRunning
  BY DEF IInv, StatusKept, Marked, NotStuckRunning, NoTurn
<1> QED BY <1>1, Invariance, PTL

\* The calls, the action that waits, and the histories.
THEOREM CallInvariance == Spec => []CInv
<1>1. Init => CInv
  BY InitIInv
<1>2. CInv /\ [Next]_vars => CInv'
  BY NextKeeps DEF CInv
<1> QED BY <1>1, <1>2, PTL DEF Spec

\* A call runs once or is told that it did not run, whatever is approved, replaced or
\* stopped and whichever single write or process fails, until a request acts on a
\* session that has changed since it looked.
THEOREM EachCallHasOneOutcome == Spec => []OneOutcomeUnlessStale
<1>1. CInv => OneOutcomeUnlessStale
  BY DEF CInv, Decided, OneOutcomeUnlessStale, OneOutcome
<1> QED BY <1>1, CallInvariance, PTL

\* A session that waits while nothing runs can be resumed, and none of its calls has
\* had an outcome, unless two writes or processes have failed or a request has acted
\* on a session that had changed since it looked.
THEOREM WaitingSessionsOwn == Spec => []WaitingOwnsUnexecuted
<1>1. CInv => WaitingOwnsUnexecuted
  <2> SUFFICES ASSUME CInv, failures <= 1, ~stale, status = "waiting_approval", turn = NoTurn
               PROVE  /\ pending # Nothing
                      /\ \A c \in CallsOf(pending) : ran[c] = 0 /\ c \notin synthesized
    BY DEF CInv, IInv, WaitingOwnsUnexecuted
  <2>1. Owning
    BY DEF CInv, Decided, Idle, NoTurn
  <2> QED BY <2>1 DEF Owning, FreshCalls, Fresh, CallsOf
<1> QED BY <1>1, CallInvariance, PTL

\* Every request to the model answers exactly the calls it contains, unless a turn was
\* interrupted, a write failed, or a request, an approval or a clearing of the
\* messages, has acted on a session that had changed since it looked.
THEOREM RequestsArePaired == Spec => []PairedUnlessInterrupted
<1>1. CInv => PairedUnlessInterrupted
  BY DEF CInv, Quiet, Paired, Open, Idle, Marked, PairedUnlessInterrupted, HistoryPaired
<1> QED BY <1>1, CallInvariance, PTL
=============================================================================
