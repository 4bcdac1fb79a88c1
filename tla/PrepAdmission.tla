---------------------------- MODULE PrepAdmission ---------------------------
(***************************************************************************)
(* The preparation limiter of the gateway, backend/internal/admission.     *)
(* Every caller is one call of Limiter.Acquire by a request goroutine; the *)
(* steps of a call are the stretches it runs between two synchronisation   *)
(* points: the early context check, the critical section that grants,      *)
(* rejects or enqueues, the select on ready / context / timer, and the     *)
(* critical sections that re-check `closed` or give up the place.  Release *)
(* and Close run under the same mutex, so each is one step, drain included.*)
(***************************************************************************)
EXTENDS WeightedSets, SequencesExt

CONSTANTS Callers,         \* calls of Acquire
          Request,         \* Request[c]: the bytes argument of call c
          Enabled,         \* Limits.Enabled
          MaxConcurrent,   \* Limits.MaxConcurrent
          MaxQueued,       \* Limits.MaxQueued
          MaxBytes         \* Limits.MaxReservedBodyBytes

ASSUME LimitsAssumption ==
  /\ IsFiniteSet(Callers)
  /\ Request \in [Callers -> Int]
  /\ Enabled \in BOOLEAN
  /\ MaxConcurrent \in Nat /\ MaxQueued \in Nat /\ MaxBytes \in Nat

VARIABLES pc,         \* where each call is
          ctxDone,    \* the caller's context was cancelled
          outcome,    \* what the call returns, or is about to return
          lease,      \* the lease object of the call: none, live or released
          failed,     \* waiters whose w.err was set by Close
          queue,      \* Limiter.waiters
          active,     \* stats.Active
          reserved,   \* stats.ReservedBodyBytes
          closed,     \* Limiter.closed
          stats       \* the other counters of Stats

callVars == <<pc, ctxDone, outcome, failed>>
vars == <<pc, ctxDone, outcome, lease, failed, queue, active, reserved, closed, stats>>

Stages == {"start", "enter", "select", "recheck", "abandon", "giveback", "returned"}
Errors == {"ErrClosed", "ErrCapacity", "ErrFull", "ErrTimeout", "ctx"}

\* bytes = max(1, bytes): even an empty body reserves something.
Size == [c \in Callers |-> IF Request[c] > 1 THEN Request[c] ELSE 1]

Live == {c \in Callers : lease[c] = "live"}

\* Planted mistakes, named after the mistake: each stands before the definition
\* it would replace and only shows that a property notices it.
FitsPlacesOnly(n, b, S) == Enabled => n + Cardinality(S) <= MaxConcurrent

\* Whether the group S can be granted one after the other, on top of n
\* leases that hold b bytes.  Sizes are positive, so the last member decides.
Fits(n, b, S) == Enabled => /\ n + Cardinality(S) <= MaxConcurrent
                            /\ b + Weight(S, Size) <= MaxBytes

Prefix(q, k) == {q[i] : i \in 1..k}

Init == /\ pc = [c \in Callers |-> "start"]
        /\ ctxDone = [c \in Callers |-> FALSE]
        /\ outcome = [c \in Callers |-> "none"]
        /\ lease = [c \in Callers |-> "none"]
        /\ failed = {}
        /\ queue = <<>>
        /\ active = 0 /\ reserved = 0
        /\ closed = FALSE
        /\ stats = [queued |-> 0, peakActive |-> 0, peakQueued |-> 0, peakBytes |-> 0,
                    rejected |-> 0, timedOut |-> 0, canceled |-> 0]
-----------------------------------------------------------------------------
Finish(c, result) == /\ pc' = [pc EXCEPT ![c] = "returned"]
                     /\ outcome' = [outcome EXCEPT ![c] = result]

\* Leave Acquire by way of the critical section `stage`, which returns `result`.
GoTo(c, stage, result) == /\ pc' = [pc EXCEPT ![c] = stage]
                          /\ outcome' = [outcome EXCEPT ![c] = result]

\* grant() for every member of S: n leases and b bytes were out before.
Grant(n, b, S, leases) ==
  /\ active' = n + Cardinality(S)
  /\ reserved' = b + Weight(S, Size)
  /\ lease' = [c \in Callers |-> IF c \in S THEN "live" ELSE leases[c]]

CountGrant(st) == [st EXCEPT !.peakActive = IF active' > @ THEN active' ELSE @,
                             !.peakBytes = IF reserved' > @ THEN reserved' ELSE @]

DrainOnlyOne(q, n, b, leases, st) ==
  \E k \in 0..(IF Len(q) > 1 THEN 1 ELSE Len(q)) :
    /\ k > 0 => ~closed /\ Fits(n, b, Prefix(q, k))
    /\ k = 0 /\ Len(q) > 0 => closed \/ ~Fits(n, b, Prefix(q, 1))
    /\ queue' = SubSeq(q, k + 1, Len(q))
    /\ Grant(n, b, Prefix(q, k), leases)
    /\ stats' = [(IF k > 0 THEN CountGrant(st) ELSE st) EXCEPT !.queued = Len(q) - k]

\* drain(): grant the queue's head while it fits; never past a head that does
\* not, and never once the limiter is closed.
Drain(q, n, b, leases, st) ==
  \E k \in 0..Len(q) :
    /\ k > 0 => ~closed /\ Fits(n, b, Prefix(q, k))
    /\ k < Len(q) => closed \/ ~Fits(n, b, Prefix(q, k + 1))
    /\ queue' = SubSeq(q, k + 1, Len(q))
    /\ Grant(n, b, Prefix(q, k), leases)
    /\ stats' = [(IF k > 0 THEN CountGrant(st) ELSE st) EXCEPT !.queued = Len(q) - k]

\* Lease.Release: sync.Once makes every call after the first a no-op.
ReleaseLease(c) ==
  IF lease[c] = "live"
  THEN Drain(queue, active - 1, reserved - Size[c],
             [lease EXCEPT ![c] = "released"], stats)
  ELSE UNCHANGED <<lease, queue, active, reserved, stats>>
-----------------------------------------------------------------------------
\* The context check before anything is locked.
Begin(c) ==
  /\ pc[c] = "start"
  /\ IF ctxDone[c] THEN Finish(c, "ctx")
                   ELSE GoTo(c, "enter", "none")
  /\ UNCHANGED <<ctxDone, lease, failed, queue, active, reserved, closed, stats>>

\* The first critical section of Acquire, by its four exits.
RefuseClosed(c) ==
  /\ pc[c] = "enter" /\ closed
  /\ Finish(c, "ErrClosed")
  /\ UNCHANGED <<ctxDone, lease, failed, queue, active, reserved, closed, stats>>

TooLarge(c) == Enabled /\ Size[c] > MaxBytes
ImmediateOvertaking(c) == Fits(active, reserved, {c})
Immediate(c) == queue = <<>> /\ Fits(active, reserved, {c})

Reject(c) ==
  /\ pc[c] = "enter" /\ ~closed
  /\ \/ TooLarge(c) /\ Finish(c, "ErrCapacity")
     \/ ~TooLarge(c) /\ ~Immediate(c) /\ Len(queue) >= MaxQueued /\ Finish(c, "ErrFull")
  /\ stats' = [stats EXCEPT !.rejected = @ + 1]
  /\ UNCHANGED <<ctxDone, lease, failed, queue, active, reserved, closed>>

AdmitNow(c) ==
  /\ pc[c] = "enter" /\ ~closed /\ ~TooLarge(c) /\ Immediate(c)
  /\ Grant(active, reserved, {c}, lease)
  /\ stats' = CountGrant(stats)
  /\ Finish(c, "lease")
  /\ UNCHANGED <<ctxDone, failed, queue, closed>>

Enqueue(c) ==
  /\ pc[c] = "enter" /\ ~closed /\ ~TooLarge(c) /\ ~Immediate(c)
  /\ Len(queue) < MaxQueued
  /\ queue' = Append(queue, c)
  /\ stats' = [stats EXCEPT !.queued = Len(queue'),
                            !.peakQueued = IF Len(queue') > @ THEN Len(queue') ELSE @]
  /\ GoTo(c, "select", "none")
  /\ UNCHANGED <<ctxDone, lease, failed, active, reserved, closed>>

\* The select takes <-w.ready, which drain or Close closed.
Wake(c) ==
  /\ pc[c] = "select"
  /\ lease[c] # "none" \/ c \in failed
  /\ IF c \in failed THEN Finish(c, "ErrClosed")
     ELSE IF ctxDone[c] THEN GoTo(c, "giveback", "ctx")
                        ELSE GoTo(c, "recheck", "none")
  /\ UNCHANGED <<ctxDone, lease, failed, queue, active, reserved, closed, stats>>

RecheckNothing(c) ==
  /\ pc[c] = "recheck"
  /\ Finish(c, "lease")
  /\ UNCHANGED <<ctxDone, lease, failed, queue, active, reserved, closed, stats>>

\* The grant may have crossed a Close: the lease is kept only if it has not.
Recheck(c) ==
  /\ pc[c] = "recheck"
  /\ IF closed THEN GoTo(c, "giveback", "ErrClosed") ELSE Finish(c, "lease")
  /\ UNCHANGED <<ctxDone, lease, failed, queue, active, reserved, closed, stats>>

\* The select takes ctx.Done or the queue timer, whatever else is ready.
GiveUp(c) ==
  /\ pc[c] = "select"
  /\ \/ ctxDone[c] /\ GoTo(c, "abandon", "ctx")
     \/ GoTo(c, "abandon", "ErrTimeout")
  /\ UNCHANGED <<ctxDone, lease, failed, queue, active, reserved, closed, stats>>

AbandonKeepsLease(c) ==
  /\ pc[c] = "abandon"
  /\ Finish(c, IF ctxDone[c] THEN "ctx" ELSE outcome[c])
  /\ IF lease[c] = "none" /\ c \notin failed
     THEN \E i \in 1..Len(queue) :
            queue[i] = c /\ Drain(RemoveAt(queue, i), active, reserved, lease, stats)
     ELSE UNCHANGED <<lease, queue, active, reserved, stats>>
  /\ UNCHANGED <<ctxDone, failed, closed>>

\* The critical section after giving up: a late cancellation replaces the
\* timeout, a place still in the queue is vacated, and a lease that arrived
\* in the meantime is released by the next step.
Abandon(c) ==
  /\ pc[c] = "abandon"
  /\ LET why == IF ctxDone[c] THEN "ctx" ELSE outcome[c]
         counted == IF why = "ErrTimeout" THEN [stats EXCEPT !.timedOut = @ + 1]
                                          ELSE [stats EXCEPT !.canceled = @ + 1]
     IN  /\ GoTo(c, IF lease[c] = "none" THEN "returned" ELSE "giveback", why)
         /\ IF lease[c] = "none" /\ c \notin failed
            THEN \E i \in 1..Len(queue) :
                   queue[i] = c /\ Drain(RemoveAt(queue, i), active, reserved, lease, counted)
            ELSE stats' = counted /\ UNCHANGED <<lease, queue, active, reserved>>
  /\ UNCHANGED <<ctxDone, failed, closed>>

\* A call that returns an error while holding a lease releases it first.
GiveBack(c) ==
  /\ pc[c] = "giveback"
  /\ ReleaseLease(c)
  /\ Finish(c, outcome[c])
  /\ UNCHANGED <<ctxDone, failed, closed>>

\* The owner of a lease releases it, possibly more than once.
Release(c) ==
  /\ pc[c] = "returned" /\ outcome[c] = "lease"
  /\ ReleaseLease(c)
  /\ UNCHANGED <<callVars, closed>>

CloseForgetsWaiters ==
  /\ ~closed
  /\ closed' = TRUE
  /\ queue' = <<>>
  /\ stats' = [stats EXCEPT !.queued = 0]
  /\ UNCHANGED <<pc, ctxDone, outcome, lease, failed, active, reserved>>

Close ==
  /\ ~closed
  /\ closed' = TRUE
  /\ failed' = failed \cup Range(queue)
  /\ queue' = <<>>
  /\ stats' = [stats EXCEPT !.queued = 0]
  /\ UNCHANGED <<pc, ctxDone, outcome, lease, active, reserved>>

\* The caller's context ends (client gone, deadline): external.
CancelContext(c) ==
  /\ pc[c] # "returned" /\ ~ctxDone[c]
  /\ ctxDone' = [ctxDone EXCEPT ![c] = TRUE]
  /\ UNCHANGED <<pc, outcome, lease, failed, queue, active, reserved, closed, stats>>

Critical(c) == RefuseClosed(c) \/ Reject(c) \/ AdmitNow(c) \/ Enqueue(c)
Proceed(c) == Begin(c) \/ Critical(c) \/ Wake(c) \/ Recheck(c) \/ Abandon(c) \/ GiveBack(c)

Next == \/ \E c \in Callers : Proceed(c) \/ GiveUp(c) \/ Release(c) \/ CancelContext(c)
        \/ Close

Spec == Init /\ [][Next]_vars
-----------------------------------------------------------------------------
\* Types; and a call that is over has either a lease or an error to return,
\* never (nil, nil).
TypeOK == /\ pc \in [Callers -> Stages]
          /\ ctxDone \in [Callers -> BOOLEAN]
          /\ outcome \in [Callers -> Errors \cup {"none", "lease"}]
          /\ lease \in [Callers -> {"none", "live", "released"}]
          /\ failed \subseteq Callers
          /\ queue \in Seq(Callers)
          /\ active \in Int /\ reserved \in Int
          /\ closed \in BOOLEAN
          /\ \A c \in Callers : pc[c] \in {"giveback", "returned"} => outcome[c] # "none"

\* Who is where: a call waits in the queue exactly while it selects or gives up
\* without an answer, the queue holds nobody twice, and Close leaves nobody in it.
Answered(c) == lease[c] # "none" \/ c \in failed
WaiterState ==
  /\ \A c \in Callers : pc[c] \in {"start", "enter"} => ~Answered(c)
  /\ \A c \in failed : lease[c] = "none"
  /\ \A i \in 1..Len(queue) : pc[queue[i]] \in {"select", "abandon"} /\ ~Answered(queue[i])
  /\ \A c \in Callers : pc[c] \in {"select", "abandon"} =>
        Answered(c) \/ \E i \in 1..Len(queue) : queue[i] = c
  /\ \A i, j \in 1..Len(queue) : queue[i] = queue[j] => i = j
  /\ \A c \in Callers : pc[c] = "recheck" => lease[c] = "live"
  /\ \A c \in Callers : lease[c] = "released" => pc[c] = "returned"
  /\ \A c \in Callers : pc[c] \in {"abandon", "giveback"} => outcome[c] \in Errors

\* The two running totals are exactly what the live leases hold, through every
\* interleaving of grants, cancellations, timeouts, closes and double releases:
\* admission.Limiter never forgets and never double-counts a lease.
Accounting == /\ active = Cardinality(Live)
              /\ reserved = Weight(Live, Size)

\* No interleaving over-admits: places, bytes and the queue stay in their limits.
WithinLimits == /\ Enabled => active <= MaxConcurrent /\ reserved <= MaxBytes
                /\ Len(queue) <= MaxQueued

\* No lost wake-up: while somebody waits, the head of the queue does not fit;
\* whoever frees capacity or leaves the queue has already served it.
HeadBlocked == queue # <<>> => ~closed /\ ~Fits(active, reserved, {queue[1]})

\* A call that is over and did not return a lease holds none: the grant that
\* crossed its cancellation, timeout or Close has been given back.
NoLeak == \A c \in Callers :
            pc[c] = "returned" /\ outcome[c] # "lease" => lease[c] # "live"

\* Leases are exact: what the limiter has counted is what its callers hold, the
\* limits are kept, and nobody holds a lease without having been told of it.
LeasesExact == TypeOK /\ Accounting /\ WithinLimits /\ NoLeak

\* First come, first served: a step that grants leases leaves nobody in the
\* queue who was ahead of a caller it served (nor anybody, for a caller that
\* was served without queueing).
Before(c, d) == \E i, j \in 1..Len(queue) : i < j /\ queue[i] = c /\ queue[j] = d
Fifo == [][\A c \in Callers :
             lease[c] = "none" /\ lease'[c] = "live" => \A d \in Range(queue') : Before(c, d)]_vars

\* A call that reports success does so before Close: a lease granted to a
\* waiter is not handed out by a limiter that was closed meanwhile.
NoSuccessAfterClose ==
  [][\A c \in Callers : pc[c] # "returned" /\ pc'[c] = "returned" /\ outcome'[c] = "lease"
        => ~closed /\ lease'[c] = "live"]_vars

\* The limiter refines the abstract pool: its live leases are the holders.
Pool == INSTANCE CapacityPool
          WITH Clients <- Callers, Share <- Size, Bounded <- Enabled,
               Places <- MaxConcurrent, Bytes <- MaxBytes,
               holders <- Live, former <- {c \in Callers : lease[c] = "released"},
               shut <- closed
PoolSpec == Pool!Spec

\* Nobody waits for ever: a queued call returns, by a grant or by Close, even
\* if its timer never fires and its context is never cancelled.
WaiterReturns == \A c \in Callers : pc[c] = "select" ~> pc[c] = "returned"

\* After Close the limiter empties: every lease comes back.
CloseDrains == closed ~> (active = 0 /\ reserved = 0)
=============================================================================
