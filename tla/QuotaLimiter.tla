---------------------------- MODULE QuotaLimiter ----------------------------
(***************************************************************************)
(* routing.Limiter: the daily quotas and the concurrency of model groups.  *)
(* A call is one request to a group: it reads the clock, acquires, settles *)
(* its actual usage at most once and releases, possibly more than once.    *)
(* Groups are deleted (Forget) and come back as a new object; midnight     *)
(* passes at any point and is noticed lazily, by whoever asks next.        *)
(* Every operation runs under Limiter.mu, so each is one step.             *)
(***************************************************************************)
EXTENDS WeightedSets

CONSTANTS Calls, Groups,
          Group,           \* Group[c]: the group call c is routed to
          Estimate,        \* Estimate[c]: estimatedTokens, zero when disabled
          Actual,          \* Actual[c]: the usage the provider reports for c
          MaxConcurrency, DailyRequests, DailyTokens,   \* per group; 0 is "no limit"
          MaxDay,          \* bound: midnights that pass
          MaxForgets       \* bound: deletions of groups

ASSUME QuotaAssumption ==
  /\ IsFiniteSet(Calls)
  /\ Group \in [Calls -> Groups]
  /\ Estimate \in [Calls -> Int] /\ Actual \in [Calls -> Int]
  /\ MaxConcurrency \in [Groups -> Nat]
  /\ DailyRequests \in [Groups -> Nat]
  /\ DailyTokens \in [Groups -> Nat]
  /\ MaxDay \in Nat \ {0} /\ MaxForgets \in Nat

VARIABLES quota,      \* Limiter.states: the object of each group, or Nil
          made,       \* objects allocated so far: gives them an identity
          today,      \* the local calendar day
          pc,         \* start, open, held, released or refused
          startedOn,  \* the day on which the request came in
          heldObj,    \* the object captured by the release closure
          heldOn,     \* acquiredDate of the closure
          chargedTo   \* history: <<object, day>> that was charged for the call

callVars == <<pc, startedOn, heldObj, heldOn, chargedTo>>
vars == <<quota, made, today, pc, startedOn, heldObj, heldOn, chargedTo>>

Nil == [obj |-> 0, date |-> 0, requests |-> 0, tokens |-> 0, active |-> 0]
Nowhere == <<0, 0>>

\* if estimatedTokens > 0: what a reservation adds to the day's tokens.
Reserve == [c \in Calls |-> IF Estimate[c] > 0 THEN Estimate[c] ELSE 0]
Charge == [c \in Calls |-> IF Actual[c] > 0 THEN Actual[c] ELSE 0]

Init == /\ quota = [g \in Groups |-> Nil]
        /\ made = 0 /\ today = 1
        /\ pc = [c \in Calls |-> "start"]
        /\ startedOn = [c \in Calls |-> 0]
        /\ heldObj = [c \in Calls |-> 0] /\ heldOn = [c \in Calls |-> 0]
        /\ chargedTo = [c \in Calls |-> Nowhere]
-----------------------------------------------------------------------------
\* Limiter.state: the group's object, allocated on first use and with the
\* daily counters cleared when the day has changed; active calls survive.
Current(g) ==
  LET q == IF quota[g].obj = 0 THEN [Nil EXCEPT !.obj = made + 1] ELSE quota[g]
  IN  IF q.date = today THEN q ELSE [q EXCEPT !.date = today, !.requests = 0, !.tokens = 0]

\* Store the group's object back after an operation on it.
Store(g, q) == /\ quota' = [quota EXCEPT ![g] = q]
               /\ made' = IF quota[g].obj = 0 THEN made + 1 ELSE made

\* Planted mistake: the limits are compared with > instead of >=.
AdmitsOneTooMany(g, q, tokens) ==
  /\ MaxConcurrency[g] > 0 => q.active <= MaxConcurrency[g]
  /\ DailyRequests[g] > 0 => q.requests < DailyRequests[g]
  /\ DailyTokens[g] > 0 /\ tokens > 0 => q.tokens + tokens <= DailyTokens[g]

Admits(g, q, tokens) ==
  /\ MaxConcurrency[g] > 0 => q.active < MaxConcurrency[g]
  /\ DailyRequests[g] > 0 => q.requests < DailyRequests[g]
  /\ DailyTokens[g] > 0 /\ tokens > 0 => q.tokens + tokens <= DailyTokens[g]

\* The request comes in: its usage will be settled on this day.
Begin(c) == /\ pc[c] = "start"
            /\ pc' = [pc EXCEPT ![c] = "open"]
            /\ startedOn' = [startedOn EXCEPT ![c] = today]
            /\ UNCHANGED <<quota, made, today, heldObj, heldOn, chargedTo>>

Acquire(c) ==
  LET g == Group[c]
      q == Current(g)
  IN  /\ pc[c] = "open"
      /\ Admits(g, q, Estimate[c])
      /\ Store(g, [q EXCEPT !.active = @ + 1, !.requests = @ + 1, !.tokens = @ + Reserve[c]])
      /\ pc' = [pc EXCEPT ![c] = "held"]
      /\ heldObj' = [heldObj EXCEPT ![c] = q.obj]
      /\ heldOn' = [heldOn EXCEPT ![c] = q.date]
      /\ UNCHANGED <<today, startedOn, chargedTo>>

\* A refusal has still rolled the day over, or created the object.
Refuse(c) ==
  /\ pc[c] = "open"
  /\ ~Admits(Group[c], Current(Group[c]), Estimate[c])
  /\ Store(Group[c], Current(Group[c]))
  /\ pc' = [pc EXCEPT ![c] = "refused"]
  /\ UNCHANGED <<today, startedOn, heldObj, heldOn, chargedTo>>

\* Planted mistake: the estimate is refunded on whatever day it is.
ReleaseRefundsAnyDay(c) ==
  LET g == Group[c]
      q == Current(g)
  IN  /\ pc[c] = "held"
      /\ pc' = [pc EXCEPT ![c] = "released"]
      /\ IF quota[g].obj # heldObj[c] THEN UNCHANGED <<quota, made>>
         ELSE Store(g, [q EXCEPT !.active = IF @ > 0 THEN @ - 1 ELSE @,
                                 !.tokens = IF @ > Reserve[c] THEN @ - Reserve[c] ELSE 0])
      /\ UNCHANGED <<today, startedOn, heldObj, heldOn, chargedTo>>

\* The closure returned by Acquire.  Only its first call counts, only while
\* the group is still the object it reserved from, and the estimate is refunded
\* only on the day it was reserved.
Release(c) ==
  LET g == Group[c]
      q == Current(g)
  IN  \/ /\ pc[c] = "held"
         /\ pc' = [pc EXCEPT ![c] = "released"]
         /\ IF quota[g].obj # heldObj[c] THEN UNCHANGED <<quota, made>>
            ELSE Store(g, [q EXCEPT !.active = IF @ > 0 THEN @ - 1 ELSE @,
                                    !.tokens = IF q.date # heldOn[c] THEN @
                                               ELSE IF @ > Reserve[c] THEN @ - Reserve[c] ELSE 0])
         /\ UNCHANGED <<today, startedOn, heldObj, heldOn, chargedTo>>
      \/ pc[c] = "released" /\ UNCHANGED vars

\* Adjust: the usage of the request, on the day the request came in; an older
\* day is ignored.  The group may have been deleted and recreated meanwhile.
Adjust(c) ==
  LET g == Group[c]
      q == Current(g)
  IN  /\ pc[c] \in {"held", "released"} /\ chargedTo[c] = Nowhere /\ Actual[c] > 0
      /\ Store(g, IF q.date = startedOn[c] THEN [q EXCEPT !.tokens = @ + Charge[c]] ELSE q)
      /\ chargedTo' = [chargedTo EXCEPT ![c] =
                         IF q.date = startedOn[c] THEN <<q.obj, q.date>> ELSE @]
      /\ UNCHANGED <<today, pc, startedOn, heldObj, heldOn>>

\* Usage: the admin page reads the counters, which also rolls the day over.
Usage(g) == /\ Store(g, Current(g))
            /\ UNCHANGED <<today, callVars>>

Forget(g) == /\ made < MaxForgets + Cardinality(Groups) /\ quota[g].obj # 0
             /\ quota' = [quota EXCEPT ![g] = Nil]
             /\ UNCHANGED <<made, today, callVars>>

Midnight == /\ today < MaxDay
            /\ today' = today + 1
            /\ UNCHANGED <<quota, made, callVars>>

Next == \/ \E c \in Calls : Begin(c) \/ Acquire(c) \/ Refuse(c) \/ Release(c) \/ Adjust(c)
        \/ \E g \in Groups : Usage(g) \/ Forget(g)
        \/ Midnight

Spec == Init /\ [][Next]_vars
-----------------------------------------------------------------------------
\* Calls that hold a reservation of the object n, and those of day d among them.
Holding(n) == {c \in Calls : pc[c] = "held" /\ heldObj[c] = n}
HoldingOn(n, d) == {c \in Holding(n) : heldOn[c] = d}
ChargedOn(n, d) == {c \in Calls : chargedTo[c] = <<n, d>>}

\* Types; an object in use is dated by a day that has come, and two groups
\* never share an object.
TypeOK ==
  /\ quota \in [Groups -> [obj : Nat, date : Nat, requests : Nat, tokens : Int, active : Nat]]
  /\ made \in Nat /\ today \in Nat \ {0}
  /\ pc \in [Calls -> {"start", "open", "held", "released", "refused"}]
  /\ startedOn \in [Calls -> Nat] /\ heldObj \in [Calls -> Nat] /\ heldOn \in [Calls -> Nat]
  /\ chargedTo \in [Calls -> Nat \X Nat]
  /\ \A g \in Groups : quota[g] # Nil => quota[g].obj \in 1..made /\ quota[g].date \in 1..today

\* The concurrency of a group is the number of calls that hold a reservation of
\* its present object: neither a second release, nor a release that outlives the
\* group's deletion, nor midnight makes the limiter miscount.
ActiveExact == \A g \in Groups :
  quota[g].obj # 0 => quota[g].active = Cardinality(Holding(quota[g].obj))

\* The day's tokens are the estimates still reserved on that day plus the usage
\* settled for it; in particular the clamp at zero never hides a lost token.
TokensExact == \A g \in Groups :
  LET q == quota[g]
  IN  q.obj # 0 => q.tokens = Weight(HoldingOn(q.obj, q.date), Reserve)
                                + Weight(ChargedOn(q.obj, q.date), Charge)

QuotaExact == TypeOK /\ ActiveExact /\ TokensExact

\* The limits hold for what is really reserved, not only for the counters.
WithinQuota == \A g \in Groups :
  LET q == quota[g]
  IN  q.obj # 0 =>
        /\ MaxConcurrency[g] > 0 => Cardinality(Holding(q.obj)) <= MaxConcurrency[g]
        /\ DailyRequests[g] > 0 => q.requests <= DailyRequests[g]
        /\ DailyTokens[g] > 0 => Weight(HoldingOn(q.obj, q.date), Reserve) <= DailyTokens[g]
=============================================================================
