----------------------------- MODULE RouteCache -----------------------------
(***************************************************************************)
(* routing.Cache: the snapshot of routes and access tokens that every      *)
(* request reads.  A Load returns the published snapshot or joins the      *)
(* flight of its generation; the leader of a flight reads the store in     *)
(* several queries and publishes unless an Invalidate came between.        *)
(* Administrators change the store and only then invalidate.               *)
(* The store is a version number; a snapshot is the pair of versions at    *)
(* which the groups and the tokens were read, so it may be torn.           *)
(***************************************************************************)
EXTENDS Naturals

CONSTANTS Readers,       \* requests that call Load
          Writers,       \* handlers that change sources, groups or tokens
          MaxVersion     \* bound: changes of the store

ASSUME CacheAssumption == MaxVersion \in Nat

VARIABLES version,       \* the store: number of committed changes
          completed,     \* history: newest change whose Invalidate has happened
          generation, snapshot,   \* fields of Cache
          pc,            \* what each Load does next
          gen,           \* the generation it started with
          view,          \* what its load function has read so far
          result, err,   \* what Flights.Do gives it
          leader,        \* the reader whose flight it waits for
          floor,         \* history: completed at the start of the Load
          answer,        \* what Load returned last
          pending        \* change that a writer committed and has not invalidated

loadVars == <<pc, gen, view, result, err, leader, floor, answer>>
vars == <<version, completed, generation, snapshot, pc, gen, view, result, err,
          leader, floor, answer, pending>>

NoView == [groups |-> 0, tokens |-> 0]      \* nil, and locals that are dead
Versions == 1..(MaxVersion + 1)
\* Both halves of v were read at version n or later.
AtLeast(v, n) == v.groups >= n /\ v.tokens >= n

Init == /\ version = 1 /\ completed = 1
        /\ generation = 0 /\ snapshot = NoView
        /\ pc = [r \in Readers |-> "idle"]
        /\ gen = [r \in Readers |-> 0]
        /\ view = [r \in Readers |-> NoView]
        /\ result = [r \in Readers |-> NoView] /\ err = [r \in Readers |-> FALSE]
        /\ leader = [r \in Readers |-> r]
        /\ floor = [r \in Readers |-> 0]
        /\ answer = [r \in Readers |-> NoView]
        /\ pending = [w \in Writers |-> 0]
-----------------------------------------------------------------------------
\* Load starts: generation and snapshot are read together.
Start(r) ==
  /\ pc[r] \in {"idle", "done"}
  /\ gen' = [gen EXCEPT ![r] = generation]
  /\ floor' = [floor EXCEPT ![r] = completed]
  /\ pc' = [pc EXCEPT ![r] = IF snapshot # NoView THEN "done" ELSE "join"]
  /\ answer' = [answer EXCEPT ![r] = snapshot]
  /\ err' = [err EXCEPT ![r] = FALSE]
  /\ UNCHANGED <<version, completed, generation, snapshot, view, result, leader, pending>>

\* A leader's flight is in the singleflight map from Join to Deliver.
Leads(l) == pc[l] \in {"check", "groups", "tokens", "publish", "deliver"}

\* flights.Do: the key is the generation, so an obsolete flight is never joined.
Join(r) ==
  /\ pc[r] = "join"
  /\ \/ \E l \in Readers : /\ Leads(l) /\ gen[l] = gen[r]
                           /\ leader' = [leader EXCEPT ![r] = l]
                           /\ pc' = [pc EXCEPT ![r] = "wait"]
     \/ /\ \A l \in Readers : Leads(l) => gen[l] # gen[r]
        /\ leader' = [leader EXCEPT ![r] = r]
        /\ pc' = [pc EXCEPT ![r] = "check"]
  /\ UNCHANGED <<version, completed, generation, snapshot, gen, view, result, err, floor, answer, pending>>

\* The flight looks again: it may have been created after another one published.
Check(r) ==
  /\ pc[r] = "check"
  /\ IF generation # gen[r] \/ snapshot # NoView
     THEN pc' = [pc EXCEPT ![r] = "deliver"] /\ result' = [result EXCEPT ![r] = snapshot]
     ELSE pc' = [pc EXCEPT ![r] = "groups"] /\ UNCHANGED result
  /\ UNCHANGED <<version, completed, generation, snapshot, gen, view, err, leader, floor, answer, pending>>

\* routing.Load: groups, models and sources first, then the tokens.
ReadGroups(r) ==
  /\ pc[r] = "groups"
  /\ pc' = [pc EXCEPT ![r] = "tokens"]
  /\ view' = [view EXCEPT ![r] = [groups |-> version, tokens |-> 0]]
  /\ UNCHANGED <<version, completed, generation, snapshot, gen, result, err, leader, floor, answer, pending>>

ReadTokens(r) ==
  /\ pc[r] = "tokens"
  /\ pc' = [pc EXCEPT ![r] = "publish"]
  /\ view' = [view EXCEPT ![r].tokens = version]
  /\ UNCHANGED <<version, completed, generation, snapshot, gen, result, err, leader, floor, answer, pending>>

\* Either query fails; the error goes to every reader of the flight.
ReadFails(r) ==
  /\ pc[r] \in {"groups", "tokens"}
  /\ pc' = [pc EXCEPT ![r] = "deliver"]
  /\ view' = [view EXCEPT ![r] = NoView] /\ err' = [err EXCEPT ![r] = TRUE]
  /\ UNCHANGED <<version, completed, generation, snapshot, gen, result, leader, floor, answer, pending>>

Publish(r) ==
  /\ pc[r] = "publish"
  /\ pc' = [pc EXCEPT ![r] = "deliver"]
  /\ IF generation = gen[r]
     THEN snapshot' = view[r] /\ result' = [result EXCEPT ![r] = view[r]]
     ELSE UNCHANGED <<snapshot, result>>
  /\ view' = [view EXCEPT ![r] = NoView]
  /\ UNCHANGED <<version, completed, generation, gen, err, leader, floor, answer, pending>>

\* Planted mistake: only the leader gets the outcome.
DeliverToLeaderOnly(l) ==
  /\ pc[l] = "deliver"
  /\ pc' = [pc EXCEPT ![l] = "finish"]
  /\ UNCHANGED <<version, completed, generation, snapshot, gen, view, result, err, leader, floor, answer, pending>>

\* The flight ends: its key is deleted and everyone who waited gets its outcome.
Deliver(l) ==
  LET party == {l} \cup {r \in Readers : pc[r] = "wait" /\ leader[r] = l}
  IN  /\ pc[l] = "deliver"
      /\ pc' = [r \in Readers |-> IF r \in party THEN "finish" ELSE pc[r]]
      /\ result' = [r \in Readers |-> IF r \in party THEN result[l] ELSE result[r]]
      /\ err' = [r \in Readers |-> IF r \in party THEN err[l] ELSE err[r]]
      /\ leader' = [r \in Readers |-> IF r \in party THEN r ELSE leader[r]]
      /\ UNCHANGED <<version, completed, generation, snapshot, gen, view, floor, answer, pending>>

\* Planted mistake: the generation is not looked at again.
FinishUnchecked(r) ==
  /\ pc[r] = "finish"
  /\ pc' = [pc EXCEPT ![r] = "done"]
  /\ answer' = [answer EXCEPT ![r] = IF err[r] THEN NoView ELSE result[r]]
  /\ result' = [result EXCEPT ![r] = NoView]
  /\ UNCHANGED <<version, completed, generation, snapshot, gen, view, err, leader, floor, pending>>

\* Load's last look at the generation: nil when an invalidation crossed it.
Finish(r) ==
  /\ pc[r] = "finish"
  /\ pc' = [pc EXCEPT ![r] = "done"]
  /\ answer' = [answer EXCEPT ![r] =
                  IF err[r] \/ generation # gen[r] THEN NoView ELSE result[r]]
  /\ result' = [result EXCEPT ![r] = NoView]
  /\ UNCHANGED <<version, completed, generation, snapshot, gen, view, err, leader, floor, pending>>

\* A handler's transaction commits; its invalidation is a later step.
Persist(w) ==
  /\ pending[w] = 0 /\ version <= MaxVersion
  /\ version' = version + 1
  /\ pending' = [pending EXCEPT ![w] = version + 1]
  /\ UNCHANGED <<completed, generation, snapshot, loadVars>>

\* Planted mistake: only the snapshot is dropped.
InvalidateKeepsGeneration(w) ==
  /\ pending[w] # 0
  /\ snapshot' = NoView /\ UNCHANGED generation
  /\ completed' = IF pending[w] > completed THEN pending[w] ELSE completed
  /\ pending' = [pending EXCEPT ![w] = 0]
  /\ UNCHANGED <<version, loadVars>>

Invalidate(w) ==
  /\ pending[w] # 0
  /\ generation' = generation + 1 /\ snapshot' = NoView
  /\ completed' = IF pending[w] > completed THEN pending[w] ELSE completed
  /\ pending' = [pending EXCEPT ![w] = 0]
  /\ UNCHANGED <<version, loadVars>>

Load(r) == \/ Start(r) \/ Join(r) \/ Check(r) \/ ReadGroups(r) \/ ReadTokens(r)
           \/ ReadFails(r) \/ Publish(r) \/ Deliver(r) \/ Finish(r)

Next == \/ \E r \in Readers : Load(r)
        \/ \E w \in Writers : Persist(w) \/ Invalidate(w)

Spec == Init /\ [][Next]_vars

\* Loads run to their end and a handler invalidates what it committed.  Nothing
\* makes requests arrive.
Continue(r) == pc[r] \notin {"idle", "done"} /\ Load(r)
FairSpec == /\ Spec
            /\ \A r \in Readers : WF_vars(Continue(r))
            /\ \A w \in Writers : WF_vars(Invalidate(w))
-----------------------------------------------------------------------------
Steps == {"idle", "join", "wait", "check", "groups", "tokens", "publish",
          "deliver", "finish", "done"}

\* Types; a change is known to be finished only after it was committed.
TypeOK ==
  /\ version \in Versions /\ completed \in 1..version /\ generation \in Nat
  /\ snapshot \in [groups : Nat, tokens : Nat]
  /\ pc \in [Readers -> Steps] /\ gen \in [Readers -> Nat]
  /\ view \in [Readers -> [groups : Nat, tokens : Nat]]
  /\ result \in [Readers -> [groups : Nat, tokens : Nat]]
  /\ err \in [Readers -> BOOLEAN] /\ leader \in [Readers -> Readers]
  /\ floor \in [Readers -> 0..completed]
  /\ answer \in [Readers -> [groups : Nat, tokens : Nat]]
  /\ pending \in [Writers -> 0..version]

\* "Invalidation prevents in-flight loads from publishing stale credentials or
\* routes": both halves of the published snapshot contain every change whose
\* handler has invalidated.
PublishedFresh == snapshot # NoView => AtLeast(snapshot, completed)

\* A request that starts after a change was made (a token revoked, a group
\* deleted) never gets routes or tokens from before the change, whichever flight
\* it joined.
AnswerFresh == \A r \in Readers :
  pc[r] = "done" /\ answer[r] # NoView => AtLeast(answer[r], floor[r])

\* Coalescing: two requests of a generation never load at the same time.
OneFlight == \A r, s \in Readers :
  r # s /\ Leads(r) /\ Leads(s) => gen[r] # gen[s]

\* A generation is loaded successfully once: a flight that is created after
\* another one published does not read the store again.
LoadedOnce == \A r \in Readers :
  pc[r] \in {"groups", "tokens", "publish"} /\ gen[r] = generation => snapshot = NoView

\* Load answers nil without an error only if an invalidation really crossed it:
\* findAccessToken turns that nil into "no such token".
NilMeansMoved == \A r \in Readers :
  pc[r] = "done" /\ answer[r] = NoView /\ ~err[r] => gen[r] # generation

\* The cache is invisible but for its nils: every answer is right at the moment
\* it is given.
View == INSTANCE RouteView WITH
  epoch <- generation, since <- gen,
  busy <- [r \in Readers |-> pc[r] \notin {"idle", "done"}],
  failed <- [r \in Readers |-> pc[r] = "done" /\ err[r]]
ViewSpec == View!Spec

\* Nobody waits for a flight that has ended: every Load returns.
LoadReturns == \A r \in Readers : pc[r] = "join" ~> pc[r] = "done"
=============================================================================
