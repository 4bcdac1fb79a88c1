-------------------------- MODULE RouteCacheProofs --------------------------
(***************************************************************************)
(* The route cache for any number of requests, handlers and changes: no    *)
(* answer is older than a change that was finished before it is given, and *)
(* the cache implements RouteView.  The strengthening says what a flight   *)
(* carries while its generation is still the current one: nothing older    *)
(* than the last finished change, because finishing a change moves the     *)
(* generation.                                                             *)
(***************************************************************************)
EXTENDS RouteCache, TLAPS

\* A view of the store that is right at this moment.
Good(v) == completed <= v.groups /\ v.groups <= v.tokens /\ v.tokens <= version

SnapshotGood == snapshot # NoView => Good(snapshot)

\* A flight of the current generation carries nothing stale, in any phase.
FlightFresh == \A r \in Readers :
  /\ gen[r] <= generation
  /\ gen[r] = generation =>
       /\ pc[r] = "tokens" => completed <= view[r].groups
       /\ pc[r] = "publish" => Good(view[r])
       /\ pc[r] \in {"deliver", "finish"} /\ ~err[r] => Good(result[r])
  /\ pc[r] = "tokens" => view[r].groups <= version

\* A follower waits for a flight of its own generation that is still in the map.
FollowersWait == \A r \in Readers :
  pc[r] = "wait" => Leads(leader[r]) /\ gen[leader[r]] = gen[r]

\* A Load that has not returned has no answer yet.
Unanswered == \A r \in Readers :
  pc[r] \notin {"idle", "done"} => answer[r] = NoView

IInv == /\ TypeOK /\ SnapshotGood /\ FlightFresh /\ FollowersWait /\ Unanswered
        /\ AnswerFresh /\ OneFlight /\ LoadedOnce /\ NilMeansMoved

Views == [groups : Nat, tokens : Nat]
-----------------------------------------------------------------------------
LEMMA InitIInv == Init => IInv
<1> SUFFICES ASSUME Init PROVE IInv
  OBVIOUS
<1>1. TypeOK
  BY CacheAssumption DEF CacheAssumption, Init, TypeOK, Versions, Steps, NoView
<1>2. SnapshotGood /\ FlightFresh /\ FollowersWait /\ Unanswered
  BY DEF Init, SnapshotGood, FlightFresh, FollowersWait, Unanswered
<1>3. AnswerFresh /\ OneFlight /\ LoadedOnce /\ NilMeansMoved
  BY DEF Init, AnswerFresh, OneFlight, LoadedOnce, NilMeansMoved, Leads
<1> QED BY <1>1, <1>2, <1>3 DEF IInv

\* A Load begins: it takes the published snapshot or none.
LEMMA StartStep ==
  ASSUME IInv, NEW r \in Readers, Start(r)
  PROVE  IInv'
<1> USE DEF IInv
<1>1. TypeOK'
  BY CacheAssumption DEF CacheAssumption, Start, TypeOK, Versions, Steps, NoView, Leads, loadVars
<1>2. SnapshotGood'
  BY DEF Start, TypeOK, Versions, SnapshotGood, FlightFresh, Good, loadVars, NoView
<1>3. FlightFresh'
  BY DEF Start, TypeOK, Versions, SnapshotGood, FlightFresh, FollowersWait, Good, Leads, loadVars, NoView
<1>4. FollowersWait'
  BY DEF Start, TypeOK, FollowersWait, Leads, loadVars
<1>5. Unanswered'
  BY DEF Start, TypeOK, Unanswered, loadVars, Leads
<1>6. AnswerFresh'
  BY DEF Start, TypeOK, Versions, SnapshotGood, FlightFresh, AnswerFresh, AtLeast, Good, loadVars, NoView
<1>7. OneFlight'
  BY DEF Start, TypeOK, OneFlight, Leads, loadVars
<1>8. LoadedOnce'
  BY DEF Start, TypeOK, LoadedOnce, OneFlight, FlightFresh, Leads, loadVars
<1>9. NilMeansMoved'
  BY DEF Start, TypeOK, Versions, NilMeansMoved, FlightFresh, Good, Unanswered, loadVars, NoView
<1> QED BY <1>1, <1>2, <1>3, <1>4, <1>5, <1>6, <1>7, <1>8, <1>9

\* A Load joins the flight of its generation, or leads it.
LEMMA JoinStep ==
  ASSUME IInv, NEW r \in Readers, Join(r)
  PROVE  IInv'
<1> USE DEF IInv
<1>0. PICK l \in Readers :
        /\ pc[r] = "join" /\ leader' = [leader EXCEPT ![r] = l]
        /\ \/ /\ Leads(l) /\ gen[l] = gen[r] /\ pc' = [pc EXCEPT ![r] = "wait"]
           \/ pc' = [pc EXCEPT ![r] = "check"]
        /\ UNCHANGED <<version, completed, generation, snapshot, gen, view, result, err, floor, answer, pending>>
  BY DEF Join
<1>1. TypeOK'
  <2>1. pc' \in [Readers -> Steps] /\ leader' \in [Readers -> Readers]
    BY <1>0 DEF TypeOK, Steps
  <2> QED BY <1>0, <2>1 DEF TypeOK, Versions
<1>2. SnapshotGood'
  BY DEF Join, TypeOK, Versions, SnapshotGood, FlightFresh, Good, loadVars, NoView
<1>3. FlightFresh'
  BY DEF Join, TypeOK, Versions, SnapshotGood, FlightFresh, FollowersWait, Good, Leads, loadVars, NoView
<1>4. FollowersWait'
  <2> SUFFICES ASSUME NEW s \in Readers, pc'[s] = "wait"
               PROVE  (Leads(leader[s]) /\ gen[leader[s]] = gen[s])'
    BY DEF FollowersWait
  <2>1. CASE s = r
    BY <1>0, <2>1 DEF TypeOK, Leads
  <2>2. CASE s # r
    <3>1. pc[s] = "wait" /\ leader'[s] = leader[s] /\ leader[s] \in Readers
      BY <1>0, <2>2 DEF TypeOK
    <3>2. Leads(leader[s]) /\ gen[leader[s]] = gen[s] /\ leader[s] # r
      BY <1>0, <3>1 DEF FollowersWait, Leads
    <3> QED BY <1>0, <3>1, <3>2 DEF TypeOK, Leads
  <2> QED BY <2>1, <2>2
<1>5. Unanswered'
  BY DEF Join, TypeOK, Unanswered, loadVars, Leads
<1>6. AnswerFresh'
  BY DEF Join, TypeOK, Versions, SnapshotGood, FlightFresh, AnswerFresh, AtLeast, Good, loadVars, NoView
<1>7. OneFlight'
  <2>1. CASE pc' = [pc EXCEPT ![r] = "wait"]
    BY <1>0, <2>1 DEF TypeOK, OneFlight, Leads
  <2>2. CASE pc' = [pc EXCEPT ![r] = "check"]
    <3>1. \A m \in Readers : Leads(m) => gen[m] # gen[r]
      BY <1>0, <2>2 DEF Join, TypeOK
    <3> QED BY <1>0, <2>2, <3>1 DEF TypeOK, OneFlight, Leads
  <2> QED BY <1>0, <2>1, <2>2
<1>8. LoadedOnce'
  BY DEF Join, TypeOK, LoadedOnce, OneFlight, FlightFresh, Leads, loadVars
<1>9. NilMeansMoved'
  BY DEF Join, TypeOK, Versions, NilMeansMoved, FlightFresh, Good, Unanswered, loadVars, NoView
<1> QED BY <1>1, <1>2, <1>3, <1>4, <1>5, <1>6, <1>7, <1>8, <1>9

\* The leader finds what another flight published, or starts to read.
LEMMA CheckStep ==
  ASSUME IInv, NEW r \in Readers, Check(r)
  PROVE  IInv'
<1> USE DEF IInv
<1>0. /\ pc[r] = "check" /\ UNCHANGED <<leader, gen>>
      /\ pc' = [pc EXCEPT ![r] = "deliver"] \/ pc' = [pc EXCEPT ![r] = "groups"]
      /\ result' = [result EXCEPT ![r] = snapshot] \/ UNCHANGED result
  BY DEF Check
<1>1. TypeOK'
  <2>1. pc' \in [Readers -> Steps]
    BY <1>0 DEF TypeOK, Steps
  <2>2. result' \in [Readers -> Views]
    BY <1>0 DEF TypeOK, Views
  <2> QED BY <2>1, <2>2 DEF Check, TypeOK, Versions, Views
<1>2. SnapshotGood'
  BY DEF Check, TypeOK, Versions, SnapshotGood, FlightFresh, Good, loadVars, NoView
<1>3. FlightFresh'
  BY DEF Check, TypeOK, Versions, SnapshotGood, FlightFresh, FollowersWait, Good, Leads, loadVars, NoView
<1>4. FollowersWait'
  <2> SUFFICES ASSUME NEW s \in Readers, pc'[s] = "wait"
               PROVE  Leads(leader[s])' /\ gen[leader[s]] = gen[s]
    BY <1>0 DEF FollowersWait
  <2>1. pc[s] = "wait" /\ leader[s] \in Readers
    BY <1>0 DEF TypeOK
  <2>2. Leads(leader[s]) /\ gen[leader[s]] = gen[s]
    BY <2>1 DEF FollowersWait
  <2> QED BY <1>0, <2>1, <2>2 DEF TypeOK, Leads
<1>5. Unanswered'
  BY DEF Check, TypeOK, Unanswered, loadVars, Leads
<1>6. AnswerFresh'
  BY DEF Check, TypeOK, Versions, SnapshotGood, FlightFresh, AnswerFresh, AtLeast, Good, loadVars, NoView
<1>7. OneFlight'
  BY DEF Check, TypeOK, OneFlight, Leads, loadVars
<1>8. LoadedOnce'
  BY DEF Check, TypeOK, LoadedOnce, OneFlight, FlightFresh, Leads, loadVars
<1>9. NilMeansMoved'
  BY DEF Check, TypeOK, Versions, NilMeansMoved, FlightFresh, Good, Unanswered, loadVars, NoView
<1> QED BY <1>1, <1>2, <1>3, <1>4, <1>5, <1>6, <1>7, <1>8, <1>9

\* The groups are read at the present version.
LEMMA ReadGroupsStep ==
  ASSUME IInv, NEW r \in Readers, ReadGroups(r)
  PROVE  IInv'
<1> USE DEF IInv
<1>1. TypeOK'
  BY CacheAssumption DEF CacheAssumption, ReadGroups, TypeOK, Versions, Steps, NoView, Leads, loadVars
<1>2. SnapshotGood'
  BY DEF ReadGroups, TypeOK, Versions, SnapshotGood, FlightFresh, Good, loadVars, NoView
<1>3. FlightFresh'
  BY DEF ReadGroups, TypeOK, Versions, SnapshotGood, FlightFresh, FollowersWait, Good, Leads, loadVars, NoView
<1>4. FollowersWait'
  BY DEF ReadGroups, TypeOK, FollowersWait, Leads, loadVars
<1>5. Unanswered'
  BY DEF ReadGroups, TypeOK, Unanswered, loadVars, Leads
<1>6. AnswerFresh'
  BY DEF ReadGroups, TypeOK, Versions, SnapshotGood, FlightFresh, AnswerFresh, AtLeast, Good, loadVars, NoView
<1>7. OneFlight'
  BY DEF ReadGroups, TypeOK, OneFlight, Leads, loadVars
<1>8. LoadedOnce'
  BY DEF ReadGroups, TypeOK, LoadedOnce, OneFlight, FlightFresh, Leads, loadVars
<1>9. NilMeansMoved'
  BY DEF ReadGroups, TypeOK, Versions, NilMeansMoved, FlightFresh, Good, Unanswered, loadVars, NoView
<1> QED BY <1>1, <1>2, <1>3, <1>4, <1>5, <1>6, <1>7, <1>8, <1>9

\* The tokens are read at the present version, later than the groups.
LEMMA ReadTokensStep ==
  ASSUME IInv, NEW r \in Readers, ReadTokens(r)
  PROVE  IInv'
<1> USE DEF IInv
<1>1. TypeOK'
  <2>1. view' \in [Readers -> Views]
    <3>1. view[r] \in Views /\ version \in Nat
      BY CacheAssumption DEF CacheAssumption, TypeOK, Versions, Views
    <3>2. [view[r] EXCEPT !.tokens = version] \in Views
      BY <3>1 DEF Views
    <3> QED BY <3>2 DEF ReadTokens, TypeOK, Views
  <2>2. pc' \in [Readers -> Steps]
    BY DEF ReadTokens, TypeOK, Steps
  <2> QED BY <2>1, <2>2 DEF ReadTokens, TypeOK, Versions, Views
<1>2. SnapshotGood'
  BY DEF ReadTokens, TypeOK, Versions, SnapshotGood, FlightFresh, Good, loadVars, NoView
<1>3. FlightFresh'
  BY DEF ReadTokens, TypeOK, Versions, SnapshotGood, FlightFresh, FollowersWait, Good, Leads, loadVars, NoView
<1>4. FollowersWait'
  BY DEF ReadTokens, TypeOK, FollowersWait, Leads, loadVars
<1>5. Unanswered'
  BY DEF ReadTokens, TypeOK, Unanswered, loadVars, Leads
<1>6. AnswerFresh'
  BY DEF ReadTokens, TypeOK, Versions, SnapshotGood, FlightFresh, AnswerFresh, AtLeast, Good, loadVars, NoView
<1>7. OneFlight'
  BY DEF ReadTokens, TypeOK, OneFlight, Leads, loadVars
<1>8. LoadedOnce'
  BY DEF ReadTokens, TypeOK, LoadedOnce, OneFlight, FlightFresh, Leads, loadVars
<1>9. NilMeansMoved'
  BY DEF ReadTokens, TypeOK, Versions, NilMeansMoved, FlightFresh, Good, Unanswered, loadVars, NoView
<1> QED BY <1>1, <1>2, <1>3, <1>4, <1>5, <1>6, <1>7, <1>8, <1>9

\* A query fails.
LEMMA ReadFailsStep ==
  ASSUME IInv, NEW r \in Readers, ReadFails(r)
  PROVE  IInv'
<1> USE DEF IInv
<1>1. TypeOK'
  BY CacheAssumption DEF CacheAssumption, ReadFails, TypeOK, Versions, Steps, NoView, Leads, loadVars
<1>2. SnapshotGood'
  BY DEF ReadFails, TypeOK, Versions, SnapshotGood, FlightFresh, Good, loadVars, NoView
<1>3. FlightFresh'
  BY DEF ReadFails, TypeOK, Versions, SnapshotGood, FlightFresh, FollowersWait, Good, Leads, loadVars, NoView
<1>4. FollowersWait'
  BY DEF ReadFails, TypeOK, FollowersWait, Leads, loadVars
<1>5. Unanswered'
  BY DEF ReadFails, TypeOK, Unanswered, loadVars, Leads
<1>6. AnswerFresh'
  BY DEF ReadFails, TypeOK, Versions, SnapshotGood, FlightFresh, AnswerFresh, AtLeast, Good, loadVars, NoView
<1>7. OneFlight'
  BY DEF ReadFails, TypeOK, OneFlight, Leads, loadVars
<1>8. LoadedOnce'
  BY DEF ReadFails, TypeOK, LoadedOnce, OneFlight, FlightFresh, Leads, loadVars
<1>9. NilMeansMoved'
  BY DEF ReadFails, TypeOK, Versions, NilMeansMoved, FlightFresh, Good, Unanswered, loadVars, NoView
<1> QED BY <1>1, <1>2, <1>3, <1>4, <1>5, <1>6, <1>7, <1>8, <1>9

\* The leader publishes, if its generation is still the current one.
LEMMA PublishStep ==
  ASSUME IInv, NEW r \in Readers, Publish(r)
  PROVE  IInv'
<1> USE DEF IInv
<1>1. TypeOK'
  <2>1. pc' \in [Readers -> Steps]
    BY DEF Publish, TypeOK, Steps
  <2>2. snapshot' \in Views /\ result' \in [Readers -> Views]
    <3>1. view[r] \in Views /\ snapshot \in Views /\ result \in [Readers -> Views]
      BY DEF TypeOK, Views
    <3> QED BY <3>1 DEF Publish
  <2>3. view' \in [Readers -> Views]
    BY DEF Publish, TypeOK, Views, NoView
  <2> QED BY <2>1, <2>2, <2>3 DEF Publish, TypeOK, Versions, Views
<1>2. SnapshotGood'
  BY DEF Publish, TypeOK, Versions, SnapshotGood, FlightFresh, Good, loadVars, NoView
<1>3. FlightFresh'
  BY DEF Publish, TypeOK, Versions, SnapshotGood, FlightFresh, FollowersWait, Good, Leads, loadVars, NoView
<1>4. FollowersWait'
  BY DEF Publish, TypeOK, FollowersWait, Leads, loadVars
<1>5. Unanswered'
  BY DEF Publish, TypeOK, Unanswered, loadVars, Leads
<1>6. AnswerFresh'
  BY DEF Publish, TypeOK, Versions, SnapshotGood, FlightFresh, AnswerFresh, AtLeast, Good, loadVars, NoView
<1>7. OneFlight'
  BY DEF Publish, TypeOK, OneFlight, Leads, loadVars
<1>8. LoadedOnce'
  BY DEF Publish, TypeOK, LoadedOnce, OneFlight, FlightFresh, Leads, loadVars
<1>9. NilMeansMoved'
  BY DEF Publish, TypeOK, Versions, NilMeansMoved, FlightFresh, Good, Unanswered, loadVars, NoView
<1> QED BY <1>1, <1>2, <1>3, <1>4, <1>5, <1>6, <1>7, <1>8, <1>9

\* The flight ends for its leader and its followers.
LEMMA DeliverStep ==
  ASSUME IInv, NEW r \in Readers, Deliver(r)
  PROVE  IInv'
<1> USE DEF IInv
<1>1. TypeOK'
  BY CacheAssumption DEF CacheAssumption, Deliver, TypeOK, Versions, Steps, NoView, Leads, loadVars
<1>2. SnapshotGood'
  BY DEF Deliver, TypeOK, Versions, SnapshotGood, FlightFresh, Good, loadVars, NoView
<1>3. FlightFresh'
  BY DEF Deliver, TypeOK, Versions, SnapshotGood, FlightFresh, FollowersWait, Good, Leads, loadVars, NoView
<1>4. FollowersWait'
  BY DEF Deliver, TypeOK, FollowersWait, Leads, loadVars
<1>5. Unanswered'
  BY DEF Deliver, TypeOK, Unanswered, loadVars, Leads
<1>6. AnswerFresh'
  BY DEF Deliver, TypeOK, Versions, SnapshotGood, FlightFresh, AnswerFresh, AtLeast, Good, loadVars, NoView
<1>7. OneFlight'
  BY DEF Deliver, TypeOK, OneFlight, Leads, loadVars
<1>8. LoadedOnce'
  BY DEF Deliver, TypeOK, LoadedOnce, OneFlight, FlightFresh, Leads, loadVars
<1>9. NilMeansMoved'
  BY DEF Deliver, TypeOK, Versions, NilMeansMoved, FlightFresh, Good, Unanswered, loadVars, NoView
<1> QED BY <1>1, <1>2, <1>3, <1>4, <1>5, <1>6, <1>7, <1>8, <1>9

\* A Load returns.
LEMMA FinishStep ==
  ASSUME IInv, NEW r \in Readers, Finish(r)
  PROVE  IInv'
<1> USE DEF IInv
<1>1. TypeOK'
  BY CacheAssumption DEF CacheAssumption, Finish, TypeOK, Versions, Steps, NoView, Leads, loadVars
<1>2. SnapshotGood'
  BY DEF Finish, TypeOK, Versions, SnapshotGood, FlightFresh, Good, loadVars, NoView
<1>3. FlightFresh'
  BY DEF Finish, TypeOK, Versions, SnapshotGood, FlightFresh, FollowersWait, Good, Leads, loadVars, NoView
<1>4. FollowersWait'
  BY DEF Finish, TypeOK, FollowersWait, Leads, loadVars
<1>5. Unanswered'
  BY DEF Finish, TypeOK, Unanswered, loadVars, Leads
<1>6. AnswerFresh'
  BY DEF Finish, TypeOK, Versions, SnapshotGood, FlightFresh, AnswerFresh, AtLeast, Good, loadVars, NoView
<1>7. OneFlight'
  BY DEF Finish, TypeOK, OneFlight, Leads, loadVars
<1>8. LoadedOnce'
  BY DEF Finish, TypeOK, LoadedOnce, OneFlight, FlightFresh, Leads, loadVars
<1>9. NilMeansMoved'
  BY DEF Finish, TypeOK, Versions, NilMeansMoved, FlightFresh, Good, Unanswered, loadVars, NoView
<1> QED BY <1>1, <1>2, <1>3, <1>4, <1>5, <1>6, <1>7, <1>8, <1>9

\* A change is committed.
LEMMA PersistStep ==
  ASSUME IInv, NEW w \in Writers, Persist(w)
  PROVE  IInv'
<1> USE DEF IInv
<1>1. TypeOK'
  BY CacheAssumption DEF CacheAssumption, Persist, TypeOK, Versions, Steps, NoView, Leads, loadVars
<1>2. SnapshotGood'
  BY DEF Persist, TypeOK, Versions, SnapshotGood, FlightFresh, Good, loadVars, NoView
<1>3. FlightFresh'
  BY DEF Persist, TypeOK, Versions, SnapshotGood, FlightFresh, FollowersWait, Good, Leads, loadVars, NoView
<1>4. FollowersWait'
  BY DEF Persist, TypeOK, FollowersWait, Leads, loadVars
<1>5. Unanswered'
  BY DEF Persist, TypeOK, Unanswered, loadVars, Leads
<1>6. AnswerFresh'
  BY DEF Persist, TypeOK, Versions, SnapshotGood, FlightFresh, AnswerFresh, AtLeast, Good, loadVars, NoView
<1>7. OneFlight'
  BY DEF Persist, TypeOK, OneFlight, Leads, loadVars
<1>8. LoadedOnce'
  BY DEF Persist, TypeOK, LoadedOnce, OneFlight, FlightFresh, Leads, loadVars
<1>9. NilMeansMoved'
  BY DEF Persist, TypeOK, Versions, NilMeansMoved, FlightFresh, Good, Unanswered, loadVars, NoView
<1> QED BY <1>1, <1>2, <1>3, <1>4, <1>5, <1>6, <1>7, <1>8, <1>9

\* A change is finished: every flight in progress becomes obsolete.
LEMMA InvalidateStep ==
  ASSUME IInv, NEW w \in Writers, Invalidate(w)
  PROVE  IInv'
<1> USE DEF IInv
<1>1. TypeOK'
  BY CacheAssumption DEF CacheAssumption, Invalidate, TypeOK, Versions, Steps, NoView, Leads, loadVars
<1>2. SnapshotGood'
  BY DEF Invalidate, TypeOK, Versions, SnapshotGood, FlightFresh, Good, loadVars, NoView
<1>3. FlightFresh'
  BY DEF Invalidate, TypeOK, Versions, SnapshotGood, FlightFresh, FollowersWait, Good, Leads, loadVars, NoView
<1>4. FollowersWait'
  BY DEF Invalidate, TypeOK, FollowersWait, Leads, loadVars
<1>5. Unanswered'
  BY DEF Invalidate, TypeOK, Unanswered, loadVars, Leads
<1>6. AnswerFresh'
  BY DEF Invalidate, TypeOK, Versions, SnapshotGood, FlightFresh, AnswerFresh, AtLeast, Good, loadVars, NoView
<1>7. OneFlight'
  BY DEF Invalidate, TypeOK, OneFlight, Leads, loadVars
<1>8. LoadedOnce'
  BY DEF Invalidate, TypeOK, LoadedOnce, OneFlight, FlightFresh, Leads, loadVars
<1>9. NilMeansMoved'
  BY DEF Invalidate, TypeOK, Versions, NilMeansMoved, FlightFresh, Good, Unanswered, loadVars, NoView
<1> QED BY <1>1, <1>2, <1>3, <1>4, <1>5, <1>6, <1>7, <1>8, <1>9

\* Every step keeps the invariant.
LEMMA NextIInv == IInv /\ [Next]_vars => IInv'
<1> SUFFICES ASSUME IInv, [Next]_vars PROVE IInv'
  OBVIOUS
<1>1. ASSUME NEW r \in Readers, Load(r) PROVE IInv'
  BY <1>1, StartStep, JoinStep, CheckStep, ReadGroupsStep, ReadTokensStep, ReadFailsStep,
     PublishStep, DeliverStep, FinishStep DEF Load
<1>2. ASSUME NEW w \in Writers, Persist(w) \/ Invalidate(w) PROVE IInv'
  BY <1>2, PersistStep, InvalidateStep
<1>3. CASE UNCHANGED vars
  BY <1>3 DEF vars, IInv, TypeOK, SnapshotGood, Good, FlightFresh, FollowersWait, Leads, Unanswered,
              AnswerFresh, AtLeast, OneFlight, LoadedOnce, NilMeansMoved
<1> QED BY <1>1, <1>2, <1>3 DEF Next

\* The cache never leaves its inductive invariant.
THEOREM Invariance == Spec => []IInv
BY InitIInv, NextIInv, PTL DEF Spec

\* A change that was finished is in everything the cache publishes afterwards,
\* although a flight may have read the store before the change.
THEOREM NothingStalePublished == Spec => []PublishedFresh
<1>1. IInv => PublishedFresh
  <2> SUFFICES ASSUME IInv, snapshot # NoView PROVE AtLeast(snapshot, completed)
    BY DEF PublishedFresh
  <2> QED BY DEF IInv, TypeOK, Versions, SnapshotGood, Good, AtLeast
<1> QED BY <1>1, Invariance, PTL

\* Load never answers with routes or tokens older than a change that was
\* finished when it began, whichever flight it joined.
THEOREM NothingStaleAnswered == Spec => []AnswerFresh
<1>1. IInv => AnswerFresh
  BY DEF IInv
<1> QED BY <1>1, Invariance, PTL

\* Concurrent requests of a generation share one flight, and its result is
\* published once.
THEOREM Coalesced == Spec => [](OneFlight /\ LoadedOnce)
<1>1. IInv => OneFlight /\ LoadedOnce
  BY DEF IInv
<1> QED BY <1>1, Invariance, PTL

\* Load gives up without an error only when a change was finished meanwhile.
THEOREM NilIsJustified == Spec => []NilMeansMoved
<1>1. IInv => NilMeansMoved
  BY DEF IInv
<1> QED BY <1>1, Invariance, PTL
-----------------------------------------------------------------------------
\* The interface of RouteView, as the refinement mapping shows it.
Busy == [r \in Readers |-> pc[r] \notin {"idle", "done"}]
Failed == [r \in Readers |-> pc[r] = "done" /\ err[r]]

LEMMA ViewInit == Init => View!Init
BY DEF Init, View!Init, NoView, View!Nothing

\* A view that is right now is one of the answers the contract allows.
LEMMA GoodIsFresh ==
  ASSUME TypeOK, NEW v \in Views, Good(v)
  PROVE  v \in View!Fresh
<1>1. v.groups \in Nat /\ v.tokens \in Nat /\ v = [groups |-> v.groups, tokens |-> v.tokens]
  BY DEF Views
<1>2. v.groups \in 1..(MaxVersion + 1) /\ v.tokens \in 1..(MaxVersion + 1)
  BY <1>1, CacheAssumption DEF CacheAssumption, TypeOK, Versions, Good
<1>3. v \in [groups : 1..(MaxVersion + 1), tokens : 1..(MaxVersion + 1)]
  BY <1>1, <1>2
<1> QED BY <1>3 DEF View!Fresh, Good

\* Asking: the published snapshot is a right answer, and without one the
\* request is busy.
LEMMA StartAsks ==
  ASSUME IInv, NEW r \in Readers, Start(r)
  PROVE  View!Ask(r)
<1> USE DEF IInv
<1>1. ~Busy[r] /\ gen' = [gen EXCEPT ![r] = generation] /\ UNCHANGED <<version, completed, generation>>
  BY DEF Start, Busy
<1>2. Failed' = [Failed EXCEPT ![r] = FALSE]
  BY DEF Start, Failed, TypeOK
<1>3. CASE snapshot # NoView
  <2>1. snapshot \in Views /\ Good(snapshot)
    BY <1>3 DEF TypeOK, SnapshotGood, Views
  <2>2. snapshot \in View!Fresh
    BY <2>1, GoodIsFresh
  <2>3. Busy' = Busy
    BY <1>3 DEF Start, Busy, TypeOK
  <2> QED BY <1>1, <1>2, <2>2, <2>3 DEF Start, View!Ask, Busy, Failed
<1>4. CASE snapshot = NoView
  <2>1. Busy' = [Busy EXCEPT ![r] = TRUE]
    BY <1>4 DEF Start, Busy, TypeOK
  <2>2. answer' = [answer EXCEPT ![r] = View!Nothing]
    BY <1>4 DEF Start, NoView, View!Nothing
  <2> QED BY <1>1, <1>2, <2>1, <2>2 DEF View!Ask, Busy, Failed
<1> QED BY <1>3, <1>4

\* Returning: with a right answer, with the error of the flight, or with nothing
\* because the generation moved.
LEMMA FinishReplies ==
  ASSUME IInv, NEW r \in Readers, Finish(r)
  PROVE  View!Reply(r)
<1> USE DEF IInv
<1>1. Busy[r] /\ Busy' = [Busy EXCEPT ![r] = FALSE]
  BY DEF Finish, Busy, TypeOK
<1>2. Failed' = [Failed EXCEPT ![r] = err[r]]
  BY DEF Finish, Failed, TypeOK
<1>3. ~Failed[r] /\ answer[r] = NoView
  BY DEF Finish, Failed, Unanswered
<1>4. UNCHANGED <<version, completed, generation, gen>>
  BY DEF Finish
<1>5. CASE err[r]
  <2>1. answer' = answer
    BY <1>3, <1>5 DEF Finish, TypeOK
  <2>2. Failed' = [Failed EXCEPT ![r] = TRUE]
    BY <1>2, <1>5
  <2> QED BY <1>1, <1>4, <2>1, <2>2 DEF View!Reply, Busy, Failed
<1>6. CASE ~err[r] /\ generation # gen[r]
  <2>1. answer' = answer
    BY <1>3, <1>6 DEF Finish, TypeOK
  <2>2. Failed' = Failed
    BY <1>2, <1>3, <1>6 DEF Failed, TypeOK
  <2> QED BY <1>1, <1>4, <1>6, <2>1, <2>2 DEF View!Reply, Busy, Failed
<1>7. CASE ~err[r] /\ generation = gen[r]
  <2>1. result[r] \in Views /\ Good(result[r])
    BY <1>7 DEF Finish, TypeOK, FlightFresh, Views
  <2>2. result[r] \in View!Fresh
    BY <2>1, GoodIsFresh
  <2>3. answer' = [answer EXCEPT ![r] = result[r]]
    BY <1>7 DEF Finish
  <2>4. Failed' = Failed
    BY <1>2, <1>3, <1>7 DEF Failed, TypeOK
  <2> QED BY <1>1, <1>4, <2>2, <2>3, <2>4 DEF View!Reply, Busy, Failed
<1> QED BY <1>5, <1>6, <1>7

\* The steps inside a flight are invisible.
LEMMA FlightsAreInvisible ==
  ASSUME IInv, NEW r \in Readers,
         \/ Join(r) \/ Check(r) \/ ReadGroups(r) \/ ReadTokens(r)
         \/ ReadFails(r) \/ Publish(r) \/ Deliver(r)
  PROVE  UNCHANGED View!vars
<1> USE DEF IInv
<1>1. UNCHANGED <<version, completed, generation, gen, answer>>
  BY DEF Join, Check, ReadGroups, ReadTokens, ReadFails, Publish, Deliver
<1>2. \A s \in Readers : pc[s] \notin {"idle", "done"} <=> pc'[s] \notin {"idle", "done"}
  <2>1. CASE Join(r)
    BY <2>1 DEF Join, TypeOK
  <2>2. CASE Check(r)
    BY <2>2 DEF Check, TypeOK
  <2>3. CASE ReadGroups(r) \/ ReadTokens(r) \/ ReadFails(r) \/ Publish(r)
    BY <2>3 DEF ReadGroups, ReadTokens, ReadFails, Publish, TypeOK
  <2>4. CASE Deliver(r)
    BY <2>4 DEF Deliver, TypeOK
  <2> QED BY <2>1, <2>2, <2>3, <2>4
<1>3. \A s \in Readers : pc[s] # "done" \/ err'[s] = err[s]
  <2>1. CASE ReadFails(r)
    BY <2>1 DEF ReadFails, TypeOK
  <2>2. CASE Deliver(r)
    BY <2>2 DEF Deliver, TypeOK
  <2>3. CASE ~ReadFails(r) /\ ~Deliver(r)
    BY <2>3 DEF Join, Check, ReadGroups, ReadTokens, Publish
  <2> QED BY <2>1, <2>2, <2>3
<1>4. \A s \in Readers : pc[s] = "done" <=> pc'[s] = "done"
  <2>1. CASE Join(r)
    BY <2>1 DEF Join, TypeOK
  <2>2. CASE Check(r)
    BY <2>2 DEF Check, TypeOK
  <2>3. CASE ReadGroups(r) \/ ReadTokens(r) \/ ReadFails(r) \/ Publish(r)
    BY <2>3 DEF ReadGroups, ReadTokens, ReadFails, Publish, TypeOK
  <2>4. CASE Deliver(r)
    BY <2>4 DEF Deliver, TypeOK
  <2> QED BY <2>1, <2>2, <2>3, <2>4
<1>5. Busy' = Busy
  BY <1>2 DEF Busy
<1>6. Failed' = Failed
  BY <1>3, <1>4 DEF Failed
<1> QED BY <1>1, <1>5, <1>6 DEF View!vars, Busy, Failed

\* Committing and finishing a change are the contract's own steps.
LEMMA ChangesChange ==
  ASSUME IInv, NEW w \in Writers, Persist(w) \/ Invalidate(w)
  PROVE  View!Next
<1> USE DEF IInv
<1>1. UNCHANGED <<pc, gen, answer, err>> /\ Busy' = Busy /\ Failed' = Failed
  BY DEF Persist, Invalidate, loadVars, Busy, Failed
<1>2. CASE Persist(w)
  BY <1>1, <1>2 DEF Persist, View!Next, View!Change, Busy, Failed
<1>3. CASE Invalidate(w)
  <2>1. completed' \in completed..version
    BY <1>3 DEF Invalidate, TypeOK, Versions
  <2> QED BY <1>1, <1>3, <2>1 DEF Invalidate, View!Next, View!Settle, Busy, Failed
<1> QED BY <1>2, <1>3

\* A request cannot tell the cache from a store that answers at once, except
\* for the nils: singleflight, the two checks of the generation and the torn
\* reads are all hidden.
THEOREM Implements == Spec => ViewSpec
<1>1. IInv /\ [Next]_vars => [View!Next]_(View!vars)
  <2> SUFFICES ASSUME IInv, [Next]_vars PROVE View!Next \/ UNCHANGED View!vars
    OBVIOUS
  <2>1. ASSUME NEW r \in Readers, Load(r) PROVE View!Next \/ UNCHANGED View!vars
    BY <2>1, StartAsks, FinishReplies, FlightsAreInvisible DEF Load, View!Next
  <2>2. ASSUME NEW w \in Writers, Persist(w) \/ Invalidate(w) PROVE View!Next
    BY <2>2, ChangesChange
  <2>3. CASE UNCHANGED vars
    BY <2>3 DEF vars, View!vars
  <2> QED BY <2>1, <2>2, <2>3 DEF Next
<1> QED BY <1>1, ViewInit, Invariance, PTL DEF Spec, ViewSpec, View!Spec
=============================================================================
