------------------------ MODULE ProtocolRegistryProofs ------------------------
(***************************************************************************)
(* Proofs about ProtocolRegistry, for any protocols, contents, requests,   *)
(* jobs, administrators and restarts: what is served is what is active,    *)
(* only unused revisions are deleted, and an archived protocol keeps no    *)
(* binding.                                                                *)
(***************************************************************************)
EXTENDS ProtocolRegistry, SequenceTheorems, FiniteSetTheorems, TLAPS

\* Steps at which an administrator holds service.mu, or uses.mu; steps at which he
\* has a revision in mind.
Holding == {"commit", "publish", "swap", "unpublish", "delete", "evict"}
Locking == {"retained", "delete", "evict"}
Choosing == {"revision", "report", "activate", "bind", "exclusive", "retained"}
            \cup {"commit", "publish", "delete", "evict"}

Shapes ==
  /\ step = [x \in Clients \cup Admins |-> step[x]] /\ plan = [a \in Admins |-> plan[a]]
  /\ pinned \in [Clients -> Revs \cup {None}] /\ bindings \in [Slots -> Revs \cup {None}]
  /\ generation \in Nat /\ retained \in Seq(Revs) /\ usesLock \in Admins \cup {None}
  /\ \A r \in Requests : step[r] \in {"pinned", "using"} => pinned[r] \in Revs
  /\ \A a \in Admins : step[a] \in Choosing => plan[a].rev \in Revs

\* The locks are held by whoever is between the two halves of his operation.
Locked == \A a \in Admins : /\ step[a] \in Holding => registry = a
                            /\ step[a] \in Locking => usesLock = a

\* A request that has counted itself and not yet left is counted.
Using(rev) == {r \in Requests : step[r] = "using" /\ pinned[r] = rev}
Counted == \A rev \in Revs : IsFiniteSet(Using(rev)) /\ uses[rev] = Cardinality(Using(rev))

\* What is about to be deleted is neither used nor served.
Unused == \A a \in Admins :
  /\ step[a] \in {"retained", "delete"} => uses[plan[a].rev] = 0
  /\ step[a] = "delete" => snapshot[plan[a].rev[1]] # plan[a].rev[2]

\* The view is that of the tables, but for the change that its author has committed
\* and not yet published.
Published ==
  /\ registry = None => snapshot = activations
  /\ \A a \in Admins :
       /\ step[a] \in {"commit", "swap", "delete", "evict"} => snapshot = activations
       /\ step[a] = "swap" => plan[a] = activations
       /\ step[a] = "publish" =>
            activations = [snapshot EXCEPT ![plan[a].rev[1]] = plan[a].rev[2]]
       /\ step[a] = "unpublish" => activations = [snapshot EXCEPT ![plan[a].id] = None]

\* What is active, or about to be, can be loaded.
Verified == /\ \A rev \in Active : Loadable(rev)
            /\ \A a \in Admins : step[a] = "commit" => Loadable(plan[a].rev)

\* The cache holds revisions of the tables, and the one that is about to be evicted.
Cached == /\ IsInjective(retained)
          /\ \A rev \in ToSet(retained) :
               rev \in revisions \/ \E a \in Admins : step[a] = "evict" /\ plan[a].rev = rev

\* Unless bindings changed twice since the baseline was read, the slots to be changed
\* are those that are bound when the bindings are as in the baseline.
Reviewed == \A a \in Admins :
  /\ step[a] \in {"references", "archive"} =>
       /\ plan[a].id \in Protocols /\ plan[a].changes \in Nat /\ plan[a].changes <= generation
       /\ generation = plan[a].changes => bindings = plan[a].baseline[5]
  /\ step[a] = "archive" =>
       /\ plan[a].slots \subseteq Slots /\ plan[a].new \in Revs \cup {None}
       /\ plan[a].new # None => plan[a].new[1] # plan[a].id
       /\ generation <= plan[a].changes + 1 /\ bindings = plan[a].baseline[5] =>
            plan[a].slots = Bound(plan[a].id)

IInv == TypeOK /\ Shapes /\ Locked /\ Counted /\ Unused /\ Published /\ Verified /\ Cached /\ Reviewed
-----------------------------------------------------------------------------
(* The cache of revisions.                                                 *)

\* Appending a revision that is not there keeps the entries distinct.
LEMMA Appended ==
  ASSUME NEW q \in Seq(Revs), NEW rev \in Revs, rev \notin ToSet(q), IsInjective(q)
  PROVE  /\ Append(q, rev) \in Seq(Revs) /\ Len(Append(q, rev)) = Len(q) + 1
         /\ IsInjective(Append(q, rev)) /\ ToSet(Append(q, rev)) \subseteq ToSet(q) \cup {rev}
<1> DEFINE t == Append(q, rev)
<1>1. Len(q) \in Nat /\ DOMAIN q = 1..Len(q)
  BY LenProperties
<1>2. t \in Seq(Revs) /\ Len(t) = Len(q) + 1 /\ DOMAIN t = 1..(Len(q) + 1)
      /\ t[Len(q) + 1] = rev /\ \A i \in 1..Len(q) : t[i] = q[i]
  BY <1>1
<1>3. \A i \in 1..Len(q) : t[i] # rev
  BY <1>1, <1>2 DEF ToSet
<1>4. IsInjective(t)
  <2>1. \A i, k \in 1..Len(q) : q[i] = q[k] => i = k
    BY <1>1 DEF IsInjective
  <2>2. \A i \in 1..(Len(q) + 1) : i \in 1..Len(q) \/ i = Len(q) + 1
    BY <1>1
  <2> HIDE DEF t
  <2>3. \A i, k \in 1..(Len(q) + 1) : t[i] = t[k] => i = k
    BY ONLY <2>1, <2>2, <1>2, <1>3
  <2> QED BY <2>3, <1>2 DEF IsInjective
<1>5. ToSet(t) \subseteq ToSet(q) \cup {rev}
  <2>1. \A i \in 1..(Len(q) + 1) : i \in 1..Len(q) \/ i = Len(q) + 1
    BY <1>1
  <2> HIDE DEF t
  <2> QED BY <2>1, <1>1, <1>2 DEF ToSet
<1> QED BY <1>2, <1>4, <1>5

\* Forgetting the oldest one does, too.
LEMMA Shortened ==
  ASSUME NEW q \in Seq(Revs), q # <<>>, IsInjective(q)
  PROVE  /\ Tail(q) \in Seq(Revs) /\ Len(Tail(q)) = Len(q) - 1
         /\ IsInjective(Tail(q)) /\ ToSet(Tail(q)) \subseteq ToSet(q)
<1> DEFINE t == Tail(q)
<1>1. Len(q) \in Nat /\ DOMAIN q = 1..Len(q)
  BY LenProperties
<1>2. t \in Seq(Revs) /\ Len(t) = Len(q) - 1 /\ \A i \in 1..Len(t) : t[i] = q[i + 1]
  BY HeadTailProperties
<1>3. Len(t) \in Nat /\ DOMAIN t = 1..Len(t)
  BY <1>2, LenProperties
<1> HIDE DEF t
<1>4. \A i \in 1..Len(t) : i \in Nat /\ i + 1 \in 1..Len(q)
  BY <1>1, <1>2, <1>3
<1>5. IsInjective(t)
  <2>1. \A i, k \in 1..Len(t) : q[i + 1] = q[k + 1] => i = k
    BY <1>1, <1>4 DEF IsInjective
  <2> QED BY <2>1, <1>2, <1>3 DEF IsInjective
<1>6. ToSet(t) \subseteq ToSet(q)
  BY <1>1, <1>2, <1>3, <1>4 DEF ToSet
<1> QED BY <1>2, <1>5, <1>6 DEF t

\* Taking an entry out leaves the others, once each.
LEMMA Removed ==
  ASSUME NEW q \in Seq(Revs), IsInjective(q), NEW n \in DOMAIN q
  PROVE  /\ RemoveAt(q, n) \in Seq(Revs) /\ Len(RemoveAt(q, n)) <= Len(q)
         /\ IsInjective(RemoveAt(q, n)) /\ ToSet(RemoveAt(q, n)) \subseteq ToSet(q) \ {q[n]}
<1> DEFINE u == SubSeq(q, 1, n - 1)
           v == SubSeq(q, n + 1, Len(q))
           t == RemoveAt(q, n)
           at(i) == IF i < n THEN i ELSE i + 1
<1>1. Len(q) \in Nat /\ DOMAIN q = 1..Len(q) /\ n \in 1..Len(q)
  BY LenProperties
<1>2. u \in Seq(Revs) /\ Len(u) = n - 1 /\ \A i \in 1..(n - 1) : u[i] = q[i]
  <2>1. \A i \in 1..(n - 1) : q[i] \in Revs
    BY <1>1, ElementOfSeq
  <2>2. /\ u \in Seq(Revs) /\ Len(u) = IF 1 <= n - 1 THEN n - 1 - 1 + 1 ELSE 0
        /\ \A i \in 1..(n - 1 - 1 + 1) : u[i] = q[1 + i - 1]
    BY <1>1, <2>1, SubSeqProperties
  <2> HIDE DEF u
  <2> QED BY <1>1, <2>2
<1>3. v \in Seq(Revs) /\ Len(v) = Len(q) - n /\ \A i \in 1..(Len(q) - n) : v[i] = q[i + n]
  <2>1. \A i \in (n + 1)..Len(q) : q[i] \in Revs
    BY <1>1, ElementOfSeq
  <2>2. /\ v \in Seq(Revs) /\ Len(v) = IF n + 1 <= Len(q) THEN Len(q) - (n + 1) + 1 ELSE 0
        /\ \A i \in 1..(Len(q) - (n + 1) + 1) : v[i] = q[n + 1 + i - 1]
    BY <1>1, <2>1, SubSeqProperties
  <2> HIDE DEF v
  <2>3. Len(v) = Len(q) - n
    BY <1>1, <2>2
  <2>4. \A i \in 1..(Len(q) - n) : i \in 1..(Len(q) - (n + 1) + 1) /\ n + 1 + i - 1 = i + n
    BY <1>1
  <2>5. \A i \in 1..(Len(q) - n) : v[i] = q[i + n]
    BY ONLY <2>2, <2>4, Zenon
  <2> QED BY <2>2, <2>3, <2>5
<1>4. t \in Seq(Revs) /\ Len(t) = Len(q) - 1 /\ \A i \in 1..(Len(q) - 1) : t[i] = q[at(i)]
  <2>1. t = u \o v
    BY DEF RemoveAt
  <2> HIDE DEF u, v, t
  <2>2. /\ u \o v \in Seq(Revs) /\ Len(u \o v) = Len(u) + Len(v)
        /\ \A i \in 1..(Len(u) + Len(v)) :
             (u \o v)[i] = IF i <= Len(u) THEN u[i] ELSE v[i - Len(u)]
    BY ONLY <1>2, <1>3, ConcatProperties
  <2>3. Len(u) + Len(v) = Len(q) - 1
    BY <1>1, <1>2, <1>3
  <2>4. ASSUME NEW i \in 1..(Len(q) - 1)
        PROVE  t[i] = q[at(i)]
    <3>1. t[i] = IF i <= n - 1 THEN u[i] ELSE v[i - (n - 1)]
      BY <2>1, <2>2, <2>3, <1>2
    <3>2. CASE i < n
      BY <3>1, <3>2, <1>1, <1>2
    <3>3. CASE ~(i < n)
      <4>1. i - (n - 1) \in 1..(Len(q) - n) /\ i - (n - 1) + n = i + 1
        BY <3>3, <1>1
      <4>2. v[i - (n - 1)] = q[i + 1]
        BY <4>1, <1>3
      <4> QED BY <3>1, <3>3, <4>2, <1>1
    <3> QED BY <3>2, <3>3
  <2> QED BY <2>1, <2>2, <2>3, <2>4
<1> HIDE DEF t
<1>5. DOMAIN t = 1..(Len(q) - 1)
  BY <1>4, LenProperties
<1>6. \A i \in 1..(Len(q) - 1) : at(i) \in 1..Len(q) /\ at(i) # n
  BY <1>1
<1>7. \A i, k \in 1..Len(q) : q[i] = q[k] => i = k
  BY <1>1 DEF IsInjective
<1>8. IsInjective(t)
  <2>1. \A i, k \in 1..(Len(q) - 1) : at(i) = at(k) => i = k
    BY <1>1
  <2> HIDE DEF at
  <2>2. ASSUME NEW i \in 1..(Len(q) - 1), NEW k \in 1..(Len(q) - 1), t[i] = t[k]
        PROVE  i = k
    <3>1. q[at(i)] = q[at(k)]
      BY <2>2, <1>4
    <3>2. at(i) = at(k)
      BY ONLY <3>1, <1>6, <1>7, <2>2, Zenon
    <3> QED BY <3>2, <2>1
  <2> QED BY ONLY <2>2, <1>5, Zenon DEF IsInjective
<1>9. ToSet(t) \subseteq ToSet(q) \ {q[n]}
  <2> HIDE DEF at
  <2> QED BY ONLY <1>1, <1>4, <1>5, <1>6, <1>7 DEF ToSet
<1> QED BY <1>4, <1>8, <1>9, <1>1 DEF t
-----------------------------------------------------------------------------
(* What a step leaves alone.                                               *)

ClientStep(x) == View(x) \/ AcquireUse(x) \/ ReleaseUse(x) \/ Submit(x) \/ LoadRevision(x) \/ StepJob(x)

\* Steps that hold no lock of the registry, before or after.
QuietStep(a) ==
  \/ SaveDraft(a) \/ VerifyReads(a) \/ SaveProtocolRevision(a) \/ SaveProtocolReport(a)
  \/ AskActivation(a) \/ BindReads(a) \/ BindPins(a) \/ BindCommits(a)
  \/ ArchiveReads(a) \/ ArchivePlans(a) \/ ReadProtocolHistory(a) \/ Exclusive(a)

\* Steps under service.mu.
RegistryStep(a) ==
  \/ ActivateLoads(a) \/ SetProtocolActivation(a) \/ ActivatePublishes(a)
  \/ ReloadReads(a) \/ ReloadPublishes(a) \/ ArchiveProtocol(a) \/ RemoveActive(a)
  \/ DeleteRetained(a) \/ DeleteProtocolHistory(a) \/ Evict(a)

AdminStep(a) == QuietStep(a) \/ RegistryStep(a)

\* A disjunction of Next is a step of a client, of an administrator, or the restart.
LEMMA Steps ==
  ASSUME Next
  PROVE  (\E x \in Clients : ClientStep(x)) \/ (\E a \in Admins : AdminStep(a)) \/ Restart
BY Zenon DEF Next, ClientStep, AdminStep, QuietStep, RegistryStep

\* To changes where its actor is, and nobody else.
LEMMA Moved ==
  ASSUME Shapes, NEW x \in Clients \cup Admins, NEW s, To(x, s)
  PROVE  /\ step' = [y \in Clients \cup Admins |-> step'[y]] /\ step'[x] = s
         /\ \A y \in (Clients \cup Admins) \ {x} : step'[y] = step[y]
BY DEF Shapes, To

\* Note and Forget change what their actor has read, and nobody else's.
LEMMA Noted ==
  ASSUME Shapes, NEW a \in Admins, NEW record, Note(a, record)
  PROVE  /\ plan' = [b \in Admins |-> plan'[b]] /\ plan'[a] = record
         /\ \A b \in Admins \ {a} : plan'[b] = plan[b]
BY DEF Shapes, Note

LEMMA Forgotten ==
  ASSUME Shapes, NEW a \in Admins, Forget(a)
  PROVE  /\ plan' = [b \in Admins |-> plan'[b]] /\ plan'[a] = None
         /\ \A b \in Admins \ {a} : plan'[b] = plan[b]
BY DEF Shapes, Forget

\* A client moves and touches neither tables, nor locks, nor plans.
LEMMA ClientEffects ==
  ASSUME Shapes, RegistryAssumption, NEW x \in Clients, ClientStep(x)
  PROVE  /\ step' = [y \in Clients \cup Admins |-> step'[y]]
         /\ \A y \in (Clients \cup Admins) \ {x} : step'[y] = step[y]
         /\ \A a \in Admins : step'[a] = step[a]
         /\ UNCHANGED <<tables, bound, snapshot, registry, usesLock, plan, crashes>>
<1>1. \E s : To(x, s)
  BY Zenon DEF ClientStep, View, AcquireUse, ReleaseUse, Submit, LoadRevision, StepJob
<1>2. UNCHANGED <<tables, bound, snapshot, registry, usesLock, plan, crashes>>
  BY DEF ClientStep, View, AcquireUse, ReleaseUse, Submit, LoadRevision, StepJob, published, counts
<1>3. x \notin Admins /\ x \in Clients \cup Admins
  BY DEF RegistryAssumption
<1>4. /\ step' = [y \in Clients \cup Admins |-> step'[y]]
      /\ \A y \in (Clients \cup Admins) \ {x} : step'[y] = step[y]
  <2>1. PICK s : To(x, s)
    BY <1>1
  <2> QED BY <2>1, <1>3, Moved
<1> QED BY <1>2, <1>3, <1>4

\* An administrator moves, and touches neither counts, nor clients, nor another's plan.
LEMMA AdminEffects ==
  ASSUME Shapes, RegistryAssumption, NEW a \in Admins, AdminStep(a)
  PROVE  /\ step' = [y \in Clients \cup Admins |-> step'[y]]
         /\ plan' = [b \in Admins |-> plan'[b]]
         /\ \A y \in (Clients \cup Admins) \ {a} : step'[y] = step[y]
         /\ \A x \in Clients : step'[x] = step[x]
         /\ \A b \in Admins \ {a} : step'[b] = step[b] /\ plan'[b] = plan[b]
         /\ UNCHANGED <<jobs, uses, pinned, crashes>>
<1>1. \E s : To(a, s)
  <2>1. CASE QuietStep(a)
    BY <2>1, Zenon DEF QuietStep, SaveDraft, VerifyReads, SaveProtocolRevision, SaveProtocolReport,
       AskActivation, BindReads, BindPins, BindCommits, ArchiveReads, ArchivePlans,
       ReadProtocolHistory, Exclusive
  <2>2. CASE RegistryStep(a)
    BY <2>2, Zenon DEF RegistryStep, ActivateLoads, SetProtocolActivation, ActivatePublishes,
       ReloadReads, ReloadPublishes, ArchiveProtocol, RemoveActive, DeleteRetained,
       DeleteProtocolHistory, Evict
  <2> QED BY <2>1, <2>2 DEF AdminStep
<1>2. (\E record : Note(a, record)) \/ Forget(a) \/ UNCHANGED plan
  <2>1. CASE QuietStep(a)
    BY <2>1, Zenon DEF QuietStep, SaveDraft, VerifyReads, SaveProtocolRevision, SaveProtocolReport,
       AskActivation, BindReads, BindPins, BindCommits, ArchiveReads, ArchivePlans,
       ReadProtocolHistory, Exclusive
  <2>2. CASE RegistryStep(a)
    BY <2>2, Zenon DEF RegistryStep, ActivateLoads, SetProtocolActivation, ActivatePublishes,
       ReloadReads, ReloadPublishes, ArchiveProtocol, RemoveActive, DeleteRetained,
       DeleteProtocolHistory, Evict
  <2> QED BY <2>1, <2>2 DEF AdminStep
<1>3. UNCHANGED <<jobs, uses, pinned, crashes>>
  <2>1. CASE QuietStep(a)
    BY <2>1 DEF QuietStep, SaveDraft, VerifyReads, SaveProtocolRevision, SaveProtocolReport,
       AskActivation, BindReads, BindPins, BindCommits, ArchiveReads, ArchivePlans,
       ReadProtocolHistory, Exclusive, counts
  <2>2. CASE RegistryStep(a)
    BY <2>2 DEF RegistryStep, ActivateLoads, SetProtocolActivation, ActivatePublishes,
       ReloadReads, ReloadPublishes, ArchiveProtocol, RemoveActive, DeleteRetained,
       DeleteProtocolHistory, Evict, counts
  <2> QED BY <2>1, <2>2 DEF AdminStep
<1>4. a \notin Clients /\ a \in Clients \cup Admins
  BY DEF RegistryAssumption
<1>5. /\ step' = [y \in Clients \cup Admins |-> step'[y]]
      /\ \A y \in (Clients \cup Admins) \ {a} : step'[y] = step[y]
  <2>1. PICK s : To(a, s)
    BY <1>1
  <2> QED BY <2>1, <1>4, Moved
<1>6. plan' = [b \in Admins |-> plan'[b]] /\ \A b \in Admins \ {a} : plan'[b] = plan[b]
  <2>1. CASE \E record : Note(a, record)
    <3>1. PICK record : Note(a, record)
      BY <2>1
    <3> QED BY <3>1, Noted
  <2>2. CASE Forget(a)
    BY <2>2, Forgotten
  <2>3. CASE UNCHANGED plan
    BY <2>3 DEF Shapes
  <2> QED BY <1>2, <2>1, <2>2, <2>3
<1> QED BY <1>3, <1>4, <1>5, <1>6

\* The registry is as it was under a quiet step, and revisions only come.
LEMMA QuietEffects ==
  ASSUME Shapes, NEW a \in Admins, QuietStep(a)
  PROVE  /\ UNCHANGED <<snapshot, activations, registry, retained>>
         /\ revisions \subseteq revisions' /\ reports \subseteq reports'
         /\ step[a] \notin Holding \cup Locking /\ step'[a] \notin Holding
<1>1. UNCHANGED <<snapshot, activations, registry, retained>>
  BY DEF QuietStep, SaveDraft, VerifyReads, SaveProtocolRevision, SaveProtocolReport,
     AskActivation, BindReads, BindPins, BindCommits, ArchiveReads, ArchivePlans,
     ReadProtocolHistory, Exclusive, published, tables
<1>2. revisions \subseteq revisions' /\ reports \subseteq reports'
  BY DEF QuietStep, SaveDraft, VerifyReads, SaveProtocolRevision, SaveProtocolReport,
     AskActivation, BindReads, BindPins, BindCommits, ArchiveReads, ArchivePlans,
     ReadProtocolHistory, Exclusive, tables
<1> DEFINE next == {"done", "revision", "report", "activate", "pin", "bind", "references",
                    "archive", "exclusive", "retained"}
<1>3. \E s \in next : To(a, s)
  BY Zenon DEF QuietStep, SaveDraft, VerifyReads, SaveProtocolRevision, SaveProtocolReport,
     AskActivation, BindReads, BindPins, BindCommits, ArchiveReads, ArchivePlans,
     ReadProtocolHistory, Exclusive
<1>4. step'[a] \notin Holding
  BY <1>3, Moved DEF Holding
<1>5. step[a] \notin Holding \cup Locking
  BY DEF QuietStep, Does, SaveDraft, VerifyReads, SaveProtocolRevision, SaveProtocolReport,
     AskActivation, BindReads, BindPins, BindCommits, ArchiveReads, ArchivePlans,
     ReadProtocolHistory, Exclusive, Holding, Locking
<1> QED BY <1>1, <1>2, <1>4, <1>5
-----------------------------------------------------------------------------
(* Locks.                                                                  *)

\* Under service.mu an administrator is alone.
LEMMA Alone ==
  ASSUME Shapes, Locked, RegistryAssumption, NEW a \in Admins, RegistryStep(a)
  PROVE  /\ registry \in {None, a}
         /\ \A b \in Admins \ {a} : step[b] \notin Holding /\ step'[b] \notin Holding
<1>1. registry \in {None, a}
  BY DEF Locked, Holding, RegistryStep, Does, ActivateLoads, SetProtocolActivation, ActivatePublishes,
     ReloadReads, ReloadPublishes, ArchiveProtocol, RemoveActive, DeleteRetained,
     DeleteProtocolHistory, Evict
<1>2. \A b \in Admins \ {a} : step[b] \notin Holding
  BY <1>1 DEF Locked, RegistryAssumption
<1>3. \A b \in Admins \ {a} : step'[b] = step[b]
  BY AdminEffects DEF AdminStep
<1> QED BY <1>1, <1>2, <1>3

\* While a step is under way that may not interleave with others, its actor has the lock.
LEMMA LocksKept ==
  ASSUME Shapes, Locked, RegistryAssumption, NEW a \in Admins, AdminStep(a)
  PROVE  /\ Locked'
         /\ registry' \in Admins \cup {None} \/ registry' = registry
         /\ usesLock' \in Admins \cup {None} \/ usesLock' = usesLock
<1>1. \A b \in Admins \ {a} : step'[b] = step[b]
  BY AdminEffects
<1>2. CASE QuietStep(a)
  <2>1. registry' = registry /\ step'[a] \notin Holding
    BY <1>2, QuietEffects
  <2>2. CASE Exclusive(a)
    <3>1. usesLock = None /\ ((step'[a] = "retained" /\ usesLock' = a)
                              \/ (step'[a] = "done" /\ usesLock' = usesLock))
      BY <2>2, Moved DEF Exclusive
    <3>2. \A b \in Admins : step[b] \notin Locking
      BY <3>1 DEF Locked, RegistryAssumption
    <3> QED BY <1>1, <2>1, <3>1, <3>2 DEF Locked, Locking, Holding
  <2>3. CASE ~Exclusive(a)
    <3> DEFINE next == {"done", "revision", "report", "activate", "pin", "bind", "references",
                        "archive", "exclusive"}
    <3>1. \E s \in next : To(a, s)
      BY <1>2, <2>3, Zenon DEF QuietStep, SaveDraft, VerifyReads, SaveProtocolRevision,
         SaveProtocolReport, AskActivation, BindReads, BindPins, BindCommits, ArchiveReads,
         ArchivePlans, ReadProtocolHistory
    <3>2. step'[a] \notin Locking
      BY <3>1, Moved DEF Locking
    <3>3. usesLock' = usesLock
      BY <1>2, <2>3 DEF QuietStep, SaveDraft, VerifyReads, SaveProtocolRevision,
         SaveProtocolReport, AskActivation, BindReads, BindPins, BindCommits, ArchiveReads,
         ArchivePlans, ReadProtocolHistory, counts
    <3> QED BY <1>1, <2>1, <3>2, <3>3 DEF Locked, Locking, Holding
  <2> QED BY <2>2, <2>3
<1>3. CASE RegistryStep(a)
  <2>1. \A b \in Admins \ {a} : step[b] \notin Holding /\ step'[b] \notin Holding
    BY <1>3, Alone
  <2>2. CASE ActivateLoads(a) \/ SetProtocolActivation(a) \/ ActivatePublishes(a)
             \/ ReloadReads(a) \/ ReloadPublishes(a) \/ ArchiveProtocol(a) \/ RemoveActive(a)
    <3>1. /\ usesLock' = usesLock
          /\ \/ (registry' = a /\ \E s \in {"commit", "swap", "unpublish"} : To(a, s))
             \/ (registry' = None /\ To(a, "done"))
             \/ (registry' = registry /\ To(a, "done"))
             \/ (registry' = registry /\ step[a] = "commit" /\ To(a, "publish"))
      BY <2>2, Zenon DEF ActivateLoads, SetProtocolActivation, ActivatePublishes, ReloadReads,
         ReloadPublishes, ArchiveProtocol, RemoveActive, counts
    <3>2. /\ step'[a] \in Holding => registry' = a
          /\ step'[a] \notin Locking
      BY <3>1, Moved DEF Locked, Holding, Locking
    <3> QED BY <3>1, <3>2, <2>1, <1>1 DEF Locked
  <2>3. CASE DeleteRetained(a) \/ DeleteProtocolHistory(a) \/ Evict(a)
    <3>1. step[a] \in Locking /\ usesLock = a
      BY <2>3 DEF Locked, Locking, DeleteRetained, DeleteProtocolHistory, Evict
    <3>2. \A b \in Admins \ {a} : step[b] \notin Locking
      BY <3>1 DEF Locked
    <3>3. \/ (registry' = a /\ usesLock' = usesLock /\ To(a, "delete"))
          \/ (usesLock' = None /\ (registry' = registry \/ registry' = None) /\ To(a, "done"))
          \/ (UNCHANGED <<registry, usesLock>> /\ step[a] = "delete" /\ To(a, "evict"))
      BY <2>3, Zenon DEF DeleteRetained, DeleteProtocolHistory, Evict
    <3>4. /\ step'[a] \in Holding => registry' = a
          /\ step'[a] \in Locking => usesLock' = a
      BY <3>1, <3>3, Moved DEF Locked, Holding, Locking
    <3> QED BY <3>1, <3>2, <3>3, <3>4, <2>1, <1>1 DEF Locked
  <2> QED BY <1>3, <2>2, <2>3 DEF RegistryStep
<1> QED BY <1>2, <1>3 DEF AdminStep
-----------------------------------------------------------------------------
(* Steps of clients.                                                       *)

\* A request enters and leaves the count together with the uses.
LEMMA UsesCounted ==
  ASSUME TypeOK, Shapes, Counted, RegistryAssumption, NEW x \in Clients, ClientStep(x)
  PROVE  Counted' /\ uses' \in [Revs -> Nat]
<1>1. \A y \in Clients \ {x} : step'[y] = step[y]
  BY ClientEffects
<1>2. \A rev \in Revs : IsFiniteSet(Using(rev)) /\ Cardinality(Using(rev)) \in Nat
  BY FS_CardinalityType DEF Counted
<1>3. CASE AcquireUse(x)
  <2>1. x \in Requests /\ pinned[x] \in Revs /\ pinned' = pinned /\ step[x] = "pinned"
    BY <1>3 DEF AcquireUse, Shapes
  <2>2. step'[x] = "using"
    BY <1>3, Moved DEF AcquireUse
  <2>3. /\ uses' \in [Revs -> Nat] /\ uses'[pinned[x]] = uses[pinned[x]] + 1
        /\ \A rev \in Revs \ {pinned[x]} : uses'[rev] = uses[rev]
    BY <1>3, <2>1 DEF AcquireUse, TypeOK
  <2>4. Using(pinned[x])' = Using(pinned[x]) \cup {x} /\ x \notin Using(pinned[x])
    BY <1>1, <2>1, <2>2 DEF Using, Clients
  <2>5. \A rev \in Revs \ {pinned[x]} : Using(rev)' = Using(rev)
    BY <1>1, <2>1, <2>2 DEF Using, Clients
  <2>6. /\ Cardinality(Using(pinned[x]) \cup {x}) = Cardinality(Using(pinned[x])) + 1
        /\ IsFiniteSet(Using(pinned[x]) \cup {x})
    BY <1>2, <2>1, <2>4, FS_AddElement
  <2> QED BY <2>1, <2>3, <2>4, <2>5, <2>6 DEF Counted
<1>4. CASE ReleaseUse(x)
  <2>1. x \in Requests /\ pinned[x] \in Revs /\ pinned' = pinned /\ step[x] = "using"
    BY <1>4 DEF ReleaseUse, Shapes
  <2>2. step'[x] = "done"
    BY <1>4, Moved DEF ReleaseUse
  <2>3. Using(pinned[x])' = Using(pinned[x]) \ {x} /\ x \in Using(pinned[x])
    BY <1>1, <2>1, <2>2 DEF Using, Clients
  <2>4. \A rev \in Revs \ {pinned[x]} : Using(rev)' = Using(rev)
    BY <1>1, <2>1, <2>2 DEF Using, Clients
  <2>5. /\ Cardinality(Using(pinned[x]) \ {x}) = Cardinality(Using(pinned[x])) - 1
        /\ IsFiniteSet(Using(pinned[x]) \ {x}) /\ Cardinality(Using(pinned[x]) \ {x}) \in Nat
    BY <1>2, <2>1, <2>3, FS_RemoveElement, FS_CardinalityType
  <2>6. uses[pinned[x]] - 1 \in Nat
    BY <2>1, <2>5 DEF Counted
  <2>7. /\ uses' \in [Revs -> Nat] /\ uses'[pinned[x]] = uses[pinned[x]] - 1
        /\ \A rev \in Revs \ {pinned[x]} : uses'[rev] = uses[rev]
    BY <1>4, <2>1, <2>6 DEF ReleaseUse, TypeOK
  <2> QED BY <2>1, <2>3, <2>4, <2>5, <2>7 DEF Counted
<1>5. CASE View(x) \/ Submit(x) \/ LoadRevision(x) \/ StepJob(x)
  <2>1. /\ uses' = uses /\ step[x] # "using" /\ step'[x] # "using"
        /\ \A y \in Clients \ {x} : pinned'[y] = pinned[y]
    <3>1. uses' = uses /\ step[x] # "using"
      BY <1>5 DEF View, Submit, LoadRevision, StepJob, counts
    <3>2. \E s \in {"pinned", "waiting", "loaded", "ended"} : To(x, s)
      BY <1>5, Zenon DEF View, Submit, LoadRevision, StepJob
    <3>3. step'[x] # "using"
      BY <3>2, Moved
    <3>4. \A y \in Clients \ {x} : pinned'[y] = pinned[y]
      BY <1>5 DEF View, Submit, LoadRevision, StepJob, Shapes
    <3> QED BY <3>1, <3>3, <3>4
  <2>2. \A rev : Using(rev)' = Using(rev)
    BY <1>1, <2>1 DEF Using, Clients
  <2> QED BY <2>1, <2>2 DEF Counted, TypeOK
<1> QED BY <1>3, <1>4, <1>5 DEF ClientStep

\* What a job's step loads is in the cache once, and only revisions of the tables are.
LEMMA CacheFilled ==
  ASSUME TypeOK, Shapes, Locked, Cached, RegistryAssumption, NEW j \in Submitters, LoadRevision(j)
  PROVE  retained' \in Seq(Revs) /\ Len(retained') <= RetainedLimit /\ Cached'
<1>1. plan' = plan /\ revisions' = revisions /\ \A a \in Admins : step'[a] = step[a]
  BY ClientEffects DEF ClientStep, Clients, tables
<1>2. CASE retained' = retained
  BY <1>1, <1>2 DEF TypeOK, Shapes, Cached
<1>3. CASE retained' # retained
  <2>1. /\ registry = None /\ jobs[j] \notin ToSet(retained) /\ jobs[j] \in revisions
        /\ retained' = Remembered(jobs[j])
    BY <1>3 DEF LoadRevision, Loadable
  <2>2. \A a \in Admins : step[a] # "evict"
    BY <2>1 DEF Locked, Holding, RegistryAssumption
  <2>3. PICK q \in Seq(Revs) : q = retained
    BY DEF Shapes
  <2>4. jobs[j] \in Revs
    BY <2>1 DEF TypeOK
  <2>5. PICK rev \in Revs : rev = jobs[j]
    BY <2>4
  <2>6. Len(q) \in Nat /\ Len(q) <= RetainedLimit /\ RetainedLimit \in Nat \ {0} /\ IsInjective(q)
    BY <2>3, LenProperties DEF TypeOK, RegistryAssumption, Cached
  <2>7. ToSet(q) \subseteq revisions /\ rev \in revisions /\ rev \notin ToSet(q)
    BY <2>1, <2>2, <2>3, <2>5 DEF Cached
  <2>8. /\ retained' \in Seq(Revs) /\ Len(retained') <= RetainedLimit /\ IsInjective(retained')
        /\ ToSet(retained') \subseteq ToSet(q) \cup {rev}
    <3>1. CASE Len(q) >= RetainedLimit
      <4>1. q # <<>>
        BY <3>1, <2>6
      <4>2. /\ Tail(q) \in Seq(Revs) /\ Len(Tail(q)) = Len(q) - 1
            /\ IsInjective(Tail(q)) /\ ToSet(Tail(q)) \subseteq ToSet(q)
        BY <4>1, <2>6, Shortened
      <4>3. PICK t \in Seq(Revs) : t = Tail(q)
        BY <4>2
      <4>4. /\ Append(t, rev) \in Seq(Revs) /\ Len(Append(t, rev)) = Len(t) + 1
            /\ IsInjective(Append(t, rev)) /\ ToSet(Append(t, rev)) \subseteq ToSet(t) \cup {rev}
        BY <4>2, <4>3, <2>7, Appended
      <4>5. retained' = Append(t, rev)
        BY <3>1, <4>3, <2>1, <2>3, <2>5 DEF Remembered
      <4>6. Len(Append(t, rev)) <= RetainedLimit
        BY <4>2, <4>3, <4>4, <2>6
      <4> QED BY <4>2, <4>3, <4>4, <4>5, <4>6
    <3>2. CASE ~(Len(q) >= RetainedLimit)
      <4>1. retained' = Append(q, rev)
        BY <3>2, <2>1, <2>3, <2>5 DEF Remembered
      <4>2. /\ Append(q, rev) \in Seq(Revs) /\ Len(Append(q, rev)) = Len(q) + 1
            /\ IsInjective(Append(q, rev)) /\ ToSet(Append(q, rev)) \subseteq ToSet(q) \cup {rev}
        BY <2>6, <2>7, Appended
      <4>3. Len(Append(q, rev)) <= RetainedLimit
        BY <3>2, <4>2, <2>6
      <4> QED BY <4>1, <4>2, <4>3
    <3> QED BY <3>1, <3>2
  <2>9. \A r \in ToSet(retained') : r \in revisions'
    BY <2>7, <2>8, <1>1
  <2> QED BY <2>8, <2>9 DEF Cached
<1> QED BY <1>2, <1>3

\* A client's step keeps the invariant.
LEMMA ClientsKeep ==
  ASSUME IInv, RegistryAssumption, NEW x \in Clients, ClientStep(x)
  PROVE  IInv'
<1> USE DEF IInv
<1>1. /\ step' = [y \in Clients \cup Admins |-> step'[y]]
      /\ \A y \in Clients \ {x} : step'[y] = step[y]
      /\ \A a \in Admins : step'[a] = step[a]
      /\ UNCHANGED <<tables, bound, snapshot, registry, usesLock, plan, crashes>>
  BY ClientEffects
<1>2. UNCHANGED <<drafts, revisions, reports, activations, history, bindings, generation>>
  BY <1>1 DEF tables, bound
<1>3. Counted' /\ uses' \in [Revs -> Nat]
  BY UsesCounted
<1>4. retained' \in Seq(Revs) /\ Len(retained') <= RetainedLimit /\ Cached'
  <2>1. CASE LoadRevision(x)
    BY <2>1, CacheFilled DEF LoadRevision
  <2>2. CASE ~LoadRevision(x)
    <3>1. retained' = retained
      BY <2>2 DEF ClientStep, View, AcquireUse, ReleaseUse, Submit, StepJob, published
    <3> QED BY <3>1, <1>1, <1>2 DEF Cached, TypeOK, Shapes
  <2> QED BY <2>1, <2>2
<1>5. TypeOK'
  BY <1>1, <1>2, <1>3, <1>4 DEF TypeOK
<1>6. /\ pinned' \in [Clients -> Revs \cup {None}]
      /\ \A r \in Requests : step'[r] \in {"pinned", "using"} => pinned'[r] \in Revs
  <2>1. CASE View(x)
    <3>1. PICK p \in Protocols :
            snapshot[p] # None /\ pinned' = [pinned EXCEPT ![x] = <<p, snapshot[p]>>]
      BY <2>1 DEF View
    <3>2. <<p, snapshot[p]>> \in Revs
      BY <3>1 DEF TypeOK, Revs
    <3> QED BY <3>1, <3>2, <1>1 DEF Shapes, Clients
  <2>2. CASE ~View(x)
    <3>1. pinned' = pinned
      BY <2>2 DEF ClientStep, AcquireUse, ReleaseUse, Submit, LoadRevision, StepJob
    <3>2. x \in Requests /\ step'[x] \in {"pinned", "using"} => step[x] = "pinned"
      <4>1. CASE AcquireUse(x)
        BY <4>1 DEF AcquireUse
      <4>2. CASE ~AcquireUse(x)
        <5>1. \E s \in {"done", "waiting", "loaded", "ended"} : To(x, s)
          BY <2>2, <4>2, Zenon DEF ClientStep, ReleaseUse, Submit, LoadRevision, StepJob
        <5> QED BY <5>1, Moved
      <4> QED BY <4>1, <4>2
    <3> QED BY <3>1, <3>2, <1>1 DEF Shapes, Clients
  <2> QED BY <2>1, <2>2
<1>7. Shapes'
  BY <1>1, <1>2, <1>4, <1>6 DEF Shapes
<1>8. Locked' /\ Published' /\ Verified'
  BY <1>1, <1>2 DEF Locked, Published, Verified, Active, Loadable
<1>9. Reviewed'
  BY <1>1, <1>2 DEF Reviewed, Bound
<1>10. Unused'
  <2>1. CASE uses' = uses
    BY <2>1, <1>1 DEF Unused
  <2>2. CASE uses' # uses
    <3>1. usesLock = None
      BY <2>2 DEF ClientStep, View, AcquireUse, ReleaseUse, Submit, LoadRevision, StepJob, counts
    <3>2. \A a \in Admins : step[a] \notin {"retained", "delete"}
      BY <3>1 DEF Locked, Locking, RegistryAssumption
    <3> QED BY <3>2, <1>1 DEF Unused
  <2> QED BY <2>1, <2>2
<1> QED BY <1>3, <1>4, <1>5, <1>7, <1>8, <1>9, <1>10
-----------------------------------------------------------------------------
(* Steps of administrators: types.                                         *)

\* The contents of a protocol are contents, whoever sets them.
LEMMA ContentsKept ==
  ASSUME IInv, RegistryAssumption, NEW a \in Admins, AdminStep(a)
  PROVE  /\ drafts' \in [Protocols -> Contents \cup {None}]
         /\ activations' \in [Protocols -> Contents \cup {None}]
         /\ snapshot' \in [Protocols -> Contents \cup {None}]
<1> USE DEF IInv
<1>1. drafts' \in [Protocols -> Contents \cup {None}]
  <2>1. CASE SaveDraft(a)
    BY <2>1 DEF SaveDraft, TypeOK, Revs
  <2>2. CASE ArchiveProtocol(a)
    BY <2>2 DEF ArchiveProtocol, TypeOK
  <2>3. CASE ~SaveDraft(a) /\ ~ArchiveProtocol(a)
    <3>1. drafts' = drafts
      BY <2>3 DEF AdminStep, QuietStep, RegistryStep, VerifyReads, SaveProtocolRevision,
         SaveProtocolReport, AskActivation, BindReads, BindPins, BindCommits, ArchiveReads,
         ArchivePlans, ReadProtocolHistory, Exclusive, ActivateLoads, SetProtocolActivation,
         ActivatePublishes, ReloadReads, ReloadPublishes, RemoveActive, DeleteRetained,
         DeleteProtocolHistory, Evict, tables
    <3> QED BY <3>1 DEF TypeOK
  <2> QED BY <2>1, <2>2, <2>3
<1>2. activations' \in [Protocols -> Contents \cup {None}]
  <2>1. CASE QuietStep(a)
    BY <2>1, QuietEffects DEF TypeOK
  <2>2. CASE SetProtocolActivation(a)
    <3>1. plan[a].rev \in Revs
      BY <2>2 DEF SetProtocolActivation, Shapes, Choosing
    <3> QED BY <2>2, <3>1 DEF SetProtocolActivation, TypeOK, Revs
  <2>3. CASE ArchiveProtocol(a)
    BY <2>3 DEF ArchiveProtocol, TypeOK
  <2>4. CASE RegistryStep(a) /\ ~SetProtocolActivation(a) /\ ~ArchiveProtocol(a)
    <3>1. activations' = activations
      BY <2>4 DEF RegistryStep, ActivateLoads, ActivatePublishes, ReloadReads, ReloadPublishes,
         RemoveActive, DeleteRetained, DeleteProtocolHistory, Evict, tables
    <3> QED BY <3>1 DEF TypeOK
  <2> QED BY <2>1, <2>2, <2>3, <2>4 DEF AdminStep
<1>3. snapshot' \in [Protocols -> Contents \cup {None}]
  <2>1. CASE QuietStep(a)
    BY <2>1, QuietEffects DEF TypeOK
  <2>2. CASE ActivatePublishes(a)
    <3>1. plan[a].rev \in Revs
      BY <2>2 DEF ActivatePublishes, Shapes, Choosing
    <3> QED BY <2>2, <3>1 DEF ActivatePublishes, TypeOK, Revs
  <2>3. CASE ReloadPublishes(a)
    BY <2>3 DEF ReloadPublishes, Published, TypeOK
  <2>4. CASE RemoveActive(a)
    BY <2>4 DEF RemoveActive, Without, TypeOK
  <2>5. CASE RegistryStep(a) /\ ~ActivatePublishes(a) /\ ~ReloadPublishes(a) /\ ~RemoveActive(a)
    <3>1. snapshot' = snapshot
      BY <2>5 DEF RegistryStep, ActivateLoads, SetProtocolActivation, ReloadReads, ArchiveProtocol,
         DeleteRetained, DeleteProtocolHistory, Evict, published
    <3> QED BY <3>1 DEF TypeOK
  <2> QED BY <2>1, <2>2, <2>3, <2>4, <2>5 DEF AdminStep
<1> QED BY <1>1, <1>2, <1>3

\* Reports are those of revisions, and history is of revisions.
LEMMA RowsKept ==
  ASSUME IInv, RegistryAssumption, NEW a \in Admins, AdminStep(a)
  PROVE  reports' \subseteq revisions' /\ revisions' \subseteq Revs /\ history' \subseteq Revs
<1> USE DEF IInv
<1>1. CASE SaveProtocolRevision(a)
  <2>1. plan[a].rev \in Revs
    BY <1>1 DEF SaveProtocolRevision, Shapes, Choosing
  <2> QED BY <1>1, <2>1 DEF SaveProtocolRevision, TypeOK
<1>2. CASE SaveProtocolReport(a)
  <2>1. plan[a].rev \in Revs
    BY <1>2 DEF SaveProtocolReport, Shapes, Choosing
  <2> QED BY <1>2, <2>1 DEF SaveProtocolReport, TypeOK
<1>3. CASE DeleteProtocolHistory(a)
  BY <1>3 DEF DeleteProtocolHistory, TypeOK
<1>4. CASE ArchiveProtocol(a)
  <2>1. Drafted \subseteq Revs
    BY DEF Drafted
  <2> QED BY <1>4, <2>1 DEF ArchiveProtocol, TypeOK
<1>5. CASE ~SaveProtocolRevision(a) /\ ~SaveProtocolReport(a) /\ ~DeleteProtocolHistory(a)
           /\ ~ArchiveProtocol(a)
  <2>1. UNCHANGED <<revisions, reports, history>>
    BY <1>5 DEF AdminStep, QuietStep, RegistryStep, SaveDraft, VerifyReads,
       AskActivation, BindReads, BindPins, BindCommits, ArchiveReads,
       ArchivePlans, ReadProtocolHistory, Exclusive, ActivateLoads, SetProtocolActivation,
       ActivatePublishes, ReloadReads, ReloadPublishes, RemoveActive, DeleteRetained, Evict, tables
  <2> QED BY <2>1 DEF TypeOK
<1> QED BY <1>1, <1>2, <1>3, <1>4, <1>5

\* Only revisions are bound, and changes of bindings are counted.
LEMMA BindingsKept ==
  ASSUME IInv, RegistryAssumption, NEW a \in Admins, AdminStep(a)
  PROVE  /\ bindings' \in [Slots -> Revs \cup {None}] /\ generation' \in Nat
         /\ generation' >= generation
         /\ \/ generation' > generation
            \/ UNCHANGED bound
<1> USE DEF IInv
<1>1. CASE BindCommits(a)
  <2>1. plan[a].rev \in Revs
    BY <1>1 DEF BindCommits, Shapes, Choosing
  <2> QED BY <1>1, <2>1 DEF BindCommits, Shapes, bound
<1>2. CASE ArchiveProtocol(a)
  <2>1. CASE bindings' = bindings /\ generation' = generation
    BY <2>1 DEF Shapes, bound
  <2>2. CASE ~(bindings' = bindings /\ generation' = generation)
    <3>1. /\ bindings' = [s \in Slots |-> IF s \in plan[a].slots THEN plan[a].new ELSE bindings[s]]
          /\ generation' = generation + Cardinality(plan[a].slots)
      BY <1>2, <2>2 DEF ArchiveProtocol, bound
    <3>2. plan[a].slots \subseteq Slots /\ plan[a].new \in Revs \cup {None}
      BY <1>2 DEF ArchiveProtocol, Reviewed
    <3>3. IsFiniteSet(plan[a].slots) /\ Cardinality(plan[a].slots) \in Nat
      BY <3>2, FS_Subset, FS_CardinalityType DEF RegistryAssumption
    <3>4. bindings' \in [Slots -> Revs \cup {None}]
      BY <3>1, <3>2 DEF Shapes
    <3>5. CASE plan[a].slots = {}
      <4>1. bindings' = bindings
        BY <3>1, <3>5 DEF Shapes
      <4>2. Cardinality(plan[a].slots) = 0
        BY <3>5, FS_EmptySet
      <4>3. generation' = generation
        BY <3>1, <4>2 DEF Shapes
      <4> QED BY <4>1, <4>3, <2>2
    <3>6. CASE plan[a].slots # {}
      <4>1. Cardinality(plan[a].slots) # 0
        BY <3>3, <3>6, FS_EmptySet
      <4> QED BY <4>1, <3>1, <3>3, <3>4 DEF Shapes
    <3> QED BY <3>5, <3>6
  <2> QED BY <2>1, <2>2
<1>3. CASE ~BindCommits(a) /\ ~ArchiveProtocol(a)
  <2>1. UNCHANGED bound
    BY <1>3 DEF AdminStep, QuietStep, RegistryStep, SaveDraft, VerifyReads, SaveProtocolRevision,
       SaveProtocolReport, AskActivation, BindReads, BindPins, ArchiveReads,
       ArchivePlans, ReadProtocolHistory, Exclusive, ActivateLoads, SetProtocolActivation,
       ActivatePublishes, ReloadReads, ReloadPublishes, RemoveActive, DeleteRetained,
       DeleteProtocolHistory, Evict
  <2> QED BY <2>1 DEF Shapes, bound
<1> QED BY <1>1, <1>2, <1>3

\* Only eviction changes the cache: it takes one revision out.
LEMMA CacheEvicted ==
  ASSUME IInv, RegistryAssumption, NEW a \in Admins, AdminStep(a)
  PROVE  /\ retained' \in Seq(Revs) /\ Len(retained') <= RetainedLimit /\ IsInjective(retained')
         /\ ToSet(retained') \subseteq ToSet(retained)
         /\ Evict(a) => plan[a].rev \notin ToSet(retained')
<1> USE DEF IInv
<1>1. CASE Evict(a)
  <2>1. PICK q \in Seq(Revs) : q = retained
    BY DEF Shapes
  <2>2. Len(q) \in Nat /\ Len(q) <= RetainedLimit /\ RetainedLimit \in Nat /\ IsInjective(q)
    BY <2>1, LenProperties DEF TypeOK, Cached, RegistryAssumption
  <2>3. retained' = Evicted(plan[a].rev)
    BY <1>1 DEF Evict
  <2>4. CASE plan[a].rev \in ToSet(retained)
    <3>1. PICK n \in DOMAIN q : n = CHOOSE i \in DOMAIN retained : retained[i] = plan[a].rev
      BY <2>1, <2>4 DEF ToSet
    <3>2. q[n] = plan[a].rev
      BY <3>1, <2>1, <2>4 DEF ToSet
    <3>3. retained' = RemoveAt(q, n)
      BY <2>1, <2>3, <2>4, <3>1 DEF Evicted
    <3>4. /\ RemoveAt(q, n) \in Seq(Revs) /\ Len(RemoveAt(q, n)) <= Len(q)
          /\ IsInjective(RemoveAt(q, n)) /\ ToSet(RemoveAt(q, n)) \subseteq ToSet(q) \ {q[n]}
      BY <2>2, Removed
    <3>5. Len(RemoveAt(q, n)) \in Nat
      BY <3>4, LenProperties
    <3>6. Len(RemoveAt(q, n)) <= RetainedLimit
      BY <3>4, <3>5, <2>2
    <3> QED BY <3>2, <3>3, <3>4, <3>6, <2>1
  <2>5. CASE plan[a].rev \notin ToSet(retained)
    BY <2>1, <2>2, <2>3, <2>5 DEF Evicted
  <2> QED BY <2>4, <2>5
<1>2. CASE ~Evict(a)
  <2>1. retained' = retained
    <3>1. CASE QuietStep(a)
      BY <3>1, QuietEffects
    <3>2. CASE RegistryStep(a)
      BY <1>2, <3>2 DEF RegistryStep, ActivateLoads, SetProtocolActivation, ActivatePublishes,
         ReloadReads, ReloadPublishes, ArchiveProtocol, RemoveActive, DeleteRetained,
         DeleteProtocolHistory, published
    <3> QED BY <3>1, <3>2 DEF AdminStep
  <2> QED BY <1>2, <2>1 DEF TypeOK, Shapes, Cached
<1> QED BY <1>1, <1>2
-----------------------------------------------------------------------------
\* Whoever has a revision in mind has one.
LEMMA ChoicesKept ==
  ASSUME IInv, RegistryAssumption, NEW a \in Admins, AdminStep(a)
  PROVE  \A b \in Admins : step'[b] \in Choosing => plan'[b].rev \in Revs
<1> USE DEF IInv
<1>1. \A b \in Admins \ {a} : step'[b] = step[b] /\ plan'[b] = plan[b]
  BY AdminEffects
<1> SUFFICES step'[a] \in Choosing => plan'[a].rev \in Revs
  BY <1>1 DEF Shapes
<1>2. CASE VerifyReads(a)
  <2>1. PICK rev \in Drafted : Note(a, [rev |-> rev])
    BY <1>2 DEF VerifyReads
  <2> QED BY <2>1, Noted DEF Drafted
<1>3. CASE AskActivation(a)
  <2>1. PICK rev \in revisions : Note(a, [rev |-> rev, expected |-> activations[rev[1]]])
    BY <1>3 DEF AskActivation
  <2> QED BY <2>1, Noted DEF TypeOK
<1>4. CASE BindPins(a)
  <2>1. PICK p \in Protocols :
          snapshot[p] # None /\ Note(a, [rev |-> <<p, snapshot[p]>>, generation |-> plan[a]])
    BY <1>4 DEF BindPins
  <2>2. <<p, snapshot[p]>> \in Revs
    BY <2>1 DEF TypeOK, Revs
  <2> QED BY <2>1, <2>2, Noted
<1>5. CASE ReadProtocolHistory(a)
  <2>1. PICK rev \in history : Note(a, [rev |-> rev])
    BY <1>5 DEF ReadProtocolHistory
  <2> QED BY <2>1, Noted DEF TypeOK
<1>6. CASE SaveProtocolRevision(a) \/ ActivateLoads(a) \/ SetProtocolActivation(a) \/ Exclusive(a)
           \/ DeleteRetained(a) \/ DeleteProtocolHistory(a)
  <2>1. (plan' = plan /\ step[a] \in Choosing) \/ To(a, "done")
    BY <1>6 DEF SaveProtocolRevision, ActivateLoads, SetProtocolActivation, Exclusive, DeleteRetained,
       DeleteProtocolHistory, Choosing
  <2>2. CASE plan' = plan /\ step[a] \in Choosing
    BY <2>2 DEF Shapes
  <2>3. CASE To(a, "done")
    BY <2>3, Moved DEF Choosing
  <2> QED BY <2>1, <2>2, <2>3
<1>7. CASE SaveDraft(a) \/ SaveProtocolReport(a) \/ BindReads(a) \/ BindCommits(a) \/ ArchiveReads(a)
           \/ ArchivePlans(a) \/ ActivatePublishes(a) \/ ReloadReads(a) \/ ReloadPublishes(a)
           \/ ArchiveProtocol(a) \/ RemoveActive(a) \/ Evict(a)
  <2>1. \E s \in {"done", "pin", "references", "archive", "swap", "unpublish"} : To(a, s)
    BY <1>7, Zenon DEF SaveDraft, SaveProtocolReport, BindReads, BindCommits, ArchiveReads,
       ArchivePlans, ActivatePublishes, ReloadReads, ReloadPublishes, ArchiveProtocol,
       RemoveActive, Evict
  <2> QED BY <2>1, Moved DEF Choosing
<1> QED BY <1>2, <1>3, <1>4, <1>5, <1>6, <1>7 DEF AdminStep, QuietStep, RegistryStep

\* An administrator's step keeps the types.
LEMMA AdminTypes ==
  ASSUME IInv, RegistryAssumption, NEW a \in Admins, AdminStep(a)
  PROVE  TypeOK' /\ Shapes'
<1> USE DEF IInv
<1>1. /\ step' = [y \in Clients \cup Admins |-> step'[y]] /\ plan' = [b \in Admins |-> plan'[b]]
      /\ \A x \in Clients : step'[x] = step[x]
      /\ uses' = uses /\ pinned' = pinned
  BY AdminEffects
<1>2. registry' \in Admins \cup {None} /\ usesLock' \in Admins \cup {None}
  BY LocksKept DEF TypeOK, Shapes
<1>3. TypeOK'
  BY <1>1, <1>2, ContentsKept, RowsKept, CacheEvicted DEF TypeOK
<1>4. \A r \in Requests : step'[r] \in {"pinned", "using"} => pinned'[r] \in Revs
  BY <1>1 DEF Shapes, Clients
<1>5. Shapes'
  BY <1>1, <1>2, <1>4, BindingsKept, CacheEvicted, ChoicesKept DEF Shapes
<1> QED BY <1>3, <1>5
-----------------------------------------------------------------------------
(* Steps of administrators: what is served, deleted and bound.             *)

\* Every active content can be loaded, so a reload publishes all of them.
LEMMA ReloadsActive ==
  ASSUME TypeOK, Verified, RegistryAssumption
  PROVE  Reloaded = activations
<1>1. ASSUME NEW p \in Protocols
      PROVE  Reloaded[p] = activations[p]
  <2>1. CASE activations[p] = None
    BY <2>1 DEF Reloaded
  <2>2. CASE activations[p] # None
    <3>1. <<p, activations[p]>> \in Active
      BY <2>2 DEF Active, TypeOK, Revs
    <3> QED BY <3>1 DEF Verified, Reloaded
  <2> QED BY <2>1, <2>2
<1> QED BY <1>1 DEF Reloaded, TypeOK

\* Whoever changes what is active publishes the same change before the lock is free.
LEMMA PublishedKept ==
  ASSUME IInv, RegistryAssumption, NEW a \in Admins, AdminStep(a)
  PROVE  Published'
<1> USE DEF IInv
<1>1. \A b \in Admins \ {a} : step'[b] = step[b] /\ plan'[b] = plan[b]
  BY AdminEffects
<1>2. CASE QuietStep(a)
  <2>1. UNCHANGED <<snapshot, activations, registry>> /\ step'[a] \notin Holding
    BY <1>2, QuietEffects
  <2> QED BY <1>1, <2>1 DEF Published, Holding
<1>3. CASE RegistryStep(a)
  <2>1. \A b \in Admins \ {a} : step'[b] \notin Holding
    BY <1>3, Alone
  <2>2. ASSUME registry' = None => snapshot' = activations',
               step'[a] \in {"commit", "swap", "delete", "evict"} => snapshot' = activations',
               step'[a] = "swap" => plan'[a] = activations',
               step'[a] = "publish" =>
                 activations' = [snapshot' EXCEPT ![plan'[a].rev[1]] = plan'[a].rev[2]],
               step'[a] = "unpublish" => activations' = [snapshot' EXCEPT ![plan'[a].id] = None]
        PROVE  Published'
    BY <2>1, <2>2 DEF Published, Holding
  <2>3. CASE ActivateLoads(a)
    <3>1. /\ UNCHANGED <<snapshot, activations>> /\ snapshot = activations
          /\ (To(a, "commit") \/ To(a, "done"))
      BY <2>3 DEF ActivateLoads, Published, published, tables
    <3>2. step'[a] \in {"commit", "done"}
      BY <3>1, Moved
    <3> QED BY <2>2, <3>1, <3>2
  <2>4. CASE SetProtocolActivation(a)
    <3>1. snapshot = activations /\ snapshot' = snapshot
      BY <2>4 DEF SetProtocolActivation, Published, published
    <3>2. \/ /\ activations' = [activations EXCEPT ![plan[a].rev[1]] = plan[a].rev[2]]
             /\ To(a, "publish") /\ UNCHANGED <<registry, plan>> /\ registry = a
          \/ To(a, "done") /\ UNCHANGED activations
      BY <2>4 DEF SetProtocolActivation, Locked, Holding
    <3>3. \/ /\ activations' = [activations EXCEPT ![plan[a].rev[1]] = plan[a].rev[2]]
             /\ step'[a] = "publish" /\ plan' = plan /\ registry' # None
          \/ step'[a] = "done" /\ activations' = activations
      BY <3>2, Moved DEF RegistryAssumption
    <3> QED BY <2>2, <3>1, <3>3
  <2>5. CASE ActivatePublishes(a)
    <3>1. snapshot' = activations /\ activations' = activations /\ step'[a] = "done"
      BY <2>5, Moved DEF ActivatePublishes, Published, tables
    <3> QED BY <2>2, <3>1
  <2>6. CASE ReloadReads(a)
    <3>1. UNCHANGED <<snapshot, activations>> /\ snapshot = activations /\ step'[a] = "swap"
      BY <2>6, Moved DEF ReloadReads, Published, published, tables
    <3>2. plan'[a] = activations
      BY <2>6, ReloadsActive, Noted DEF ReloadReads
    <3> QED BY <2>2, <3>1, <3>2
  <2>7. CASE ReloadPublishes(a)
    <3>1. snapshot' = activations /\ activations' = activations /\ step'[a] = "done"
      BY <2>7, Moved DEF ReloadPublishes, Published, tables
    <3> QED BY <2>2, <3>1
  <2>8. CASE ArchiveProtocol(a)
    <3>1. snapshot = activations /\ snapshot' = snapshot /\ registry = None
      BY <2>8 DEF ArchiveProtocol, Published, published
    <3>2. \/ /\ activations' = [activations EXCEPT ![plan[a].id] = None]
             /\ registry' = a /\ To(a, "unpublish") /\ UNCHANGED plan
          \/ To(a, "done") /\ UNCHANGED activations
      BY <2>8 DEF ArchiveProtocol
    <3>3. \/ /\ activations' = [activations EXCEPT ![plan[a].id] = None]
             /\ registry' # None /\ step'[a] = "unpublish" /\ plan' = plan
          \/ step'[a] = "done" /\ activations' = activations
      BY <3>2, Moved DEF RegistryAssumption
    <3> QED BY <2>2, <3>1, <3>3
  <2>9. CASE RemoveActive(a)
    <3>1. snapshot' = activations /\ activations' = activations /\ step'[a] = "done"
      BY <2>9, Moved DEF RemoveActive, Without, Published, tables
    <3> QED BY <2>2, <3>1
  <2>10. CASE DeleteRetained(a) \/ DeleteProtocolHistory(a) \/ Evict(a)
    <3>1. snapshot = activations /\ UNCHANGED <<snapshot, activations>>
      BY <2>10 DEF DeleteRetained, DeleteProtocolHistory, Evict, Published, published, tables
    <3>2. \E s \in {"delete", "evict", "done"} : To(a, s)
      BY <2>10, Zenon DEF DeleteRetained, DeleteProtocolHistory, Evict
    <3>3. step'[a] \in {"delete", "evict", "done"}
      BY <3>2, Moved
    <3> QED BY <2>2, <3>1, <3>3
  <2> QED BY <1>3, <2>3, <2>4, <2>5, <2>6, <2>7, <2>8, <2>9, <2>10 DEF RegistryStep
<1> QED BY <1>2, <1>3 DEF AdminStep

\* What is active, or about to be, has been verified, and is not deleted.
LEMMA VerifiedKept ==
  ASSUME IInv, RegistryAssumption, NEW a \in Admins, AdminStep(a)
  PROVE  Verified'
<1> USE DEF IInv
<1>1. \A b \in Admins \ {a} : step'[b] = step[b] /\ plan'[b] = plan[b]
  BY AdminEffects
<1>2. CASE QuietStep(a)
  <2>1. /\ activations' = activations /\ revisions \subseteq revisions' /\ reports \subseteq reports'
        /\ step'[a] # "commit"
    BY <1>2, QuietEffects DEF Holding
  <2> QED BY <1>1, <2>1 DEF Verified, Active, Loadable
<1>3. CASE RegistryStep(a)
  <2>1. \A b \in Admins \ {a} : step'[b] # "commit"
    BY <1>3, Alone DEF Holding
  <2>2. CASE ActivateLoads(a)
    <3>1. /\ UNCHANGED <<activations, revisions, reports>>
          /\ \/ Loadable(plan[a].rev) /\ plan' = plan
             \/ step'[a] = "done"
      BY <2>2, Moved DEF ActivateLoads, tables
    <3> QED BY <3>1, <2>1 DEF Verified, Active, Loadable
  <2>3. CASE SetProtocolActivation(a)
    <3>1. /\ UNCHANGED <<revisions, reports>> /\ Loadable(plan[a].rev) /\ plan[a].rev \in Revs
      BY <2>3 DEF SetProtocolActivation, Verified, Shapes, Choosing
    <3>2. \/ activations' = [activations EXCEPT ![plan[a].rev[1]] = plan[a].rev[2]]
          \/ activations' = activations
      BY <2>3 DEF SetProtocolActivation
    <3>3. \E s \in {"publish", "done"} : To(a, s)
      BY <2>3, Zenon DEF SetProtocolActivation
    <3>4. step'[a] # "commit"
      BY <3>3, Moved
    <3>5. ASSUME NEW rev \in Active'
          PROVE  rev \in Active \cup {plan[a].rev}
      <4>1. rev \in Revs /\ activations'[rev[1]] = rev[2]
        BY <3>5 DEF Active
      <4>2. CASE activations'[rev[1]] = activations[rev[1]]
        BY <4>1, <4>2 DEF Active
      <4>3. CASE activations'[rev[1]] # activations[rev[1]]
        <5>1. rev[1] = plan[a].rev[1] /\ activations'[rev[1]] = plan[a].rev[2]
          BY <4>1, <4>3, <3>1, <3>2 DEF TypeOK, Revs
        <5> QED BY <4>1, <5>1, <3>1 DEF Revs
      <4> QED BY <4>2, <4>3
    <3> QED BY <2>1, <3>1, <3>4, <3>5 DEF Verified, Loadable
  <2>4. CASE ArchiveProtocol(a)
    <3>1. /\ UNCHANGED <<revisions, reports>>
          /\ \/ activations' = [activations EXCEPT ![plan[a].id] = None]
             \/ activations' = activations
      BY <2>4 DEF ArchiveProtocol
    <3>2. \E s \in {"unpublish", "done"} : To(a, s)
      BY <2>4, Zenon DEF ArchiveProtocol
    <3>3. step'[a] # "commit"
      BY <3>2, Moved
    <3>4. ASSUME NEW rev \in Active'
          PROVE  rev \in Active
      <4>1. rev \in Revs /\ activations'[rev[1]] = rev[2] /\ rev[2] # None
        BY <3>4 DEF Active, Revs, RegistryAssumption
      <4>2. activations[rev[1]] = rev[2]
        BY <4>1, <3>1 DEF TypeOK, Revs
      <4> QED BY <4>1, <4>2 DEF Active
    <3> QED BY <2>1, <3>1, <3>3, <3>4 DEF Verified, Loadable
  <2>5. CASE DeleteProtocolHistory(a)
    <3>1. activations' = activations
      BY <2>5 DEF DeleteProtocolHistory
    <3>2. \E s \in {"evict", "done"} : To(a, s)
      BY <2>5, Zenon DEF DeleteProtocolHistory
    <3>3. step'[a] # "commit"
      BY <3>2, Moved
    <3>4. \A rev \in Active : Loadable(rev)'
      BY <2>5 DEF DeleteProtocolHistory, Referenced, Verified, Loadable
    <3> QED BY <2>1, <3>1, <3>3, <3>4 DEF Verified, Active
  <2>6. CASE ActivatePublishes(a) \/ ReloadReads(a) \/ ReloadPublishes(a) \/ RemoveActive(a)
             \/ DeleteRetained(a) \/ Evict(a)
    <3>1. UNCHANGED <<revisions, reports, activations>>
      BY <2>6 DEF ActivatePublishes, ReloadReads, ReloadPublishes, RemoveActive, DeleteRetained,
         Evict, tables
    <3>2. \E s \in {"swap", "delete", "done"} : To(a, s)
      BY <2>6, Zenon DEF ActivatePublishes, ReloadReads, ReloadPublishes, RemoveActive,
         DeleteRetained, Evict
    <3>3. step'[a] # "commit"
      BY <3>2, Moved
    <3> QED BY <2>1, <3>1, <3>3 DEF Verified, Active, Loadable
  <2> QED BY <1>3, <2>2, <2>3, <2>4, <2>5, <2>6 DEF RegistryStep
<1> QED BY <1>2, <1>3 DEF AdminStep

\* A revision leaves the cache before the lock is free.
LEMMA CachedKept ==
  ASSUME IInv, RegistryAssumption, NEW a \in Admins, AdminStep(a)
  PROVE  Cached'
<1> USE DEF IInv
<1>1. \A b \in Admins \ {a} : step'[b] = step[b] /\ plan'[b] = plan[b]
  BY AdminEffects
<1>2. IsInjective(retained') /\ ToSet(retained') \subseteq ToSet(retained)
  BY CacheEvicted
<1> SUFFICES ASSUME NEW rev \in ToSet(retained')
             PROVE  rev \in revisions' \/ \E b \in Admins : step'[b] = "evict" /\ plan'[b].rev = rev
  BY <1>2 DEF Cached
<1>3. rev \in revisions \/ \E b \in Admins : step[b] = "evict" /\ plan[b].rev = rev
  BY <1>2 DEF Cached
<1>4. CASE QuietStep(a)
  <2>1. revisions \subseteq revisions' /\ step[a] # "evict"
    BY <1>4, QuietEffects DEF Holding
  <2> QED BY <1>1, <1>3, <2>1
<1>5. CASE DeleteProtocolHistory(a)
  <2>1. step[a] = "delete"
    BY <1>5 DEF DeleteProtocolHistory
  <2>2. rev \in revisions
    BY <1>3, <2>1, <1>5, Alone DEF RegistryStep, Holding
  <2>3. \/ revisions' = revisions
        \/ revisions' = revisions \ {plan[a].rev} /\ To(a, "evict") /\ UNCHANGED plan
    BY <1>5 DEF DeleteProtocolHistory
  <2>4. \/ revisions' = revisions
        \/ revisions' = revisions \ {plan[a].rev} /\ step'[a] = "evict" /\ plan' = plan
    BY <2>3, Moved
  <2> QED BY <2>2, <2>4
<1>6. CASE Evict(a)
  <2>1. rev # plan[a].rev /\ revisions' = revisions
    BY <1>6, CacheEvicted DEF Evict, tables
  <2>2. \A b \in Admins \ {a} : step[b] # "evict"
    BY <1>6, Alone DEF RegistryStep, Holding
  <2> QED BY <1>3, <2>1, <2>2
<1>7. CASE RegistryStep(a) /\ ~DeleteProtocolHistory(a) /\ ~Evict(a)
  <2>1. revisions' = revisions /\ step[a] # "evict"
    BY <1>7 DEF RegistryStep, ActivateLoads, SetProtocolActivation, ActivatePublishes, ReloadReads,
       ReloadPublishes, ArchiveProtocol, RemoveActive, DeleteRetained, Does, tables
  <2> QED BY <1>1, <1>3, <2>1
<1> QED BY <1>4, <1>5, <1>6, <1>7 DEF AdminStep

\* Between the comparison and the deletion nobody begins to use the revision, and
\* nobody publishes it.
LEMMA UnusedKept ==
  ASSUME IInv, RegistryAssumption, NEW a \in Admins, AdminStep(a)
  PROVE  Unused'
<1> USE DEF IInv
<1>1. /\ \A b \in Admins \ {a} : step'[b] = step[b] /\ plan'[b] = plan[b]
      /\ uses' = uses
  BY AdminEffects
<1>2. CASE QuietStep(a)
  <2>1. snapshot' = snapshot /\ step'[a] # "delete"
    BY <1>2, QuietEffects DEF Holding
  <2>2. step'[a] = "retained" => uses[plan'[a].rev] = 0
    <3>1. CASE Exclusive(a)
      <4>1. (uses[plan[a].rev] = 0 /\ plan' = plan) \/ To(a, "done")
        BY <3>1 DEF Exclusive
      <4> QED BY <4>1, Moved
    <3>2. CASE ~Exclusive(a)
      <4>1. \E s \in {"done", "revision", "report", "activate", "pin", "bind", "references",
                      "archive", "exclusive"} : To(a, s)
        BY <1>2, <3>2, Zenon DEF QuietStep, SaveDraft, VerifyReads, SaveProtocolRevision,
           SaveProtocolReport, AskActivation, BindReads, BindPins, BindCommits, ArchiveReads,
           ArchivePlans, ReadProtocolHistory
      <4> QED BY <4>1, Moved
    <3> QED BY <3>1, <3>2
  <2> QED BY <1>1, <2>1, <2>2 DEF Unused
<1>3. CASE RegistryStep(a)
  <2>1. \A b \in Admins \ {a} : step'[b] # "delete"
    BY <1>3, Alone DEF Holding
  <2>2. CASE DeleteRetained(a)
    <3>1. /\ snapshot' = snapshot /\ step[a] = "retained"
          /\ \/ snapshot[plan[a].rev[1]] # plan[a].rev[2] /\ plan' = plan /\ To(a, "delete")
             \/ To(a, "done")
      BY <2>2 DEF DeleteRetained, published
    <3>2. \/ snapshot[plan[a].rev[1]] # plan[a].rev[2] /\ plan' = plan
          \/ step'[a] = "done"
      BY <3>1, Moved
    <3> QED BY <1>1, <2>1, <3>1, <3>2 DEF Unused
  <2>3. CASE ~DeleteRetained(a)
    <3>1. \E s \in {"commit", "publish", "swap", "unpublish", "evict", "done"} : To(a, s)
      BY <1>3, <2>3, Zenon DEF RegistryStep, ActivateLoads, SetProtocolActivation,
         ActivatePublishes, ReloadReads, ReloadPublishes, ArchiveProtocol, RemoveActive,
         DeleteProtocolHistory, Evict
    <3>2. step'[a] \notin {"retained", "delete"}
      BY <3>1, Moved
    <3> QED BY <1>1, <2>1, <3>2 DEF Unused
  <2> QED BY <2>2, <2>3
<1> QED BY <1>2, <1>3 DEF AdminStep

\* The list of changes is that of the baseline as long as bindings changed once at most
\* since the baseline was read.
LEMMA ReviewedKept ==
  ASSUME IInv, RegistryAssumption, NEW a \in Admins, AdminStep(a)
  PROVE  Reviewed'
<1> USE DEF IInv
<1>1. \A b \in Admins \ {a} : step'[b] = step[b] /\ plan'[b] = plan[b]
  BY AdminEffects
<1>2. generation \in Nat /\ generation' \in Nat /\ generation' >= generation
      /\ (generation' > generation \/ UNCHANGED bound)
  BY BindingsKept DEF Shapes
<1> DEFINE Knows(b) == /\ plan[b].id \in Protocols /\ plan[b].changes \in Nat
                       /\ plan[b].changes <= generation
                       /\ generation = plan[b].changes => bindings = plan[b].baseline[5]
           Lists(b) == /\ plan[b].slots \subseteq Slots /\ plan[b].new \in Revs \cup {None}
                       /\ plan[b].new # None => plan[b].new[1] # plan[b].id
                       /\ generation <= plan[b].changes + 1 /\ bindings = plan[b].baseline[5] =>
                            plan[b].slots = Bound(plan[b].id)
<1>3. ASSUME NEW b \in Admins, plan'[b] = plan[b], Knows(b)
      PROVE  Knows(b)'
  <2>1. CASE UNCHANGED bound
    BY <1>3, <2>1 DEF bound
  <2>2. CASE generation' > generation
    <3>1. plan[b].changes < generation' /\ plan[b].changes <= generation'
      BY <1>2, <1>3, <2>2
    <3> QED BY <1>2, <1>3, <3>1
  <2> QED BY <1>2, <2>1, <2>2
<1>4. ASSUME NEW b \in Admins, plan'[b] = plan[b], Knows(b), Lists(b)
      PROVE  Lists(b)'
  <2>1. CASE UNCHANGED bound
    BY <1>4, <2>1 DEF bound, Bound
  <2>2. CASE generation' > generation
    <3> SUFFICES ASSUME generation' <= plan[b].changes + 1, bindings' = plan[b].baseline[5]
                 PROVE  plan[b].slots = Bound(plan[b].id)'
      BY <1>4
    <3>1. generation = plan[b].changes /\ generation <= plan[b].changes + 1
      BY <1>2, <1>4, <2>2
    <3>2. bindings' = bindings /\ bindings = plan[b].baseline[5]
      BY <1>4, <3>1
    <3>3. Bound(plan[b].id)' = Bound(plan[b].id)
      BY <1>4, <3>2 DEF Bound
    <3> QED BY <1>4, <3>1, <3>2, <3>3
  <2> QED BY <1>2, <2>1, <2>2
<1>5. \A b \in Admins : /\ step[b] \in {"references", "archive"} => Knows(b)
                        /\ step[b] = "archive" => Lists(b)
  BY DEF Reviewed
<1>6. ASSUME step'[a] \in {"references", "archive"} => Knows(a)',
             step'[a] = "archive" => Lists(a)'
      PROVE  Reviewed'
  <2> HIDE DEF Knows, Lists
  <2>1. \A b \in Admins : /\ step'[b] \in {"references", "archive"} => Knows(b)'
                          /\ step'[b] = "archive" => Lists(b)'
    BY <1>1, <1>3, <1>4, <1>5, <1>6
  <2> USE DEF Knows, Lists
  <2> QED BY <2>1 DEF Reviewed
<1>7. CASE ArchiveReads(a)
  <2>1. PICK p \in Protocols : Note(a, [id |-> p, baseline |-> Baseline, changes |-> generation])
    BY <1>7 DEF ArchiveReads
  <2>2. step'[a] = "references" /\ UNCHANGED bound
    BY <1>7, Moved DEF ArchiveReads
  <2>3. plan'[a] = [id |-> p, baseline |-> Baseline, changes |-> generation]
    BY <2>1, Noted
  <2>4. Knows(a)'
    BY <1>2, <2>2, <2>3 DEF bound, Baseline
  <2> QED BY <1>6, <2>2, <2>4
<1>8. CASE ArchivePlans(a)
  <2> DEFINE with(new) == [id |-> plan[a].id, baseline |-> plan[a].baseline,
                           changes |-> plan[a].changes, slots |-> Bound(plan[a].id),
                           new |-> new, view |-> snapshot]
  <2>1. Knows(a) /\ UNCHANGED bound
    BY <1>5, <1>8 DEF ArchivePlans
  <2>2. \/ To(a, "done")
        \/ \E new : To(a, "archive") /\ Note(a, with(new)) /\ new \in Revs \cup {None}
                    /\ (new # None => new[1] # plan[a].id)
    <3>1. ASSUME NEW q \in Protocols \ {plan[a].id}, snapshot[q] # None
          PROVE  <<q, snapshot[q]>> \in Revs /\ <<q, snapshot[q]>>[1] # plan[a].id
      BY <3>1 DEF TypeOK, Revs
    <3>2. \/ To(a, "done")
          \/ To(a, "archive") /\ Note(a, with(None))
          \/ \E q \in Protocols \ {plan[a].id} :
               snapshot[q] # None /\ To(a, "archive") /\ Note(a, with(<<q, snapshot[q]>>))
      BY <1>8, Zenon DEF ArchivePlans
    <3> HIDE DEF with
    <3> QED BY <3>1, <3>2, Zenon
  <2>3. CASE To(a, "done")
    BY <2>3, <1>6, Moved
  <2>4. CASE ~To(a, "done")
    <3>1. PICK new : /\ To(a, "archive") /\ Note(a, with(new)) /\ new \in Revs \cup {None}
                     /\ (new # None => new[1] # plan[a].id)
      BY <2>2, <2>4, Zenon
    <3>2. plan'[a] = with(new) /\ step'[a] = "archive"
      BY <3>1, Noted, Moved
    <3>3. Knows(a)'
      BY <2>1, <3>2 DEF bound
    <3>4. Lists(a)'
      <4>1. /\ plan'[a].slots = Bound(plan[a].id) /\ plan'[a].new = new /\ plan'[a].id = plan[a].id
        BY <3>2
      <4>2. Bound(plan[a].id) \subseteq Slots /\ Bound(plan[a].id)' = Bound(plan[a].id)
        BY <2>1, <4>1 DEF Bound, bound
      <4> QED BY <3>1, <4>1, <4>2 DEF Bound
    <3> QED BY <1>6, <3>2, <3>3, <3>4
  <2> QED BY <2>3, <2>4
<1>9. CASE ~ArchiveReads(a) /\ ~ArchivePlans(a)
  <2>1. \E s \in {"revision", "report", "activate", "commit", "publish", "swap", "pin", "bind",
                  "unpublish", "exclusive", "retained", "delete", "evict", "done"} : To(a, s)
    <3>1. CASE QuietStep(a)
      BY <1>9, <3>1, Zenon DEF QuietStep, SaveDraft, VerifyReads, SaveProtocolRevision,
         SaveProtocolReport, AskActivation, BindReads, BindPins, BindCommits,
         ReadProtocolHistory, Exclusive
    <3>2. CASE RegistryStep(a)
      BY <3>2, Zenon DEF RegistryStep, ActivateLoads, SetProtocolActivation, ActivatePublishes,
         ReloadReads, ReloadPublishes, ArchiveProtocol, RemoveActive, DeleteRetained,
         DeleteProtocolHistory, Evict
    <3> QED BY <3>1, <3>2 DEF AdminStep
  <2>2. step'[a] \notin {"references", "archive"}
    BY <2>1, Moved
  <2> QED BY <1>6, <2>2
<1> QED BY <1>7, <1>8, <1>9

\* An administrator's step keeps the invariant.
LEMMA AdminsKeep ==
  ASSUME IInv, RegistryAssumption, NEW a \in Admins, AdminStep(a)
  PROVE  IInv'
<1>1. Counted'
  <2>1. uses' = uses /\ pinned' = pinned /\ \A x \in Clients : step'[x] = step[x]
    BY AdminEffects DEF IInv
  <2>2. \A rev : Using(rev)' = Using(rev)
    BY <2>1 DEF Using, Clients
  <2> QED BY <2>1, <2>2 DEF IInv, Counted
<1>2. Locked'
  BY LocksKept DEF IInv
<1> QED BY <1>1, <1>2, AdminTypes, UnusedKept, PublishedKept, VerifiedKept, CachedKept,
           ReviewedKept DEF IInv
-----------------------------------------------------------------------------
(* The theorems.                                                           *)

\* It holds at the start.
LEMMA InitIInv == ASSUME Init, RegistryAssumption PROVE IInv
<1>1. PICK first \in Contents :
        /\ drafts = [p \in Protocols |-> first] /\ activations = drafts
        /\ revisions \in {Protocols \X {first}, Revs} /\ reports = revisions
  BY DEF Init
<1>2. \A y \in Clients \cup Admins : step[y] \in {"idle", "absent"}
  BY DEF Init
<1>3. TypeOK
  BY <1>1 DEF Init, TypeOK, Revs, RegistryAssumption
<1>4. Shapes
  <2>1. step = [y \in Clients \cup Admins |-> step[y]]
    BY DEF Init
  <2>2. retained \in Seq(Revs)
    BY DEF Init
  <2> QED BY <1>2, <2>1, <2>2 DEF Init, Shapes, Choosing, Clients
<1>5. Locked /\ Unused /\ Reviewed
  BY <1>2 DEF Locked, Unused, Reviewed, Holding, Locking
<1>6. Counted
  <2>1. \A rev : Using(rev) = {}
    BY <1>2 DEF Using, Clients
  <2> QED BY <2>1, FS_EmptySet DEF Init, Counted
<1>7. Published /\ Cached
  <2>1. retained = <<>> /\ ToSet(<<>>) = {} /\ IsInjective(<<>>)
    BY DEF Init, ToSet, IsInjective
  <2> QED BY <1>2, <2>1 DEF Init, Published, Cached
<1>8. Verified
  <2>1. \A rev \in Active : rev \in revisions
    BY <1>1 DEF Active, Revs
  <2> QED BY <1>1, <1>2, <2>1 DEF Verified, Loadable
<1> QED BY <1>3, <1>4, <1>5, <1>6, <1>7, <1>8 DEF IInv

\* A restart rebuilds from the tables what the memory held.
LEMMA RestartKeeps == ASSUME IInv, RegistryAssumption, Restart PROVE IInv'
<1> USE DEF IInv
<1>1. \A y \in Clients \cup Admins : step'[y] \in {"waiting", "idle", "absent", "ended", "done"}
  BY DEF Restart
<1>2. UNCHANGED <<drafts, revisions, reports, activations, history, bindings, generation>>
  BY DEF Restart, tables, bound
<1>3. snapshot' = activations
  BY ReloadsActive DEF Restart
<1>4. TypeOK'
  <2>1. Len(retained') = 0 /\ uses' \in [Revs -> Nat] /\ registry' = None
    BY DEF Restart
  <2> QED BY <1>2, <1>3, <2>1 DEF TypeOK, RegistryAssumption
<1>5. Shapes'
  <2>1. step' = [y \in Clients \cup Admins |-> step'[y]] /\ plan' = [a \in Admins |-> plan'[a]]
    BY DEF Restart
  <2>2. pinned' \in [Clients -> Revs \cup {None}] /\ retained' \in Seq(Revs) /\ usesLock' = None
    BY DEF Restart
  <2> QED BY <1>1, <1>2, <2>1, <2>2 DEF Shapes, Choosing, Clients
<1>6. Locked' /\ Unused' /\ Reviewed'
  BY <1>1 DEF Locked, Unused, Reviewed, Holding, Locking
<1>7. Counted'
  <2>1. \A rev : Using(rev)' = {}
    BY <1>1 DEF Using, Clients
  <2> QED BY <2>1, FS_EmptySet DEF Restart, Counted
<1>8. Published' /\ Cached'
  <2>1. retained' = <<>> /\ ToSet(<<>>) = {} /\ IsInjective(<<>>)
    BY DEF Restart, ToSet, IsInjective
  <2> QED BY <1>1, <1>2, <1>3, <2>1 DEF Published, Cached
<1>9. Verified'
  BY <1>1, <1>2 DEF Verified, Active, Loadable
<1> QED BY <1>4, <1>5, <1>6, <1>7, <1>8, <1>9

\* The inductive invariant: types, locks, counts, the view and the cache against the
\* tables, and what an administrator who archives knows.
THEOREM Invariance == Spec => []IInv
<1> USE RegistryAssumption
<1>1. Init => IInv
  BY InitIInv
<1>2. IInv /\ [Next]_vars => IInv'
  <2> SUFFICES ASSUME IInv, [Next]_vars PROVE IInv'
    OBVIOUS
  <2>1. CASE UNCHANGED vars
    <3>1. UNCHANGED <<drafts, revisions, reports, activations, history, bindings, generation, jobs,
                      snapshot, retained, registry, uses, usesLock, step, pinned, plan, crashes>>
      BY <2>1 DEF vars, tables, bound, published, counts
    <3>2. TypeOK' /\ Shapes' /\ Locked' /\ Unused'
      BY <3>1 DEF IInv, TypeOK, Shapes, Locked, Unused
    <3>3. Counted'
      BY <3>1 DEF IInv, Counted, Using
    <3>4. Published' /\ Verified' /\ Cached'
      BY <3>1 DEF IInv, Published, Verified, Active, Loadable, Cached
    <3>5. Reviewed'
      BY <3>1 DEF IInv, Reviewed, Bound
    <3> QED BY <3>2, <3>3, <3>4, <3>5 DEF IInv
  <2>2. CASE Next
    <3>1. CASE \E x \in Clients : ClientStep(x)
      BY <3>1, ClientsKeep
    <3>2. CASE \E a \in Admins : AdminStep(a)
      BY <3>2, AdminsKeep
    <3>3. CASE Restart
      BY <3>3, RestartKeeps
    <3> QED BY <2>2, <3>1, <3>2, <3>3, Steps
  <2> QED BY <2>1, <2>2
<1> QED BY <1>1, <1>2, PTL DEF Spec

\* Whenever service.mu is free, what is served is what is active, and the cache holds
\* only revisions of the tables, each once (registry.go:171-288).
THEOREM ServedIsActive == Spec => []MemoryMatches
<1>1. IInv => MemoryMatches
  <2> SUFFICES ASSUME IInv, registry = None
               PROVE  /\ snapshot = activations
                      /\ ToSet(retained) \subseteq revisions /\ IsInjective(retained)
    BY DEF IInv, MemoryMatches
  <2>1. \A a \in Admins : step[a] # "evict"
    BY RegistryAssumption DEF IInv, Locked, Holding, RegistryAssumption
  <2> QED BY <2>1 DEF IInv, Published, Cached
<1> QED BY <1>1, Invariance, PTL

\* A revision leaves the tables only while nothing uses it, serves it or refers to it
\* (protocol_revision_uses.go:42-49, registry.go:264-288, protocol_history.go:269-302).
THEOREM UnusedDeleted == Spec => DeletesOnlyUnused
<1> DEFINE Free == \A rev \in revisions \ revisions' :
                     uses[rev] = 0 /\ snapshot[rev[1]] # rev[2] /\ ~Referenced(rev)
<1> USE RegistryAssumption
<1>1. IInv /\ [Next]_vars => [Free]_vars
  <2> SUFFICES ASSUME IInv, Next PROVE Free
    OBVIOUS
  <2>1. CASE \E x \in Clients : ClientStep(x)
    <3>1. revisions' = revisions
      BY <2>1, ClientEffects DEF IInv, tables
    <3> QED BY <3>1
  <2>2. CASE Restart
    <3>1. revisions' = revisions
      BY <2>2 DEF Restart, tables
    <3> QED BY <3>1
  <2>3. ASSUME NEW a \in Admins, AdminStep(a)
        PROVE  Free
    <3>1. CASE QuietStep(a)
      BY <3>1, QuietEffects DEF IInv
    <3>2. CASE DeleteProtocolHistory(a)
      <4>1. \/ revisions' = revisions
            \/ revisions' = revisions \ {plan[a].rev} /\ ~Referenced(plan[a].rev)
        BY <3>2 DEF DeleteProtocolHistory
      <4>2. uses[plan[a].rev] = 0 /\ snapshot[plan[a].rev[1]] # plan[a].rev[2]
        BY <3>2 DEF DeleteProtocolHistory, IInv, Unused
      <4> QED BY <4>1, <4>2
    <3>3. CASE RegistryStep(a) /\ ~DeleteProtocolHistory(a)
      <4>1. revisions' = revisions
        BY <3>3 DEF RegistryStep, ActivateLoads, SetProtocolActivation, ActivatePublishes,
           ReloadReads, ReloadPublishes, ArchiveProtocol, RemoveActive, DeleteRetained, Evict, tables
      <4> QED BY <4>1
    <3> QED BY <2>3, <3>1, <3>2, <3>3 DEF AdminStep
  <2> QED BY <2>1, <2>2, <2>3, Steps
<1> QED BY <1>1, Invariance, PTL DEF Spec, DeletesOnlyUnused

\* Unless bindings changed twice since the baseline was read, an archived protocol has
\* no binding left (protocol_history.go:102-178).
THEOREM ArchivedUnbound == Spec => ArchiveLeavesNoBinding
<1> DEFINE Unbound == \A a \in Admins :
              step[a] = "archive" /\ step'[a] = "unpublish" /\ generation <= plan[a].changes + 1
                => Bound(plan[a].id)' = {}
<1> USE RegistryAssumption
<1>1. IInv /\ [Next]_vars => [Unbound]_vars
  <2> SUFFICES ASSUME IInv, Next, NEW a \in Admins, step[a] = "archive", step'[a] = "unpublish",
                      generation <= plan[a].changes + 1
               PROVE  Bound(plan[a].id)' = {}
    BY Zenon
  <2>1. ArchiveProtocol(a)
    <3>1. ~ \E x \in Clients : ClientStep(x)
      BY ClientEffects DEF IInv
    <3>2. ~ Restart
      BY DEF Restart
    <3>3. PICK b \in Admins : AdminStep(b)
      BY <3>1, <3>2, Steps
    <3>4. b = a
      BY <3>3, AdminEffects DEF IInv
    <3> QED BY <3>3, <3>4 DEF AdminStep, QuietStep, RegistryStep, Does, SaveDraft, VerifyReads,
               SaveProtocolRevision, SaveProtocolReport, AskActivation, BindReads, BindPins,
               BindCommits, ArchiveReads, ArchivePlans, ReadProtocolHistory, Exclusive,
               ActivateLoads, SetProtocolActivation, ActivatePublishes, ReloadReads,
               ReloadPublishes, RemoveActive, DeleteRetained, DeleteProtocolHistory, Evict
  <2>2. /\ bindings = plan[a].baseline[5]
        /\ bindings' = [s \in Slots |-> IF s \in plan[a].slots THEN plan[a].new ELSE bindings[s]]
        /\ plan' = plan
    <3>1. ~To(a, "done")
      BY Moved DEF IInv
    <3> QED BY <2>1, <3>1 DEF ArchiveProtocol, BaselineHolds, Baseline
  <2>3. /\ plan[a].slots = Bound(plan[a].id)
        /\ plan[a].new # None => plan[a].new[1] # plan[a].id
    BY <2>2 DEF IInv, Reviewed
  <2>4. \A s \in Slots : bindings'[s] # None => bindings'[s][1] # plan[a].id
    BY <2>2, <2>3 DEF Bound
  <2> QED BY <2>2, <2>4 DEF Bound
<1> QED BY <1>1, Invariance, PTL DEF Spec, ArchiveLeavesNoBinding
===============================================================================
