--------------------------- MODULE ProtocolRegistry ---------------------------
(***************************************************************************)
(* Protocol revisions: their tables (storage/protocol_revision.go,         *)
(* protocol_history.go, protocol_binding.go), the registry that publishes  *)
(* compiled revisions (protocol/registry.go, authoring.go), the count of   *)
(* the requests that use one (server/protocol_revision_uses.go) and the    *)
(* administrators who edit, activate, archive, delete and bind.            *)
(*                                                                         *)
(* A protocol's content stands for its definition and its hash; protocols  *)
(* here are custom ones, every content compiles and passes verification.   *)
(* Lock order: uses.mu, service.mu, the store's single connection.         *)
(***************************************************************************)
EXTENDS Naturals, FiniteSets, Sequences, SequencesExt

CONSTANTS Protocols, Contents, Slots,   \* slots: sources, models or groups that bind a revision
          Requests, Submitters,         \* ordinary requests; requests that create a job
          Admins, Role, Casts,          \* Role: what each administrator does; bound: who takes part
          RetainedLimit,                \* limits.StateItems
          MaxCrashes,                   \* bound: restarts of the process
          None

Roles == {"save", "verify", "activate", "archive", "delete", "bind", "reload"}
Clients == Requests \cup Submitters
Revs == Protocols \X Contents

ASSUME RegistryAssumption ==
  /\ Role \in [Admins -> Roles] /\ RetainedLimit \in Nat \ {0} /\ MaxCrashes \in Nat
  /\ None \notin Contents \cup Protocols \cup Admins \cup Revs
  /\ Requests \cap Submitters = {} /\ Clients \cap Admins = {}
  /\ IsFiniteSet(Slots)

VARIABLES drafts, revisions, reports, activations, history, bindings,  \* tables
          generation,            \* conversion_generation
          jobs,                  \* generation_jobs: the revision of each submitter's job
          snapshot, retained,    \* the published view; LoadRevision's cache, oldest first
          registry, uses, usesLock,   \* who holds service.mu; the counts and who holds uses.mu
          step,                  \* what each client and administrator does next
          pinned, plan,          \* a client's revision; what an administrator has read so far
          crashes                \* bound

tables == <<drafts, revisions, reports, activations, history>>
bound == <<bindings, generation>>
published == <<snapshot, retained>>
counts == <<uses, usesLock>>
vars == <<tables, bound, jobs, published, registry, counts, step, pinned, plan, crashes>>

To(x, s) == step' = [step EXCEPT ![x] = s]
Active == {rev \in Revs : activations[rev[1]] = rev[2]}
Drafted == {rev \in Revs : drafts[rev[1]] = rev[2]}
Loadable(rev) == rev \in revisions /\ rev \in reports

\* Every protocol is drafted, verified and active with one content, the others
\* are verified or not; nothing is bound yet.
Init ==
  /\ \E first \in Contents :
       /\ drafts = [p \in Protocols |-> first] /\ activations = drafts
       /\ revisions \in {Protocols \X {first}, Revs} /\ reports = revisions
  /\ snapshot = activations
  /\ history = {} /\ bindings = [s \in Slots |-> None] /\ generation = 0
  /\ jobs = [j \in Submitters |-> None]
  /\ retained = <<>> /\ registry = None
  /\ uses = [rev \in Revs |-> 0] /\ usesLock = None
  /\ \E cast \in Casts :
       step = [x \in Clients \cup Admins |-> IF x \in cast THEN "idle" ELSE "absent"]
  /\ pinned = [x \in Clients |-> None] /\ plan = [a \in Admins |-> None]
  /\ crashes = 0
-----------------------------------------------------------------------------
(* Requests and the jobs they create.                                      *)

\* View, and the candidate's revision of it.
View(x) ==
  /\ x \in Clients /\ step[x] = "idle" /\ To(x, "pinned")
  /\ \E p \in Protocols : snapshot[p] # None /\ pinned' = [pinned EXCEPT ![x] = <<p, snapshot[p]>>]
  /\ UNCHANGED <<tables, bound, jobs, published, registry, counts, plan, crashes>>

AcquireUse(r) ==
  /\ r \in Requests /\ step[r] = "pinned" /\ usesLock = None /\ To(r, "using")
  /\ uses' = [uses EXCEPT ![pinned[r]] = @ + 1]
  /\ UNCHANGED <<tables, bound, jobs, published, registry, usesLock, pinned, plan, crashes>>

ReleaseUse(r) ==
  /\ r \in Requests /\ step[r] = "using" /\ usesLock = None /\ To(r, "done")
  /\ uses' = [uses EXCEPT ![pinned[r]] = @ - 1]
  /\ UNCHANGED <<tables, bound, jobs, published, registry, usesLock, pinned, plan, crashes>>

\* submitGatewayJob up to the row; no use is counted for it.
Submit(j) ==
  /\ j \in Submitters /\ step[j] = "pinned" /\ To(j, "waiting")
  /\ jobs' = [jobs EXCEPT ![j] = pinned[j]]
  /\ UNCHANGED <<tables, bound, published, registry, counts, pinned, plan, crashes>>

Remembered(rev) == IF Len(retained) >= RetainedLimit THEN Append(Tail(retained), rev)
                                                     ELSE Append(retained, rev)

\* LoadRevision for the job's next step: the view, or under service.mu the cache or the tables.
LoadRevision(j) ==
  /\ j \in Submitters /\ step[j] = "waiting"
  /\ \/ snapshot[jobs[j][1]] = jobs[j][2] /\ To(j, "loaded") /\ UNCHANGED retained
     \/ /\ snapshot[jobs[j][1]] # jobs[j][2] /\ registry = None
        /\ \/ jobs[j] \in ToSet(retained) /\ To(j, "loaded") /\ UNCHANGED retained
           \/ /\ jobs[j] \notin ToSet(retained) /\ Loadable(jobs[j])
              /\ To(j, "loaded") /\ retained' = Remembered(jobs[j])
  /\ UNCHANGED <<tables, bound, jobs, snapshot, registry, counts, pinned, plan, crashes>>

\* The step it was loaded for is over: another one follows, or the job is terminal.
StepJob(j) ==
  /\ j \in Submitters /\ step[j] = "loaded"
  /\ \E s \in {"waiting", "ended"} : To(j, s)
  /\ UNCHANGED <<tables, bound, jobs, published, registry, counts, pinned, plan, crashes>>
-----------------------------------------------------------------------------
(* Drafts, verification, activation, reload.                               *)

Does(a, role) == a \in Admins /\ Role[a] = role /\ step[a] = "idle"
Forget(a) == plan' = [plan EXCEPT ![a] = None]
Note(a, record) == plan' = [plan EXCEPT ![a] = record]

\* SaveProtocolDraft with the hash the editor has seen; a lost race changes nothing.
SaveDraft(a) ==
  /\ Does(a, "save") /\ To(a, "done")
  /\ \E rev \in Revs : drafts' = [drafts EXCEPT ![rev[1]] = rev[2]]
  /\ UNCHANGED <<revisions, reports, activations, history, bound, jobs, published, registry,
                 counts, pinned, plan, crashes>>

VerifyReads(a) ==
  /\ Does(a, "verify") /\ To(a, "revision")
  /\ \E rev \in Drafted : Note(a, [rev |-> rev])
  /\ UNCHANGED <<tables, bound, jobs, published, registry, counts, pinned, crashes>>

SaveProtocolRevision(a) ==
  /\ step[a] = "revision" /\ To(a, "report")
  /\ revisions' = revisions \cup {plan[a].rev}
  /\ UNCHANGED <<drafts, reports, activations, history, bound, jobs, published, registry,
                 counts, pinned, plan, crashes>>

\* The report's foreign key needs the revision.
SaveProtocolReport(a) ==
  /\ step[a] = "report" /\ To(a, "done") /\ Forget(a)
  /\ reports' = IF plan[a].rev \in revisions THEN reports \cup {plan[a].rev} ELSE reports
  /\ UNCHANGED <<drafts, revisions, activations, history, bound, jobs, published, registry,
                 counts, pinned, crashes>>

\* The request names a revision and the active one its author has seen.
AskActivation(a) ==
  /\ Does(a, "activate") /\ To(a, "activate")
  /\ \E rev \in revisions : Note(a, [rev |-> rev, expected |-> activations[rev[1]]])
  /\ UNCHANGED <<tables, bound, jobs, published, registry, counts, pinned, crashes>>

\* Activate: loadVerifiedRevision under service.mu.
ActivateLoads(a) ==
  /\ step[a] = "activate" /\ registry = None
  /\ IF Loadable(plan[a].rev) THEN To(a, "commit") /\ registry' = a /\ UNCHANGED plan
                              ELSE To(a, "done") /\ UNCHANGED registry /\ Forget(a)
  /\ UNCHANGED <<tables, bound, jobs, published, counts, pinned, crashes>>

\* SetProtocolActivation compares and sets.
SetProtocolActivation(a) ==
  /\ step[a] = "commit"
  /\ IF activations[plan[a].rev[1]] = plan[a].expected
     THEN /\ activations' = [activations EXCEPT ![plan[a].rev[1]] = plan[a].rev[2]]
          /\ To(a, "publish") /\ UNCHANGED <<registry, plan>>
     ELSE /\ To(a, "done") /\ registry' = None /\ Forget(a) /\ UNCHANGED activations
  /\ UNCHANGED <<drafts, revisions, reports, history, bound, jobs, published, counts, pinned, crashes>>

ActivatePublishes(a) ==
  /\ step[a] = "publish" /\ To(a, "done") /\ registry' = None /\ Forget(a)
  /\ snapshot' = [snapshot EXCEPT ![plan[a].rev[1]] = plan[a].rev[2]]
  /\ UNCHANGED <<tables, bound, jobs, retained, counts, pinned, crashes>>

\* reload, isolating what cannot be loaded; the restart does the same.
Reloaded == [p \in Protocols |-> IF Loadable(<<p, activations[p]>>) THEN activations[p] ELSE None]

ReloadReads(a) ==
  /\ Does(a, "reload") /\ registry = None /\ registry' = a
  /\ To(a, "swap") /\ Note(a, Reloaded)
  /\ UNCHANGED <<tables, bound, jobs, published, counts, pinned, crashes>>

ReloadPublishes(a) ==
  /\ step[a] = "swap" /\ To(a, "done") /\ registry' = None /\ Forget(a)
  /\ snapshot' = plan[a]
  /\ UNCHANGED <<tables, bound, jobs, retained, counts, pinned, crashes>>
-----------------------------------------------------------------------------
(* Bindings: adminSaveProtocolBinding.                                     *)

BindReads(a) ==
  /\ Does(a, "bind") /\ To(a, "pin") /\ Note(a, generation)
  /\ UNCHANGED <<tables, bound, jobs, published, registry, counts, pinned, crashes>>

BindPins(a) ==
  /\ step[a] = "pin" /\ To(a, "bind")
  /\ \E p \in Protocols :
       /\ snapshot[p] # None
       /\ Note(a, [rev |-> <<p, snapshot[p]>>, generation |-> plan[a]])
  /\ UNCHANGED <<tables, bound, jobs, published, registry, counts, pinned, crashes>>

\* SaveManagedProtocolBindings; triggers count the change of the row.
BindCommits(a) ==
  /\ step[a] = "bind" /\ To(a, "done") /\ Forget(a)
  /\ IF generation = plan[a].generation
     THEN \E s \in Slots : /\ bindings' = [bindings EXCEPT ![s] = plan[a].rev]
                           /\ generation' = generation + 1
     ELSE UNCHANGED bound
  /\ UNCHANGED <<tables, jobs, published, registry, counts, pinned, crashes>>
-----------------------------------------------------------------------------
(* Archiving: adminArchiveProtocol, RemoveActive, ArchiveProtocol.         *)

Baseline == <<history, revisions, drafts, activations, bindings>>
Bound(p) == {s \in Slots : bindings[s] # None /\ bindings[s][1] = p}

\* The reviewed baseline, read again when the request arrives (and, for the
\* properties only, how many times bindings had changed then).
ArchiveReads(a) ==
  /\ Does(a, "archive") /\ To(a, "references")
  /\ \E p \in Protocols : Note(a, [id |-> p, baseline |-> Baseline, changes |-> generation])
  /\ UNCHANGED <<tables, bound, jobs, published, registry, counts, pinned, crashes>>

\* References, read after the baseline, and the replacement: refuse in mode "block",
\* bind to an active other, or unbind.
ArchivePlans(a) ==
  /\ step[a] = "references"
  /\ LET p == plan[a].id
         with(new) == [id |-> p, baseline |-> plan[a].baseline, changes |-> plan[a].changes,
                       slots |-> Bound(p), new |-> new, view |-> snapshot]
     IN \/ Bound(p) # {} /\ To(a, "done") /\ Forget(a)
        \/ Bound(p) = {} /\ To(a, "archive") /\ Note(a, with(None))
        \/ To(a, "archive") /\ Note(a, with(None))
        \/ \E q \in Protocols \ {p} :
             snapshot[q] # None /\ To(a, "archive") /\ Note(a, with(<<q, snapshot[q]>>))
  /\ UNCHANGED <<tables, bound, jobs, published, registry, counts, pinned, crashes>>

\* Planted mistake: the transaction looks only for the draft.
BaselineIgnored(a) == drafts[plan[a].id] # None

BaselineHolds(a) == plan[a].baseline = Baseline

\* ArchiveProtocol, in one transaction, under service.mu.
ArchiveProtocol(a) ==
  /\ step[a] = "archive" /\ registry = None
  /\ LET p == plan[a].id
     IN IF BaselineHolds(a) /\ drafts[p] # None
        THEN /\ bindings' = [s \in Slots |-> IF s \in plan[a].slots THEN plan[a].new ELSE bindings[s]]
             /\ generation' = generation + Cardinality(plan[a].slots)
             /\ history' = history \cup {rev \in revisions \cup Drafted : rev[1] = p}
             /\ activations' = [activations EXCEPT ![p] = None]
             /\ drafts' = [drafts EXCEPT ![p] = None]
             /\ registry' = a /\ To(a, "unpublish") /\ UNCHANGED plan
        ELSE /\ To(a, "done") /\ Forget(a)
             /\ UNCHANGED <<bound, history, activations, drafts, registry>>
  /\ UNCHANGED <<revisions, reports, jobs, published, counts, pinned, crashes>>

\* Planted mistake: the new view is built from the one the handler inspected.
WithoutOfOldView(a) == [plan[a].view EXCEPT ![plan[a].id] = None]

Without(a) == [snapshot EXCEPT ![plan[a].id] = None]

RemoveActive(a) ==
  /\ step[a] = "unpublish" /\ To(a, "done") /\ registry' = None /\ Forget(a)
  /\ snapshot' = Without(a)
  /\ UNCHANGED <<tables, bound, jobs, retained, counts, pinned, crashes>>
-----------------------------------------------------------------------------
(* Deleting history: adminDeleteProtocolHistory, exclusive, DeleteRetained. *)

ReadProtocolHistory(a) ==
  /\ Does(a, "delete") /\ To(a, "exclusive")
  /\ \E rev \in history : Note(a, [rev |-> rev])
  /\ UNCHANGED <<tables, bound, jobs, published, registry, counts, pinned, crashes>>

\* Planted mistake: the count is compared, but uses.mu is released before the deletion.
ExclusiveReleases(a) ==
  /\ step[a] = "exclusive" /\ usesLock = None
  /\ IF uses[plan[a].rev] = 0 THEN To(a, "retained") /\ UNCHANGED plan
                              ELSE To(a, "done") /\ Forget(a)
  /\ UNCHANGED <<tables, bound, jobs, published, registry, counts, pinned, crashes>>

\* exclusive keeps uses.mu until the deletion is over.
Exclusive(a) ==
  /\ step[a] = "exclusive" /\ usesLock = None
  /\ IF uses[plan[a].rev] = 0 THEN To(a, "retained") /\ usesLock' = a /\ UNCHANGED plan
                              ELSE To(a, "done") /\ Forget(a) /\ UNCHANGED usesLock
  /\ UNCHANGED <<tables, bound, jobs, published, registry, uses, pinned, crashes>>

DeleteRetained(a) ==
  /\ step[a] = "retained" /\ registry = None
  /\ IF snapshot[plan[a].rev[1]] # plan[a].rev[2]
     THEN To(a, "delete") /\ registry' = a /\ UNCHANGED <<plan, usesLock>>
     ELSE To(a, "done") /\ Forget(a) /\ usesLock' = None /\ UNCHANGED registry
  /\ UNCHANGED <<tables, bound, jobs, published, uses, pinned, crashes>>

\* protocolRevisionReferences, in the transaction of DeleteProtocolHistory.
Referenced(rev) ==
  \/ rev \in Active \cup Drafted
  \/ \E s \in Slots : bindings[s] = rev
  \/ \E j \in Submitters : jobs[j] = rev

\* The row, its revision and reports, or a conflict.
DeleteProtocolHistory(a) ==
  /\ step[a] = "delete"
  /\ LET rev == plan[a].rev
     IN IF rev \in history /\ ~Referenced(rev)
        THEN /\ revisions' = revisions \ {rev} /\ reports' = reports \ {rev}
             /\ history' = history \ {rev}
             /\ To(a, "evict") /\ UNCHANGED <<registry, usesLock, plan>>
        ELSE /\ To(a, "done") /\ Forget(a) /\ registry' = None /\ usesLock' = None
             /\ UNCHANGED <<revisions, reports, history>>
  /\ UNCHANGED <<drafts, activations, bound, jobs, published, uses, pinned, crashes>>

\* The cache without a revision: its first entry, there is one at most.
Evicted(rev) ==
  IF rev \in ToSet(retained)
  THEN RemoveAt(retained, CHOOSE i \in DOMAIN retained : retained[i] = rev)
  ELSE retained

Evict(a) ==
  /\ step[a] = "evict" /\ To(a, "done") /\ Forget(a)
  /\ retained' = Evicted(plan[a].rev)
  /\ registry' = None /\ usesLock' = None
  /\ UNCHANGED <<tables, bound, jobs, snapshot, uses, pinned, crashes>>
-----------------------------------------------------------------------------
\* The process ends and starts again: memory is rebuilt, requests are lost, jobs are not.
Restart ==
  /\ crashes < MaxCrashes /\ crashes' = crashes + 1
  /\ snapshot' = Reloaded /\ retained' = <<>> /\ registry' = None
  /\ uses' = [rev \in Revs |-> 0] /\ usesLock' = None
  /\ plan' = [a \in Admins |-> None] /\ pinned' = [x \in Clients |-> None]
  /\ step' = [x \in Clients \cup Admins |->
       CASE step[x] \in {"waiting", "loaded"} -> "waiting"
         [] step[x] \in {"idle", "absent", "ended"} -> step[x]
         [] OTHER -> "done"]
  /\ UNCHANGED <<tables, bound, jobs>>

Next ==
  \/ \E x \in Clients :
       View(x) \/ AcquireUse(x) \/ ReleaseUse(x) \/ Submit(x) \/ LoadRevision(x) \/ StepJob(x)
  \/ \E a \in Admins :
       \/ SaveDraft(a) \/ VerifyReads(a) \/ SaveProtocolRevision(a) \/ SaveProtocolReport(a)
       \/ AskActivation(a) \/ ActivateLoads(a) \/ SetProtocolActivation(a) \/ ActivatePublishes(a)
       \/ ReloadReads(a) \/ ReloadPublishes(a)
       \/ BindReads(a) \/ BindPins(a) \/ BindCommits(a)
       \/ ArchiveReads(a) \/ ArchivePlans(a) \/ ArchiveProtocol(a) \/ RemoveActive(a)
       \/ ReadProtocolHistory(a) \/ Exclusive(a) \/ DeleteRetained(a)
       \/ DeleteProtocolHistory(a) \/ Evict(a)
  \/ Restart

Spec == Init /\ [][Next]_vars
-----------------------------------------------------------------------------
TypeOK ==
  /\ drafts \in [Protocols -> Contents \cup {None}]
  /\ activations \in [Protocols -> Contents \cup {None}]
  /\ snapshot \in [Protocols -> Contents \cup {None}]
  /\ reports \subseteq revisions /\ revisions \subseteq Revs /\ history \subseteq Revs
  /\ uses \in [Revs -> Nat] /\ registry \in Admins \cup {None}
  /\ Len(retained) <= RetainedLimit

\* Whenever service.mu is free, requests are served exactly the active revisions
\* of the tables, and the cache of jobs' revisions holds none that was deleted:
\* activation, archiving, reload, deletion and restart each change the tables
\* and the memory in two steps (registry.go:171-288).
MemoryMatches ==
  /\ TypeOK
  /\ registry = None =>
       /\ snapshot = activations
       /\ ToSet(retained) \subseteq revisions /\ IsInjective(retained)

\* A revision leaves the tables only while no request counts as using it, it is
\* not served, and no activation, draft, binding or job refers to it
\* (protocol_revision_uses.go:42-49, registry.go:264-288, protocol_history.go:269-302).
DeletesOnlyUnused ==
  [][\A rev \in revisions \ revisions' :
       uses[rev] = 0 /\ snapshot[rev[1]] # rev[2] /\ ~Referenced(rev)]_vars

\* When a protocol is archived nothing stays bound to it, although the references
\* are read after the baseline and something was bound meanwhile
\* (protocol_history.go:102-178).  Only of two changes and more the comparison of
\* baselines need not see any: bound away before the references are read and back
\* before the transaction, a slot looks as reviewed and keeps the archived protocol.
ArchiveLeavesNoBinding ==
  [][\A a \in Admins :
       step[a] = "archive" /\ step'[a] = "unpublish" /\ generation <= plan[a].changes + 1
         => Bound(plan[a].id)' = {}]_vars

\* "LoadRevision restores a pinned durable operation" (authoring.go:330): the
\* revision of a job that is not over is in the tables. The code breaks it: a
\* request that pinned its view submits after the revision was archived and
\* deleted, because submitting counts no use (gateway_job.go:16-77).
JobLoadable == \A j \in Submitters : step[j] \in {"waiting", "loaded"} => Loadable(jobs[j])
===============================================================================
