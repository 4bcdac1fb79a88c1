------------------------- MODULE SourceRefreshProofs -------------------------
(***************************************************************************)
(* Proofs about SourceRefresh, for any sources, editors, slots, edits,     *)
(* refreshes, callers and budgets: one job per source, models committed    *)
(* only against the row they were fetched for, no result without its       *)
(* source, routes that are current and saved configurations that were      *)
(* tried once nothing is under way.                                        *)
(***************************************************************************)
EXTENDS SourceRefresh, FiniteSetTheorems, TLAPS

\* Where editors and jobs can be, and on which source.
EditorSteps == Notes \cup {"absent", "idle", "reread", "rereadManual", "invalidate", "launch",
                           "last", "forget", "read", "fetch", "sync", "evidence"}
JobSteps == Holding \cup {"absent", "idle", "queued", "quit"}
Places == /\ \A s \in Sources : at[s] \in JobSteps /\ on[s] = s
          /\ \A e \in Editors : at[e] \in EditorSteps

\* What is fetched was asked for by a row with automatic fetching.
Fetching == \A w \in Workers : at[w] = "fetch" => snap[w].auto

\* A result that is kept or about to be kept belongs to a source, or to one that is
\* about to be forgotten.
Ghosts == \A s \in Sources : (last[s] # "none" \/ at[s] = "record") /\ row[s] = Gone =>
            \E e \in Editors : at[e] = "forget" /\ on[e] = s

\* Whoever has changed the store has yet to invalidate the routes.
Invalidating == Notes \cup {"reread", "rereadManual", "invalidate", "last", "forget",
                            "evidence", "publish"}
Promised == stale => cutOff \/ \E w \in Workers : at[w] \in Invalidating

\* While the server runs, a configuration that was promised to be fetched is that of
\* the row, and has been tried, or somebody is on the way to it: the editor who saved
\* it, the note of the save, or a job that has not read the row yet or has read it.
LaunchedBy(e, s) == /\ on[e] = s /\ auto[e]
                    /\ at[e] = "note" \/ (at[e] \in {"invalidate", "launch"} /\ ~running[s])
Launching(s) == \E e \in Editors : LaunchedBy(e, s)
Covered(s) == \/ wanted[s] <= tried[s] \/ dropped[s] \/ pending[s] \/ Launching(s)
              \/ at[s] \in {"queued", "top", "read"}
              \/ at[s] \in {"fetch", "sync", "evidence"} /\ snap[s].cfg = wanted[s]
Kept == \A s \in Sources :
  /\ over[s] => dropped[s]
  /\ wanted[s] # 0 => row[s].cfg = wanted[s]
  /\ Up => Covered(s)

\* A job per registered source, and the counters count them.
Registered == \A s \in Sources : (running[s] <=> ~Idle(s)) /\ (pending[s] => running[s])
Counted == /\ wg = Cardinality({s \in Sources : running[s]})
           /\ sem = Cardinality({s \in Sources : at[s] \in Holding})

IInv == TypeOK /\ Places /\ Registered /\ Counted
        /\ Fetching /\ Ghosts /\ Promised /\ Kept
-----------------------------------------------------------------------------
(* Helpers.                                                                *)

\* Sets of sources are finite, and counted one by one.
LEMMA SourceSets ==
  ASSUME NEW S \in SUBSET Sources
  PROVE  /\ IsFiniteSet(S) /\ Cardinality(S) \in 0..Cardinality(Sources)
         /\ \A s \in Sources \ S : Cardinality(S \cup {s}) = Cardinality(S) + 1
         /\ \A s \in S : /\ Cardinality(S) > 0
                         /\ Cardinality(S \ {s}) = Cardinality(S) - 1
<1>1. IsFiniteSet(Sources) /\ IsFiniteSet(S)
  BY RefreshAssumption, FS_Subset
<1>2. Cardinality(S) \in Nat /\ Cardinality(Sources) \in Nat /\ Cardinality(S) <= Cardinality(Sources)
  BY <1>1, FS_Subset, FS_CardinalityType
<1>3. \A s \in Sources \ S : Cardinality(S \cup {s}) = Cardinality(S) + 1
  BY <1>1, FS_AddElement
<1>4. \A s \in S : Cardinality(S \ {s}) = Cardinality(S) - 1
  BY <1>1, FS_RemoveElement
<1>5. \A s \in S : Cardinality(S) # 0
  BY <1>1, FS_EmptySet
<1> QED BY <1>1, <1>2, <1>3, <1>4, <1>5

\* As long as no job begins or ends, and none passes the semaphore, the counters stay.
LEMMA CountsStay ==
  ASSUME Counted, wg' = wg, sem' = sem,
         \A s \in Sources : running'[s] = running[s] /\ (at'[s] \in Holding <=> at[s] \in Holding)
  PROVE  Counted'
<1>1. {s \in Sources : running'[s]} = {s \in Sources : running[s]}
  OBVIOUS
<1>2. {s \in Sources : at'[s] \in Holding} = {s \in Sources : at[s] \in Holding}
  OBVIOUS
<1> QED BY <1>1, <1>2 DEF Counted

\* A write that is not a save changes updated_at alone.
LEMMA Touched ==
  ASSUME NEW r \in Rows
  PROVE  LET b == [r EXCEPT !.rev = @ + 1] IN
         b \in Rows /\ b.cfg = r.cfg /\ b.auto = r.auto /\ b # Gone
BY DEF Rows, Gone

-----------------------------------------------------------------------------
(* Editing.                                                                *)

\* An administrator's save promises a fetch and an invalidation, which his steps carry out.
LEMMA AdminSaveKeeps ==
  ASSUME IInv, NEW e \in Editors, NEW s \in Sources, NEW a \in BOOLEAN, AdminSave(e, s, a)
  PROVE  IInv'
<1>1. TypeOK'
  BY RefreshAssumption DEF IInv, TypeOK, Rows, Configs, Steps, Notes, Holding, Workers, Gone,
     Places,
     EditorSteps, JobSteps, AdminSave, Free, Edit, Saved, To, jobVars, handVars, ctxVars,
     history,
     bounds
<1>2. Places' /\ Registered'
  BY RefreshAssumption DEF IInv, TypeOK, Workers, Places, Registered, EditorSteps, Notes,
     JobSteps,
     Holding, Idle, AdminSave, Free, Edit, Saved, To, jobVars, handVars, ctxVars, history, bounds
<1>3. Counted'
  <2>1. wg' = wg /\ sem' = sem
    BY DEF AdminSave, Free, Edit, Saved, To, jobVars, handVars, ctxVars, history, bounds
  <2>2. \A x \in Sources : running'[x] = running[x] /\ (at'[x] \in Holding <=> at[x] \in Holding)
    BY RefreshAssumption DEF IInv, TypeOK, Workers, Places, EditorSteps, Notes, JobSteps,
       Holding,
       AdminSave, Free, Edit, Saved, To, jobVars, handVars, ctxVars, history, bounds
  <2> QED BY <2>1, <2>2, CountsStay DEF IInv
<1>4. Fetching'
  BY RefreshAssumption DEF IInv, TypeOK, Rows, Workers, Places, Fetching, Gone, AdminSave, Free,
     Edit, Saved, To, jobVars, handVars, ctxVars, history, bounds
<1>5. Ghosts'
  BY RefreshAssumption DEF IInv, TypeOK, Rows, Workers, Places, Ghosts, Gone, MutexFree,
     AdminSave, Free, Edit, Saved, To, jobVars, handVars, ctxVars, history, bounds
<1>6. Promised'
  BY RefreshAssumption DEF IInv, TypeOK, Workers, Places, Promised, Invalidating, Notes,
     EditorSteps,
     JobSteps, AdminSave, Free, Edit, Saved, To, jobVars, handVars, ctxVars, history, bounds
<1>7. Kept'
  <2>1. ASSUME NEW x \in Sources
        PROVE  /\ over'[x] => dropped'[x]
               /\ wanted'[x] # 0 => row'[x].cfg = wanted'[x]
    BY RefreshAssumption DEF IInv, TypeOK, Rows, Configs, Workers, Kept, Gone, AdminSave, Free,
       Edit, Saved, To, jobVars, handVars, ctxVars, history, bounds
  <2>2. ASSUME NEW x \in Sources, Up'
        PROVE  Covered(x)'
    <3>1. Covered(x)
      BY <2>2 DEF IInv, Kept, Up, AdminSave, Free, Edit, Saved, To, jobVars, handVars, ctxVars,
         history, bounds
    <3>2. CASE Launching(x)
      <4> PICK g \in Editors : LaunchedBy(g, x)
        BY <3>2 DEF Launching
      <4>1. CASE x = s
        BY <4>1, <2>2, RefreshAssumption DEF IInv, TypeOK, Configs, Workers, Covered, Launching,
           LaunchedBy, AdminSave, Free, Edit, Saved, To
      <4>2. CASE x # s
        <5>1. g # e /\ running' = running
          BY DEF LaunchedBy, AdminSave, Free, jobVars
        <5>2. on'[g] = on[g] /\ auto'[g] = auto[g] /\ at'[g] = at[g]
          BY <5>1 DEF AdminSave, Free, To, IInv, TypeOK, Workers
        <5> QED BY <5>1, <5>2 DEF Covered, Launching, LaunchedBy
      <4> QED BY <4>1, <4>2
    <3>3. CASE ~Launching(x)
      BY <2>2, <3>1, <3>3, RefreshAssumption DEF IInv, TypeOK, Registered, Rows, Configs,
         Workers, Places, Covered, Launching, LaunchedBy, Kept, Gone, Up, Idle, EditorSteps,
         Notes,
         JobSteps, Holding, AdminSave, Free, Edit, Saved, To, jobVars, handVars, ctxVars,
         history,
         bounds
    <3> QED BY <3>2, <3>3
  <2> QED BY <2>1, <2>2 DEF Kept
<1> QED BY <1>1, <1>2, <1>3, <1>4, <1>5, <1>6, <1>7 DEF IInv

\* A tool's save promises no fetch.
LEMMA ToolSaveKeeps ==
  ASSUME IInv, NEW e \in Editors, NEW s \in Sources, NEW a \in BOOLEAN, NEW manual \in BOOLEAN,
         NEW isCreate \in BOOLEAN, ToolSave(e, s, a, manual, isCreate)
  PROVE  IInv'
<1>1. TypeOK'
  BY RefreshAssumption DEF IInv, TypeOK, Rows, Configs, Steps, Notes, Holding, Workers, Gone,
     Places,
     EditorSteps, JobSteps, ToolSave, Free, Edit, Saved, To, jobVars, handVars, ctxVars, history,
     bounds
<1>2. Places' /\ Registered'
  BY RefreshAssumption DEF IInv, TypeOK, Workers, Places, Registered, EditorSteps, Notes,
     JobSteps,
     Holding, Idle, ToolSave, Free, Edit, Saved, To, jobVars, handVars, ctxVars, history, bounds
<1>3. Counted'
  <2>1. wg' = wg /\ sem' = sem
    BY DEF ToolSave, Free, Edit, Saved, To, jobVars, handVars, ctxVars, history, bounds
  <2>2. \A x \in Sources : running'[x] = running[x] /\ (at'[x] \in Holding <=> at[x] \in Holding)
    BY RefreshAssumption DEF IInv, TypeOK, Workers, Places, EditorSteps, Notes, JobSteps,
       Holding,
       ToolSave, Free, Edit, Saved, To, jobVars, handVars, ctxVars, history, bounds
  <2> QED BY <2>1, <2>2, CountsStay DEF IInv
<1>4. Fetching'
  BY RefreshAssumption DEF IInv, TypeOK, Rows, Workers, Places, Fetching, Gone, ToolSave, Free,
     Edit, Saved, To, jobVars, handVars, ctxVars, history, bounds
<1>5. Ghosts'
  BY RefreshAssumption DEF IInv, TypeOK, Rows, Workers, Places, Ghosts, Gone, MutexFree,
     ToolSave, Free, Edit, Saved, To, jobVars, handVars, ctxVars, history, bounds
<1>6. Promised'
  BY RefreshAssumption DEF IInv, TypeOK, Workers, Places, Promised, Invalidating, Notes,
     EditorSteps,
     JobSteps, ToolSave, Free, Edit, Saved, To, jobVars, handVars, ctxVars, history, bounds
<1>7. Kept'
  <2>1. ASSUME NEW x \in Sources
        PROVE  /\ over'[x] => dropped'[x]
               /\ wanted'[x] # 0 => row'[x].cfg = wanted'[x]
    BY RefreshAssumption DEF IInv, TypeOK, Rows, Configs, Workers, Kept, Gone, ToolSave, Free,
       Edit, Saved, To, jobVars, handVars, ctxVars, history, bounds
  <2>2. ASSUME NEW x \in Sources, Up'
        PROVE  Covered(x)'
    <3>1. Covered(x)
      BY <2>2 DEF IInv, Kept, Up, ToolSave, Free, Edit, Saved, To, jobVars, handVars, ctxVars,
         history, bounds
    <3>2. CASE Launching(x)
      <4> PICK g \in Editors : LaunchedBy(g, x)
        BY <3>2 DEF Launching
      <4>1. CASE x = s
        BY <4>1, <2>2, RefreshAssumption DEF IInv, TypeOK, Configs, Workers, Covered, Launching,
           LaunchedBy, ToolSave, Free, Edit, Saved, To
      <4>2. CASE x # s
        <5>1. g # e /\ running' = running
          BY DEF LaunchedBy, ToolSave, Free, jobVars
        <5>2. on'[g] = on[g] /\ auto'[g] = auto[g] /\ at'[g] = at[g]
          BY <5>1 DEF ToolSave, Free, To, IInv, TypeOK, Workers
        <5> QED BY <5>1, <5>2 DEF Covered, Launching, LaunchedBy
      <4> QED BY <4>1, <4>2
    <3>3. CASE ~Launching(x)
      BY <2>2, <3>1, <3>3, RefreshAssumption DEF IInv, TypeOK, Registered, Rows, Configs,
         Workers, Places, Covered, Launching, LaunchedBy, Kept, Gone, Up, Idle, EditorSteps,
         Notes,
         JobSteps, Holding, ToolSave, Free, Edit, Saved, To, jobVars, handVars, ctxVars, history,
         bounds
    <3> QED BY <3>2, <3>3
  <2> QED BY <2>1, <2>2 DEF Kept
<1> QED BY <1>1, <1>2, <1>3, <1>4, <1>5, <1>6, <1>7 DEF IInv

\* A switch changes the row and not what it was saved with.
LEMMA SwitchKeeps ==
  ASSUME IInv, NEW e \in Editors, NEW s \in Sources, Switch(e, s)
  PROVE  IInv'
<1>0. [row[s] EXCEPT !.rev = @ + 1] \in Rows
  BY Touched DEF IInv, TypeOK
<1>1. TypeOK'
  BY <1>0, RefreshAssumption DEF IInv, TypeOK, Steps, Notes, Holding, Workers, Switch, Free,
     Edit, To,
     jobVars, handVars, ctxVars, history, bounds
<1>2. Places' /\ Registered'
  BY RefreshAssumption DEF IInv, TypeOK, Workers, Places, Registered, EditorSteps, Notes,
     JobSteps,
     Holding, Idle, Switch, Free, Edit, To, jobVars, handVars, ctxVars, history, bounds
<1>3. Counted'
  <2>1. wg' = wg /\ sem' = sem
    BY DEF Switch, Free, Edit, To, jobVars, handVars, ctxVars, history, bounds
  <2>2. \A x \in Sources : running'[x] = running[x] /\ (at'[x] \in Holding <=> at[x] \in Holding)
    BY RefreshAssumption DEF IInv, TypeOK, Workers, Places, EditorSteps, Notes, JobSteps,
       Holding,
       Switch, Free, Edit, To, jobVars, handVars, ctxVars, history, bounds
  <2> QED BY <2>1, <2>2, CountsStay DEF IInv
<1>4. Fetching'
  BY RefreshAssumption DEF IInv, TypeOK, Rows, Workers, Places, Fetching, Gone, Switch, Free,
     Edit, To, jobVars, handVars, ctxVars, history, bounds
<1>5. Ghosts'
  BY RefreshAssumption DEF IInv, TypeOK, Rows, Workers, Places, Ghosts, Gone, MutexFree, Switch,
     Free, Edit, To, jobVars, handVars, ctxVars, history, bounds
<1>6. Promised'
  BY RefreshAssumption DEF IInv, TypeOK, Workers, Places, Promised, Invalidating, Notes,
     EditorSteps,
     JobSteps, Switch, Free, Edit, To, jobVars, handVars, ctxVars, history, bounds
<1>7. Kept'
  <2>1. ASSUME NEW x \in Sources
        PROVE  /\ over'[x] => dropped'[x]
               /\ wanted'[x] # 0 => row'[x].cfg = wanted'[x]
    BY RefreshAssumption DEF IInv, TypeOK, Rows, Configs, Workers, Kept, Gone, Switch, Free,
       Edit, To, jobVars, handVars, ctxVars, history, bounds
  <2>2. ASSUME NEW x \in Sources, Up'
        PROVE  Covered(x)'
    <3>1. Covered(x)
      BY <2>2 DEF IInv, Kept, Up, Switch, Free, Edit, To, jobVars, handVars, ctxVars, history,
         bounds
    <3>2. CASE Launching(x)
      <4> PICK g \in Editors : LaunchedBy(g, x)
        BY <3>2 DEF Launching
      <4> QED
        BY <2>2, RefreshAssumption DEF IInv, TypeOK, Registered, Rows, Configs, Workers, Places,
           Covered, Launching, LaunchedBy, Gone, Up, Idle, EditorSteps, Notes, JobSteps,
           Holding, Switch,
           Free, Edit, To, jobVars, handVars, ctxVars, history, bounds
    <3>3. CASE ~Launching(x)
      BY <2>2, <3>1, <3>3, RefreshAssumption DEF IInv, TypeOK, Registered, Rows, Configs,
         Workers, Places, Covered, Launching, LaunchedBy, Kept, Gone, Up, Idle, EditorSteps,
         Notes,
         JobSteps, Holding, Switch, Free, Edit, To, jobVars, handVars, ctxVars, history, bounds
    <3> QED BY <3>2, <3>3
  <2> QED BY <2>1, <2>2 DEF Kept
<1> QED BY <1>1, <1>2, <1>3, <1>4, <1>5, <1>6, <1>7 DEF IInv

\* A deletion takes the promise back and goes on to forget.
LEMMA DeleteKeeps ==
  ASSUME IInv, NEW e \in Editors, NEW s \in Sources, Delete(e, s)
  PROVE  IInv'
<1>1. TypeOK'
  BY RefreshAssumption DEF IInv, TypeOK, Rows, Configs, Steps, Notes, Holding, Workers, Gone,
     Places,
     EditorSteps, JobSteps, Delete, Free, Edit, To, NoModels, jobVars, handVars, ctxVars,
     history,
     bounds
<1>2. Places' /\ Registered'
  BY RefreshAssumption DEF IInv, TypeOK, Workers, Places, Registered, EditorSteps, Notes,
     JobSteps,
     Holding, Idle, Delete, Free, Edit, To, NoModels, jobVars, handVars, ctxVars, history, bounds
<1>3. Counted'
  <2>1. wg' = wg /\ sem' = sem
    BY DEF Delete, Free, Edit, To, NoModels, jobVars, handVars, ctxVars, history, bounds
  <2>2. \A x \in Sources : running'[x] = running[x] /\ (at'[x] \in Holding <=> at[x] \in Holding)
    BY RefreshAssumption DEF IInv, TypeOK, Workers, Places, EditorSteps, Notes, JobSteps,
       Holding,
       Delete, Free, Edit, To, NoModels, jobVars, handVars, ctxVars, history, bounds
  <2> QED BY <2>1, <2>2, CountsStay DEF IInv
<1>4. Fetching'
  BY RefreshAssumption DEF IInv, TypeOK, Rows, Workers, Places, Fetching, Gone, Delete, Free,
     Edit, To, NoModels, jobVars, handVars, ctxVars, history, bounds
<1>5. Ghosts'
  BY RefreshAssumption DEF IInv, TypeOK, Rows, Workers, Places, Ghosts, Gone, MutexFree, Delete,
     Free, Edit, To, NoModels, jobVars, handVars, ctxVars, history, bounds
<1>6. Promised'
  BY RefreshAssumption DEF IInv, TypeOK, Workers, Places, Promised, Invalidating, Notes,
     EditorSteps,
     JobSteps, Delete, Free, Edit, To, NoModels, jobVars, handVars, ctxVars, history, bounds
<1>7. Kept'
  <2>1. ASSUME NEW x \in Sources
        PROVE  /\ over'[x] => dropped'[x]
               /\ wanted'[x] # 0 => row'[x].cfg = wanted'[x]
    BY RefreshAssumption DEF IInv, TypeOK, Rows, Configs, Workers, Kept, Gone, Delete, Free,
       Edit, To, NoModels, jobVars, handVars, ctxVars, history, bounds
  <2>2. ASSUME NEW x \in Sources, Up'
        PROVE  Covered(x)'
    <3>1. Covered(x)
      BY <2>2 DEF IInv, Kept, Up, Delete, Free, Edit, To, NoModels, jobVars, handVars, ctxVars,
         history, bounds
    <3>2. CASE Launching(x)
      <4> PICK g \in Editors : LaunchedBy(g, x)
        BY <3>2 DEF Launching
      <4> QED
        BY <2>2, RefreshAssumption DEF IInv, TypeOK, Registered, Rows, Configs, Workers, Places,
           Covered, Launching, LaunchedBy, Gone, Up, Idle, EditorSteps, Notes, JobSteps,
           Holding, Delete,
           Free, Edit, To, NoModels, jobVars, handVars, ctxVars, history, bounds
    <3>3. CASE ~Launching(x)
      BY <2>2, <3>1, <3>3, RefreshAssumption DEF IInv, TypeOK, Registered, Rows, Configs,
         Workers, Places, Covered, Launching, LaunchedBy, Kept, Gone, Up, Idle, EditorSteps,
         Notes,
         JobSteps, Holding, Delete, Free, Edit, To, NoModels, jobVars, handVars, ctxVars,
         history,
         bounds
    <3> QED BY <3>2, <3>3
  <2> QED BY <2>1, <2>2 DEF Kept
<1> QED BY <1>1, <1>2, <1>3, <1>4, <1>5, <1>6, <1>7 DEF IInv

\* A noted save is pending at a job, or left to the editor's own launch.
LEMMA NoteSavedKeeps ==
  ASSUME IInv, NEW e \in Editors, NoteSaved(e)
  PROVE  IInv'
<1>1. TypeOK'
  BY RefreshAssumption DEF IInv, TypeOK, Rows, Configs, Steps, Notes, Holding, Workers, Gone,
     Places,
     EditorSteps, JobSteps, NoteSaved, Noted, Drops, To, jobVars, handVars, ctxVars, history,
     bounds
<1>2. Places' /\ Registered'
  BY RefreshAssumption DEF IInv, TypeOK, Workers, Places, Registered, EditorSteps, Notes,
     JobSteps,
     Holding, Idle, NoteSaved, Noted, Drops, To, jobVars, handVars, ctxVars, history, bounds
<1>3. Counted'
  <2>1. wg' = wg /\ sem' = sem
    BY DEF NoteSaved, Noted, Drops, To, jobVars, handVars, ctxVars, history, bounds
  <2>2. \A x \in Sources : running'[x] = running[x] /\ (at'[x] \in Holding <=> at[x] \in Holding)
    BY RefreshAssumption DEF IInv, TypeOK, Workers, Places, EditorSteps, Notes, JobSteps,
       Holding,
       NoteSaved, Noted, Drops, To, jobVars, handVars, ctxVars, history, bounds
  <2> QED BY <2>1, <2>2, CountsStay DEF IInv
<1>4. Fetching'
  BY RefreshAssumption DEF IInv, TypeOK, Rows, Workers, Places, Fetching, Gone, NoteSaved, Noted,
     Notes, Drops, To, jobVars, handVars, ctxVars, history, bounds
<1>5. Ghosts'
  BY RefreshAssumption DEF IInv, TypeOK, Rows, Workers, Places, Ghosts, Gone, MutexFree,
     NoteSaved, Noted, Notes, Drops, To, jobVars, handVars, ctxVars, history, bounds
<1>6. Promised'
  BY RefreshAssumption DEF IInv, TypeOK, Workers, Places, Promised, Invalidating, Notes,
     EditorSteps,
     JobSteps, NoteSaved, Noted, Drops, To, jobVars, handVars, ctxVars, history, bounds
<1>7. Kept'
  <2>1. ASSUME NEW x \in Sources
        PROVE  /\ over'[x] => dropped'[x]
               /\ wanted'[x] # 0 => row'[x].cfg = wanted'[x]
    BY RefreshAssumption DEF IInv, TypeOK, Rows, Configs, Workers, Kept, Gone, NoteSaved, Noted,
       Drops,
       To, jobVars, handVars, ctxVars, history, bounds
  <2>2. ASSUME NEW x \in Sources, Up'
        PROVE  Covered(x)'
    <3>1. Covered(x)
      BY <2>2 DEF IInv, Kept, Up, NoteSaved, Noted, Drops, To, jobVars, handVars, ctxVars,
         history,
         bounds
    <3>2. CASE Launching(x)
      <4> PICK g \in Editors : LaunchedBy(g, x)
        BY <3>2 DEF Launching
      <4> QED
        BY <2>2, RefreshAssumption DEF IInv, TypeOK, Registered, Rows, Configs, Workers, Places,
           Covered, Launching, LaunchedBy, Gone, Up, Idle, EditorSteps, Notes, JobSteps, Holding,
           NoteSaved, Noted, Drops, To, jobVars, handVars, ctxVars, history, bounds
    <3>3. CASE ~Launching(x)
      BY <2>2, <3>1, <3>3, RefreshAssumption DEF IInv, TypeOK, Registered, Rows, Configs,
         Workers, Places, Covered, Launching, LaunchedBy, Kept, Gone, Up, Idle, EditorSteps,
         Notes,
         JobSteps, Holding, NoteSaved, Noted, Drops, To, jobVars, handVars, ctxVars, history,
         bounds
    <3> QED BY <3>2, <3>3
  <2> QED BY <2>1, <2>2 DEF Kept
<1> QED BY <1>1, <1>2, <1>3, <1>4, <1>5, <1>6, <1>7 DEF IInv

\* The create tool reads its source again, and goes on or returns.
LEMMA RequireSourceKeeps ==
  ASSUME IInv, NEW e \in Editors, RequireSource(e)
  PROVE  IInv'
<1>1. TypeOK'
  BY RefreshAssumption DEF IInv, TypeOK, Rows, Configs, Steps, Notes, Holding, Workers, Gone,
     Places,
     EditorSteps, JobSteps, RequireSource, To, jobVars, handVars, ctxVars, history, bounds
<1>2. Places' /\ Registered'
  BY RefreshAssumption DEF IInv, TypeOK, Workers, Places, Registered, EditorSteps, Notes,
     JobSteps,
     Holding, Idle, RequireSource, To, jobVars, handVars, ctxVars, history, bounds
<1>3. Counted'
  <2>1. wg' = wg /\ sem' = sem
    BY DEF RequireSource, To, jobVars, handVars, ctxVars, history, bounds
  <2>2. \A x \in Sources : running'[x] = running[x] /\ (at'[x] \in Holding <=> at[x] \in Holding)
    BY RefreshAssumption DEF IInv, TypeOK, Workers, Places, EditorSteps, Notes, JobSteps,
       Holding,
       RequireSource, To, jobVars, handVars, ctxVars, history, bounds
  <2> QED BY <2>1, <2>2, CountsStay DEF IInv
<1>4. Fetching'
  BY RefreshAssumption DEF IInv, TypeOK, Rows, Workers, Places, Fetching, Gone, RequireSource,
     To, jobVars, handVars, ctxVars, history, bounds
<1>5. Ghosts'
  BY RefreshAssumption DEF IInv, TypeOK, Rows, Workers, Places, Ghosts, Gone, MutexFree,
     RequireSource, To, jobVars, handVars, ctxVars, history, bounds
<1>6. Promised'
  <2>1. PICK ok \in BOOLEAN :
          /\ at' = [at EXCEPT ![e] = IF ~ok THEN "idle"
                                     ELSE IF at[e] = "rereadManual" THEN "evidence" ELSE "last"]
          /\ cutOff' = (cutOff \/ (stale /\ ~ok)) /\ stale' = stale
    BY DEF RequireSource, To
  <2>2. CASE ok
    <3>1. at'[e] \in Invalidating /\ e \in Workers
      BY <2>1, <2>2 DEF Invalidating, IInv, TypeOK, Workers
    <3> QED BY <3>1 DEF Promised
  <2>3. CASE ~ok
    BY <2>1, <2>3 DEF Promised
  <2> QED BY <2>2, <2>3
<1>7. Kept'
  <2>1. ASSUME NEW x \in Sources
        PROVE  /\ over'[x] => dropped'[x]
               /\ wanted'[x] # 0 => row'[x].cfg = wanted'[x]
    BY RefreshAssumption DEF IInv, TypeOK, Rows, Configs, Workers, Kept, Gone, RequireSource,
       To, jobVars, handVars, ctxVars, history, bounds
  <2>2. ASSUME NEW x \in Sources, Up'
        PROVE  Covered(x)'
    <3>1. Covered(x)
      BY <2>2 DEF IInv, Kept, Up, RequireSource, To, jobVars, handVars, ctxVars, history,
         bounds
    <3>2. CASE Launching(x)
      <4> PICK g \in Editors : LaunchedBy(g, x)
        BY <3>2 DEF Launching
      <4> QED
        BY <2>2, RefreshAssumption DEF IInv, TypeOK, Registered, Rows, Configs, Workers, Places,
           Covered, Launching, LaunchedBy, Gone, Up, Idle, EditorSteps, Notes, JobSteps, Holding,
           RequireSource, To, jobVars, handVars, ctxVars, history, bounds
    <3>3. CASE ~Launching(x)
      BY <2>2, <3>1, <3>3, RefreshAssumption DEF IInv, TypeOK, Registered, Rows, Configs,
         Workers, Places, Covered, Launching, LaunchedBy, Kept, Gone, Up, Idle, EditorSteps,
         Notes,
         JobSteps, Holding, RequireSource, To, jobVars, handVars, ctxVars, history, bounds
    <3> QED BY <3>2, <3>3
  <2> QED BY <2>1, <2>2 DEF Kept
<1> QED BY <1>1, <1>2, <1>3, <1>4, <1>5, <1>6, <1>7 DEF IInv

\* A handler's invalidation.
LEMMA InvalidatesKeeps ==
  ASSUME IInv, NEW e \in Editors, Invalidates(e)
  PROVE  IInv'
<1>1. TypeOK'
  BY RefreshAssumption DEF IInv, TypeOK, Rows, Configs, Steps, Notes, Holding, Workers, Gone,
     Places,
     EditorSteps, JobSteps, Invalidates, To, jobVars, handVars, ctxVars, history, bounds
<1>2. Places' /\ Registered'
  BY RefreshAssumption DEF IInv, TypeOK, Workers, Places, Registered, EditorSteps, Notes,
     JobSteps,
     Holding, Idle, Invalidates, To, jobVars, handVars, ctxVars, history, bounds
<1>3. Counted'
  <2>1. wg' = wg /\ sem' = sem
    BY DEF Invalidates, To, jobVars, handVars, ctxVars, history, bounds
  <2>2. \A x \in Sources : running'[x] = running[x] /\ (at'[x] \in Holding <=> at[x] \in Holding)
    BY RefreshAssumption DEF IInv, TypeOK, Workers, Places, EditorSteps, Notes, JobSteps,
       Holding,
       Invalidates, To, jobVars, handVars, ctxVars, history, bounds
  <2> QED BY <2>1, <2>2, CountsStay DEF IInv
<1>4. Fetching'
  BY RefreshAssumption DEF IInv, TypeOK, Rows, Workers, Places, Fetching, Gone, Invalidates, To,
     jobVars, handVars, ctxVars, history, bounds
<1>5. Ghosts'
  BY RefreshAssumption DEF IInv, TypeOK, Rows, Workers, Places, Ghosts, Gone, MutexFree,
     Invalidates, To, jobVars, handVars, ctxVars, history, bounds
<1>6. Promised'
  BY RefreshAssumption DEF IInv, TypeOK, Workers, Places, Promised, Invalidating, Notes,
     EditorSteps,
     JobSteps, Invalidates, To, jobVars, handVars, ctxVars, history, bounds
<1>7. Kept'
  <2>1. ASSUME NEW x \in Sources
        PROVE  /\ over'[x] => dropped'[x]
               /\ wanted'[x] # 0 => row'[x].cfg = wanted'[x]
    BY DEF IInv, Kept, Invalidates, ctxVars
  <2>2. ASSUME NEW x \in Sources, Up'
        PROVE  Covered(x)'
    <3>1. Covered(x)
      BY <2>2 DEF IInv, Kept, Up, Invalidates
    <3>2. CASE Launching(x)
      <4> PICK g \in Editors : LaunchedBy(g, x)
        BY <3>2 DEF Launching
      <4>1. at'[g] = at[g] \/ (at[g] = "invalidate" /\ at'[g] = "launch")
            \/ (at[g] = "last" /\ at'[g] = "idle")
        BY DEF LaunchedBy, Invalidates, To, IInv, TypeOK, Workers
      <4> QED BY <4>1 DEF Covered, Launching, LaunchedBy, Invalidates, handVars, jobVars
    <3>3. CASE ~Launching(x)
      <4>1. at'[x] = at[x]
        BY RefreshAssumption DEF Invalidates, To, IInv, TypeOK, Workers
      <4> QED BY <4>1, <3>1, <3>3 DEF Covered, Invalidates, handVars, jobVars, history
    <3> QED BY <3>2, <3>3
  <2> QED BY <2>1, <2>2 DEF Kept
<1> QED BY <1>1, <1>2, <1>3, <1>4, <1>5, <1>6, <1>7 DEF IInv

\* Forgetting a source removes the result of its last job.
LEMMA ForgetKeeps ==
  ASSUME IInv, NEW e \in Editors, Forget(e)
  PROVE  IInv'
<1>1. TypeOK'
  BY RefreshAssumption DEF IInv, TypeOK, Rows, Configs, Steps, Notes, Holding, Workers, Gone,
     Places,
     EditorSteps, JobSteps, Forget, Drops, To, jobVars, handVars, ctxVars, history, bounds
<1>2. Places' /\ Registered'
  BY RefreshAssumption DEF IInv, TypeOK, Workers, Places, Registered, EditorSteps, Notes,
     JobSteps,
     Holding, Idle, Forget, Drops, To, jobVars, handVars, ctxVars, history, bounds
<1>3. Counted'
  <2>1. wg' = wg /\ sem' = sem
    BY DEF Forget, Drops, To, jobVars, handVars, ctxVars, history, bounds
  <2>2. \A x \in Sources : running'[x] = running[x] /\ (at'[x] \in Holding <=> at[x] \in Holding)
    BY RefreshAssumption DEF IInv, TypeOK, Workers, Places, EditorSteps, Notes, JobSteps,
       Holding,
       Forget, Drops, To, jobVars, handVars, ctxVars, history, bounds
  <2> QED BY <2>1, <2>2, CountsStay DEF IInv
<1>4. Fetching'
  BY RefreshAssumption DEF IInv, TypeOK, Rows, Workers, Places, Fetching, Gone, Forget, Drops,
     To, jobVars, handVars, ctxVars, history, bounds
<1>5. Ghosts'
  BY RefreshAssumption DEF IInv, TypeOK, Rows, Workers, Places, Ghosts, Gone, MutexFree, Forget,
     Drops, To, jobVars, handVars, ctxVars, history, bounds
<1>6. Promised'
  BY RefreshAssumption DEF IInv, TypeOK, Workers, Places, Promised, Invalidating, Notes,
     EditorSteps,
     JobSteps, Forget, Drops, To, jobVars, handVars, ctxVars, history, bounds
<1>7. Kept'
  <2>1. ASSUME NEW x \in Sources
        PROVE  /\ over'[x] => dropped'[x]
               /\ wanted'[x] # 0 => row'[x].cfg = wanted'[x]
    BY RefreshAssumption DEF IInv, TypeOK, Rows, Configs, Workers, Kept, Gone, Forget, Drops, To,
       jobVars, handVars, ctxVars, history, bounds
  <2>2. ASSUME NEW x \in Sources, Up'
        PROVE  Covered(x)'
    <3>1. Covered(x)
      BY <2>2 DEF IInv, Kept, Up, Forget, Drops, To, jobVars, handVars, ctxVars, history, bounds
    <3>2. CASE Launching(x)
      <4> PICK g \in Editors : LaunchedBy(g, x)
        BY <3>2 DEF Launching
      <4> QED
        BY <2>2, RefreshAssumption DEF IInv, TypeOK, Registered, Rows, Configs, Workers, Places,
           Covered, Launching, LaunchedBy, Gone, Up, Idle, EditorSteps, Notes, JobSteps,
           Holding, Forget,
           Drops, To, jobVars, handVars, ctxVars, history, bounds
    <3>3. CASE ~Launching(x)
      BY <2>2, <3>1, <3>3, RefreshAssumption DEF IInv, TypeOK, Registered, Rows, Configs,
         Workers, Places, Covered, Launching, LaunchedBy, Kept, Gone, Up, Idle, EditorSteps,
         Notes,
         JobSteps, Holding, Forget, Drops, To, jobVars, handVars, ctxVars, history, bounds
    <3> QED BY <3>2, <3>3
  <2> QED BY <2>1, <2>2 DEF Kept
<1> QED BY <1>1, <1>2, <1>3, <1>4, <1>5, <1>6, <1>7 DEF IInv

\* A job's context that ends, by its caller or its budget, excuses the saves that the
\* job would have covered.
LEMMA ContextEndsKeeps ==
  ASSUME IInv, NEW s \in Sources, CallerLeaves(s) \/ BudgetEnds(s)
  PROVE  IInv'
<1>0. ContextEnds(s) /\ cancels' \in Nat /\ timeouts' \in Nat
  BY DEF CallerLeaves, BudgetEnds, IInv, TypeOK
<1>1. TypeOK'
  BY <1>0, RefreshAssumption DEF IInv, TypeOK, Rows, Configs, Steps, Notes, Holding, Workers,
     Gone, Places,
     EditorSteps, JobSteps, ContextEnds, Idle, jobVars, handVars, ctxVars, history, bounds
<1>2. Places' /\ Registered'
  BY <1>0, RefreshAssumption DEF IInv, TypeOK, Workers, Places, Registered, EditorSteps, Notes,
     JobSteps,
     Holding, Idle, ContextEnds, jobVars, handVars, ctxVars, history, bounds
<1>3. Counted'
  <2>1. wg' = wg /\ sem' = sem
    BY <1>0 DEF ContextEnds, Idle, jobVars, handVars, ctxVars, history, bounds
  <2>2. \A x \in Sources : running'[x] = running[x] /\ (at'[x] \in Holding <=> at[x] \in Holding)
    BY <1>0, RefreshAssumption DEF IInv, TypeOK, Workers, Places, EditorSteps, Notes, JobSteps,
       Holding,
       ContextEnds, Idle, jobVars, handVars, ctxVars, history, bounds
  <2> QED BY <2>1, <2>2, CountsStay DEF IInv
<1>4. Fetching'
  BY <1>0, RefreshAssumption DEF IInv, TypeOK, Rows, Workers, Places, Fetching, Gone,
     ContextEnds, jobVars, handVars, ctxVars, history, bounds
<1>5. Ghosts'
  BY <1>0, RefreshAssumption DEF IInv, TypeOK, Rows, Workers, Places, Ghosts, Gone, MutexFree,
     ContextEnds, Idle, jobVars, handVars, ctxVars, history, bounds
<1>6. Promised'
  BY <1>0, RefreshAssumption DEF IInv, TypeOK, Workers, Places, Promised, Invalidating, Notes,
     EditorSteps,
     JobSteps, ContextEnds, Idle, jobVars, handVars, ctxVars, history, bounds
<1>7. Kept'
  BY <1>0, RefreshAssumption DEF IInv, TypeOK, Registered, Rows, Configs, Workers, Places,
     Covered,
     Launching, LaunchedBy, Kept, Gone, Up, Idle, EditorSteps, Notes, JobSteps, Holding,
     ContextEnds, jobVars, handVars, ctxVars, history, bounds
<1> QED BY <1>1, <1>2, <1>3, <1>4, <1>5, <1>6, <1>7 DEF IInv

\* The caller's invalidation.
LEMMA CallerInvalidatesKeeps ==
  ASSUME IInv, NEW s \in Sources, CallerInvalidates(s)
  PROVE  IInv'
<1>1. TypeOK'
  BY RefreshAssumption DEF IInv, TypeOK, Rows, Configs, Steps, Notes, Holding, Workers, Gone,
     Places,
     EditorSteps, JobSteps, CallerInvalidates, jobVars, handVars, ctxVars, history, bounds
<1>2. Places' /\ Registered'
  BY RefreshAssumption DEF IInv, TypeOK, Workers, Places, Registered, EditorSteps, Notes,
     JobSteps,
     Holding, Idle, CallerInvalidates, jobVars, handVars, ctxVars, history, bounds
<1>3. Counted'
  <2>1. wg' = wg /\ sem' = sem
    BY DEF CallerInvalidates, jobVars, handVars, ctxVars, history, bounds
  <2>2. \A x \in Sources : running'[x] = running[x] /\ (at'[x] \in Holding <=> at[x] \in Holding)
    BY RefreshAssumption DEF IInv, TypeOK, Workers, Places, EditorSteps, Notes, JobSteps,
       Holding,
       CallerInvalidates, jobVars, handVars, ctxVars, history, bounds
  <2> QED BY <2>1, <2>2, CountsStay DEF IInv
<1>4. Fetching'
  BY RefreshAssumption DEF IInv, TypeOK, Rows, Workers, Places, Fetching, Gone,
     CallerInvalidates, jobVars, handVars, ctxVars, history, bounds
<1>5. Ghosts'
  BY RefreshAssumption DEF IInv, TypeOK, Rows, Workers, Places, Ghosts, Gone, MutexFree,
     CallerInvalidates, jobVars, handVars, ctxVars, history, bounds
<1>6. Promised'
  BY RefreshAssumption DEF IInv, TypeOK, Workers, Places, Promised, Invalidating, Notes,
     EditorSteps,
     JobSteps, CallerInvalidates, jobVars, handVars, ctxVars, history, bounds
<1>7. Kept'
  BY RefreshAssumption DEF IInv, TypeOK, Registered, Rows, Configs, Workers, Places, Covered,
     Launching, LaunchedBy, Kept, Gone, Up, Idle, EditorSteps, Notes, JobSteps, Holding,
     CallerInvalidates,
     jobVars, handVars, ctxVars, history, bounds
<1> QED BY <1>1, <1>2, <1>3, <1>4, <1>5, <1>6, <1>7 DEF IInv

-----------------------------------------------------------------------------
(* Rounds of a job.                                                        *)

\* A job passes the semaphore.
LEMMA AcquireKeeps ==
  ASSUME IInv, NEW s \in Sources, Acquire(s)
  PROVE  IInv'
<1>1. TypeOK'
  BY RefreshAssumption DEF IInv, TypeOK, Rows, Configs, Steps, Notes, Holding, Workers, Gone,
     Places,
     EditorSteps, JobSteps, Acquire, To, jobVars, handVars, ctxVars, history, bounds
<1>2. Places' /\ Registered'
  BY RefreshAssumption DEF IInv, TypeOK, Workers, Places, Registered, EditorSteps, Notes,
     JobSteps,
     Holding, Idle, Acquire, To, jobVars, handVars, ctxVars, history, bounds
<1>3. Counted'
  <2>1. {x \in Sources : at'[x] \in Holding} = {x \in Sources : at[x] \in Holding} \cup {s}
    BY DEF Acquire, To, IInv, TypeOK, Workers, Holding
  <2>2. s \notin {x \in Sources : at[x] \in Holding}
    BY DEF Acquire, Holding
  <2> QED BY <2>1, <2>2, SourceSets DEF Acquire, IInv, Counted
<1>4. Fetching'
  BY RefreshAssumption DEF IInv, TypeOK, Rows, Workers, Places, Fetching, Gone, Acquire, To,
     jobVars, handVars, ctxVars, history, bounds
<1>5. Ghosts'
  BY RefreshAssumption DEF IInv, TypeOK, Rows, Workers, Places, Ghosts, Gone, MutexFree, Acquire,
     To, jobVars, handVars, ctxVars, history, bounds
<1>6. Promised'
  BY RefreshAssumption DEF IInv, TypeOK, Workers, Places, Promised, Invalidating, Notes,
     EditorSteps,
     JobSteps, Acquire, To, jobVars, handVars, ctxVars, history, bounds
<1>7. Kept'
  BY RefreshAssumption DEF IInv, TypeOK, Registered, Rows, Configs, Workers, Places, Covered,
     Launching, LaunchedBy, Kept, Gone, Up, Idle, EditorSteps, Notes, JobSteps, Holding,
     Acquire, To,
     jobVars, handVars, ctxVars, history, bounds
<1> QED BY <1>1, <1>2, <1>3, <1>4, <1>5, <1>6, <1>7 DEF IInv

\* A job that is cancelled while it waits was given up by its caller or by the server.
LEMMA LeaveQueueKeeps ==
  ASSUME IInv, NEW s \in Sources, LeaveQueue(s)
  PROVE  IInv'
<1>1. TypeOK'
  BY RefreshAssumption DEF IInv, TypeOK, Rows, Configs, Steps, Notes, Holding, Workers, Gone,
     Places,
     EditorSteps, JobSteps, LeaveQueue, Cancelled, To, jobVars, handVars, ctxVars, history,
     bounds
<1>2. Places' /\ Registered'
  BY RefreshAssumption DEF IInv, TypeOK, Workers, Places, Registered, EditorSteps, Notes,
     JobSteps,
     Holding, Idle, LeaveQueue, Cancelled, To, jobVars, handVars, ctxVars, history, bounds
<1>3. Counted'
  <2>1. wg' = wg /\ sem' = sem
    BY DEF LeaveQueue, Cancelled, To, jobVars, handVars, ctxVars, history, bounds
  <2>2. \A x \in Sources : running'[x] = running[x] /\ (at'[x] \in Holding <=> at[x] \in Holding)
    BY RefreshAssumption DEF IInv, TypeOK, Workers, Places, EditorSteps, Notes, JobSteps,
       Holding,
       LeaveQueue, Cancelled, To, jobVars, handVars, ctxVars, history, bounds
  <2> QED BY <2>1, <2>2, CountsStay DEF IInv
<1>4. Fetching'
  BY RefreshAssumption DEF IInv, TypeOK, Rows, Workers, Places, Fetching, Gone, LeaveQueue,
     Cancelled, To, jobVars, handVars, ctxVars, history, bounds
<1>5. Ghosts'
  BY RefreshAssumption DEF IInv, TypeOK, Rows, Workers, Places, Ghosts, Gone, MutexFree,
     LeaveQueue, Cancelled, To, jobVars, handVars, ctxVars, history, bounds
<1>6. Promised'
  BY RefreshAssumption DEF IInv, TypeOK, Workers, Places, Promised, Invalidating, Notes,
     EditorSteps,
     JobSteps, LeaveQueue, Cancelled, To, jobVars, handVars, ctxVars, history, bounds
<1>7. Kept'
  <2>1. ASSUME NEW x \in Sources
        PROVE  /\ over'[x] => dropped'[x]
               /\ wanted'[x] # 0 => row'[x].cfg = wanted'[x]
    BY DEF IInv, Kept, LeaveQueue, history, ctxVars
  <2>2. ASSUME NEW x \in Sources, Up'
        PROVE  Covered(x)'
    <3>1. Covered(x)
      BY <2>2 DEF IInv, Kept, Up, LeaveQueue, history
    <3>2. CASE x = s
      <4>1. over[s] /\ dropped'[s] = dropped[s]
        BY <2>2 DEF LeaveQueue, Cancelled, Up, history
      <4> QED BY <4>1, <3>2 DEF Covered, IInv, Kept
    <3>3. CASE x # s
      <4>1. \A w \in Workers \ {s} : at'[w] = at[w]
        BY DEF LeaveQueue, To, IInv, TypeOK
      <4>2. Editors \subseteq Workers \ {s} /\ x \in Workers \ {s}
        BY <3>3, RefreshAssumption DEF Workers
      <4>3. Launching(x) => Launching(x)'
        BY <4>1, <4>2 DEF Launching, LaunchedBy, LeaveQueue, handVars, jobVars
      <4> QED BY <3>1, <4>1, <4>2, <4>3 DEF Covered, LeaveQueue, handVars, jobVars, history
    <3> QED BY <3>2, <3>3
  <2> QED BY <2>1, <2>2 DEF Kept
<1> QED BY <1>1, <1>2, <1>3, <1>4, <1>5, <1>6, <1>7 DEF IInv

\* A round drops the note of a save, and reads the row only then.
LEMMA StartRoundKeeps ==
  ASSUME IInv, NEW s \in Sources, StartRound(s)
  PROVE  IInv'
<1>1. TypeOK'
  BY RefreshAssumption DEF IInv, TypeOK, Rows, Configs, Steps, Notes, Holding, Workers, Gone,
     Places,
     EditorSteps, JobSteps, StartRound, To, jobVars, handVars, ctxVars, history, bounds
<1>2. Places' /\ Registered'
  BY RefreshAssumption DEF IInv, TypeOK, Workers, Places, Registered, EditorSteps, Notes,
     JobSteps,
     Holding, Idle, StartRound, To, jobVars, handVars, ctxVars, history, bounds
<1>3. Counted'
  <2>1. wg' = wg /\ sem' = sem
    BY DEF StartRound, To, jobVars, handVars, ctxVars, history, bounds
  <2>2. \A x \in Sources : running'[x] = running[x] /\ (at'[x] \in Holding <=> at[x] \in Holding)
    BY RefreshAssumption DEF IInv, TypeOK, Workers, Places, EditorSteps, Notes, JobSteps,
       Holding,
       StartRound, To, jobVars, handVars, ctxVars, history, bounds
  <2> QED BY <2>1, <2>2, CountsStay DEF IInv
<1>4. Fetching'
  BY RefreshAssumption DEF IInv, TypeOK, Rows, Workers, Places, Fetching, Gone, StartRound, To,
     jobVars, handVars, ctxVars, history, bounds
<1>5. Ghosts'
  BY RefreshAssumption DEF IInv, TypeOK, Rows, Workers, Places, Ghosts, Gone, MutexFree,
     StartRound, To, jobVars, handVars, ctxVars, history, bounds
<1>6. Promised'
  BY RefreshAssumption DEF IInv, TypeOK, Workers, Places, Promised, Invalidating, Notes,
     EditorSteps,
     JobSteps, StartRound, To, jobVars, handVars, ctxVars, history, bounds
<1>7. Kept'
  <2>1. ASSUME NEW x \in Sources
        PROVE  /\ over'[x] => dropped'[x]
               /\ wanted'[x] # 0 => row'[x].cfg = wanted'[x]
    BY RefreshAssumption DEF IInv, TypeOK, Rows, Configs, Workers, Kept, Gone, StartRound, To,
       jobVars, handVars, ctxVars, history, bounds
  <2>2. ASSUME NEW x \in Sources, Up'
        PROVE  Covered(x)'
    <3>1. Covered(x)
      BY <2>2 DEF IInv, Kept, Up, StartRound, To, jobVars, handVars, ctxVars, history, bounds
    <3>2. CASE Launching(x)
      <4> PICK g \in Editors : LaunchedBy(g, x)
        BY <3>2 DEF Launching
      <4> QED
        BY <2>2, RefreshAssumption DEF IInv, TypeOK, Registered, Rows, Configs, Workers, Places,
           Covered, Launching, LaunchedBy, Gone, Up, Idle, EditorSteps, Notes, JobSteps, Holding,
           StartRound, To, jobVars, handVars, ctxVars, history, bounds
    <3>3. CASE ~Launching(x)
      BY <2>2, <3>1, <3>3, RefreshAssumption DEF IInv, TypeOK, Registered, Rows, Configs,
         Workers, Places, Covered, Launching, LaunchedBy, Kept, Gone, Up, Idle, EditorSteps,
         Notes,
         JobSteps, Holding, StartRound, To, jobVars, handVars, ctxVars, history, bounds
    <3> QED BY <3>2, <3>3
  <2> QED BY <2>1, <2>2 DEF Kept
<1> QED BY <1>1, <1>2, <1>3, <1>4, <1>5, <1>6, <1>7 DEF IInv

\* A successful round is published.
LEMMA PublishKeeps ==
  ASSUME IInv, NEW s \in Sources, Publish(s)
  PROVE  IInv'
<1>1. TypeOK'
  BY RefreshAssumption DEF IInv, TypeOK, Rows, Configs, Steps, Notes, Holding, Workers, Gone,
     Places,
     EditorSteps, JobSteps, Publish, To, jobVars, handVars, ctxVars, history, bounds
<1>2. Places' /\ Registered'
  BY RefreshAssumption DEF IInv, TypeOK, Workers, Places, Registered, EditorSteps, Notes,
     JobSteps,
     Holding, Idle, Publish, To, jobVars, handVars, ctxVars, history, bounds
<1>3. Counted'
  <2>1. wg' = wg /\ sem' = sem
    BY DEF Publish, To, jobVars, handVars, ctxVars, history, bounds
  <2>2. \A x \in Sources : running'[x] = running[x] /\ (at'[x] \in Holding <=> at[x] \in Holding)
    BY RefreshAssumption DEF IInv, TypeOK, Workers, Places, EditorSteps, Notes, JobSteps,
       Holding,
       Publish, To, jobVars, handVars, ctxVars, history, bounds
  <2> QED BY <2>1, <2>2, CountsStay DEF IInv
<1>4. Fetching'
  BY RefreshAssumption DEF IInv, TypeOK, Rows, Workers, Places, Fetching, Gone, Publish, To,
     jobVars, handVars, ctxVars, history, bounds
<1>5. Ghosts'
  BY RefreshAssumption DEF IInv, TypeOK, Rows, Workers, Places, Ghosts, Gone, MutexFree, Publish,
     To, jobVars, handVars, ctxVars, history, bounds
<1>6. Promised'
  BY RefreshAssumption DEF IInv, TypeOK, Workers, Places, Promised, Invalidating, Notes,
     EditorSteps,
     JobSteps, Publish, To, jobVars, handVars, ctxVars, history, bounds
<1>7. Kept'
  BY RefreshAssumption DEF IInv, TypeOK, Registered, Rows, Configs, Workers, Places, Covered,
     Launching, LaunchedBy, Kept, Gone, Up, Idle, EditorSteps, Notes, JobSteps, Holding,
     Publish, To,
     jobVars, handVars, ctxVars, history, bounds
<1> QED BY <1>1, <1>2, <1>3, <1>4, <1>5, <1>6, <1>7 DEF IInv

\* A round ends with another one, with a record or without.
LEMMA EndRoundKeeps ==
  ASSUME IInv, NEW s \in Sources, EndRound(s)
  PROVE  IInv'
<1>1. TypeOK'
  BY RefreshAssumption DEF IInv, TypeOK, Rows, Configs, Steps, Notes, Holding, Workers, Gone,
     Places,
     EditorSteps, JobSteps, EndRound, Cancelled, To, jobVars, handVars, ctxVars, history, bounds
<1>2. Places' /\ Registered'
  BY RefreshAssumption DEF IInv, TypeOK, Workers, Places, Registered, EditorSteps, Notes,
     JobSteps,
     Holding, Idle, EndRound, Cancelled, To, jobVars, handVars, ctxVars, history, bounds
<1>3. Counted'
  <2>1. wg' = wg /\ sem' = sem
    BY DEF EndRound, Cancelled, To, jobVars, handVars, ctxVars, history, bounds
  <2>2. \A x \in Sources : running'[x] = running[x] /\ (at'[x] \in Holding <=> at[x] \in Holding)
    BY RefreshAssumption DEF IInv, TypeOK, Workers, Places, EditorSteps, Notes, JobSteps,
       Holding,
       EndRound, Cancelled, To, jobVars, handVars, ctxVars, history, bounds
  <2> QED BY <2>1, <2>2, CountsStay DEF IInv
<1>4. Fetching'
  BY RefreshAssumption DEF IInv, TypeOK, Rows, Workers, Places, Fetching, Gone, EndRound,
     Cancelled, To, jobVars, handVars, ctxVars, history, bounds
<1>5. Ghosts'
  BY RefreshAssumption DEF IInv, TypeOK, Rows, Workers, Places, Ghosts, Gone, MutexFree,
     EndRound, Cancelled, To, jobVars, handVars, ctxVars, history, bounds
<1>6. Promised'
  BY RefreshAssumption DEF IInv, TypeOK, Workers, Places, Promised, Invalidating, Notes,
     EditorSteps,
     JobSteps, EndRound, Cancelled, To, jobVars, handVars, ctxVars, history, bounds
<1>7. Kept'
  BY RefreshAssumption DEF IInv, TypeOK, Registered, Rows, Configs, Workers, Places, Covered,
     Launching, LaunchedBy, Kept, Gone, Up, Idle, EditorSteps, Notes, JobSteps, Holding,
     EndRound,
     Cancelled, To, jobVars, handVars, ctxVars, history, bounds
<1> QED BY <1>1, <1>2, <1>3, <1>4, <1>5, <1>6, <1>7 DEF IInv

\* The result is recorded while the source cannot be forgotten.
LEMMA RecordKeeps ==
  ASSUME IInv, NEW s \in Sources, Record(s)
  PROVE  IInv'
<1>1. TypeOK'
  BY RefreshAssumption DEF IInv, TypeOK, Rows, Configs, Steps, Notes, Holding, Workers, Gone,
     Places,
     EditorSteps, JobSteps, Record, To, jobVars, handVars, ctxVars, history, bounds
<1>2. Places' /\ Registered'
  BY RefreshAssumption DEF IInv, TypeOK, Workers, Places, Registered, EditorSteps, Notes,
     JobSteps,
     Holding, Idle, Record, To, jobVars, handVars, ctxVars, history, bounds
<1>3. Counted'
  <2>1. wg' = wg /\ sem' = sem
    BY DEF Record, To, jobVars, handVars, ctxVars, history, bounds
  <2>2. \A x \in Sources : running'[x] = running[x] /\ (at'[x] \in Holding <=> at[x] \in Holding)
    BY RefreshAssumption DEF IInv, TypeOK, Workers, Places, EditorSteps, Notes, JobSteps,
       Holding,
       Record, To, jobVars, handVars, ctxVars, history, bounds
  <2> QED BY <2>1, <2>2, CountsStay DEF IInv
<1>4. Fetching'
  BY RefreshAssumption DEF IInv, TypeOK, Rows, Workers, Places, Fetching, Gone, Record, To,
     jobVars, handVars, ctxVars, history, bounds
<1>5. Ghosts'
  BY RefreshAssumption DEF IInv, TypeOK, Rows, Workers, Places, Ghosts, Gone, MutexFree, Record,
     To, jobVars, handVars, ctxVars, history, bounds
<1>6. Promised'
  BY RefreshAssumption DEF IInv, TypeOK, Workers, Places, Promised, Invalidating, Notes,
     EditorSteps,
     JobSteps, Record, To, jobVars, handVars, ctxVars, history, bounds
<1>7. Kept'
  BY RefreshAssumption DEF IInv, TypeOK, Registered, Rows, Configs, Workers, Places, Covered,
     Launching, LaunchedBy, Kept, Gone, Up, Idle, EditorSteps, Notes, JobSteps, Holding, Record,
     To,
     jobVars, handVars, ctxVars, history, bounds
<1> QED BY <1>1, <1>2, <1>3, <1>4, <1>5, <1>6, <1>7 DEF IInv

\* A job leaves the source or its follow-up takes over.
LEMMA LeaveKeeps ==
  ASSUME IInv, NEW s \in Sources, Leave(s)
  PROVE  IInv'
<1>a. \/ /\ pending[s] /\ Up /\ wg' = (wg + 1) - 1 /\ To(s, "queued") /\ UNCHANGED <<running, pending>>
      \/ /\ ~(pending[s] /\ Up) /\ wg' = wg - 1 /\ To(s, "idle")
         /\ running' = [running EXCEPT ![s] = FALSE] /\ pending' = [pending EXCEPT ![s] = FALSE]
  BY DEF Leave
<1>b. /\ at[s] \in {"leave", "quit"} /\ running[s]
      /\ sem' = IF at[s] = "leave" THEN sem - 1 ELSE sem
  BY DEF Leave, Release, IInv, Registered, Idle
<1>3. Counted'
  <2>1. sem' = Cardinality({x \in Sources : at'[x] \in Holding})
    <3>1. {x \in Sources : at'[x] \in Holding} = {x \in Sources : at[x] \in Holding} \ {s}
      BY <1>a DEF To, IInv, TypeOK, Workers, Holding
    <3>2. s \in {x \in Sources : at[x] \in Holding} <=> at[s] = "leave"
      BY <1>b DEF Holding
    <3>3. CASE at[s] = "leave"
      BY <1>b, <3>1, <3>2, <3>3, SourceSets DEF IInv, Counted
    <3>4. CASE at[s] # "leave"
      BY <1>b, <3>1, <3>2, <3>4 DEF IInv, Counted
    <3> QED BY <3>3, <3>4
  <2>2. wg' = Cardinality({x \in Sources : running'[x]})
    <3>1. CASE pending[s] /\ Up
      BY <1>a, <3>1, SourceSets DEF IInv, Counted
    <3>2. CASE ~(pending[s] /\ Up)
      <4>1. {x \in Sources : running'[x]} = {x \in Sources : running[x]} \ {s}
        BY <1>a, <3>2 DEF IInv, TypeOK
      <4> QED BY <1>a, <1>b, <3>2, <4>1, SourceSets DEF IInv, Counted
    <3> QED BY <3>1, <3>2
  <2> QED BY <2>1, <2>2 DEF Counted
<1>1. TypeOK'
  <2>1. sem' \in 0..Slots
    <3>1. CASE at[s] = "leave"
      <4>1. s \in {x \in Sources : at[x] \in Holding}
        BY <3>1 DEF Holding
      <4>2. sem > 0
        BY <4>1, SourceSets DEF IInv, Counted
      <4>3. sem \in 0..Slots /\ sem' = sem - 1
        BY <3>1, <1>b DEF IInv, TypeOK
      <4> QED BY <4>2, <4>3, RefreshAssumption
    <3>2. CASE at[s] # "leave"
      BY <3>2, <1>b DEF IInv, TypeOK
    <3> QED BY <3>1, <3>2
  <2>2. wg' \in 0..Cardinality(Sources)
    BY <1>3, SourceSets DEF Counted
  <2>3. /\ at' \in [Workers -> Steps] /\ running' \in [Sources -> BOOLEAN]
        /\ pending' \in [Sources -> BOOLEAN]
    BY <1>a DEF To, IInv, TypeOK, Workers, Steps, Notes
  <2> QED BY <2>1, <2>2, <2>3 DEF IInv, TypeOK, Leave, handVars, history, bounds
<1>2. Places' /\ Registered'
  <2>1. \E q \in {"queued", "idle"} : at' = [at EXCEPT ![s] = q]
    BY <1>a DEF To
  <2>2. Places'
    BY <2>1, RefreshAssumption DEF IInv, TypeOK, Workers, Places, EditorSteps, Notes, JobSteps,
       Leave,
       handVars
  <2>3. \A x \in Sources \ {s} : /\ at'[x] = at[x] /\ running'[x] = running[x]
                                 /\ pending'[x] = pending[x]
    BY <1>a DEF To, IInv, TypeOK, Workers
  <2>4. (running'[s] <=> at'[s] \notin {"idle", "absent"}) /\ (pending'[s] => running'[s])
    BY <1>a, <1>b DEF To, IInv, TypeOK, Workers
  <2> QED BY <2>2, <2>3, <2>4 DEF IInv, Registered, Idle
<1>4. Fetching'
  BY RefreshAssumption DEF IInv, TypeOK, Rows, Workers, Places, Fetching, Gone, Leave, Release,
     To, jobVars, handVars, ctxVars, history, bounds
<1>5. Ghosts'
  BY RefreshAssumption DEF IInv, TypeOK, Rows, Workers, Places, Ghosts, Gone, MutexFree, Leave,
     Release, To, jobVars, handVars, ctxVars, history, bounds
<1>6. Promised'
  BY RefreshAssumption DEF IInv, TypeOK, Workers, Places, Promised, Invalidating, Notes,
     EditorSteps,
     JobSteps, Leave, Release, To, jobVars, handVars, ctxVars, history, bounds
<1>7. Kept'
  <2>0. /\ over' = [over EXCEPT ![s] = FALSE] /\ dropped' \in {dropped, [dropped EXCEPT ![s] = FALSE]}
        /\ UNCHANGED <<row, handVars, life, wanted, tried>>
    BY DEF Leave
  <2>1. ASSUME NEW x \in Sources
        PROVE  /\ over'[x] => dropped'[x]
               /\ wanted'[x] # 0 => row'[x].cfg = wanted'[x]
    BY <2>0 DEF IInv, TypeOK, Kept
  <2>2. ASSUME NEW x \in Sources, Up'
        PROVE  Covered(x)'
    <3>1. Covered(x) /\ Up
      BY <2>0, <2>2 DEF IInv, Kept, Up
    <3>2. CASE x # s
      <4>1. /\ at'[x] = at[x] /\ running'[x] = running[x] /\ pending'[x] = pending[x]
            /\ dropped'[x] = dropped[x]
        BY <1>a, <2>0, <3>2 DEF To, IInv, TypeOK, Workers
      <4>2. \A g \in Editors : at'[g] = at[g]
        BY <1>a, RefreshAssumption DEF To, IInv, TypeOK, Workers
      <4> QED BY <2>0, <3>1, <4>1, <4>2 DEF Covered, Launching, LaunchedBy, handVars
    <3>3. CASE x = s /\ pending[s]
      <4>1. at'[x] = "queued"
        BY <1>a, <3>1, <3>3 DEF To, IInv, TypeOK, Workers
      <4> QED BY <4>1 DEF Covered
    <3>4. CASE x = s /\ ~pending[s]
      <4>1. /\ \A g \in Editors : at'[g] = at[g]
            /\ ~running'[s] /\ dropped' = dropped
        BY <1>a, <3>4, RefreshAssumption DEF Leave, To, IInv, TypeOK, Workers
      <4> QED BY <1>b, <2>0, <3>1, <3>4, <4>1 DEF Covered, Launching, LaunchedBy, handVars
    <3> QED BY <3>2, <3>3, <3>4
  <2> QED BY <2>1, <2>2 DEF Kept
<1> QED BY <1>1, <1>2, <1>3, <1>4, <1>5, <1>6, <1>7 DEF IInv

\* A source that is registered gets a job that is queued.
LEMMA BeginKeeps ==
  ASSUME IInv, NEW s \in Sources, NEW b \in BOOLEAN, CanBegin(s), Register(s, b),
         at' \in [Workers -> Steps], at'[s] = "queued",
         \A w \in Workers \ {s} : at'[w] = at[w] \/ (/\ w \in Editors /\ on[w] = s
                                                  /\ at[w] = "launch" /\ at'[w] = "idle"),
         clicks' \in Nat,
         UNCHANGED <<row, models, pending, last, sem, handVars, outcome, owed, life, stale,
                     cutOff, wanted, tried, edits, cancels, timeouts>>
  PROVE  IInv'
<1>0. /\ ~running[s] /\ at[s] \in {"idle", "absent"}
      /\ running' = [running EXCEPT ![s] = TRUE] /\ wg' = wg + 1
      /\ caller' = [caller EXCEPT ![s] = b] /\ over' = [over EXCEPT ![s] = FALSE]
      /\ dropped' = [dropped EXCEPT ![s] = FALSE]
  BY DEF IInv, Registered, Idle, CanBegin, Register
<1>a. /\ sem' = sem
      /\ wg' = Cardinality({x \in Sources : running'[x]}) /\ wg' \in 0..Cardinality(Sources)
  <2>1. {x \in Sources : running'[x]} = {x \in Sources : running[x]} \cup {s}
    BY <1>0 DEF IInv, TypeOK
  <2> QED BY <1>0, <2>1, SourceSets DEF IInv, Counted
<1>1. TypeOK'
  BY RefreshAssumption, <1>0, <1>a DEF IInv, TypeOK, Rows, Configs, Steps, Notes, Holding,
     Workers,
     Gone, Places, EditorSteps, JobSteps, handVars, history
<1>2. Places' /\ Registered'
  <2>1. \A x \in Sources \ {s} : at'[x] = at[x] /\ running'[x] = running[x]
    BY <1>0, RefreshAssumption DEF IInv, TypeOK, Workers
  <2>2. \A e \in Editors : at'[e] \in {at[e], "idle"}
    BY RefreshAssumption DEF Workers
  <2>3. Places'
    BY <2>1, <2>2 DEF IInv, Places, EditorSteps, Notes, JobSteps, handVars
  <2>4. running'[s] /\ at'[s] \notin {"idle", "absent"} /\ pending' = pending
    BY <1>0 DEF IInv, TypeOK
  <2> QED BY <2>1, <2>3, <2>4 DEF IInv, Registered, Idle
<1>3. Counted'
  <2>1. {x \in Sources : at'[x] \in Holding} = {x \in Sources : at[x] \in Holding}
    BY <1>0, RefreshAssumption DEF IInv, TypeOK, Workers, Holding
  <2> QED BY <1>a, <2>1 DEF IInv, Counted
<1>4. Fetching'
  BY RefreshAssumption, <1>0, <1>a DEF IInv, TypeOK, Rows, Workers, Places, Fetching, Gone,
     handVars, history
<1>5. Ghosts'
  <2>1. \A x \in Sources : at'[x] = "record" => at[x] = "record"
    BY RefreshAssumption DEF Workers
  <2>2. \A e \in Editors : at[e] = "forget" => at'[e] = "forget"
    BY RefreshAssumption DEF Workers
  <2> QED BY <2>1, <2>2 DEF IInv, Ghosts, handVars
<1>6. Promised'
  BY RefreshAssumption, <1>0, <1>a DEF IInv, TypeOK, Workers, Places, Promised, Invalidating,
     Notes,
     EditorSteps, JobSteps, handVars, history
<1>7. Kept'
  <2>1. ASSUME NEW x \in Sources
        PROVE  /\ over'[x] => dropped'[x]
               /\ wanted'[x] # 0 => row'[x].cfg = wanted'[x]
    BY RefreshAssumption, <1>0, <1>a DEF IInv, TypeOK, Rows, Configs, Workers, Kept, Gone,
       handVars, history
  <2>2. ASSUME NEW x \in Sources, Up'
        PROVE  Covered(x)'
    <3>1. Covered(x)
      BY <2>2, <1>0, <1>a DEF IInv, Kept, Up, handVars, history
    <3>2. CASE Launching(x)
      <4> PICK g \in Editors : LaunchedBy(g, x)
        BY <3>2 DEF Launching
      <4>1. CASE x = s
        BY <4>1 DEF Covered
      <4>2. CASE x # s
        <5>1. at'[g] = at[g] /\ running'[x] = running[x]
          BY <4>2, <1>0, RefreshAssumption DEF LaunchedBy, IInv, TypeOK, Workers
        <5> QED BY <5>1 DEF Covered, Launching, LaunchedBy, handVars
      <4> QED BY <4>1, <4>2
    <3>3. CASE ~Launching(x)
      BY <2>2, <3>1, <3>3, RefreshAssumption, <1>0, <1>a DEF IInv, TypeOK, Registered, Rows,
         Configs, Workers, Places, Covered, Launching, LaunchedBy, Kept, Gone, Up, Idle,
         EditorSteps, Notes, JobSteps, Holding, handVars, history
    <3> QED BY <3>2, <3>3
  <2> QED BY <2>1, <2>2 DEF Kept
<1> QED BY <1>1, <1>2, <1>3, <1>4, <1>5, <1>6, <1>7 DEF IInv

\* A round that ends has tried its configuration, or was cut short by the end of its
\* context, which is excused, by the end of the server, or by the deletion of the source.
LEMMA RoundEnds ==
  ASSUME IInv, NEW w \in Workers, NEW ok \in BOOLEAN, Returns(w, ok),
         at[w] \in {"read", "fetch", "sync", "evidence"},
         at[w] = "read" => Cancelled(w) \/ row[on[w]] = Gone,
         stale' = stale, cutOff' \in BOOLEAN, cutOff => cutOff',
         at[w] = "evidence" /\ ~ok /\ stale => cutOff',
         UNCHANGED <<row, models, jobVars, on, auto, ctxVars, life, wanted, dropped, bounds>>
  PROVE  IInv'
<1> PICK q : q = IF w \in Sources THEN IF ok THEN "publish" ELSE "check"
                 ELSE IF ok THEN "last" ELSE "idle"
  OBVIOUS
<1>0. /\ at' = [at EXCEPT ![w] = q] /\ snap' = [snap EXCEPT ![w] = Gone]
      /\ q \in {"publish", "check", "last", "idle"} /\ (w \in Sources <=> q \in {"publish", "check"})
      /\ ok => q \in {"publish", "last"}
      /\ outcome' \in [Sources -> {"none", "ok", "error"}]
  BY DEF Returns, To, IInv, TypeOK
<1>a. /\ tried' \in [Sources -> Configs] /\ \A x \in Sources : tried[x] <= tried'[x]
      /\ ~Cancelled(w) => snap[w].cfg <= tried'[on[w]]
  BY DEF Returns, IInv, TypeOK, Rows, Configs
<1>b. w \in Sources /\ Up /\ Cancelled(w) => over[w]
  BY DEF Cancelled
<1>c. w \in Editors => ~Cancelled(w)
  BY RefreshAssumption DEF Cancelled
<1>1. TypeOK'
  BY RefreshAssumption, <1>0, <1>a, <1>b, <1>c DEF IInv, TypeOK, Rows, Configs, Steps, Notes,
     Holding,
     Workers, Gone, Places, EditorSteps, JobSteps, jobVars, ctxVars, bounds
<1>2. Places' /\ Registered'
  BY RefreshAssumption, <1>0, <1>a, <1>b, <1>c DEF IInv, TypeOK, Workers, Places, Registered,
     EditorSteps, Notes, JobSteps, Holding, Idle, jobVars, ctxVars, bounds
<1>3. Counted'
  <2>1. \A x \in Sources : running'[x] = running[x] /\ (at'[x] \in Holding <=> at[x] \in Holding)
    BY RefreshAssumption, <1>0, <1>a, <1>b, <1>c DEF IInv, TypeOK, Workers, Places, EditorSteps,
       Notes,
       JobSteps, Holding, jobVars, ctxVars, bounds
  <2> QED BY <1>0, <1>a, <1>b, <1>c, <2>1, CountsStay DEF IInv, jobVars
<1>4. Fetching'
  BY RefreshAssumption, <1>0, <1>a, <1>b, <1>c DEF IInv, TypeOK, Rows, Workers, Places, Fetching,
     Gone, jobVars, ctxVars, bounds
<1>5. Ghosts'
  BY RefreshAssumption, <1>0, <1>a, <1>b, <1>c DEF IInv, TypeOK, Rows, Workers, Places, Ghosts,
     Gone, jobVars, ctxVars, bounds
<1>6. Promised'
  BY RefreshAssumption, <1>0, <1>a, <1>b, <1>c DEF IInv, TypeOK, Workers, Places, Promised,
     Invalidating, Notes, EditorSteps, JobSteps, jobVars, ctxVars, bounds
<1>7. Kept'
  <2>1. ASSUME NEW x \in Sources
        PROVE  /\ over'[x] => dropped'[x]
               /\ wanted'[x] # 0 => row'[x].cfg = wanted'[x]
    BY RefreshAssumption, <1>0, <1>a, <1>b, <1>c DEF IInv, TypeOK, Rows, Configs, Workers, Kept,
       Gone, jobVars, ctxVars, bounds
  <2>2. ASSUME NEW x \in Sources, Up'
        PROVE  Covered(x)'
    <3>1. Covered(x)
      BY <2>2, <1>0, <1>a, <1>b, <1>c DEF IInv, Kept, Up, jobVars, ctxVars, bounds
    <3>2. CASE Launching(x)
      <4> PICK g \in Editors : LaunchedBy(g, x)
        BY <3>2 DEF Launching
      <4> QED
        BY <2>2, RefreshAssumption, <1>0, <1>a, <1>b, <1>c DEF IInv, TypeOK, Registered, Rows,
           Configs, Workers, Places, Covered, Launching, LaunchedBy, Gone, Up, Idle,
           EditorSteps, Notes,
           JobSteps, Holding, jobVars, ctxVars, bounds
    <3>3. CASE x # w /\ ~Launching(x)
      <4>1. at'[x] = at[x] /\ snap'[x] = snap[x]
        BY <3>3, <1>0 DEF IInv, TypeOK, Workers
      <4>2. tried[x] <= tried'[x] /\ tried[x] \in Nat /\ tried'[x] \in Nat /\ wanted[x] \in Nat
        BY <1>a DEF IInv, TypeOK, Configs
      <4> QED BY <3>1, <3>3, <4>1, <4>2 DEF Covered, jobVars
    <3>4. CASE x = w /\ ~Launching(x)
      <4>1. on[w] = x /\ (wanted[x] # 0 => row[x].cfg = wanted[x]) /\ (over[x] => dropped[x])
        BY <3>4 DEF IInv, Places, Kept
      <4>2. /\ wanted[x] \in Nat /\ tried[x] \in Nat /\ tried'[x] \in Nat
            /\ snap[x].cfg \in Nat
        BY <1>a DEF IInv, TypeOK, Configs, Rows, Workers
      <4>3. CASE Cancelled(w)
        BY <2>2, <3>4, <4>1, <4>3, <1>b DEF Covered, Up
      <4>4. CASE ~Cancelled(w) /\ at[w] = "read"
        BY <3>4, <4>1, <4>2, <4>4 DEF Covered, Gone
      <4>5. CASE ~Cancelled(w) /\ at[w] # "read"
        BY <3>1, <3>4, <4>1, <4>2, <4>5, <1>a DEF Covered, jobVars
      <4> QED BY <4>3, <4>4, <4>5
    <3> QED BY <3>2, <3>3, <3>4
  <2> QED BY <2>1, <2>2 DEF Kept
<1> QED BY <1>1, <1>2, <1>3, <1>4, <1>5, <1>6, <1>7 DEF IInv

\* The row is read: what the round will try is what the row says.
LEMMA ReadSourceKeeps ==
  ASSUME IInv, NEW w \in Workers, ReadSource(w)
  PROVE  IInv'
<1>a. CASE Cancelled(w) \/ row[on[w]] = Gone
  BY <1>a, RoundEnds DEF ReadSource, IInv, TypeOK
<1>b. CASE ~Cancelled(w) /\ row[on[w]] # Gone
  <2> PICK s \in Sources : s = on[w] /\ (w \in Sources => w = s)
    BY DEF IInv, TypeOK, Places
  <2> PICK q : q = IF row[s].auto THEN "fetch" ELSE "sync"
    OBVIOUS
  <2>0. /\ at[w] = "read" /\ at' = [at EXCEPT ![w] = q] /\ q \in {"fetch", "sync"}
        /\ snap' = [snap EXCEPT ![w] = row[s]] /\ (q = "fetch" => row[s].auto)
        /\ UNCHANGED <<row, models, jobVars, on, auto, ctxVars, life, history, outcome, bounds>>
    BY <1>b DEF ReadSource, To, history
  <2>a. row[s] \in Rows
    BY DEF IInv, TypeOK
  <2>1. TypeOK'
    BY <2>0, <2>a DEF IInv, TypeOK, Steps, Notes, Holding, jobVars, ctxVars, history, bounds
  <2>2. Places' /\ Registered'
    BY RefreshAssumption, <2>0 DEF IInv, TypeOK, Workers, Places, Registered, EditorSteps, Notes,
       JobSteps, Holding, Idle, jobVars, ctxVars, history, bounds
  <2>3. Counted'
    <3>1. \A x \in Sources : running'[x] = running[x] /\ (at'[x] \in Holding <=> at[x] \in Holding)
      BY RefreshAssumption, <2>0 DEF IInv, TypeOK, Workers, Places, EditorSteps, Notes, JobSteps,
         Holding, jobVars, ctxVars, history, bounds
    <3> QED BY <2>0, <3>1, CountsStay DEF IInv, jobVars
  <2>4. Fetching'
    BY <2>0 DEF IInv, TypeOK, Fetching
  <2>5. Ghosts'
    BY RefreshAssumption, <2>0 DEF IInv, TypeOK, Rows, Workers, Places, Ghosts, Gone, jobVars,
       ctxVars, history, bounds
  <2>6. Promised'
    BY RefreshAssumption, <2>0 DEF IInv, TypeOK, Workers, Places, Promised, Invalidating, Notes,
       EditorSteps, JobSteps, jobVars, ctxVars, history, bounds
  <2>7. Kept'
    <3>1. ASSUME NEW x \in Sources
          PROVE  /\ over'[x] => dropped'[x]
                 /\ wanted'[x] # 0 => row'[x].cfg = wanted'[x]
      BY RefreshAssumption, <2>0 DEF IInv, TypeOK, Rows, Configs, Workers, Kept, Gone, jobVars,
         ctxVars, history, bounds
    <3>2. ASSUME NEW x \in Sources, Up'
          PROVE  Covered(x)'
      <4>1. Covered(x)
        BY <3>2, <2>0 DEF IInv, Kept, Up, jobVars, ctxVars, history, bounds
      <4>2. CASE Launching(x)
        <5> PICK g \in Editors : LaunchedBy(g, x)
          BY <4>2 DEF Launching
        <5> QED
          BY <3>2, RefreshAssumption, <2>0 DEF IInv, TypeOK, Registered, Rows, Configs, Workers,
             Places, Covered, Launching, LaunchedBy, Gone, Up, Idle, EditorSteps, Notes,
             JobSteps, Holding,
             jobVars, ctxVars, history, bounds
      <4>3. CASE x # w /\ ~Launching(x)
        <5>1. at'[x] = at[x] /\ snap'[x] = snap[x]
          BY <4>3, <2>0 DEF IInv, TypeOK, Workers
        <5> QED BY <2>0, <4>1, <4>3, <5>1 DEF Covered, jobVars, history
      <4>4. CASE x = w
        <5>1. at'[x] \in {"fetch", "sync"} /\ snap'[x].cfg = row[x].cfg
          BY <4>4, <2>0 DEF IInv, TypeOK, Workers
        <5>2. /\ wanted[x] \in Nat /\ tried[x] \in Nat /\ wanted' = wanted /\ tried' = tried
              /\ (wanted[x] # 0 => row[x].cfg = wanted[x])
          BY <2>0 DEF IInv, TypeOK, Configs, Kept, history
        <5> QED BY <5>1, <5>2 DEF Covered
      <4> QED BY <4>2, <4>3, <4>4
    <3> QED BY <3>1, <3>2 DEF Kept
  <2> QED BY <2>1, <2>2, <2>3, <2>4, <2>5, <2>6, <2>7 DEF IInv
<1> QED BY <1>a, <1>b

\* What was fetched is stored if the row is still the one it was fetched for.
LEMMA CommitSourceRefreshKeeps ==
  ASSUME IInv, NEW w \in Workers, CommitSourceRefresh(w)
  PROVE  IInv'
<1>a. CASE ~Unchanged(w)
  BY <1>a, RoundEnds DEF CommitSourceRefresh, IInv, TypeOK
<1>b. CASE Unchanged(w)
  <2> PICK s \in Sources : s = on[w]
    BY DEF IInv, TypeOK
  <2>a. row[s] \in Rows
    BY DEF IInv, TypeOK
  <2> PICK r \in Rows : r = [row[s] EXCEPT !.rev = @ + 1] /\ r.cfg = row[s].cfg /\ r # Gone
    BY <2>a, Touched
  <2>b. /\ at[w] = "fetch" /\ To(w, "evidence") /\ stale' = TRUE /\ row[s] = snap[w]
        /\ row' = [row EXCEPT ![s].rev = @ + 1]
        /\ models' = [models EXCEPT ![s].fetched = snap[w].cfg]
        /\ UNCHANGED <<jobVars, on, snap, auto, ctxVars, life, cutOff, wanted, tried, dropped,
                       outcome, bounds>>
    BY <1>b DEF CommitSourceRefresh, Unchanged
  <2>c. /\ row' = [row EXCEPT ![s] = r] /\ row[s].auto /\ snap[w].cfg \in Configs
    BY <2>b, <2>a DEF IInv, TypeOK, Fetching, Rows
  <2>d. row[s] # Gone
    BY <2>c DEF Gone
  <2>e. models' \in [Sources -> [fetched : Configs, manual : Configs]]
    <3>1. [models[s] EXCEPT !.fetched = snap[w].cfg] \in [fetched : Configs, manual : Configs]
      <4>1. models[s] \in [fetched : Configs, manual : Configs]
        BY DEF IInv, TypeOK
      <4> QED BY <4>1, <2>c
    <3>2. models' = [models EXCEPT ![s] = [models[s] EXCEPT !.fetched = snap[w].cfg]]
      BY <2>b
    <3> QED BY <3>1, <3>2 DEF IInv, TypeOK
  <2>0. /\ at[w] = "fetch" /\ at' = [at EXCEPT ![w] = "evidence"] /\ stale'
        /\ row' = [row EXCEPT ![s] = r] /\ row[s] # Gone
        /\ models' \in [Sources -> [fetched : Configs, manual : Configs]]
        /\ UNCHANGED <<jobVars, on, snap, auto, ctxVars, life, cutOff, wanted, tried, dropped,
                       outcome, bounds>>
    BY <2>b, <2>c, <2>d, <2>e DEF To
  <2>1. TypeOK'
    BY RefreshAssumption, <2>0 DEF IInv, TypeOK, Rows, Configs, Steps, Notes, Holding, Workers,
       Gone,
       Places, EditorSteps, JobSteps, jobVars, ctxVars, bounds
  <2>2. Places' /\ Registered'
    BY RefreshAssumption, <2>0 DEF IInv, TypeOK, Workers, Places, Registered, EditorSteps, Notes,
       JobSteps, Holding, Idle, jobVars, ctxVars, bounds
  <2>3. Counted'
    <3>1. \A x \in Sources : running'[x] = running[x] /\ (at'[x] \in Holding <=> at[x] \in Holding)
      BY RefreshAssumption, <2>0 DEF IInv, TypeOK, Workers, Places, EditorSteps, Notes, JobSteps,
         Holding, jobVars, ctxVars, bounds
    <3> QED BY <2>0, <3>1, CountsStay DEF IInv, jobVars
  <2>4. Fetching'
    BY RefreshAssumption, <2>0 DEF IInv, TypeOK, Rows, Workers, Places, Fetching, Gone, jobVars,
       ctxVars, bounds
  <2>5. Ghosts'
    BY RefreshAssumption, <2>0 DEF IInv, TypeOK, Rows, Workers, Places, Ghosts, Gone, jobVars,
       ctxVars, bounds
  <2>6. Promised'
    BY RefreshAssumption, <2>0 DEF IInv, TypeOK, Workers, Places, Promised, Invalidating, Notes,
       EditorSteps, JobSteps, jobVars, ctxVars, bounds
  <2>7. Kept'
    <3>1. ASSUME NEW x \in Sources
          PROVE  /\ over'[x] => dropped'[x]
                 /\ wanted'[x] # 0 => row'[x].cfg = wanted'[x]
      BY RefreshAssumption, <2>0 DEF IInv, TypeOK, Rows, Configs, Workers, Kept, Gone, jobVars,
         ctxVars, bounds
    <3>2. ASSUME NEW x \in Sources, Up'
          PROVE  Covered(x)'
      <4>1. Covered(x)
        BY <3>2, <2>0 DEF IInv, Kept, Up, jobVars, ctxVars, bounds
      <4>2. CASE Launching(x)
        <5> PICK g \in Editors : LaunchedBy(g, x)
          BY <4>2 DEF Launching
        <5> QED
          BY <3>2, RefreshAssumption, <2>0 DEF IInv, TypeOK, Registered, Rows, Configs, Workers,
             Places, Covered, Launching, LaunchedBy, Gone, Up, Idle, EditorSteps, Notes,
             JobSteps, Holding,
             jobVars, ctxVars, bounds
      <4>3. CASE ~Launching(x)
        BY <3>2, <4>1, <4>3, RefreshAssumption, <2>0 DEF IInv, TypeOK, Registered, Rows, Configs,
           Workers, Places, Covered, Launching, LaunchedBy, Kept, Gone, Up, Idle, EditorSteps,
           Notes,
           JobSteps, Holding, jobVars, ctxVars, bounds
      <4> QED BY <4>2, <4>3
    <3> QED BY <3>1, <3>2 DEF Kept
  <2> QED BY <2>1, <2>2, <2>3, <2>4, <2>5, <2>6, <2>7 DEF IInv
<1> QED BY <1>a, <1>b

\* The manual models replace what is there.
LEMMA SyncManualSourceModelsKeeps ==
  ASSUME IInv, NEW w \in Workers, SyncManualSourceModels(w)
  PROVE  IInv'
<1>a. CASE Cancelled(w)
  BY <1>a, RoundEnds DEF SyncManualSourceModels, IInv, TypeOK
<1>b. CASE ~Cancelled(w)
  <2>b. /\ at[w] = "sync" /\ To(w, "evidence") /\ stale' = TRUE
        /\ models' = [models EXCEPT ![on[w]] = [fetched |-> 0, manual |-> snap[w].cfg]]
        /\ UNCHANGED <<row, jobVars, on, snap, auto, ctxVars, life, cutOff, wanted, tried,
                       dropped, outcome, bounds>>
    BY <1>b DEF SyncManualSourceModels
  <2>c. [fetched |-> 0, manual |-> snap[w].cfg] \in [fetched : Configs, manual : Configs]
    BY RefreshAssumption DEF IInv, TypeOK, Rows, Configs
  <2>0. /\ at[w] = "sync" /\ at' = [at EXCEPT ![w] = "evidence"] /\ stale'
        /\ models' \in [Sources -> [fetched : Configs, manual : Configs]]
        /\ UNCHANGED <<row, jobVars, on, snap, auto, ctxVars, life, cutOff, wanted, tried,
                       dropped, outcome, bounds>>
    BY <2>b, <2>c DEF To, IInv, TypeOK
  <2>1. TypeOK'
    BY RefreshAssumption, <2>0 DEF IInv, TypeOK, Rows, Configs, Steps, Notes, Holding, Workers,
       Gone,
       Places, EditorSteps, JobSteps, jobVars, ctxVars, bounds
  <2>2. Places' /\ Registered'
    BY RefreshAssumption, <2>0 DEF IInv, TypeOK, Workers, Places, Registered, EditorSteps, Notes,
       JobSteps, Holding, Idle, jobVars, ctxVars, bounds
  <2>3. Counted'
    <3>1. \A x \in Sources : running'[x] = running[x] /\ (at'[x] \in Holding <=> at[x] \in Holding)
      BY RefreshAssumption, <2>0 DEF IInv, TypeOK, Workers, Places, EditorSteps, Notes, JobSteps,
         Holding, jobVars, ctxVars, bounds
    <3> QED BY <2>0, <3>1, CountsStay DEF IInv, jobVars
  <2>4. Fetching'
    BY RefreshAssumption, <2>0 DEF IInv, TypeOK, Rows, Workers, Places, Fetching, Gone, jobVars,
       ctxVars, bounds
  <2>5. Ghosts'
    BY RefreshAssumption, <2>0 DEF IInv, TypeOK, Rows, Workers, Places, Ghosts, Gone, jobVars,
       ctxVars, bounds
  <2>6. Promised'
    BY RefreshAssumption, <2>0 DEF IInv, TypeOK, Workers, Places, Promised, Invalidating, Notes,
       EditorSteps, JobSteps, jobVars, ctxVars, bounds
  <2>7. Kept'
    <3>1. ASSUME NEW x \in Sources
          PROVE  /\ over'[x] => dropped'[x]
                 /\ wanted'[x] # 0 => row'[x].cfg = wanted'[x]
      BY RefreshAssumption, <2>0 DEF IInv, TypeOK, Rows, Configs, Workers, Kept, Gone, jobVars,
         ctxVars, bounds
    <3>2. ASSUME NEW x \in Sources, Up'
          PROVE  Covered(x)'
      <4>1. Covered(x)
        BY <3>2, <2>0 DEF IInv, Kept, Up, jobVars, ctxVars, bounds
      <4>2. CASE Launching(x)
        <5> PICK g \in Editors : LaunchedBy(g, x)
          BY <4>2 DEF Launching
        <5> QED
          BY <3>2, RefreshAssumption, <2>0 DEF IInv, TypeOK, Registered, Rows, Configs, Workers,
             Places, Covered, Launching, LaunchedBy, Gone, Up, Idle, EditorSteps, Notes,
             JobSteps, Holding,
             jobVars, ctxVars, bounds
      <4>3. CASE ~Launching(x)
        BY <3>2, <4>1, <4>3, RefreshAssumption, <2>0 DEF IInv, TypeOK, Registered, Rows, Configs,
           Workers, Places, Covered, Launching, LaunchedBy, Kept, Gone, Up, Idle, EditorSteps,
           Notes,
           JobSteps, Holding, jobVars, ctxVars, bounds
      <4> QED BY <4>2, <4>3
    <3> QED BY <3>1, <3>2 DEF Kept
  <2> QED BY <2>1, <2>2, <2>3, <2>4, <2>5, <2>6, <2>7 DEF IInv
<1> QED BY <1>a, <1>b

\* Asking for the models fails.
LEMMA FetchFailsKeeps ==
  ASSUME IInv, NEW w \in Workers, FetchFails(w)
  PROVE  IInv'
BY RoundEnds DEF FetchFails, IInv, TypeOK

\* The evidence is refreshed, or the failure is told.
LEMMA RefreshEvidenceKeeps ==
  ASSUME IInv, NEW w \in Workers, RefreshEvidence(w)
  PROVE  IInv'
<1> PICK ok \in BOOLEAN : Returns(w, ok) /\ cutOff' = (cutOff \/ (stale /\ ~ok))
  BY DEF RefreshEvidence
<1>1. cutOff \in BOOLEAN /\ stale \in BOOLEAN
  BY DEF IInv, TypeOK
<1> QED BY <1>1, RoundEnds DEF RefreshEvidence

\* An editor's launch begins a job, or leaves his save to the one that is running.
LEMMA LaunchKeeps ==
  ASSUME IInv, NEW e \in Editors, Launch(e)
  PROVE  IInv'
<1> PICK s \in Sources : s = on[e]
  BY DEF IInv, TypeOK, Workers
<1>a. CASE CanBegin(s)
  <2>1. /\ Register(s, FALSE) /\ at' = [at EXCEPT ![e] = "idle", ![s] = "queued"] /\ at[e] = "launch"
        /\ UNCHANGED <<row, models, pending, last, sem, handVars, outcome, owed, life, stale, cutOff,
                       wanted, tried, bounds>>
    BY <1>a DEF Launch
  <2>2. /\ at' \in [Workers -> Steps] /\ at'[s] = "queued"
        /\ \A w \in Workers \ {s} : at'[w] = at[w] \/ (/\ w \in Editors /\ on[w] = s
                                                    /\ at[w] = "launch" /\ at'[w] = "idle")
    BY <2>1, RefreshAssumption DEF IInv, TypeOK, Workers, Steps, Notes
  <2> QED BY <1>a, <2>1, <2>2, BeginKeeps DEF bounds, IInv, TypeOK
<1>b. CASE ~CanBegin(s)
  <2>0. /\ at[e] = "launch" /\ at' = [at EXCEPT ![e] = "idle"] /\ (Up => running[s])
        /\ UNCHANGED <<row, models, jobVars, handVars, outcome, ctxVars, life, history, bounds>>
    BY <1>b DEF Launch, CanBegin, To, jobVars, ctxVars, history
  <2>1. TypeOK'
    BY RefreshAssumption, <2>0 DEF IInv, TypeOK, Rows, Configs, Steps, Notes, Holding, Workers,
       Gone,
       Places, EditorSteps, JobSteps, jobVars, handVars, ctxVars, history, bounds
  <2>2. Places' /\ Registered'
    BY RefreshAssumption, <2>0 DEF IInv, TypeOK, Workers, Places, Registered, EditorSteps, Notes,
       JobSteps, Holding, Idle, jobVars, handVars, ctxVars, history, bounds
  <2>3. Counted'
    <3>1. \A x \in Sources : running'[x] = running[x] /\ (at'[x] \in Holding <=> at[x] \in Holding)
      BY RefreshAssumption, <2>0 DEF IInv, TypeOK, Workers, Places, EditorSteps, Notes, JobSteps,
         Holding, jobVars, handVars, ctxVars, history, bounds
    <3> QED BY <2>0, <3>1, CountsStay DEF IInv, jobVars
  <2>4. Fetching'
    BY RefreshAssumption, <2>0 DEF IInv, TypeOK, Rows, Workers, Places, Fetching, Gone, jobVars,
       handVars, ctxVars, history, bounds
  <2>5. Ghosts'
    BY RefreshAssumption, <2>0 DEF IInv, TypeOK, Rows, Workers, Places, Ghosts, Gone, jobVars,
       handVars, ctxVars, history, bounds
  <2>6. Promised'
    BY RefreshAssumption, <2>0 DEF IInv, TypeOK, Workers, Places, Promised, Invalidating, Notes,
       EditorSteps, JobSteps, jobVars, handVars, ctxVars, history, bounds
  <2>7. Kept'
    <3>1. ASSUME NEW x \in Sources
          PROVE  /\ over'[x] => dropped'[x]
                 /\ wanted'[x] # 0 => row'[x].cfg = wanted'[x]
      BY RefreshAssumption, <2>0 DEF IInv, TypeOK, Rows, Configs, Workers, Kept, Gone, jobVars,
         handVars, ctxVars, history, bounds
    <3>2. ASSUME NEW x \in Sources, Up'
          PROVE  Covered(x)'
      <4>1. Covered(x)
        BY <3>2, <2>0 DEF IInv, Kept, Up, jobVars, handVars, ctxVars, history, bounds
      <4>2. CASE Launching(x)
        <5> PICK g \in Editors : LaunchedBy(g, x)
          BY <4>2 DEF Launching
        <5> QED
          BY <3>2, RefreshAssumption, <2>0 DEF IInv, TypeOK, Registered, Rows, Configs, Workers,
             Places, Covered, Launching, LaunchedBy, Gone, Up, Idle, EditorSteps, Notes,
             JobSteps, Holding,
             jobVars, handVars, ctxVars, history, bounds
      <4>3. CASE ~Launching(x)
        BY <3>2, <4>1, <4>3, RefreshAssumption, <2>0 DEF IInv, TypeOK, Registered, Rows, Configs,
           Workers, Places, Covered, Launching, LaunchedBy, Kept, Gone, Up, Idle, EditorSteps,
           Notes,
           JobSteps, Holding, jobVars, handVars, ctxVars, history, bounds
      <4> QED BY <4>2, <4>3
    <3> QED BY <3>1, <3>2 DEF Kept
  <2> QED BY <2>1, <2>2, <2>3, <2>4, <2>5, <2>6, <2>7 DEF IInv
<1> QED BY <1>a, <1>b

\* A click on a source begins a job.
LEMMA ClickKeeps ==
  ASSUME IInv, NEW s \in Sources, Click(s)
  PROVE  IInv'
<1>1. /\ at' \in [Workers -> Steps] /\ at'[s] = "queued" /\ clicks' \in Nat
      /\ \A w \in Workers \ {s} : at'[w] = at[w]
  BY DEF Click, To, IInv, TypeOK, Workers, Steps, Notes
<1> QED BY <1>1, BeginKeeps DEF Click

\* A caller begins a job on his own context, or owes an invalidation.
LEMMA CallerRefreshKeeps ==
  ASSUME IInv, NEW s \in Sources, CallerRefresh(s)
  PROVE  IInv'
<1>a. CASE CanBegin(s)
  <2>0. /\ Register(s, TRUE) /\ To(s, "queued") /\ clicks > 0 /\ clicks' = clicks - 1
        /\ UNCHANGED <<row, models, pending, last, sem, handVars, outcome, owed, life, stale, cutOff,
                       wanted, tried, edits, cancels, timeouts>>
    BY <1>a DEF CallerRefresh
  <2>1. /\ at' \in [Workers -> Steps] /\ at'[s] = "queued" /\ clicks' \in Nat
        /\ \A w \in Workers \ {s} : at'[w] = at[w]
    BY <2>0 DEF To, IInv, TypeOK, Workers, Steps, Notes
  <2> QED BY <1>a, <2>0, <2>1, BeginKeeps
<1>b. CASE ~CanBegin(s)
  <2>a. /\ clicks > 0 /\ clicks' = clicks - 1 /\ owed' = [owed EXCEPT ![s] = TRUE]
        /\ UNCHANGED <<running, wg, caller, over, dropped, at>>
        /\ UNCHANGED <<row, models, pending, last, sem, handVars, outcome, life, stale, cutOff,
                       wanted, tried, edits, cancels, timeouts>>
    BY <1>b DEF CallerRefresh
  <2>0. /\ clicks' \in Nat /\ owed' \in [Sources -> BOOLEAN]
        /\ UNCHANGED <<row, models, jobVars, at, handVars, outcome, caller, over, life, history,
                       edits, cancels, timeouts>>
    BY <2>a DEF IInv, TypeOK, jobVars, history
  <2>1. TypeOK'
    BY RefreshAssumption, <2>0 DEF IInv, TypeOK, Rows, Configs, Steps, Notes, Holding, Workers,
       Gone,
       Places, EditorSteps, JobSteps, jobVars, handVars, history
  <2>2. Places' /\ Registered'
    BY RefreshAssumption, <2>0 DEF IInv, TypeOK, Workers, Places, Registered, EditorSteps, Notes,
       JobSteps, Holding, Idle, jobVars, handVars, history
  <2>3. Counted'
    <3>1. \A x \in Sources : running'[x] = running[x] /\ (at'[x] \in Holding <=> at[x] \in Holding)
      BY RefreshAssumption, <2>0 DEF IInv, TypeOK, Workers, Places, EditorSteps, Notes, JobSteps,
         Holding, jobVars, handVars, history
    <3> QED BY <2>0, <3>1, CountsStay DEF IInv, jobVars
  <2>4. Fetching'
    BY RefreshAssumption, <2>0 DEF IInv, TypeOK, Rows, Workers, Places, Fetching, Gone, jobVars,
       handVars, history
  <2>5. Ghosts'
    BY RefreshAssumption, <2>0 DEF IInv, TypeOK, Rows, Workers, Places, Ghosts, Gone, jobVars,
       handVars, history
  <2>6. Promised'
    BY RefreshAssumption, <2>0 DEF IInv, TypeOK, Workers, Places, Promised, Invalidating, Notes,
       EditorSteps, JobSteps, jobVars, handVars, history
  <2>7. Kept'
    <3>1. ASSUME NEW x \in Sources
          PROVE  /\ over'[x] => dropped'[x]
                 /\ wanted'[x] # 0 => row'[x].cfg = wanted'[x]
      BY RefreshAssumption, <2>0 DEF IInv, TypeOK, Rows, Configs, Workers, Kept, Gone, jobVars,
         handVars, history
    <3>2. ASSUME NEW x \in Sources, Up'
          PROVE  Covered(x)'
      <4>1. Covered(x)
        BY <3>2, <2>0 DEF IInv, Kept, Up, jobVars, handVars, history
      <4>2. CASE Launching(x)
        <5> PICK g \in Editors : LaunchedBy(g, x)
          BY <4>2 DEF Launching
        <5> QED
          BY <3>2, RefreshAssumption, <2>0 DEF IInv, TypeOK, Registered, Rows, Configs, Workers,
             Places, Covered, Launching, LaunchedBy, Gone, Up, Idle, EditorSteps, Notes,
             JobSteps, Holding,
             jobVars, handVars, history
      <4>3. CASE ~Launching(x)
        BY <3>2, <4>1, <4>3, RefreshAssumption, <2>0 DEF IInv, TypeOK, Registered, Rows, Configs,
           Workers, Places, Covered, Launching, LaunchedBy, Kept, Gone, Up, Idle, EditorSteps,
           Notes,
           JobSteps, Holding, jobVars, handVars, history
      <4> QED BY <4>2, <4>3
    <3> QED BY <3>1, <3>2 DEF Kept
  <2> QED BY <2>1, <2>2, <2>3, <2>4, <2>5, <2>6, <2>7 DEF IInv
<1> QED BY <1>a, <1>b
-----------------------------------------------------------------------------
(* The theorems.                                                           *)

\* Nobody has done anything yet.
LEMMA InitIInv ==
  ASSUME Init
  PROVE  IInv
<1> PICK c \in Casts : /\ at = [w \in Workers |-> IF w \in c.who THEN "idle" ELSE "absent"]
                       /\ edits = MaxEdits - c.edits /\ clicks = c.clicks
                       /\ cancels = c.cancels /\ timeouts = c.timeouts
  BY DEF Init
<1>1. Gone \in Rows /\ NoModels \in [fetched : Configs, manual : Configs]
  BY RefreshAssumption DEF Gone, NoModels, Rows, Configs
<1>2. TypeOK
  <2>1. 0 \in 0..Cardinality(Sources) /\ 0 \in 0..Slots /\ 0 \in Configs
    <3>1. Cardinality(Sources) \in Nat
      BY RefreshAssumption, FS_CardinalityType
    <3> QED BY <3>1, RefreshAssumption DEF Configs
  <2>2. edits \in 0..MaxEdits /\ clicks \in Nat /\ cancels \in Nat /\ timeouts \in Nat
    BY RefreshAssumption
  <2>3. on \in [Workers -> Sources]
    BY RefreshAssumption DEF Init
  <2> QED BY <1>1, <2>1, <2>2, <2>3 DEF Init, TypeOK, Steps
<1>3. Places /\ Registered
  <2>1. \A s \in Sources : on[s] = s
    BY DEF Init, Workers
  <2>2. \A w \in Workers : at[w] \in {"idle", "absent"}
    OBVIOUS
  <2>3. \A s \in Sources : ~running[s] /\ ~pending[s]
    BY DEF Init
  <2> QED BY <2>1, <2>2, <2>3 DEF Places, Registered, Idle, JobSteps, EditorSteps, Workers
<1>4. Counted
  <2>1. {s \in Sources : running[s]} = {} /\ {s \in Sources : at[s] \in Holding} = {}
    BY DEF Init, Holding, Workers
  <2> QED BY <2>1, FS_EmptySet DEF Init, Counted
<1>5. Fetching /\ Promised
  BY DEF Init, Fetching, Promised, Workers
<1>6. Ghosts
  BY DEF Init, Ghosts, Workers
<1>7. Kept
  BY DEF Init, Kept, Covered
<1> QED BY <1>2, <1>3, <1>4, <1>5, <1>6, <1>7 DEF IInv

\* The server stops: promises of a fetch are void; or it closes its store.
LEMMA EndKeeps ==
  ASSUME IInv, Stop \/ Close
  PROVE  IInv'
<1>1. /\ UNCHANGED <<row, models, jobVars, at, handVars, outcome, ctxVars, history, bounds>>
      /\ life' \in {"stopping", "closed"}
  BY DEF Stop, Close
<1>2. TypeOK'
  BY <1>1 DEF IInv, TypeOK, jobVars, handVars, ctxVars, history, bounds
<1>3. Counted'
  BY <1>1 DEF IInv, Counted, jobVars
<1>4. (Places /\ Registered /\ Fetching)'
  BY <1>1 DEF IInv, Places, Registered, Fetching, Idle, jobVars, handVars
<1>5. (Ghosts /\ Promised)'
  BY <1>1 DEF IInv, Ghosts, Promised, jobVars, handVars, history
<1>6. Kept'
  BY <1>1 DEF IInv, Kept, Up, ctxVars, history
<1> QED BY <1>2, <1>3, <1>4, <1>5, <1>6 DEF IInv

\* Nothing happens.
LEMMA StutterKeeps ==
  ASSUME IInv, UNCHANGED vars
  PROVE  IInv'
<1>1. TypeOK'
  BY DEF IInv, TypeOK, vars, jobVars, handVars, ctxVars, history, bounds
<1>2. Counted'
  BY DEF IInv, Counted, vars, jobVars
<1>3. (Places /\ Registered /\ Fetching)'
  BY DEF IInv, Places, Registered, Fetching, Idle, vars, jobVars, handVars
<1>4. (Ghosts /\ Promised)'
  BY DEF IInv, Ghosts, Promised, vars, jobVars, handVars, history
<1>5. Kept'
  BY DEF IInv, Kept, Up, Covered, Launching, LaunchedBy, vars, jobVars, handVars, ctxVars,
     history
<1> QED BY <1>1, <1>2, <1>3, <1>4, <1>5 DEF IInv

\* The invariant is inductive: it holds initially and every step keeps it.
THEOREM Invariance == Spec => []IInv
<1>1. Init => IInv
  BY InitIInv
<1>2. IInv /\ [Next]_vars => IInv'
  <2> SUFFICES ASSUME IInv, [Next]_vars
               PROVE  IInv'
    OBVIOUS
  <2>1. CASE UNCHANGED vars
    BY <2>1, StutterKeeps
  <2>2. ASSUME NEW e \in Editors, NEW s \in Sources,
               \/ \E a \in BOOLEAN : AdminSave(e, s, a)
               \/ \E a, manual, isCreate \in BOOLEAN : ToolSave(e, s, a, manual, isCreate)
               \/ Switch(e, s) \/ Delete(e, s)
        PROVE  IInv'
    BY <2>2, AdminSaveKeeps, ToolSaveKeeps, SwitchKeeps, DeleteKeeps
  <2>3. ASSUME NEW e \in Editors, EditorStep(e)
        PROVE  IInv'
    BY <2>3, NoteSavedKeeps, RequireSourceKeeps, InvalidatesKeeps, ForgetKeeps,
       LaunchKeeps DEF EditorStep
  <2>4. ASSUME NEW w \in Workers, RefreshStep(w)
        PROVE  IInv'
    BY <2>4, ReadSourceKeeps, FetchFailsKeeps, CommitSourceRefreshKeeps,
       SyncManualSourceModelsKeeps, RefreshEvidenceKeeps DEF RefreshStep
  <2>5. ASSUME NEW s \in Sources, JobStep(s)
        PROVE  IInv'
    BY <2>5, AcquireKeeps, LeaveQueueKeeps, StartRoundKeeps, PublishKeeps, EndRoundKeeps,
       RecordKeeps, LeaveKeeps DEF JobStep, RoundStep
  <2>6. ASSUME NEW s \in Sources,
               \/ Click(s) \/ CallerRefresh(s) \/ CallerLeaves(s) \/ BudgetEnds(s)
               \/ CallerInvalidates(s)
        PROVE  IInv'
    BY <2>6, ClickKeeps, CallerRefreshKeeps, ContextEndsKeeps, CallerInvalidatesKeeps
  <2>7. CASE Stop \/ Close
    BY <2>7, EndKeeps
  <2> QED BY <2>1, <2>2, <2>3, <2>4, <2>5, <2>6, <2>7 DEF Next
<1> QED BY <1>1, <1>2, PTL DEF Spec

\* One job per source, counted by the WaitGroup and, past it, by the semaphore; the
\* semaphore's slots are never exceeded and no counter falls below zero.
THEOREM JobsAreOwned == Spec => []JobsOwned
<1>1. IInv => JobsOwned
  BY DEF IInv, JobsOwned, Registered, Counted
<1> QED BY <1>1, Invariance, PTL

\* While there is no source of an id, a result of its last job is kept only until the
\* deletion forgets it.
THEOREM NoGhosts == Spec => []NoGhostState
<1>1. IInv => NoGhostState
  BY DEF IInv, NoGhostState, Ghosts
<1> QED BY <1>1, Invariance, PTL

\* Once nothing is under way the published routes cover the store, unless a handler
\* returned between its commit and its invalidation, because the evidence could not be
\* refreshed or the source it had created could not be read again.
THEOREM RoutesAreCurrent == Spec => []RoutesCurrent
<1>1. IInv => RoutesCurrent
  BY DEF IInv, RoutesCurrent, Promised, Invalidating, Notes, Quiet, Idle
<1> QED BY <1>1, Invariance, PTL

\* Once nothing is under way a configuration that was saved to be fetched was tried,
\* unless the context of its job ended, by its caller or its budget, or another editor
\* took its note back, and nothing has begun since.
THEOREM SavedIsTriedOnce == Spec => []SavedIsTried
<1>1. IInv => SavedIsTried
  <2> SUFFICES ASSUME IInv, Quiet, Up, NEW s \in Sources
               PROVE  wanted[s] <= tried[s] \/ dropped[s]
    BY DEF SavedIsTried
  <2>1. at[s] \in {"idle", "absent"} /\ \A e \in Editors : at[e] \in {"idle", "absent"}
    BY DEF Quiet, Idle, Workers
  <2>2. ~pending[s]
    BY <2>1 DEF IInv, Registered, Idle
  <2> QED BY <2>1, <2>2 DEF IInv, Kept, Covered, Launching, LaunchedBy
<1> QED BY <1>1, Invariance, PTL

\* Models that were discovered are committed only by a refresh whose row still stands:
\* a source saved, switched or deleted meanwhile keeps what it has.
THEOREM FetchedIsForThisRow == Spec => FetchedForThisRow
<1> DEFINE Fresh == \A s \in Sources :
             models'[s].fetched \notin {0, models[s].fetched} =>
               \E w \in Workers : /\ at[w] = "fetch" /\ on[w] = s /\ row[s].auto
                                  /\ snap[w] = row[s] /\ models'[s].fetched = row[s].cfg
<1>1. IInv /\ [Next]_vars => [Fresh]_vars
  <2> SUFFICES ASSUME IInv, Next
               PROVE  Fresh
    OBVIOUS
  <2>1. CASE UNCHANGED models
    BY <2>1
  <2>2. ASSUME NEW e \in Editors, NEW s \in Sources, NEW a \in BOOLEAN, NEW manual \in BOOLEAN,
               NEW isCreate \in BOOLEAN, ToolSave(e, s, a, manual, isCreate)
        PROVE  Fresh
    BY <2>2 DEF ToolSave, IInv, TypeOK
  <2>3. ASSUME NEW e \in Editors, NEW s \in Sources, Delete(e, s)
        PROVE  Fresh
    BY <2>3 DEF Delete, NoModels, IInv, TypeOK
  <2>4. ASSUME NEW w \in Workers, CommitSourceRefresh(w)
        PROVE  Fresh
    <3>1. CASE Unchanged(w)
      <4>1. /\ at[w] = "fetch" /\ row[on[w]] = snap[w]
            /\ models' = [models EXCEPT ![on[w]].fetched = snap[w].cfg]
        BY <2>4, <3>1 DEF CommitSourceRefresh, Unchanged
      <4>2. row[on[w]].auto
        BY <4>1 DEF IInv, Fetching
      <4> QED BY <4>1, <4>2 DEF IInv, TypeOK
    <3>2. CASE ~Unchanged(w)
      BY <2>4, <3>2, <2>1 DEF CommitSourceRefresh
    <3> QED BY <3>1, <3>2
  <2>5. ASSUME NEW w \in Workers, SyncManualSourceModels(w)
        PROVE  Fresh
    <3>1. CASE Cancelled(w)
      BY <2>5, <3>1, <2>1 DEF SyncManualSourceModels
    <3>2. CASE ~Cancelled(w)
      <4>1. models' = [models EXCEPT ![on[w]] = [fetched |-> 0, manual |-> snap[w].cfg]]
        BY <2>5, <3>2 DEF SyncManualSourceModels
      <4> QED BY <4>1 DEF IInv, TypeOK
    <3> QED BY <3>1, <3>2
  <2>6. \/ UNCHANGED models
        \/ \E e \in Editors, s \in Sources :
              Delete(e, s) \/ \E a, manual, isCreate \in BOOLEAN : ToolSave(e, s, a, manual, isCreate)
        \/ \E w \in Workers : CommitSourceRefresh(w) \/ SyncManualSourceModels(w)
    <3>1. \A e \in Editors : EditorStep(e) => UNCHANGED models
      BY DEF EditorStep, NoteSaved, RequireSource, Invalidates, Forget, Launch
    <3>2. \A w \in Workers : RefreshStep(w) =>
            UNCHANGED models \/ CommitSourceRefresh(w) \/ SyncManualSourceModels(w)
      BY DEF RefreshStep, ReadSource, FetchFails, RefreshEvidence
    <3>3. \A s \in Sources : JobStep(s) => UNCHANGED models
      BY DEF JobStep, RoundStep, Acquire, LeaveQueue, StartRound, Publish, EndRound, Record,
         Leave
    <3>4. \A s \in Sources :
            Click(s) \/ CallerRefresh(s) \/ CallerLeaves(s) \/ BudgetEnds(s) \/ CallerInvalidates(s)
              => UNCHANGED models
      BY DEF Click, CallerRefresh, CallerLeaves, BudgetEnds, ContextEnds, CallerInvalidates
    <3>5. \A e \in Editors, s \in Sources :
            /\ Switch(e, s) => UNCHANGED models
            /\ \A a \in BOOLEAN : AdminSave(e, s, a) => UNCHANGED models
      BY DEF Switch, AdminSave
    <3>6. Stop \/ Close => UNCHANGED models
      BY DEF Stop, Close
    <3> QED BY <3>1, <3>2, <3>3, <3>4, <3>5, <3>6 DEF Next
  <2> HIDE DEF Fresh
  <2> QED BY <2>1, <2>2, <2>3, <2>4, <2>5, <2>6
<1> QED BY <1>1, Invariance, PTL DEF Spec, FetchedForThisRow
=============================================================================
