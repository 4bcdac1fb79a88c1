---------------------------- MODULE UsageLogProofs ----------------------------
(***************************************************************************)
(* Proofs about UsageLog and the response cache under it, for any records, *)
(* sizes, capacities, faults, resets and rounds of retention: the budget   *)
(* is exact, a reset stays a reset, no record is lost without a trace, no  *)
(* stored record loses its attachment and no stale response is served.     *)
(***************************************************************************)
EXTENDS UsageLog, FiniteSetTheorems, FunctionTheorems, SequenceTheorems, TLAPS

(***************************************************************************)
(* The arithmetic of Weight: what a finite set weighs is a natural number, *)
(* and adding or removing members changes it by what they weigh.           *)
(***************************************************************************)

\* A finite set carries finitely many units.
LEMMA UnitsFinite ==
  ASSUME NEW S, IsFiniteSet(S), NEW weight, \A x \in S : weight[x] \in Nat
  PROVE  IsFiniteSet(Units(S, weight))
<1> DEFINE f == [x \in S |-> {x} \X (1..weight[x])]
           T == {{x} \X (1..weight[x]) : x \in S}
<1>1. f \in Surjection(S, T)
  BY Fun_IsSurj
<1>2. IsFiniteSet(T)
  BY <1>1, FS_Surjection
<1>3. ASSUME NEW U \in T PROVE IsFiniteSet(U)
  <2>1. PICK x \in S : U = {x} \X (1..weight[x])
    OBVIOUS
  <2>2. IsFiniteSet({x})
    BY FS_Singleton
  <2>3. weight[x] \in Int /\ 1 \in Int
    OBVIOUS
  <2>4. IsFiniteSet(1..weight[x])
    BY ONLY <2>3, FS_Interval
  <2> QED BY <2>1, <2>2, <2>4, FS_Product
<1>4. IsFiniteSet(UNION T)
  BY <1>2, <1>3, FS_UNION
<1> QED BY <1>4 DEF Units

\* The total weight of a finite set is a natural number.
LEMMA WeightType ==
  ASSUME NEW S, IsFiniteSet(S), NEW weight, \A x \in S : weight[x] \in Nat
  PROVE  Weight(S, weight) \in Nat
BY UnitsFinite, FS_CardinalityType DEF Weight

\* Nothing weighs nothing.
LEMMA WeightEmpty == ASSUME NEW weight PROVE Weight({}, weight) = 0
<1>1. Units({}, weight) = {}
  BY DEF Units
<1> QED BY <1>1, FS_EmptySet DEF Weight

\* One member weighs what its weight says.
LEMMA WeightSingleton ==
  ASSUME NEW x, NEW weight, weight[x] \in Nat
  PROVE  Weight({x}, weight) = weight[x]
<1>1. Units({x}, weight) = {x} \X (1..weight[x])
  BY DEF Units
<1>2. IsFiniteSet({x}) /\ Cardinality({x}) = 1
  BY FS_Singleton
<1> DEFINE w == weight[x]
<1>3. IsFiniteSet(1..w) /\ Cardinality(1..w) = w
  <2>1. w \in Nat
    OBVIOUS
  <2> HIDE DEF w
  <2>2. /\ IsFiniteSet(1..w)
        /\ Cardinality(1..w) = IF 1 > w THEN 0 ELSE w - 1 + 1
    BY <2>1, FS_Interval
  <2> QED BY ONLY <2>1, <2>2
<1> HIDE DEF w
<1>4. Cardinality({x} \X (1..w)) = Cardinality({x}) * Cardinality(1..w)
  BY <1>2, <1>3, FS_Product
<1>5. Cardinality({x} \X (1..w)) = 1 * w
  BY ONLY <1>2, <1>3, <1>4
<1>6. w \in Nat
  BY DEF w
<1>7. Cardinality({x} \X (1..w)) = w
  BY ONLY <1>5, <1>6
<1> QED BY <1>1, <1>7 DEF Weight, w

\* The weight of a disjoint union is the sum of the weights.
LEMMA WeightUnion ==
  ASSUME NEW S, IsFiniteSet(S), NEW T, IsFiniteSet(T), S \cap T = {},
         NEW weight, \A x \in S \cup T : weight[x] \in Nat
  PROVE  Weight(S \cup T, weight) = Weight(S, weight) + Weight(T, weight)
<1>1. Units(S \cup T, weight) = Units(S, weight) \cup Units(T, weight)
  BY DEF Units
<1>2. Units(S, weight) \cap Units(T, weight) = {}
  BY DEF Units
<1>3. IsFiniteSet(Units(S, weight)) /\ IsFiniteSet(Units(T, weight))
  BY UnitsFinite
<1> DEFINE m == Cardinality(Units(S, weight))
           n == Cardinality(Units(T, weight))
<1>4. m \in Nat /\ n \in Nat
  BY <1>3, FS_CardinalityType
<1>5. Cardinality(Units(S, weight) \cap Units(T, weight)) = 0
  BY <1>2, FS_EmptySet
<1>6. Cardinality(Units(S, weight) \cup Units(T, weight)) = m + n - 0
  BY <1>3, <1>5, FS_Union
<1>7. Cardinality(Units(S \cup T, weight)) = m + n - 0
  BY <1>1, <1>6
<1>8. m + n - 0 = m + n
  <2> HIDE DEF m, n
  <2> QED BY <1>4
<1> QED BY <1>7, <1>8 DEF Weight

\* Adding a member adds its weight.
LEMMA WeightAdd ==
  ASSUME NEW S, IsFiniteSet(S), NEW x, x \notin S,
         NEW weight, \A y \in S \cup {x} : weight[y] \in Nat
  PROVE  Weight(S \cup {x}, weight) = Weight(S, weight) + weight[x]
<1>1. IsFiniteSet({x}) /\ S \cap {x} = {}
  BY FS_Singleton
<1>2. Weight(S \cup {x}, weight) = Weight(S, weight) + Weight({x}, weight)
  BY <1>1, WeightUnion
<1> QED BY <1>2, WeightSingleton

\* The cache: an entry, and what a request may still publish or take from a flight of
\* its own generation, reflects every flush that was complete.
Fresh ==
  /\ mu # {} => entry = {}
  /\ \A v \in entry : v >= flushed
  /\ \A r \in Readers :
       /\ floor[r] <= flushed
       /\ at[r] \in {"found", "publish", "landed"} /\ gen = genSeen[r] =>
            \A v \in got[r] : v >= flushed
       /\ at[r] \in {"publish", "served"} => \A v \in got[r] : v >= floor[r]

\* Where each kind of goroutine can be.
Places ==
  /\ \A r \in Records :
       step[r] \in {"absent", "idle", "ready", "lock", "save", "flush", "flushing", "done"}
  /\ \A j \in Jobs : step[j] # "ready"
  /\ step[Writer] \in {"idle", "collect", "lock", "save", "flush", "flushing", "giveback", "gone"}
  /\ step[Reset] \in {"absent", "idle", "lock", "clear", "drain", "flush", "flushing"}
  /\ step[Keeper] \in {"absent", "idle", "flush", "flushing", "sweep"}

\* usagePersistMu is held by whoever is inside it, and by nobody else.
Storing == {"save", "flush", "flushing"}
Inside(f) == \/ f \in Persisters /\ step[f] \in Storing
             \/ f = Reset /\ step[f] \in {"clear", "drain"}
             \/ f = Keeper /\ step[f] = "sweep"
Locked == \A f \in Flushers : Inside(f) => lock = {f}

\* What is queued or in the batch is there once, and its request is over.
Queued ==
  /\ IsInjective(queue) /\ ToSet(queue) \cap batch = {} /\ IsFiniteSet(batch)
  /\ \A r \in Held : step[r] = "done"
  /\ retained = Bytes(Held)

\* What is being saved is of the current generation, and the rest is older; it has
\* its attachments before and is counted afterwards.
Saved == \A f \in Persisters : step[f] \in Storing =>
  /\ saving \subseteq Items(f)
  /\ \A r \in saving : writeGen[r] = current
  /\ \A r \in Items(f) \ saving : writeGen[r] < current
  /\ step[f] = "save" => left > 0 /\ Attachments(saving) \subseteq files
  /\ step[f] # "save" => \A r \in saving : rollup[r] > 0

\* A record is counted as long as its row was not cleared.
Cleared ==
  /\ ClearedStaysCleared
  /\ \A r \in Records : rollup[r] > 0 => r \in rows \cup pruned
  /\ step[Reset] = "drain" => rows = {} /\ pruned = {} /\ \A r \in Records : rollup[r] = 0

\* Nothing is forgotten between the tables and the end of the batch.
Settled(r) == rollup[r] > 0 \/ r \in failed \/ writeGen[r] < current \/ step[Reset] = "drain"
Traced == /\ NoSilentLoss
          /\ step[Writer] = "giveback" => \A r \in batch : Settled(r)

\* What a sweep is about to remove belongs to no row.
Kept == /\ AttachmentsKept
        /\ step[Keeper] = "sweep" => doomed \cap Attachments(rows) = {}

IInv == TypeOK /\ Fresh /\ Places /\ Locked /\ Queued /\ Saved /\ Cleared /\ Traced /\ Kept
-----------------------------------------------------------------------------
(* The response cache.                                                     *)

\* A flight hands its followers, who began in its generation, a value that is fresh
\* if that generation is the current one.
LEMMA Landed ==
  ASSUME CacheTypeOK, Fresh, NEW r \in Readers, at[r] \in {"found", "publish"},
         NEW value \in SUBSET (0..version), NEW s \in {"landed", "served"}, Lands(r, value, s),
         at[r] = "publish" => s = "served", at[r] = "found" => s = "landed",
         UNCHANGED <<version, gen, genSeen, flushed, floor>>,
         gen = genSeen[r] => \A v \in value : v >= flushed
  PROVE  /\ flights' \subseteq 0..gen'
         /\ at' \in [Readers -> {"absent", "idle", "look", "join", "lead", "found", "compute",
                                 "publish", "follow", "landed", "own", "served"}]
         /\ got' \in [Readers -> SUBSET (0..version')]
         /\ \A q \in Readers :
              /\ floor'[q] <= flushed'
              /\ at'[q] \in {"found", "publish", "landed"} /\ gen' = genSeen'[q] =>
                   \A v \in got'[q] : v >= flushed'
              /\ at'[q] \in {"publish", "served"} => \A v \in got'[q] : v >= floor'[q]
<1> DEFINE waiting == {f \in Readers : at[f] = "follow" /\ genSeen[f] = genSeen[r]}
<1>1. /\ flights' = flights \ {genSeen[r]}
      /\ at' = [f \in Readers |-> IF f \in waiting THEN "landed" ELSE IF f = r THEN s ELSE at[f]]
      /\ got' = [f \in Readers |-> IF f \in waiting THEN value ELSE got[f]]
  BY Zenon DEF Lands
<1>2. r \notin waiting
  OBVIOUS
<1>3. ASSUME NEW q \in Readers
      PROVE  /\ floor'[q] <= flushed'
             /\ at'[q] \in {"found", "publish", "landed"} /\ gen' = genSeen'[q] =>
                  \A v \in got'[q] : v >= flushed'
             /\ at'[q] \in {"publish", "served"} => \A v \in got'[q] : v >= floor'[q]
  <2>1. CASE q \in waiting
    <3>1. at'[q] = "landed" /\ got'[q] = value /\ genSeen[q] = genSeen[r]
      BY <1>1, <2>1
    <3> QED BY <3>1 DEF Fresh
  <2>2. CASE q = r
    <3>1. at'[q] = s /\ got'[q] = got[q]
      BY <1>1, <1>2, <2>2
    <3> QED BY <3>1, <2>2 DEF Fresh
  <2>3. CASE q \notin waiting /\ q # r
    <3>1. at'[q] = at[q] /\ got'[q] = got[q]
      BY <1>1, <2>3
    <3> QED BY <3>1 DEF Fresh
  <2> QED BY <2>1, <2>2, <2>3
<1>4. flights' \subseteq 0..gen'
  BY <1>1 DEF CacheTypeOK
<1>5. at' \in [Readers -> {"absent", "idle", "look", "join", "lead", "found", "compute",
                           "publish", "follow", "landed", "own", "served"}]
  BY <1>1 DEF CacheTypeOK
<1>6. got' \in [Readers -> SUBSET (0..version')]
  BY <1>1 DEF CacheTypeOK
<1> QED BY <1>3, <1>4, <1>5, <1>6

\* Requests keep the cache fresh.
LEMMA ReadersFresh ==
  ASSUME CacheTypeOK, Fresh, NEW r \in Readers, Begin(r) \/ Read(r)
  PROVE  CacheTypeOK' /\ Fresh'
<1>1. CASE Begin(r)
  BY <1>1 DEF Begin, ReaderTo, CacheTypeOK, Fresh
<1>2. CASE Look(r)
  <2>1. CacheTypeOK'
    BY <1>2 DEF Look, ReaderTo, CacheTypeOK
  <2>2. \A v \in entry : v >= floor[r]
    BY DEF Fresh, CacheTypeOK
  <2>3. /\ at'[r] \in {"served", "join"} /\ got'[r] = entry
        /\ \A q \in Readers \ {r} : at'[q] = at[q] /\ got'[q] = got[q]
        /\ UNCHANGED <<gen, entry, mu, genSeen, flushed, floor>>
    BY <1>2 DEF Look, ReaderTo, CacheTypeOK
  <2> QED BY <2>1, <2>2, <2>3 DEF Fresh
<1>3. CASE Join(r)
  BY <1>3 DEF Join, ReaderTo, CacheTypeOK, Fresh
<1>4. CASE Recheck(r)
  <2>1. CacheTypeOK'
    BY <1>4 DEF Recheck, ReaderTo, CacheTypeOK
  <2>2. /\ at'[r] \in {"compute", "found"}
        /\ at'[r] = "found" /\ gen = genSeen[r] => got'[r] = entry
        /\ \A q \in Readers \ {r} : at'[q] = at[q] /\ got'[q] = got[q]
        /\ UNCHANGED <<gen, entry, mu, genSeen, flushed, floor>>
    BY <1>4 DEF Recheck, ReaderTo, CacheTypeOK
  <2> QED BY <2>1, <2>2 DEF Fresh
<1>5. CASE ReturnFound(r)
  <2>1. at[r] = "found" /\ got[r] \in SUBSET (0..version) /\ Lands(r, got[r], "landed")
        /\ UNCHANGED <<version, gen, entry, mu, genSeen, flushed, floor>>
    BY <1>5 DEF ReturnFound, CacheTypeOK
  <2>2. gen = genSeen[r] => \A v \in got[r] : v >= flushed
    BY <2>1 DEF Fresh
  <2>3. PICK value \in SUBSET (0..version) : value = got[r]
    BY <2>1
  <2> QED BY <2>1, <2>2, <2>3, Landed DEF CacheTypeOK, Fresh
<1>6. CASE Compute(r)
  <2>1. CacheTypeOK'
    BY <1>6 DEF Compute, ReaderTo, CacheTypeOK
  <2>2. /\ at'[r] = "publish" /\ got'[r] = {version}
        /\ \A q \in Readers \ {r} : at'[q] = at[q] /\ got'[q] = got[q]
        /\ UNCHANGED <<gen, entry, mu, genSeen, flushed, floor>>
    BY <1>6 DEF Compute, ReaderTo, CacheTypeOK
  <2>3. version >= flushed /\ version >= floor[r]
    BY DEF CacheTypeOK, Fresh
  <2> QED BY <2>1, <2>2, <2>3 DEF Fresh
<1>7. CASE Publish(r)
  <2>1. PICK ok \in BOOLEAN :
          LET value == IF MayPublish(r, ok) THEN got[r] ELSE {}
          IN  entry' = (IF value # {} THEN value ELSE entry) /\ Lands(r, value, "served")
    BY <1>7 DEF Publish
  <2>2. PICK value \in SUBSET (0..version) : value = IF MayPublish(r, ok) THEN got[r] ELSE {}
    BY DEF CacheTypeOK
  <2>3. /\ entry' = (IF value # {} THEN value ELSE entry) /\ Lands(r, value, "served")
        /\ at[r] = "publish" /\ mu = {} /\ UNCHANGED <<version, gen, mu, genSeen, flushed, floor>>
    BY <1>7, <2>1, <2>2 DEF Publish
  <2>4. \A v \in value : v >= flushed
    BY <2>2, <2>3 DEF Fresh, MayPublish
  <2>5. \A v \in entry' : v >= flushed'
    BY <2>3, <2>4 DEF Fresh
  <2> QED BY <2>3, <2>4, <2>5, Landed DEF CacheTypeOK, Fresh
<1>8. CASE AfterFlight(r)
  <2>1. CacheTypeOK'
    BY <1>8 DEF AfterFlight, ReaderTo, CacheTypeOK
  <2>2. /\ at[r] = "landed" /\ (at'[r] = "own" \/ (at'[r] = "served" /\ gen = genSeen[r]))
        /\ \A q \in Readers \ {r} : at'[q] = at[q]
        /\ UNCHANGED <<gen, entry, mu, genSeen, got, flushed, floor>>
    BY <1>8 DEF AfterFlight, ReaderTo, CacheTypeOK
  <2>3. gen = genSeen[r] => \A v \in got[r] : v >= floor[r]
    BY <2>2 DEF Fresh, CacheTypeOK
  <2> QED BY <2>1, <2>2, <2>3 DEF Fresh
<1>9. CASE ComputeOwn(r)
  <2>1. CacheTypeOK'
    BY <1>9 DEF ComputeOwn, ReaderTo, CacheTypeOK
  <2>2. /\ at'[r] = "served" /\ got'[r] = {version}
        /\ \A q \in Readers \ {r} : at'[q] = at[q] /\ got'[q] = got[q]
        /\ UNCHANGED <<gen, entry, mu, genSeen, flushed, floor>>
    BY <1>9 DEF ComputeOwn, ReaderTo, CacheTypeOK
  <2>3. version >= floor[r]
    BY DEF CacheTypeOK, Fresh
  <2> QED BY <2>1, <2>2, <2>3 DEF Fresh
<1> QED BY <1>1, <1>2, <1>3, <1>4, <1>5, <1>6, <1>7, <1>8, <1>9 DEF Read

\* So do flushes, commits and the end of an entry's time.
LEMMA FlushesFresh ==
  ASSUME CacheTypeOK, Fresh, NEW f \in Flushers,
         Expire \/ InvalidateAll(f) \/ NextGeneration(f) \/ Commits \/ UNCHANGED cacheVars
  PROVE  CacheTypeOK' /\ Fresh'
<1>1. CASE Expire
  BY <1>1 DEF Expire, CacheTypeOK, Fresh, readerVars
<1>2. CASE InvalidateAll(f)
  BY <1>2 DEF InvalidateAll, CacheTypeOK, Fresh, readerVars
<1>3. CASE NextGeneration(f)
  <2>1. CacheTypeOK'
    BY <1>3 DEF NextGeneration, CacheTypeOK, readerVars
  <2>2. \A q \in Readers : gen' # genSeen[q] /\ floor[q] <= version
    BY <1>3 DEF NextGeneration, CacheTypeOK
  <2>3. entry = {}
    BY <1>3 DEF NextGeneration, Fresh
  <2> QED BY <1>3, <2>1, <2>2, <2>3 DEF NextGeneration, Fresh, readerVars
<1>4. CASE Commits
  BY <1>4 DEF Commits, CacheTypeOK, Fresh, readerVars
<1>5. CASE UNCHANGED cacheVars
  BY <1>5 DEF cacheVars, CacheTypeOK, Fresh
<1> QED BY <1>1, <1>2, <1>3, <1>4, <1>5
-----------------------------------------------------------------------------
(* Who moves, and under which lock.                                        *)

\* The steps of one goroutine.
FlusherStep(f) ==
  \/ f \in Records /\ (Prepare(f) \/ Enqueue(f) \/ Settle(f))
  \/ f = Writer /\ WriterStep
  \/ PersistStep(f) \/ FlushStep(f)
  \/ f = Reset /\ (ResetBegins \/ ResetStep)
  \/ f = Keeper /\ (PruneLogBatch \/ SweepReads \/ SweepRemoves)

\* Every step is one of a goroutine, of the shutdown or of the cache alone.
LEMMA Steps ==
  ASSUME Next, UsageAssumption
  PROVE  \/ \E f \in Flushers : FlusherStep(f)
         \/ StopUsageWriter \/ CutWrites
         \/ UNCHANGED logVars /\ (Expire \/ \E r \in Readers : Begin(r) \/ Read(r))
<1>1. Records \subseteq Flushers /\ {Writer, Reset, Keeper} \subseteq Flushers
  BY DEF UsageAssumption
<1>2. CASE \E r \in Records : Prepare(r) \/ Enqueue(r) \/ Settle(r)
  BY <1>1, <1>2, Zenon DEF FlusherStep
<1>3. CASE WriterStep
  BY <1>1, <1>3, Zenon DEF FlusherStep
<1>4. CASE \E f \in Flushers : PersistStep(f) \/ FlushStep(f)
  BY <1>4, Zenon DEF FlusherStep
<1>5. CASE ResetBegins \/ ResetStep
  BY <1>1, <1>5, Zenon DEF FlusherStep
<1>6. CASE PruneLogBatch \/ SweepReads \/ SweepRemoves
  BY <1>1, <1>6, Zenon DEF FlusherStep
<1> QED BY <1>2, <1>3, <1>4, <1>5, <1>6, Zenon DEF Next

\* To changes where its goroutine is, and no other.
LEMMA Moved ==
  ASSUME TypeOK, NEW f \in Flushers, NEW s, To(f, s)
  PROVE  /\ step' = [g \in Flushers |-> step'[g]] /\ step'[f] = s
         /\ \A g \in Flushers \ {f} : step'[g] = step[g]
BY DEF TypeOK, To

\* Persisters are the records' goroutines and the writer, and no other.
LEMMA Apart ==
  ASSUME UsageAssumption
  PROVE  /\ Flushers = Records \cup {Writer, Reset, Keeper} /\ Persisters = Records \cup {Writer}
         /\ Reset \notin Persisters /\ Keeper \notin Persisters /\ Writer \notin Records
         /\ Writer # Reset /\ Reset # Keeper /\ Keeper # Writer
         /\ Requests \subseteq Records /\ Jobs \subseteq Records
         /\ Requests \cap Jobs = {}
BY DEF UsageAssumption, Persisters, Records

\* One goroutine moves at a time, along its own path.
LEMMA Paths ==
  ASSUME TypeOK, Places, UsageAssumption, NEW f \in Flushers, FlusherStep(f)
  PROVE  /\ step' = [g \in Flushers |-> step'[g]] /\ Places'
         /\ \A g \in Flushers \ {f} : step'[g] = step[g]
<1> USE Apart
<1>1. CASE f \in Records
  <2>1. \/ Prepare(f) \/ Enqueue(f) \/ Settle(f) \/ PersistStep(f) \/ FlushStep(f)
    BY <1>1 DEF FlusherStep
  <2>2. \/ step' = step
        \/ \E s \in {"lock", "save", "flush", "flushing", "done"} : To(f, s)
        \/ f \in Requests /\ To(f, "ready")
    BY <1>1, <2>1, Zenon DEF Prepare, Enqueue, Settle, PersistStep, FlushStep, Acquire, SaveFails,
       SaveUsageBatch, FlushBegins, FlushEnds, After
  <2>3. /\ step' = [g \in Flushers |-> step'[g]]
        /\ \A g \in Flushers \ {f} : step'[g] = step[g]
        /\ \/ step' = step
           \/ step'[f] \in {"lock", "save", "flush", "flushing", "done"}
           \/ f \in Requests /\ step'[f] = "ready"
    BY <2>2, Moved DEF TypeOK
  <2>4. Places'
    BY <1>1, <2>3 DEF Places
  <2> QED BY <2>3, <2>4
<1>2. CASE f = Writer
  <2>1. WriterStep \/ PersistStep(f) \/ FlushStep(f)
    BY <1>2 DEF FlusherStep
  <2>2. \/ step' = step
        \/ \E s \in {"idle", "collect", "lock", "save", "flush", "flushing", "giveback", "gone"} :
             To(f, s)
    BY <1>2, <2>1, Zenon DEF WriterStep, Take, CloseBatch, GiveBack, WriterEnds, PersistStep,
       FlushStep, Acquire, SaveFails, SaveUsageBatch, FlushBegins, FlushEnds, After
  <2>3. /\ step' = [g \in Flushers |-> step'[g]]
        /\ \A g \in Flushers \ {f} : step'[g] = step[g]
        /\ step'[f] \in {"idle", "collect", "lock", "save", "flush", "flushing", "giveback", "gone"}
    BY <1>2, <2>2, Moved DEF TypeOK, Places
  <2>4. Places'
    BY <1>2, <2>3 DEF Places
  <2> QED BY <2>3, <2>4
<1>3. CASE f = Reset
  <2>1. ResetBegins \/ ResetStep \/ FlushStep(f)
    BY <1>3 DEF FlusherStep, PersistStep, Acquire, SaveFails, SaveUsageBatch, Places
  <2>2. \E s \in {"idle", "lock", "clear", "drain", "flush", "flushing"} : To(f, s)
    BY <1>3, <2>1, Zenon DEF ResetBegins, ResetStep, ResetLocks, ClearFails, ClearUsage,
       NewGeneration, FlushStep, FlushBegins, FlushEnds
  <2>3. /\ step' = [g \in Flushers |-> step'[g]]
        /\ \A g \in Flushers \ {f} : step'[g] = step[g]
        /\ step'[f] \in {"idle", "lock", "clear", "drain", "flush", "flushing"}
    BY <2>2, Moved
  <2>4. Places'
    BY <1>3, <2>3 DEF Places
  <2> QED BY <2>3, <2>4
<1>4. CASE f = Keeper
  <2>1. PruneLogBatch \/ SweepReads \/ SweepRemoves \/ FlushStep(f)
    BY <1>4 DEF FlusherStep, PersistStep, Acquire, SaveFails, SaveUsageBatch, Places
  <2>2. \E s \in {"idle", "flush", "flushing", "sweep"} : To(f, s)
    BY <1>4, <2>1, Zenon DEF PruneLogBatch, SweepReads, SweepRemoves, FlushStep, FlushBegins,
       FlushEnds
  <2>3. /\ step' = [g \in Flushers |-> step'[g]]
        /\ \A g \in Flushers \ {f} : step'[g] = step[g]
        /\ step'[f] \in {"idle", "flush", "flushing", "sweep"}
    BY <2>2, Moved
  <2>4. Places'
    BY <1>4, <2>3 DEF Places
  <2> QED BY <2>3, <2>4
<1> QED BY <1>1, <1>2, <1>3, <1>4

\* Inside the lock a goroutine is alone, and when it is free nobody is inside.
LEMMA Alone ==
  ASSUME Locked, NEW f \in Flushers, Inside(f) \/ lock = {}
  PROVE  \A g \in Flushers \ {f} : ~Inside(g)
BY DEF Locked

\* Persisters store, resets clear and the sweep removes under the lock.
LEMMA LockedKept ==
  ASSUME TypeOK, Places, Locked, UsageAssumption, NEW f \in Flushers, FlusherStep(f)
  PROVE  Locked' /\ lock' \subseteq Flushers
<1> USE Apart
<1>1. \A g \in Flushers \ {f} : Inside(g)' = Inside(g)
  BY Paths DEF Inside
<1>2. ASSUME lock' = lock \/ lock = {} \/ lock = {f}, Inside(f)' => lock' = {f}, lock' \subseteq Flushers
      PROVE  Locked' /\ lock' \subseteq Flushers
  BY <1>1, <1>2 DEF Locked
<1>3. CASE f \in Persisters /\ PersistStep(f)
  <2>1. CASE Acquire(f)
    <3>1. \/ lock = {} /\ lock' = {f}
          \/ lock' = lock /\ To(f, After(f))
      BY <2>1 DEF Acquire, lockVars
    <3>2. lock' = lock => ~Inside(f)' \/ lock' = {f}
      BY <1>3, <3>1, Moved DEF Inside, Storing, After
    <3> QED BY <1>2, <3>1, <3>2 DEF TypeOK
  <2>2. CASE SaveFails(f)
    <3>1. Inside(f) /\ lock = {f}
      BY <1>3, <2>2 DEF SaveFails, Inside, Storing, Locked
    <3>2. \/ lock' = {} /\ To(f, After(f))
          \/ lock' = lock
      BY <2>2 DEF SaveFails, Unlock
    <3>3. lock' = {} => ~Inside(f)' \/ lock' = {f}
      BY <1>3, <3>1, <3>2, Moved DEF Inside, Storing, After
    <3> QED BY <1>2, <3>1, <3>2, <3>3 DEF TypeOK
  <2>3. CASE SaveUsageBatch(f)
    <3>1. lock = {f} /\ lock' = lock
      BY <1>3, <2>3 DEF SaveUsageBatch, Inside, Storing, Locked, lockVars
    <3> QED BY <1>2, <3>1 DEF TypeOK
  <2> QED BY <1>3, <2>1, <2>2, <2>3 DEF PersistStep
<1>4. CASE f \in Persisters /\ FlushStep(f)
  <2>1. lock = {f}
    BY <1>4 DEF FlushStep, FlushBegins, FlushEnds, Inside, Storing, Locked
  <2>2. CASE FlushBegins(f)
    BY <1>2, <2>1, <2>2 DEF FlushBegins, lockVars, TypeOK
  <2>3. CASE FlushEnds(f)
    <3>1. lock' = {} /\ To(f, After(f))
      BY <1>4, <2>3 DEF FlushEnds, Unlock
    <3>2. ~Inside(f)'
      BY <1>4, <3>1, Moved DEF Inside, Storing, After
    <3> QED BY <1>2, <2>1, <3>1, <3>2
  <2> QED BY <1>4, <2>2, <2>3 DEF FlushStep
<1>5. CASE f \in Persisters /\ ~PersistStep(f) /\ ~FlushStep(f)
  <2>1. lock' = lock
    BY <1>5 DEF FlusherStep, Prepare, Enqueue, Settle, WriterStep, Take, CloseBatch, GiveBack,
       WriterEnds, lockVars
  <2>2. \E s \in {"ready", "lock", "done", "collect", "idle", "gone"} : To(f, s)
    BY <1>5, Zenon DEF FlusherStep, Prepare, Enqueue, Settle, WriterStep, Take, CloseBatch,
       GiveBack, WriterEnds
  <2>3. ~Inside(f)'
    BY <1>5, <2>2, Moved DEF Inside, Storing
  <2> QED BY <1>2, <2>1, <2>3 DEF TypeOK
<1>6. CASE f = Reset
  <2>1. ~PersistStep(f)
    BY <1>6 DEF PersistStep, Acquire, SaveFails, SaveUsageBatch, Places
  <2>2. CASE ResetLocks
    BY <1>2, <1>6, <2>2 DEF ResetLocks
  <2>3. CASE ClearFails \/ NewGeneration
    <3>1. lock = {f} /\ lock' = {} /\ (To(f, "idle") \/ To(f, "flush"))
      BY <1>6, <2>3 DEF ClearFails, NewGeneration, Inside, Locked
    <3>2. ~Inside(f)'
      BY <1>6, <3>1, Moved DEF Inside
    <3> QED BY <1>2, <3>1, <3>2
  <2>4. CASE ClearUsage
    <3>1. lock = {f} /\ lock' = lock
      BY <1>6, <2>4 DEF ClearUsage, Inside, Locked, lockVars
    <3> QED BY <1>2, <3>1 DEF TypeOK
  <2>5. CASE ResetBegins \/ FlushStep(f)
    <3>1. lock' = lock
      BY <1>6, <2>5 DEF ResetBegins, FlushStep, FlushBegins, FlushEnds, lockVars
    <3>2. \E s \in {"lock", "flushing", "idle"} : To(f, s)
      BY <1>6, <2>5, Zenon DEF ResetBegins, FlushStep, FlushBegins, FlushEnds
    <3>3. ~Inside(f)'
      BY <1>6, <3>2, Moved DEF Inside
    <3> QED BY <1>2, <3>1, <3>3 DEF TypeOK
  <2> QED BY <1>6, <2>1, <2>2, <2>3, <2>4, <2>5 DEF FlusherStep, ResetStep
<1>7. CASE f = Keeper
  <2>1. ~PersistStep(f)
    BY <1>7 DEF PersistStep, Acquire, SaveFails, SaveUsageBatch, Places
  <2>2. CASE SweepReads
    BY <1>2, <1>7, <2>2 DEF SweepReads, SweepAlone
  <2>3. CASE SweepRemoves
    <3>1. lock = {f} /\ lock' = {} /\ To(f, "idle")
      BY <1>7, <2>3 DEF SweepRemoves, Inside, Locked
    <3>2. ~Inside(f)'
      BY <1>7, <3>1, Moved DEF Inside
    <3> QED BY <1>2, <3>1, <3>2
  <2>4. CASE PruneLogBatch \/ FlushStep(f)
    <3>1. lock' = lock
      BY <1>7, <2>4 DEF PruneLogBatch, FlushStep, FlushBegins, FlushEnds, lockVars
    <3>2. \E s \in {"flush", "flushing", "idle"} : To(f, s)
      BY <1>7, <2>4, Zenon DEF PruneLogBatch, FlushStep, FlushBegins, FlushEnds
    <3>3. ~Inside(f)'
      BY <1>7, <3>2, Moved DEF Inside
    <3> QED BY <1>2, <3>1, <3>3 DEF TypeOK
  <2> QED BY <1>7, <2>1, <2>2, <2>3, <2>4 DEF FlusherStep
<1> QED BY <1>3, <1>4, <1>5, <1>6, <1>7
-----------------------------------------------------------------------------
(* The queue, the batch and the budget.                                    *)

\* The members of a sequence are finitely many.
LEMMA MembersFinite ==
  ASSUME NEW S, NEW q \in Seq(S)
  PROVE  IsFiniteSet(ToSet(q)) /\ ToSet(q) \subseteq S
<1>1. Len(q) \in Nat /\ DOMAIN q = 1..Len(q) /\ q \in [1..Len(q) -> S]
  BY LenProperties
<1>2. IsFiniteSet(1..Len(q))
  BY <1>1, FS_Interval
<1>3. ToSet(q) \subseteq S
  BY <1>1 DEF ToSet
<1>4. q \in [1..Len(q) -> ToSet(q)] /\ \A t \in ToSet(q) : \E i \in 1..Len(q) : q[i] = t
  BY <1>1 DEF ToSet
<1>5. q \in Surjection(1..Len(q), ToSet(q))
  BY <1>4, Fun_IsSurj
<1> QED BY <1>2, <1>3, <1>5, FS_Surjection

\* What is appended joins the members, what is taken leaves them.
LEMMA Appended ==
  ASSUME NEW S, NEW q \in Seq(S), NEW x \in S, IsInjective(q), x \notin ToSet(q)
  PROVE  /\ Append(q, x) \in Seq(S) /\ IsInjective(Append(q, x))
         /\ ToSet(Append(q, x)) = ToSet(q) \cup {x}
<1> DEFINE t == Append(q, x)
<1>1. Len(q) \in Nat /\ DOMAIN q = 1..Len(q)
  BY LenProperties
<1>2. t \in Seq(S) /\ Len(t) = Len(q) + 1 /\ DOMAIN t = 1..(Len(q) + 1)
      /\ t[Len(q) + 1] = x /\ \A i \in 1..Len(q) : t[i] = q[i]
  BY <1>1
<1>3. \A i \in 1..Len(q) : t[i] # x
  BY <1>1, <1>2 DEF ToSet
<1>4. \A i \in 1..(Len(q) + 1) : i \in 1..Len(q) \/ i = Len(q) + 1
  BY <1>1
<1>5. 1..Len(q) \subseteq 1..(Len(q) + 1) /\ Len(q) + 1 \in 1..(Len(q) + 1)
  BY <1>1
<1> HIDE DEF t
<1>6. IsInjective(t)
  <2>1. \A i, k \in 1..Len(q) : q[i] = q[k] => i = k
    BY <1>1 DEF IsInjective
  <2>2. \A i, k \in 1..(Len(q) + 1) : t[i] = t[k] => i = k
    BY ONLY <2>1, <1>2, <1>3, <1>4
  <2> QED BY <2>2, <1>2 DEF IsInjective
<1>7. ToSet(t) = ToSet(q) \cup {x}
  BY <1>1, <1>2, <1>4, <1>5 DEF ToSet
<1> QED BY <1>2, <1>6, <1>7 DEF t

LEMMA Taken ==
  ASSUME NEW S, NEW q \in Seq(S), IsInjective(q), q # <<>>
  PROVE  /\ Tail(q) \in Seq(S) /\ IsInjective(Tail(q)) /\ Head(q) \in ToSet(q)
         /\ ToSet(Tail(q)) = ToSet(q) \ {Head(q)}
<1> DEFINE t == Tail(q)
<1>1. Len(q) \in Nat \ {0} /\ DOMAIN q = 1..Len(q) /\ Head(q) = q[1]
  BY LenProperties, EmptySeq
<1>2. t \in Seq(S) /\ Len(t) = Len(q) - 1 /\ \A i \in 1..Len(t) : t[i] = q[i + 1]
  BY HeadTailProperties
<1>3. Len(t) \in Nat /\ DOMAIN t = 1..Len(t)
  BY <1>2, LenProperties
<1> HIDE DEF t
<1>4. \A i \in 1..Len(t) : i + 1 \in 1..Len(q) /\ i + 1 # 1
  BY <1>1, <1>2, <1>3
<1>5. \A i \in 1..Len(q) : i = 1 \/ (i - 1 \in 1..Len(t) /\ (i - 1) + 1 = i)
  BY <1>1, <1>2
<1>6. \A i, k \in 1..Len(q) : q[i] = q[k] => i = k
  BY <1>1 DEF IsInjective
<1>7. IsInjective(t)
  <2>1. ASSUME NEW i \in 1..Len(t), NEW k \in 1..Len(t), t[i] = t[k]
        PROVE  i = k
    <3>1. i + 1 = k + 1
      BY <2>1, <1>2, <1>4, <1>6
    <3> QED BY <3>1, <1>3
  <2> QED BY <2>1, <1>3, Zenon DEF IsInjective
<1>8. ToSet(t) \subseteq ToSet(q) \ {Head(q)}
  <2>1. ToSet(t) = {t[i] : i \in 1..Len(t)} /\ ToSet(q) = {q[i] : i \in 1..Len(q)}
    BY <1>1, <1>3, Zenon DEF ToSet
  <2>2. ASSUME NEW i \in 1..Len(t)
        PROVE  t[i] \in {q[n] : n \in 1..Len(q)} /\ t[i] # Head(q)
    <3>1. i + 1 \in 1..Len(q) /\ t[i] = q[i + 1]
      BY <1>2, <1>4
    <3>2. q[i + 1] # q[1]
      BY <1>1, <1>4, <1>6
    <3> QED BY <1>1, <3>1, <3>2
  <2> QED BY <2>1, <2>2, Zenon
<1>9. ToSet(q) \ {Head(q)} \subseteq ToSet(t)
  <2> SUFFICES ASSUME NEW i \in 1..Len(q), q[i] # q[1]
               PROVE  \E k \in 1..Len(t) : t[k] = q[i]
    BY <1>1, <1>3 DEF ToSet
  <2>1. i - 1 \in 1..Len(t) /\ (i - 1) + 1 = i
    BY <1>5
  <2>2. t[i - 1] = q[i]
    BY <2>1, <1>2
  <2> QED BY <2>1, <2>2
<1>10. Head(q) \in ToSet(q)
  BY <1>1 DEF ToSet
<1> QED BY <1>2, <1>7, <1>8, <1>9, <1>10 DEF t

\* A request that is over stays over: only settlements are delivered again.
LEMMA DoneStays ==
  ASSUME TypeOK, Places, UsageAssumption, NEW f \in Flushers, FlusherStep(f),
         NEW r \in Requests, step[r] = "done"
  PROVE  step'[r] = "done"
<1> USE Apart
<1>1. CASE f # r
  BY <1>1, Paths
<1>2. CASE f = r
  <2>1. FALSE
    BY <1>2 DEF FlusherStep, Prepare, Enqueue, Settle, PersistStep, FlushStep, Acquire, SaveFails,
       SaveUsageBatch, FlushBegins, FlushEnds
  <2> QED BY <2>1
<1> QED BY <1>1, <1>2

\* Only these steps touch the queue, the batch or the budget.
LEMMA QueueEffects ==
  ASSUME Places, UsageAssumption, NEW f \in Flushers, FlusherStep(f), ~Enqueue(f), ~Take, ~GiveBack,
         ~NewGeneration
  PROVE  queue' = queue /\ batch' = batch /\ retained' = retained
BY DEF FlusherStep, Prepare, Settle, WriterStep, CloseBatch, WriterEnds, PersistStep,
   FlushStep, Acquire, SaveFails, SaveUsageBatch, FlushBegins, FlushEnds, ResetBegins, ResetStep,
   ResetLocks, ClearFails, ClearUsage, PruneLogBatch, SweepReads, SweepRemoves, queueVars

\* What the budget holds is what the queue and the batch weigh.
LEMMA QueuedKept ==
  ASSUME TypeOK, Places, Queued, UsageAssumption, NEW f \in Flushers, FlusherStep(f)
  PROVE  /\ Queued' /\ queue' \in Seq(Requests) /\ batch' \subseteq Requests
         /\ retained' \in 0..Budget
<1> USE Apart
<1>1. queue \in Seq(Requests) /\ batch \subseteq Requests /\ retained \in 0..Budget /\ Budget \in Nat
  BY DEF TypeOK, UsageAssumption
<1>2. PICK q \in Seq(Requests) : q = queue
  BY <1>1
<1>3. IsFiniteSet(ToSet(q)) /\ ToSet(q) \subseteq Requests /\ IsFiniteSet(batch) /\ IsInjective(q)
      /\ ToSet(q) \cap batch = {} /\ Held = ToSet(q) \cup batch
  BY <1>2, MembersFinite DEF Queued, Held
<1>4. \A r \in Requests : Size[r] \in Nat
  BY DEF UsageAssumption
<1>5. IsFiniteSet(Held) /\ Held \subseteq Requests
  BY <1>1, <1>3, FS_Union
<1>6. Bytes(Held) = Bytes(ToSet(q)) + Bytes(batch)
      /\ Bytes(ToSet(q)) \in Nat /\ Bytes(batch) \in Nat
  <2>1. /\ \A r \in ToSet(q) : Size[r] \in Nat
        /\ \A r \in batch : Size[r] \in Nat
        /\ \A r \in ToSet(q) \cup batch : Size[r] \in Nat
    BY <1>1, <1>3, <1>4
  <2>2. Weight(ToSet(q) \cup batch, Size) = Weight(ToSet(q), Size) + Weight(batch, Size)
    BY ONLY <2>1, <1>3, WeightUnion
  <2>3. Weight(ToSet(q), Size) \in Nat /\ Weight(batch, Size) \in Nat
    BY ONLY <2>1, <1>3, WeightType
  <2> QED BY <1>3, <2>2, <2>3 DEF Bytes
<1>7. \A r \in Held : step'[r] = "done"
  BY <1>5, DoneStays DEF Queued
<1>8. CASE f \in Records /\ Enqueue(f)
  <2>1. step[f] = "ready" /\ f \in Requests /\ f \notin Held
    BY <1>8 DEF Enqueue, Places, Queued, Records
  <2>2. CASE queue' = queue /\ retained' = retained
    BY <1>1, <1>7, <1>8, <2>2 DEF Enqueue, Queued, Held
  <2>3. CASE ~(queue' = queue /\ retained' = retained)
    <3>1. /\ queue' = Append(queue, f) /\ retained' = retained + Size[f] /\ To(f, "done")
          /\ Size[f] <= Budget - retained /\ batch' = batch
      BY <1>8, <2>3 DEF Enqueue, CanQueue
    <3>2. /\ Append(q, f) \in Seq(Requests) /\ IsInjective(Append(q, f))
          /\ ToSet(Append(q, f)) = ToSet(q) \cup {f}
      BY <1>3, <2>1, Appended
    <3>3. Held' = Held \cup {f} /\ ToSet(queue') \cap batch' = {}
      BY <1>2, <1>3, <2>1, <3>1, <3>2 DEF Held
    <3>4. Bytes(Held \cup {f}) = Bytes(Held) + Size[f]
      BY <1>4, <1>5, <2>1, WeightAdd DEF Bytes
    <3>5. step'[f] = "done"
      BY <3>1, Moved
    <3>6. retained' \in 0..Budget
      BY <1>1, <1>4, <2>1, <3>1
    <3>7. retained' = Bytes(Held)'
      BY <3>1, <3>3, <3>4 DEF Queued, Bytes
    <3> QED BY <1>1, <1>2, <1>3, <1>7, <3>1, <3>2, <3>3, <3>5, <3>6, <3>7 DEF Queued
  <2> QED BY <2>2, <2>3
<1>9. CASE Take
  <2>1. /\ queue # <<>> /\ batch' = batch \cup {Head(queue)} /\ queue' = Tail(queue)
        /\ retained' = retained
    BY <1>9 DEF Take
  <2>2. /\ Tail(q) \in Seq(Requests) /\ IsInjective(Tail(q)) /\ Head(q) \in ToSet(q)
        /\ ToSet(Tail(q)) = ToSet(q) \ {Head(q)}
    BY <1>2, <1>3, <2>1, Taken
  <2>3. Held' = Held /\ ToSet(queue') \cap batch' = {} /\ batch' \subseteq Requests
    BY <1>1, <1>2, <1>3, <2>1, <2>2 DEF Held
  <2>4. IsFiniteSet(batch')
    BY <1>3, <2>1, FS_AddElement
  <2> QED BY <1>1, <1>2, <1>7, <2>1, <2>2, <2>3, <2>4 DEF Queued, Bytes
<1>10. CASE GiveBack
  <2>1. queue' = queue /\ batch' = {} /\ retained' = retained - Bytes(batch)
    BY <1>10 DEF GiveBack
  <2>2. Held' = ToSet(q)
    BY <1>2, <2>1 DEF Held
  <2>3. retained' = Bytes(ToSet(q)) /\ retained' \in 0..Budget
    BY <1>1, <1>6, <2>1 DEF Queued
  <2>4. IsFiniteSet({})
    BY FS_EmptySet
  <2> QED BY <1>1, <1>2, <1>3, <1>7, <2>1, <2>2, <2>3, <2>4 DEF Queued, Bytes
<1>11. CASE NewGeneration
  <2>1. queue' = <<>> /\ batch' = batch /\ retained' = retained - Bytes(ToSet(q))
    BY <1>2, <1>11 DEF NewGeneration, DrainUsageQueue
  <2>2. queue' \in Seq(Requests) /\ ToSet(queue') = {} /\ IsInjective(queue')
    BY <2>1 DEF ToSet, IsInjective
  <2>3. Held' = batch
    BY <2>1, <2>2 DEF Held
  <2>4. retained' = Bytes(batch) /\ retained' \in 0..Budget
    BY <1>1, <1>6, <2>1 DEF Queued
  <2> QED BY <1>1, <1>3, <1>7, <2>1, <2>2, <2>3, <2>4 DEF Queued, Bytes
<1>12. CASE ~(f \in Records /\ Enqueue(f)) /\ ~Take /\ ~GiveBack /\ ~NewGeneration
  <2>1. ~Enqueue(f)
    BY <1>12 DEF Enqueue, Places
  <2>2. queue' = queue /\ batch' = batch /\ retained' = retained
    BY <1>12, <2>1, QueueEffects
  <2> QED BY <1>1, <1>7, <2>2 DEF Queued, Held, Bytes
<1> QED BY <1>8, <1>9, <1>10, <1>11, <1>12
-----------------------------------------------------------------------------
-----------------------------------------------------------------------------
(* The tables and what is being saved.                                     *)

\* While somebody is inside the lock, the others touch neither tables nor files nor
\* what is being saved.
LEMMA Outside ==
  ASSUME TypeOK, Places, UsageAssumption, NEW f \in Flushers, FlusherStep(f), ~Inside(f), lock # {}
  PROVE  /\ UNCHANGED <<current, saving, left, rows, rollup, pruned, files, doomed, failed>>
         /\ \A r \in Records : step[r] # "idle" => writeGen'[r] = writeGen[r]
<1> USE Apart
<1>1. ~PersistStep(f) /\ ~ResetLocks /\ ~PruneLogBatch /\ ~SweepReads
  BY DEF PersistStep, Acquire, SaveFails, SaveUsageBatch, ResetLocks, PruneLogBatch, SweepReads,
     SweepAlone, Places, Inside, Storing
<1>2. /\ f = Reset => ~ClearFails /\ ~ClearUsage /\ ~NewGeneration
      /\ f = Keeper => ~SweepRemoves
  BY DEF ClearFails, ClearUsage, NewGeneration, SweepRemoves, Inside
<1>3. CASE f \in Records /\ (Prepare(f) \/ Enqueue(f) \/ Settle(f))
  BY <1>3 DEF Prepare, Enqueue, Settle, lockVars, tables, disk, TypeOK
<1>4. CASE WriterStep
  BY <1>4 DEF WriterStep, Take, CloseBatch, GiveBack, WriterEnds, lockVars, tables, disk
<1>5. CASE FlushStep(f)
  <2>1. CASE FlushBegins(f)
    BY <2>1 DEF FlushBegins, lockVars, tables, disk
  <2>2. CASE FlushEnds(f)
    <3>1. f \notin Persisters
      BY <2>2 DEF FlushEnds, Inside, Storing
    <3> QED BY <2>2, <3>1 DEF FlushEnds, lockVars, tables, disk
  <2> QED BY <1>5, <2>1, <2>2 DEF FlushStep
<1>6. CASE ResetBegins
  BY <1>6 DEF ResetBegins, lockVars, tables, disk
<1> QED BY <1>1, <1>2, <1>3, <1>4, <1>5, <1>6 DEF FlusherStep, ResetStep

\* What a persister takes over is of records.
LEMMA ItemsAreRecords ==
  ASSUME TypeOK, UsageAssumption, NEW f \in Persisters
  PROVE  Items(f) \subseteq Records
BY Apart DEF Items, TypeOK

\* Entering the lock: what is of the current generation is saved, the rest is older.
LEMMA Entered ==
  ASSUME TypeOK, UsageAssumption, NEW f \in Persisters
  PROVE  /\ Pinned(f) \in [Records -> 0..current]
         /\ Selected(Items(f)) \subseteq Items(f)
         /\ \A r \in Selected(Items(f)) : Pinned(f)[r] = current
         /\ \A r \in Items(f) \ Selected(Items(f)) : Pinned(f)[r] < current
         /\ \A r \in Records : Pinned(f)[r] = writeGen[r] \/ Pinned(f)[r] = current
<1>1. Pinned(f) \in [Records -> 0..current]
  BY Apart DEF Pinned, TypeOK
<1>2. \A r \in Records : Pinned(f)[r] = writeGen[r] \/ Pinned(f)[r] = current
  BY Apart DEF Pinned, TypeOK
<1>3. ASSUME NEW r \in Items(f), Pinned(f)[r] # current
      PROVE  Pinned(f)[r] < current
  <2>1. PICK n \in 0..current : n = Pinned(f)[r]
    BY <1>1, ItemsAreRecords
  <2>2. current \in Nat
    BY DEF TypeOK
  <2>3. n < current
    BY <1>3, <2>1, <2>2
  <2> QED BY <2>1, <2>3
<1>4. \A r \in Items(f) : Pinned(r)[r] = Pinned(f)[r]
  BY Apart DEF Items, Pinned, TypeOK
<1>5. /\ Selected(Items(f)) \subseteq Items(f)
      /\ \A r \in Selected(Items(f)) : Pinned(f)[r] = current
  BY <1>4, Zenon DEF Selected
<1>6. \A r \in Items(f) \ Selected(Items(f)) : Pinned(f)[r] < current
  <2> SUFFICES ASSUME NEW r \in Items(f), r \notin Selected(Items(f))
               PROVE  Pinned(f)[r] < current
    OBVIOUS
  <2>1. Pinned(f)[r] # current
    BY <1>4, Zenon DEF Selected
  <2> QED BY <2>1, <1>3
<1> QED BY <1>1, <1>2, <1>5, <1>6

\* What is being saved stays as Saved says until the lock is left.
LEMMA SavedKept ==
  ASSUME TypeOK, Places, Locked, Queued, Saved, Cleared, UsageAssumption,
         NEW f \in Flushers, FlusherStep(f)
  PROVE  Saved'
<1> USE Apart
<1> DEFINE Holds(g) == /\ saving \subseteq Items(g)
                       /\ \A r \in saving : writeGen[r] = current
                       /\ \A r \in Items(g) \ saving : writeGen[r] < current
                       /\ step[g] = "save" => left > 0 /\ Attachments(saving) \subseteq files
                       /\ step[g] # "save" => \A r \in saving : rollup[r] > 0
<1>1. ASSUME NEW g \in Persisters, g # f, step'[g] \in Storing
      PROVE  Holds(g)'
  <2>1. step'[g] = step[g] /\ g \in Flushers
    BY <1>1, Paths
  <2>2. Inside(g) /\ lock = {g} /\ ~Inside(f)
    BY <1>1, <2>1, Alone DEF Inside, Locked
  <2>3. /\ UNCHANGED <<current, saving, left, rollup, files>>
        /\ \A r \in Records : step[r] # "idle" => writeGen'[r] = writeGen[r]
    BY <2>2, Outside
  <2>4. Items(g)' = Items(g)
    <3>1. CASE g = Writer
      <4>1. batch' = batch
        BY <1>1, <3>1 DEF FlusherStep, Prepare, Enqueue, Settle, PersistStep, FlushStep, Acquire,
           SaveFails, SaveUsageBatch, FlushBegins, FlushEnds, ResetBegins, ResetStep, ResetLocks,
           ClearFails, ClearUsage, NewGeneration, PruneLogBatch, SweepReads, SweepRemoves, queueVars
      <4> QED BY <3>1, <4>1 DEF Items
    <3>2. CASE g # Writer
      BY <3>2 DEF Items
    <3> QED BY <3>1, <3>2
  <2>5. \A r \in Items(g) : r \in Records /\ writeGen'[r] = writeGen[r]
    <3>1. \A r \in Items(g) : r \in Records /\ step[r] # "idle"
      BY <1>1, <2>1, ItemsAreRecords DEF Items, Queued, Held, Storing
    <3> QED BY <3>1, <2>3
  <2>6. Holds(g)
    BY <1>1, <2>1 DEF Saved
  <2> QED BY <2>1, <2>3, <2>4, <2>5, <2>6 DEF Attachments
<1>2. ASSUME f \in Persisters, step'[f] \in Storing
      PROVE  Holds(f)'
  <2>1. PersistStep(f) \/ FlushBegins(f)
    <3>1. CASE FlushEnds(f)
      <4>1. step'[f] = After(f)
        BY <1>2, <3>1, Moved DEF FlushEnds
      <4> QED BY <1>2, <4>1 DEF After, Storing
    <3>2. CASE ~PersistStep(f) /\ ~FlushStep(f)
      <4>1. \E s \in {"ready", "lock", "done", "collect", "idle", "gone"} : To(f, s)
        BY <1>2, <3>2, Zenon DEF FlusherStep, Prepare, Enqueue, Settle, WriterStep, Take, CloseBatch,
           GiveBack, WriterEnds
      <4> QED BY <1>2, <4>1, Moved DEF Storing
    <3> QED BY <3>1, <3>2 DEF FlushStep
  <2>2. UNCHANGED <<current, batch>>
    BY <2>1 DEF PersistStep, Acquire, SaveFails, SaveUsageBatch, FlushBegins, queueVars
  <2>3. Items(f)' = Items(f)
    BY <2>2 DEF Items
  <2>4. CASE Acquire(f)
    <3>1. ~To(f, After(f))
      BY <1>2, Moved DEF After, Storing
    <3>2. /\ saving' = Selected(Items(f)) /\ writeGen' = Pinned(f) /\ left' = Attempts
          /\ To(f, "save") /\ files' = files \cup Attachments(Selected(Items(f)))
      BY <2>4, <3>1 DEF Acquire
    <3>3. step'[f] = "save" /\ Attempts > 0
      BY <3>2, Moved DEF UsageAssumption
    <3>4. Attachments(saving)' = Attachments(Selected(Items(f)))
      BY <3>2 DEF Attachments
    <3> QED BY <1>2, <2>2, <2>3, <3>2, <3>3, <3>4, Entered
  <2>5. CASE SaveFails(f)
    <3>1. ~To(f, After(f))
      BY <1>2, Moved DEF After, Storing
    <3>2. /\ step[f] = "save" /\ left # 1 /\ left' = left - 1
          /\ UNCHANGED <<step, saving, writeGen, files>>
      BY <2>5, <3>1 DEF SaveFails, disk
    <3>3. Holds(f) /\ left \in Nat
      BY <1>2, <3>2 DEF Saved, Storing, TypeOK, UsageAssumption
    <3>4. left' > 0
      BY <3>2, <3>3
    <3> QED BY <2>2, <2>3, <3>2, <3>3, <3>4 DEF Attachments
  <2>6. CASE SaveUsageBatch(f)
    <3>1. /\ step[f] = "save" /\ UNCHANGED <<saving, writeGen>>
          /\ rollup' = [r \in Records |-> rollup[r] + IF r \in New(saving) THEN 1 ELSE 0]
      BY <2>6 DEF SaveUsageBatch, lockVars
    <3>2. step'[f] = "flush"
      BY <2>6, Moved DEF SaveUsageBatch
    <3>3. Holds(f)
      BY <1>2, <3>1 DEF Saved, Storing
    <3>4. \A r \in saving : rollup'[r] > 0
      BY <3>1 DEF New, Cleared, ClearedStaysCleared, TypeOK
    <3> QED BY <2>2, <2>3, <3>1, <3>2, <3>3, <3>4
  <2>7. CASE FlushBegins(f)
    <3>1. step[f] = "flush" /\ UNCHANGED <<saving, left, writeGen, rollup, files>>
      BY <2>7 DEF FlushBegins, lockVars, tables, disk
    <3>2. step'[f] = "flushing"
      BY <2>7, Moved DEF FlushBegins
    <3>3. Holds(f)
      BY <1>2, <3>1 DEF Saved, Storing
    <3> QED BY <2>2, <2>3, <3>1, <3>2, <3>3
  <2> QED BY <2>1, <2>4, <2>5, <2>6, <2>7 DEF PersistStep
<1>3. \A g \in Persisters : step'[g] \in Storing => Holds(g)'
  BY <1>1, <1>2
<1> QED BY <1>3 DEF Saved
-----------------------------------------------------------------------------
(* Rows, counts and attachments.                                           *)

\* Rows and their counts belong to the current generation.
LEMMA ClearedKept ==
  ASSUME TypeOK, Places, Locked, Saved, Cleared, UsageAssumption, NEW f \in Flushers, FlusherStep(f)
  PROVE  Cleared'
<1> USE Apart
<1>1. \A g \in Flushers \ {f} : step'[g] = step[g]
  BY Paths
<1>2. CASE f \in Persisters /\ SaveUsageBatch(f)
  <2>1. Inside(f) /\ step[Reset] # "drain" /\ step'[Reset] # "drain"
    <3>1. Inside(f)
      BY <1>2 DEF SaveUsageBatch, Inside, Storing
    <3>2. ~Inside(Reset)
      BY <1>2, <3>1, Alone
    <3> QED BY <1>1, <1>2, <3>1, <3>2 DEF Inside
  <2>2. /\ rows' = rows \cup saving /\ UNCHANGED <<writeGen, current, pruned>>
        /\ rollup' = [r \in Records |-> rollup[r] + IF r \in New(saving) THEN 1 ELSE 0]
    BY <1>2 DEF SaveUsageBatch
  <2>3. \A r \in saving : writeGen[r] = current
    BY <1>2 DEF SaveUsageBatch, Saved, Storing
  <2>4. ASSUME NEW r \in Records
        PROVE  /\ rollup'[r] > 0 => writeGen[r] = current
               /\ rollup'[r] > 1 => r \in pruned
               /\ r \in rows' => rollup'[r] > 0
               /\ rollup'[r] > 0 => r \in rows' \cup pruned
    <3>1. /\ rollup[r] \in Nat
          /\ rollup[r] > 0 => writeGen[r] = current
          /\ rollup[r] > 1 => r \in pruned
          /\ r \in rows => rollup[r] > 0
          /\ rollup[r] > 0 => r \in rows \cup pruned
      BY DEF TypeOK, Cleared, ClearedStaysCleared
    <3>2. CASE r \in saving \ rows
      <4>1. rollup'[r] = rollup[r] + 1
        BY <2>2, <3>2 DEF New
      <4> QED BY <2>2, <2>3, <3>1, <3>2, <4>1
    <3>3. CASE r \notin saving \ rows
      <4>1. rollup'[r] = rollup[r]
        BY <2>2, <3>1, <3>3 DEF New
      <4> QED BY <2>2, <3>1, <3>3, <4>1
    <3> QED BY <3>2, <3>3
  <2> QED BY <2>1, <2>2, <2>4 DEF Cleared, ClearedStaysCleared
<1>3. CASE f \in Persisters /\ Acquire(f)
  <2>1. step'[Reset] = step[Reset] /\ UNCHANGED <<rows, rollup, pruned, current>>
    BY <1>1, <1>3 DEF Acquire, tables
  <2>2. writeGen' = Pinned(f)
    BY <1>3 DEF Acquire
  <2>3. \A r \in Records : writeGen'[r] = writeGen[r] \/ writeGen'[r] = current
    BY <1>3, <2>2, Entered
  <2> QED BY <2>1, <2>3 DEF Cleared, ClearedStaysCleared
<1>4. CASE f \in Records /\ Prepare(f)
  <2>1. step'[Reset] = step[Reset] /\ UNCHANGED <<rows, rollup, pruned, current>>
    BY <1>1, <1>4 DEF Prepare, tables
  <2>2. \A r \in Records : writeGen'[r] = writeGen[r] \/ writeGen'[r] = current
    BY <1>4 DEF Prepare, TypeOK
  <2> QED BY <2>1, <2>2 DEF Cleared, ClearedStaysCleared
<1>5. CASE f = Reset /\ ClearUsage
  <2>1. rows' = {} /\ pruned' = {} /\ \A r \in Records : rollup'[r] = 0
    BY <1>5 DEF ClearUsage
  <2> QED BY <2>1 DEF Cleared, ClearedStaysCleared
<1>6. CASE f = Reset /\ NewGeneration
  <2>1. rows = {} /\ pruned = {} /\ \A r \in Records : rollup[r] = 0
    BY <1>6 DEF NewGeneration, Cleared
  <2>2. UNCHANGED <<rows, pruned, rollup>>
    BY <1>6 DEF NewGeneration, tables
  <2> QED BY <2>1, <2>2 DEF Cleared, ClearedStaysCleared
<1>7. CASE f = Keeper /\ PruneLogBatch
  <2>1. step[Reset] # "drain"
    BY <1>7, Alone DEF PruneLogBatch, Inside, Locked
  <2>2. step'[Reset] # "drain"
    BY <1>1, <1>7, <2>1
  <2>3. PICK r \in rows : rows' = rows \ {r} /\ pruned' = pruned \cup {r}
    BY <1>7 DEF PruneLogBatch
  <2>4. UNCHANGED <<rollup, writeGen, current>>
    BY <1>7 DEF PruneLogBatch
  <2> QED BY <2>2, <2>3, <2>4 DEF Cleared, ClearedStaysCleared
<1>8. CASE /\ ~(f \in Persisters /\ (SaveUsageBatch(f) \/ Acquire(f)))
           /\ ~(f \in Records /\ Prepare(f))
           /\ ~(f = Reset /\ (ClearUsage \/ NewGeneration)) /\ ~(f = Keeper /\ PruneLogBatch)
  <2>1. /\ ~SaveUsageBatch(f) /\ ~Acquire(f) /\ ~Prepare(f)
        /\ f = Reset => ~ClearUsage /\ ~NewGeneration
        /\ f = Keeper => ~PruneLogBatch
    BY <1>8 DEF SaveUsageBatch, Acquire, Prepare, Places
  <2>2. UNCHANGED <<rows, rollup, pruned, writeGen, current>>
    BY <2>1 DEF FlusherStep, Enqueue, Settle, WriterStep, Take, CloseBatch, GiveBack, WriterEnds,
       PersistStep, FlushStep, SaveFails, FlushBegins, FlushEnds, ResetBegins, ResetStep,
       ResetLocks, ClearFails, SweepReads, SweepRemoves, tables
  <2>3. step'[Reset] = "drain" => step[Reset] = "drain"
    <3>1. CASE f # Reset
      BY <1>1, <3>1
    <3>2. CASE f = Reset
      <4>1. ResetBegins \/ ResetLocks \/ ClearFails \/ FlushStep(f)
        BY <2>1, <3>2 DEF FlusherStep, ResetStep, PersistStep, SaveFails, Places
      <4>2. \E s \in {"lock", "clear", "idle", "flushing"} : To(f, s)
        BY <3>2, <4>1, Zenon DEF ResetBegins, ResetLocks, ClearFails, FlushStep, FlushBegins, FlushEnds
      <4> QED BY <3>2, <4>2, Moved
    <3> QED BY <3>1, <3>2
  <2> QED BY <2>2, <2>3 DEF Cleared, ClearedStaysCleared
<1> QED BY <1>2, <1>3, <1>4, <1>5, <1>6, <1>7, <1>8

\* What a sweep removes is no row's, and what is stored has its attachments.
LEMMA KeptKept ==
  ASSUME TypeOK, Places, Locked, Saved, Kept, UsageAssumption, NEW f \in Flushers, FlusherStep(f)
  PROVE  Kept'
<1> USE Apart
<1>1. \A g \in Flushers \ {f} : step'[g] = step[g]
  BY Paths
<1>2. CASE f \in Persisters /\ SaveUsageBatch(f)
  <2>1. Attachments(saving) \subseteq files
    BY <1>2 DEF SaveUsageBatch, Saved, Storing
  <2>2. rows' = rows \cup saving /\ files' = files
    BY <1>2 DEF SaveUsageBatch, disk
  <2>3. step'[Keeper] # "sweep"
    BY <1>1, <1>2, Alone DEF SaveUsageBatch, Inside, Storing
  <2> QED BY <2>1, <2>2, <2>3 DEF Kept, AttachmentsKept, Attachments
<1>3. CASE f \in Persisters /\ Acquire(f)
  <2>1. /\ rows' = rows /\ doomed' = doomed /\ files \subseteq files' /\ step'[Keeper] = step[Keeper]
    BY <1>1, <1>3 DEF Acquire, tables
  <2> QED BY <2>1 DEF Kept, AttachmentsKept, Attachments
<1>4. CASE f = Reset /\ ClearUsage
  <2>1. rows' = {}
    BY <1>4 DEF ClearUsage
  <2> QED BY <2>1 DEF Kept, AttachmentsKept, Attachments
<1>5. CASE f = Keeper /\ PruneLogBatch
  <2>1. rows' \subseteq rows /\ files' = files /\ step'[f] = "flush"
    BY <1>5, Moved DEF PruneLogBatch, disk
  <2> QED BY <1>5, <2>1 DEF Kept, AttachmentsKept, Attachments
<1>6. CASE f = Keeper /\ SweepReads
  <2>1. rows' = rows /\ files' = files /\ doomed' = files \ Attachments(rows)
    BY <1>6 DEF SweepReads, tables
  <2> QED BY <2>1 DEF Kept, AttachmentsKept, Attachments
<1>7. CASE f = Keeper /\ SweepRemoves
  <2>1. rows' = rows /\ files' = files \ doomed /\ step'[f] = "idle" /\ step[f] = "sweep"
    BY <1>7, Moved DEF SweepRemoves, tables
  <2> QED BY <1>7, <2>1 DEF Kept, AttachmentsKept, Attachments
<1>8. CASE /\ ~(f \in Persisters /\ (SaveUsageBatch(f) \/ Acquire(f))) /\ ~(f = Reset /\ ClearUsage)
           /\ ~(f = Keeper /\ (PruneLogBatch \/ SweepReads \/ SweepRemoves))
  <2>1. /\ ~SaveUsageBatch(f) /\ ~Acquire(f)
        /\ f = Reset => ~ClearUsage
        /\ f = Keeper => ~PruneLogBatch /\ ~SweepReads /\ ~SweepRemoves
    BY <1>8 DEF SaveUsageBatch, Acquire, Places
  <2>2. UNCHANGED <<rows, files, doomed>>
    BY <2>1 DEF FlusherStep, Prepare, Enqueue, Settle, WriterStep, Take, CloseBatch, GiveBack,
       WriterEnds, PersistStep, FlushStep, SaveFails, FlushBegins, FlushEnds, ResetBegins, ResetStep,
       ResetLocks, ClearFails, NewGeneration, tables, disk
  <2>3. step'[Keeper] = "sweep" => step[Keeper] = "sweep"
    <3>1. CASE f # Keeper
      BY <1>1, <3>1
    <3>2. CASE f = Keeper
      <4>1. FlushStep(f)
        BY <2>1, <3>2 DEF FlusherStep, PersistStep, SaveFails, Places
      <4>2. \E s \in {"idle", "flushing"} : To(f, s)
        BY <3>2, <4>1, Zenon DEF FlushStep, FlushBegins, FlushEnds
      <4> QED BY <3>2, <4>2, Moved
    <3> QED BY <3>1, <3>2
  <2> QED BY <2>2, <2>3 DEF Kept, AttachmentsKept, Attachments
<1> QED BY <1>2, <1>3, <1>4, <1>5, <1>6, <1>7, <1>8
-----------------------------------------------------------------------------
(* Every record is accounted for.                                          *)

\* What has been dealt with stays so.
LEMMA SettledStays ==
  ASSUME TypeOK, Places, Locked, Saved, Cleared, UsageAssumption, NEW f \in Flushers, FlusherStep(f),
         NEW r \in Requests \cup Jobs, Settled(r), step[r] = "done"
  PROVE  Settled(r)' \/ step'[r] # "done"
<1> USE Apart
<1>1. r \in Records /\ writeGen[r] \in Nat /\ writeGen[r] <= current /\ current \in Nat
  BY DEF TypeOK
<1>2. CASE f = Reset /\ ClearUsage
  <2>1. step'[Reset] = "drain"
    BY <1>2, Moved DEF ClearUsage
  <2> QED BY <2>1 DEF Settled
<1>3. CASE f = Reset /\ NewGeneration
  <2>1. writeGen'[r] < current'
    BY <1>1, <1>3 DEF NewGeneration
  <2> QED BY <2>1 DEF Settled
<1>4. CASE f \in Persisters /\ Acquire(f)
  <2>1. f # r /\ step'[Reset] = step[Reset]
    BY <1>4, Paths DEF Acquire
  <2>2. writeGen'[r] = writeGen[r]
    BY <1>1, <1>4, <2>1 DEF Acquire, Pinned, TypeOK
  <2>3. failed \subseteq failed' /\ rollup' = rollup /\ current' = current
    BY <1>4 DEF Acquire, tables
  <2> QED BY <2>1, <2>2, <2>3 DEF Settled
<1>5. CASE f \in Persisters /\ SaveUsageBatch(f)
  <2>1. step'[Reset] = step[Reset] /\ UNCHANGED <<writeGen, current, failed>>
    BY <1>5, Paths DEF SaveUsageBatch
  <2>2. rollup[r] \in Nat /\ rollup'[r] \in {rollup[r], rollup[r] + 1}
    BY <1>1, <1>5 DEF SaveUsageBatch, TypeOK
  <2>3. rollup[r] > 0 => rollup'[r] > 0
    BY <2>2
  <2> QED BY <2>1, <2>3 DEF Settled
<1>6. CASE f \in Records /\ Prepare(f)
  <2>1. f # r /\ step'[Reset] = step[Reset]
    BY <1>6, Paths DEF Prepare
  <2>2. writeGen'[r] = writeGen[r] /\ UNCHANGED <<failed, rollup, current>>
    BY <1>1, <1>6, <2>1 DEF Prepare, tables, TypeOK
  <2> QED BY <2>1, <2>2 DEF Settled
<1>7. CASE /\ ~(f \in Persisters /\ (SaveUsageBatch(f) \/ Acquire(f)))
           /\ ~(f \in Records /\ Prepare(f)) /\ ~(f = Reset /\ (ClearUsage \/ NewGeneration))
  <2>1. /\ ~SaveUsageBatch(f) /\ ~Acquire(f) /\ ~Prepare(f)
        /\ f = Reset => ~ClearUsage /\ ~NewGeneration
    BY <1>7 DEF SaveUsageBatch, Acquire, Prepare, Places
  <2>2. UNCHANGED <<rollup, writeGen, current>> /\ failed \subseteq failed'
    BY <2>1 DEF FlusherStep, Enqueue, Settle, WriterStep, Take, CloseBatch, GiveBack, WriterEnds,
       PersistStep, FlushStep, SaveFails, FlushBegins, FlushEnds, ResetBegins, ResetStep,
       ResetLocks, ClearFails, PruneLogBatch, SweepReads, SweepRemoves, tables
  <2>3. step[Reset] = "drain" => step'[Reset] = "drain"
    <3>1. CASE f # Reset
      BY <3>1, Paths
    <3>2. CASE f = Reset
      <4>1. step[Reset] # "drain"
        BY <2>1, <3>2 DEF FlusherStep, ResetStep, ResetBegins, ResetLocks, ClearFails, PersistStep,
           SaveFails, FlushStep, FlushBegins, FlushEnds, Places
      <4> QED BY <4>1
    <3> QED BY <3>1, <3>2
  <2> QED BY <2>2, <2>3 DEF Settled
<1> QED BY <1>2, <1>3, <1>4, <1>5, <1>6, <1>7

\* Whoever has tried to store his records has dealt with all of them.
LEMMA Ended ==
  ASSUME TypeOK, Places, Locked, Saved, Cleared, UsageAssumption, NEW f \in Persisters,
         PersistStep(f) \/ FlushStep(f), step'[f] = After(f)
  PROVE  \A r \in Items(f) : Settled(r)'
<1> USE Apart
<1>1. Items(f) \subseteq Records
  BY ItemsAreRecords
<1>2. CASE Acquire(f)
  <2>1. ~To(f, "save")
    BY Moved DEF After
  <2>2. writeGen' = Pinned(f) /\ failed' = failed \cup Selected(Items(f)) /\ current' = current
    BY <1>2, <2>1 DEF Acquire
  <2> QED BY <2>2, Entered DEF Settled
<1>3. CASE SaveFails(f)
  <2>1. step[f] = "save" /\ step' # step
    BY <1>3 DEF SaveFails, After
  <2>2. failed' = failed \cup saving /\ UNCHANGED <<writeGen, current>>
    BY <1>3, <2>1 DEF SaveFails
  <2>3. \A r \in Items(f) \ saving : writeGen[r] < current
    BY <2>1 DEF Saved, Storing
  <2> QED BY <2>2, <2>3 DEF Settled
<1>4. CASE SaveUsageBatch(f)
  <2>1. step'[f] = "flush"
    BY <1>4, Moved DEF SaveUsageBatch
  <2> QED BY <2>1 DEF After
<1>5. CASE FlushBegins(f)
  <2>1. step'[f] = "flushing"
    BY <1>5, Moved DEF FlushBegins
  <2> QED BY <2>1 DEF After
<1>6. CASE FlushEnds(f)
  <2>1. step[f] = "flushing" /\ UNCHANGED <<writeGen, current, rollup>>
    BY <1>6 DEF FlushEnds, tables
  <2>2. /\ \A r \in Items(f) \ saving : writeGen[r] < current
        /\ \A r \in saving : rollup[r] > 0
    BY <2>1 DEF Saved, Storing
  <2> QED BY <2>1, <2>2 DEF Settled
<1> QED BY <1>2, <1>3, <1>4, <1>5, <1>6 DEF PersistStep, FlushStep

\* Nothing handed over is forgotten.
LEMMA TracedKept ==
  ASSUME TypeOK, Places, Locked, Queued, Saved, Cleared, Traced, UsageAssumption,
         NEW f \in Flushers, FlusherStep(f)
  PROVE  Traced'
<1> USE Apart
<1>1. batch \subseteq Requests /\ ToSet(queue) \subseteq Requests
  BY MembersFinite DEF TypeOK
<1>2. f # Writer => batch' = batch
  BY DEF FlusherStep, Prepare, Enqueue, Settle, PersistStep, FlushStep, Acquire, SaveFails,
     SaveUsageBatch, FlushBegins, FlushEnds, ResetBegins, ResetStep, ResetLocks, ClearFails,
     ClearUsage, NewGeneration, PruneLogBatch, SweepReads, SweepRemoves, queueVars
<1>3. ASSUME step'[Writer] = "giveback", NEW r \in batch'
      PROVE  Settled(r)'
  <2>1. CASE f # Writer
    <3>1. step[Writer] = "giveback" /\ r \in batch
      BY <1>2, <1>3, <2>1, Paths
    <3>2. r \in Requests /\ Settled(r) /\ step[r] = "done" /\ step'[r] = "done"
      BY <1>1, <3>1, DoneStays DEF Traced, Queued, Held
    <3> QED BY <3>2, SettledStays
  <2>2. CASE f = Writer
    <3>1. PersistStep(f) \/ FlushStep(f)
      <4>1. ASSUME WriterStep
            PROVE  FALSE
        <5>1. \E s \in {"collect", "lock", "idle", "gone"} : To(f, s)
          BY <2>2, <4>1, Zenon DEF WriterStep, Take, CloseBatch, GiveBack, WriterEnds
        <5> QED BY <1>3, <2>2, <5>1, Moved
      <4> QED BY <2>2, <4>1 DEF FlusherStep
    <3>2. batch' = batch
      BY <3>1 DEF PersistStep, FlushStep, Acquire, SaveFails, SaveUsageBatch, FlushBegins,
         FlushEnds, queueVars
    <3> QED BY <1>3, <2>2, <3>1, <3>2, Ended DEF After, Items
  <2> QED BY <2>1, <2>2
<1>4. ASSUME NEW r \in Records, step'[r] = "done", r \notin Held'
      PROVE  Settled(r)'
  <2>1. CASE step[r] = "done" /\ r \notin Held
    BY <1>4, <2>1, SettledStays DEF Traced, NoSilentLoss, Settled, Records
  <2>2. CASE r \in Held
    <3>1. r \in Requests /\ step[r] = "done"
      BY <1>1, <2>2 DEF Held, Queued
    <3>2. CASE NewGeneration
      <4>1. writeGen'[r] < current'
        BY <3>2 DEF NewGeneration, TypeOK
      <4> QED BY <4>1 DEF Settled
    <3>3. CASE GiveBack
      <4>1. r \in batch /\ step[Writer] = "giveback"
        BY <1>4, <2>2, <3>3 DEF GiveBack, Held
      <4>2. Settled(r)
        BY <4>1 DEF Traced
      <4> QED BY <1>4, <3>1, <4>2, SettledStays
    <3>4. CASE Take
      <4>1. Held' = Held
        <5>1. PICK q \in Seq(Requests) : q = queue
          BY DEF TypeOK
        <5>2. ToSet(Tail(q)) = ToSet(q) \ {Head(q)} /\ Head(q) \in ToSet(q)
          BY <3>4, <5>1, Taken DEF Take, Queued
        <5> QED BY <3>4, <5>1, <5>2 DEF Take, Held
      <4> QED BY <1>4, <2>2, <4>1
    <3>5. CASE f \in Requests /\ Enqueue(f)
      <4>1. batch' = batch /\ (queue' = queue \/ queue' = Append(queue, f))
        BY <3>5 DEF Enqueue
      <4>2. ToSet(queue) \subseteq ToSet(queue')
        <5>1. PICK q \in Seq(Requests) : q = queue
          BY DEF TypeOK
        <5>2. f \notin ToSet(q) /\ IsInjective(q)
          BY <3>5, <5>1 DEF Enqueue, Queued, Held
        <5>3. ToSet(Append(q, f)) = ToSet(q) \cup {f}
          BY <3>5, <5>2, Appended
        <5> QED BY <4>1, <5>1, <5>3
      <4> QED BY <1>4, <2>2, <4>1, <4>2 DEF Held
    <3>6. CASE ~Take /\ ~GiveBack /\ ~NewGeneration /\ ~(f \in Requests /\ Enqueue(f))
      <4>1. ~Enqueue(f)
        BY <3>6 DEF Enqueue, Places, Records
      <4>2. Held' = Held
        BY <3>6, <4>1, QueueEffects DEF Held
      <4> QED BY <1>4, <2>2, <4>2
    <3> QED BY <3>2, <3>3, <3>4, <3>5, <3>6
  <2>3. CASE step[r] # "done"
    <3>1. f = r
      BY <1>4, <2>3, Paths
    <3>2. CASE PersistStep(f) \/ FlushStep(f)
      BY <1>4, <3>1, <3>2, Ended DEF After, Items
    <3>3. CASE Enqueue(f)
      <4>1. queue' = Append(queue, f) /\ f \in Requests
        <5>1. ~To(f, "lock")
          BY <1>4, <3>1, Moved
        <5>2. f \in Requests
          BY <3>1, <3>3 DEF Enqueue, Places, Records
        <5> QED BY <3>3, <5>1, <5>2 DEF Enqueue
      <4>2. f \in ToSet(queue')
        <5>1. PICK q \in Seq(Requests) : q = queue
          BY DEF TypeOK
        <5>2. f \notin ToSet(q) /\ IsInjective(q)
          BY <2>3, <3>1, <5>1 DEF Queued, Held
        <5>3. ToSet(Append(q, f)) = ToSet(q) \cup {f}
          BY <4>1, <5>2, Appended
        <5> QED BY <4>1, <5>1, <5>3
      <4> QED BY <1>4, <3>1, <4>2 DEF Held
    <3>4. CASE Prepare(f) \/ Settle(f)
      <4>1. To(f, "ready") \/ To(f, "lock")
        BY <3>4 DEF Prepare, Settle
      <4> QED BY <1>4, <3>1, <4>1, Moved
    <3> QED BY <3>1, <3>2, <3>3, <3>4 DEF FlusherStep
  <2> QED BY <2>1, <2>2, <2>3
<1> QED BY <1>3, <1>4 DEF Traced, NoSilentLoss, Settled
-----------------------------------------------------------------------------
(* The invariant.                                                          *)

\* The steps of a goroutine change of the cache only what a commit or a flush does.
LEMMA CacheKept ==
  ASSUME TypeOK, Fresh, UsageAssumption, NEW f \in Flushers, FlusherStep(f)
  PROVE  CacheTypeOK' /\ Fresh'
<1>1. InvalidateAll(f) \/ NextGeneration(f) \/ Commits \/ UNCHANGED cacheVars
  <2>1. CASE f \in Records /\ (Prepare(f) \/ Enqueue(f) \/ Settle(f))
    BY <2>1 DEF Prepare, Enqueue, Settle
  <2>2. CASE WriterStep
    BY <2>2 DEF WriterStep, Take, CloseBatch, GiveBack, WriterEnds
  <2>3. CASE PersistStep(f) \/ FlushStep(f)
    BY <2>3 DEF PersistStep, FlushStep, Acquire, SaveFails, SaveUsageBatch, FlushBegins, FlushEnds
  <2>4. CASE ResetBegins \/ ResetStep
    BY <2>4 DEF ResetBegins, ResetStep, ResetLocks, ClearFails, ClearUsage, NewGeneration
  <2>5. CASE PruneLogBatch \/ SweepReads \/ SweepRemoves
    BY <2>5 DEF PruneLogBatch, SweepReads, SweepRemoves
  <2> QED BY <2>1, <2>2, <2>3, <2>4, <2>5 DEF FlusherStep
<1> QED BY <1>1, FlushesFresh DEF TypeOK

\* Generations are never ahead of the current one.
LEMMA GenerationsKept ==
  ASSUME TypeOK, Places, UsageAssumption, NEW f \in Flushers, FlusherStep(f)
  PROVE  current' \in Nat /\ writeGen' \in [Records -> 0..current']
<1> USE Apart
<1>1. current \in Nat /\ writeGen \in [Records -> 0..current]
  BY DEF TypeOK
<1>2. CASE Prepare(f)
  BY <1>1, <1>2 DEF Prepare
<1>3. CASE Acquire(f)
  <2>1. f \in Persisters /\ writeGen' = Pinned(f) /\ current' = current
    BY <1>3 DEF Acquire
  <2> QED BY <1>1, <2>1, Entered
<1>4. CASE NewGeneration
  <2>1. current' = current + 1 /\ writeGen' = writeGen
    BY <1>4 DEF NewGeneration
  <2> QED BY <1>1, <2>1
<1>5. CASE ~Prepare(f) /\ ~Acquire(f) /\ ~NewGeneration
  <2>1. UNCHANGED <<current, writeGen>>
    BY <1>5 DEF FlusherStep, Enqueue, Settle, WriterStep, Take, CloseBatch, GiveBack, WriterEnds,
       PersistStep, FlushStep, SaveFails, SaveUsageBatch, FlushBegins, FlushEnds, ResetBegins,
       ResetStep, ResetLocks, ClearFails, ClearUsage, PruneLogBatch, SweepReads, SweepRemoves
  <2> QED BY <1>1, <2>1
<1> QED BY <1>2, <1>3, <1>4, <1>5

\* What is being saved, reported and counted are records.
LEMMA TablesKept ==
  ASSUME TypeOK, Places, Saved, UsageAssumption, NEW f \in Flushers, FlusherStep(f)
  PROVE  /\ saving' \subseteq Records /\ left' \in 0..Attempts
         /\ rows' \subseteq Records /\ pruned' \subseteq Records /\ failed' \subseteq Records
         /\ rollup' \in [Records -> Nat]
<1> USE Apart
<1>1. /\ saving \subseteq Records /\ left \in 0..Attempts /\ Attempts \in Nat \ {0}
      /\ rows \subseteq Records /\ pruned \subseteq Records /\ failed \subseteq Records
      /\ rollup \in [Records -> Nat]
  BY DEF TypeOK, UsageAssumption
<1>2. CASE Acquire(f)
  <2>1. f \in Persisters /\ UNCHANGED tables
    BY <1>2 DEF Acquire
  <2>2. Selected(Items(f)) \subseteq Records
    BY <2>1, Entered, ItemsAreRecords
  <2>3. \/ failed' = failed \cup Selected(Items(f)) /\ UNCHANGED <<saving, left>>
        \/ saving' = Selected(Items(f)) /\ left' = Attempts /\ UNCHANGED failed
    BY <1>2 DEF Acquire, lockVars
  <2> QED BY <1>1, <2>1, <2>2, <2>3 DEF tables
<1>3. CASE SaveFails(f)
  <2>1. f \in Persisters /\ step[f] \in Storing
    BY <1>3 DEF SaveFails, Places, Storing
  <2>2. left > 0
    BY <1>3, <2>1 DEF SaveFails, Saved
  <2>3. UNCHANGED tables
    BY <1>3 DEF SaveFails
  <2>4. \/ failed' = failed \cup saving /\ saving' = {} /\ left' = 0
        \/ left' = left - 1 /\ UNCHANGED <<saving, failed>>
    BY <1>3 DEF SaveFails, Unlock
  <2> QED BY <1>1, <2>2, <2>3, <2>4 DEF tables
<1>4. CASE SaveUsageBatch(f)
  <2>1. /\ rows' = rows \cup saving /\ UNCHANGED <<saving, left, failed, pruned>>
        /\ rollup' = [r \in Records |-> rollup[r] + IF r \in New(saving) THEN 1 ELSE 0]
    BY <1>4 DEF SaveUsageBatch, lockVars
  <2> QED BY <1>1, <2>1
<1>5. CASE FlushStep(f)
  <2>1. UNCHANGED <<tables, failed>> /\ (UNCHANGED <<saving, left>> \/ (saving' = {} /\ left' = 0))
    BY <1>5 DEF FlushStep, FlushBegins, FlushEnds, lockVars, Unlock
  <2> QED BY <1>1, <2>1 DEF tables
<1>6. CASE ClearUsage
  <2>1. /\ rows' = {} /\ pruned' = {} /\ rollup' = [r \in Records |-> 0]
        /\ UNCHANGED <<saving, left, failed>>
    BY <1>6 DEF ClearUsage, lockVars
  <2> QED BY <1>1, <2>1
<1>7. CASE PruneLogBatch
  <2>1. /\ \E r \in rows : rows' = rows \ {r} /\ pruned' = pruned \cup {r}
        /\ UNCHANGED <<saving, left, failed, rollup>>
    BY <1>7 DEF PruneLogBatch, lockVars
  <2> QED BY <1>1, <2>1
<1>8. CASE ~PersistStep(f) /\ ~FlushStep(f) /\ ~ClearUsage /\ ~PruneLogBatch
  <2>1. UNCHANGED <<saving, left, failed, rows, pruned, rollup>>
    BY <1>8 DEF FlusherStep, Prepare, Enqueue, Settle, WriterStep, Take, CloseBatch, GiveBack,
       WriterEnds, ResetBegins, ResetStep, ResetLocks, ClearFails, NewGeneration, SweepReads,
       SweepRemoves, lockVars, tables
  <2> QED BY <1>1, <2>1
<1> QED BY <1>2, <1>3, <1>4, <1>5, <1>6, <1>7, <1>8 DEF PersistStep

LEMMA TypesKept ==
  ASSUME TypeOK, Fresh, Places, Locked, Queued, Saved, UsageAssumption,
         NEW f \in Flushers, FlusherStep(f)
  PROVE  TypeOK'
<1>1. CacheTypeOK'
  BY CacheKept
<1>2. step' \in [Flushers -> {"absent", "idle", "ready", "lock", "save", "flush", "flushing",
                              "collect", "giveback", "gone", "clear", "drain", "sweep", "done"}]
  <2>1. step' = [g \in Flushers |-> step'[g]] /\ Places'
    BY Paths
  <2>2. \A g \in Flushers : step'[g] \in
          {"absent", "idle", "ready", "lock", "save", "flush", "flushing",
           "collect", "giveback", "gone", "clear", "drain", "sweep", "done"}
    BY <2>1, Apart DEF Places
  <2> QED BY <2>1, <2>2
<1>3. queue' \in Seq(Requests) /\ batch' \subseteq Requests /\ retained' \in 0..Budget
  BY QueuedKept
<1>4. lock' \subseteq Flushers
  BY LockedKept
<1> QED BY <1>1, <1>2, <1>3, <1>4, GenerationsKept, TablesKept DEF TypeOK

LEMMA FlushersKeep ==
  ASSUME IInv, UsageAssumption, NEW f \in Flushers, FlusherStep(f)
  PROVE  IInv'
<1>1. /\ TypeOK /\ Fresh /\ Places /\ Locked /\ Queued /\ Saved /\ Cleared /\ Traced /\ Kept
  BY DEF IInv
<1>2. TypeOK'
  BY <1>1, TypesKept
<1>3. Fresh'
  BY <1>1, CacheKept
<1>4. Places' /\ Locked'
  BY <1>1, Paths, LockedKept
<1>5. Queued'
  BY <1>1, QueuedKept
<1>6. Saved'
  BY <1>1, SavedKept
<1>7. Cleared'
  BY <1>1, ClearedKept
<1>8. Traced'
  BY <1>1, TracedKept
<1>9. Kept'
  BY <1>1, KeptKept
<1> QED BY <1>2, <1>3, <1>4, <1>5, <1>6, <1>7, <1>8, <1>9 DEF IInv

\* The invariant speaks of the rest of the state only; what changes nothing of it
\* but the cache keeps it if the cache stays fresh.
LEMMA RestKept ==
  ASSUME IInv, CacheTypeOK', Fresh',
         UNCHANGED <<step, writeGen, current, queue, batch, retained, lockVars, tables, disk, failed>>
  PROVE  IInv'
<1>1. UNCHANGED <<step, writeGen, current, queue, batch, retained, lock, saving, left, rows, rollup,
                  pruned, files, doomed, failed>>
  BY DEF lockVars, tables, disk
<1>2. TypeOK'
  BY <1>1 DEF IInv, TypeOK
<1>3. Places' /\ Locked'
  BY <1>1 DEF IInv, Places, Locked, Inside
<1>4. Queued'
  BY <1>1 DEF IInv, Queued, Held, Bytes
<1>5. Saved'
  BY <1>1 DEF IInv, Saved, Items, Attachments
<1>6. Cleared'
  BY <1>1 DEF IInv, Cleared, ClearedStaysCleared
<1>7. Traced'
  BY <1>1 DEF IInv, Traced, NoSilentLoss, Settled, Held
<1>8. Kept'
  BY <1>1 DEF IInv, Kept, AttachmentsKept, Attachments
<1> QED BY <1>2, <1>3, <1>4, <1>5, <1>6, <1>7, <1>8 DEF IInv

\* The invariant holds in every reachable state.
THEOREM Invariance == Spec => []IInv
<1> USE UsageAssumption
<1>1. Init => IInv
  <2> SUFFICES ASSUME Init PROVE IInv
    OBVIOUS
  <2>1. PICK cast \in Casts :
          /\ CacheInit(cast)
          /\ step = [f \in Flushers |-> IF f \in cast \cup {Writer} THEN "idle" ELSE "absent"]
    BY DEF Init
  <2>2. CacheTypeOK /\ Fresh
    BY <2>1 DEF CacheInit, CacheTypeOK, Fresh
  <2>3. \A f \in Flushers : step[f] \in {"idle", "absent"}
    BY <2>1
  <2>4. Writer \in Flushers /\ step[Writer] = "idle"
    BY <2>1, Apart
  <2>5. queue = <<>> /\ batch = {} /\ Held = {} /\ Bytes(Held) = 0 /\ IsFiniteSet(batch)
    <3>1. ToSet(<<>>) = {}
      BY DEF ToSet
    <3> QED BY <3>1, WeightEmpty, FS_EmptySet DEF Init, Held, Bytes
  <2>6. TypeOK
    BY <2>1, <2>2 DEF Init, TypeOK
  <2>7. Places /\ Locked
    BY <2>3, <2>4, Apart DEF Places, Locked, Inside, Storing
  <2>8. Queued
    BY <2>5 DEF Init, Queued, IsInjective, ToSet
  <2>9. Saved /\ Cleared
    BY <2>3, Apart DEF Init, Saved, Storing, Cleared, ClearedStaysCleared
  <2>10. Traced /\ Kept
    BY <2>3, <2>4, Apart DEF Init, Traced, NoSilentLoss, Kept, AttachmentsKept, Attachments
  <2> QED BY <2>2, <2>6, <2>7, <2>8, <2>9, <2>10 DEF IInv
<1>2. IInv /\ [Next]_vars => IInv'
  <2> SUFFICES ASSUME IInv, [Next]_vars PROVE IInv'
    OBVIOUS
  <2>1. CacheTypeOK /\ Fresh /\ Reset \in Flushers
    BY Apart DEF IInv, TypeOK
  <2>2. CASE \E f \in Flushers : FlusherStep(f)
    BY <2>2, FlushersKeep
  <2>3. CASE StopUsageWriter \/ CutWrites
    <3>1. /\ UNCHANGED cacheVars
          /\ UNCHANGED <<step, writeGen, current, queue, batch, retained, lockVars, tables, disk, failed>>
      BY <2>3 DEF StopUsageWriter, CutWrites, queueVars
    <3>2. CacheTypeOK' /\ Fresh'
      BY <2>1, <3>1, FlushesFresh
    <3> QED BY <3>1, <3>2, RestKept
  <2>4. CASE UNCHANGED logVars /\ (Expire \/ \E r \in Readers : Begin(r) \/ Read(r))
    <3>1. UNCHANGED <<step, writeGen, current, queue, batch, retained, lockVars, tables, disk, failed>>
      BY <2>4 DEF logVars, queueVars
    <3>2. CacheTypeOK' /\ Fresh'
      BY <2>1, <2>4, FlushesFresh, ReadersFresh
    <3> QED BY <3>1, <3>2, RestKept
  <2>5. CASE UNCHANGED vars
    <3>1. UNCHANGED cacheVars
          /\ UNCHANGED <<step, writeGen, current, queue, batch, retained, lockVars, tables, disk, failed>>
      BY <2>5 DEF vars, queueVars
    <3>2. CacheTypeOK' /\ Fresh'
      BY <2>1, <3>1, FlushesFresh
    <3> QED BY <3>1, <3>2, RestKept
  <2> QED BY <2>2, <2>3, <2>4, <2>5, Steps
<1> QED BY <1>1, <1>2, PTL DEF Spec

\* BudgetExact: the bytes the queue has reserved are those of the records in it and
\* in the batch, through admission, failure, drain and shutdown.
THEOREM BudgetIsExact == Spec => []BudgetExact
<1>1. IInv => BudgetExact
  BY DEF IInv, Queued, BudgetExact, Held
<1> QED BY <1>1, Invariance, PTL

\* ClearedStaysCleared: no record of an earlier generation comes back after a reset,
\* and none is counted twice unless its row had been pruned.
THEOREM ResetStaysReset == Spec => []ClearedStaysCleared
<1>1. IInv => ClearedStaysCleared
  BY DEF IInv, Cleared
<1> QED BY <1>1, Invariance, PTL

\* NoSilentLoss: a record handed over is held, counted, reported or older than a reset.
THEOREM NothingLost == Spec => []NoSilentLoss
<1>1. IInv => NoSilentLoss
  BY DEF IInv, Traced
<1> QED BY <1>1, Invariance, PTL

\* AttachmentsKept: the sweep never removes the attachment of a stored record.
THEOREM SweepSpares == Spec => []AttachmentsKept
<1>1. IInv => AttachmentsKept
  BY DEF IInv, Kept
<1> QED BY <1>1, Invariance, PTL

\* ServedFresh: a response reflects every flush complete before its request began.
THEOREM NothingStale == Spec => []ServedFresh
<1>1. IInv => ServedFresh
  BY DEF IInv, Fresh, ServedFresh
<1> QED BY <1>1, Invariance, PTL
===============================================================================
