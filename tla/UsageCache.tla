------------------------------ MODULE UsageCache ------------------------------
(***************************************************************************)
(* The response cache of the usage endpoints (server/usage_cache.go).      *)
(*                                                                         *)
(* A request loads the generation, looks for an entry and otherwise joins  *)
(* the flight of that generation; the leader of the flight computes the    *)
(* response and publishes it if the generation is still the same.  Who     *)
(* changes the usage tables flushes: the entries go first, then the        *)
(* generation moves.                                                       *)
(*                                                                         *)
(* A response is the version of the tables it was computed from; a set     *)
(* with at most one element stands for a value that may be absent.         *)
(***************************************************************************)
EXTENDS Naturals

CONSTANTS Readers,       \* requests for one of the cached endpoints, with the same key
          Flushers       \* whoever changes the tables

VARIABLES version,       \* commits to the usage tables so far
          gen,           \* usageResponseCache.gen
          entry,         \* the cached response, if any
          mu,            \* flushers inside mu
          flights,       \* generations with a flight under way
          at,            \* what each request does next
          genSeen,       \* generation it loaded
          got,           \* response it holds, if any
          flushed,       \* history: version the last complete flush covers
          floor          \* history: flushed when the request began

cacheVars == <<version, gen, entry, mu, flights, at, genSeen, got, flushed, floor>>
readerVars == <<at, genSeen, got, floor>>

CacheInit(cast) ==
  /\ version = 0 /\ gen = 0 /\ entry = {} /\ mu = {} /\ flights = {}
  /\ at = [r \in Readers |-> IF r \in cast THEN "idle" ELSE "absent"]
  /\ genSeen = [r \in Readers |-> 0] /\ got = [r \in Readers |-> {}]
  /\ flushed = 0 /\ floor = [r \in Readers |-> 0]

ReaderTo(r, step) == at' = [at EXCEPT ![r] = step]
-----------------------------------------------------------------------------
(* handle.                                                                 *)

Begin(r) ==
  /\ at[r] = "idle" /\ ReaderTo(r, "look")
  /\ genSeen' = [genSeen EXCEPT ![r] = gen] /\ floor' = [floor EXCEPT ![r] = flushed]
  /\ UNCHANGED <<version, gen, entry, mu, flights, got, flushed>>

\* GetIfPresent: a hit is served at once.
Look(r) ==
  /\ at[r] = "look" /\ got' = [got EXCEPT ![r] = entry]
  /\ ReaderTo(r, IF entry # {} THEN "served" ELSE "join")
  /\ UNCHANGED <<version, gen, entry, mu, flights, genSeen, flushed, floor>>

\* flights.Do: the first one of this generation leads.
Join(r) ==
  /\ at[r] = "join"
  /\ ReaderTo(r, IF genSeen[r] \in flights THEN "follow" ELSE "lead")
  /\ flights' = flights \cup {genSeen[r]}
  /\ UNCHANGED <<version, gen, entry, mu, genSeen, got, flushed, floor>>

\* The flight ends with a value, or none, for all who wait for it.
Lands(r, value, step) ==
  LET waiting == {f \in Readers : at[f] = "follow" /\ genSeen[f] = genSeen[r]} IN
  /\ flights' = flights \ {genSeen[r]}
  /\ at' = [f \in Readers |-> IF f \in waiting THEN "landed" ELSE IF f = r THEN step ELSE at[f]]
  /\ got' = [f \in Readers |-> IF f \in waiting THEN value ELSE got[f]]

\* The leader looks again, at the generation and then for an entry.
Recheck(r) ==
  /\ at[r] = "lead"
  /\ IF gen = genSeen[r] /\ entry = {}
     THEN ReaderTo(r, "compute") /\ UNCHANGED got
     ELSE /\ ReaderTo(r, "found")
          /\ got' = [got EXCEPT ![r] = IF gen = genSeen[r] THEN entry ELSE {}]
  /\ UNCHANGED <<version, gen, entry, mu, flights, genSeen, flushed, floor>>

ReturnFound(r) ==
  /\ at[r] = "found" /\ Lands(r, got[r], "landed")
  /\ UNCHANGED <<version, gen, entry, mu, genSeen, flushed, floor>>

\* gc.Next: the endpoint's queries.
Compute(r) ==
  /\ at[r] = "compute" /\ got' = [got EXCEPT ![r] = {version}] /\ ReaderTo(r, "publish")
  /\ UNCHANGED <<version, gen, entry, mu, flights, genSeen, flushed, floor>>

\* Planted mistake: a successful response is published whatever happened since.
MayPublishAlways(r, ok) == ok
MayPublish(r, ok) == ok /\ gen = genSeen[r]

\* Under mu: published for others if it is a success and still current; the
\* leader has written its own response in any case.
Publish(r) ==
  /\ at[r] = "publish" /\ mu = {}
  /\ \E ok \in BOOLEAN :
       LET value == IF MayPublish(r, ok) THEN got[r] ELSE {} IN
       /\ entry' = IF value # {} THEN value ELSE entry
       /\ Lands(r, value, "served")
  /\ UNCHANGED <<version, gen, mu, genSeen, flushed, floor>>

\* After the flight: its value if the generation has not moved, else the
\* request computes its own.
AfterFlight(r) ==
  /\ at[r] = "landed"
  /\ ReaderTo(r, IF got[r] # {} /\ gen = genSeen[r] THEN "served" ELSE "own")
  /\ UNCHANGED <<version, gen, entry, mu, flights, genSeen, got, flushed, floor>>

ComputeOwn(r) ==
  /\ at[r] = "own" /\ got' = [got EXCEPT ![r] = {version}] /\ ReaderTo(r, "served")
  /\ UNCHANGED <<version, gen, entry, mu, flights, genSeen, flushed, floor>>

\* The entry's fifteen seconds are over, or it is evicted.
Expire == entry # {} /\ entry' = {}
          /\ UNCHANGED <<version, gen, mu, flights, readerVars, flushed>>

Read(r) == \/ Look(r) \/ Join(r) \/ Recheck(r) \/ ReturnFound(r) \/ Compute(r)
           \/ Publish(r) \/ AfterFlight(r) \/ ComputeOwn(r)
-----------------------------------------------------------------------------
(* flush, in two steps of whoever changed the tables.                      *)

InvalidateAll(f) ==
  /\ mu = {} /\ mu' = {f} /\ entry' = {}
  /\ UNCHANGED <<version, gen, flights, readerVars, flushed>>

NextGeneration(f) ==
  /\ f \in mu /\ mu' = {} /\ gen' = gen + 1 /\ flushed' = version
  /\ UNCHANGED <<version, entry, flights, readerVars>>

\* The tables change; nothing of the cache does.
Commits == version' = version + 1
           /\ UNCHANGED <<gen, entry, mu, flights, readerVars, flushed>>
-----------------------------------------------------------------------------
CacheTypeOK ==
  /\ version \in Nat /\ gen \in Nat /\ entry \subseteq 0..version
  /\ mu \subseteq Flushers /\ flights \subseteq 0..gen
  /\ at \in [Readers -> {"absent", "idle", "look", "join", "lead", "found", "compute",
                         "publish", "follow", "landed", "own", "served"}]
  /\ genSeen \in [Readers -> 0..gen] /\ got \in [Readers -> SUBSET (0..version)]
  /\ flushed \in 0..version /\ floor \in [Readers -> 0..version]

\* A response served, from the cache, from another request's flight or computed,
\* reflects every change of the usage tables whose flush was complete before the
\* request began.
ServedFresh ==
  \A r \in Readers : at[r] = "served" => \A v \in got[r] : v >= floor[r]
=============================================================================
