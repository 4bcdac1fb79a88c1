------------------------ MODULE ServerLifecycleProofs ------------------------
(***************************************************************************)
(* Proofs about PrepAdmission and ServerLifecycle.  First the safety of    *)
(* the preparation limiter for every number of callers, request size and   *)
(* choice of the limits.  Its inductive invariant IInv joins the           *)
(* properties the runs check with WaiterState, which says where a call can *)
(* be: without it nothing excludes a queue entry that already holds a      *)
(* lease, and a drain would count it twice.                                *)
(*                                                                         *)
(* Then the server around it, for any requests and any choice of what they *)
(* start: the server's steps keep the limiter inside PrepAdmission, and    *)
(* the store is not closed under anything that could still use it.         *)
(***************************************************************************)
EXTENDS ServerLifecycle, FiniteSetTheorems, FunctionTheorems, SequenceTheorems, TLAPS

(***************************************************************************)
(* The arithmetic of Weight: what a finite set weighs is a natural number, *)
(* and adding or removing members changes it by what they weigh.           *)
(***************************************************************************)

\* A finite set carries finitely many units.
LEMMA UnitsFinite ==
  ASSUME NEW S, IsFiniteSet(S), NEW weight, \A x \in S : weight[x] \in Nat
  PROVE  IsFiniteSet(Units(S, weight))
<1> DEFINE f == [x \in S |-> {x} \X (1..weight[x])]
           T == {{x} \X (1..weight[x]) : x \in S}
<1>1. f \in Surjection(S, T)
  BY Fun_IsSurj
<1>2. IsFiniteSet(T)
  BY <1>1, FS_Surjection
<1>3. ASSUME NEW U \in T PROVE IsFiniteSet(U)
  <2>1. PICK x \in S : U = {x} \X (1..weight[x])
    OBVIOUS
  <2>2. IsFiniteSet({x})
    BY FS_Singleton
  <2>3. weight[x] \in Int /\ 1 \in Int
    OBVIOUS
  <2>4. IsFiniteSet(1..weight[x])
    BY ONLY <2>3, FS_Interval
  <2> QED BY <2>1, <2>2, <2>4, FS_Product
<1>4. IsFiniteSet(UNION T)
  BY <1>2, <1>3, FS_UNION
<1> QED BY <1>4 DEF Units

\* The total weight of a finite set is a natural number.
LEMMA WeightType ==
  ASSUME NEW S, IsFiniteSet(S), NEW weight, \A x \in S : weight[x] \in Nat
  PROVE  Weight(S, weight) \in Nat
BY UnitsFinite, FS_CardinalityType DEF Weight

\* Nothing weighs nothing.
LEMMA WeightEmpty == ASSUME NEW weight PROVE Weight({}, weight) = 0
<1>1. Units({}, weight) = {}
  BY DEF Units
<1> QED BY <1>1, FS_EmptySet DEF Weight

\* One member weighs what its weight says.
LEMMA WeightSingleton ==
  ASSUME NEW x, NEW weight, weight[x] \in Nat
  PROVE  Weight({x}, weight) = weight[x]
<1>1. Units({x}, weight) = {x} \X (1..weight[x])
  BY DEF Units
<1>2. IsFiniteSet({x}) /\ Cardinality({x}) = 1
  BY FS_Singleton
<1> DEFINE w == weight[x]
<1>3. IsFiniteSet(1..w) /\ Cardinality(1..w) = w
  <2>1. w \in Nat
    OBVIOUS
  <2> HIDE DEF w
  <2>2. /\ IsFiniteSet(1..w)
        /\ Cardinality(1..w) = IF 1 > w THEN 0 ELSE w - 1 + 1
    BY <2>1, FS_Interval
  <2> QED BY ONLY <2>1, <2>2
<1> HIDE DEF w
<1>4. Cardinality({x} \X (1..w)) = Cardinality({x}) * Cardinality(1..w)
  BY <1>2, <1>3, FS_Product
<1>5. Cardinality({x} \X (1..w)) = 1 * w
  BY ONLY <1>2, <1>3, <1>4
<1>6. w \in Nat
  BY DEF w
<1>7. Cardinality({x} \X (1..w)) = w
  BY ONLY <1>5, <1>6
<1> QED BY <1>1, <1>7 DEF Weight, w

\* The weight of a disjoint union is the sum of the weights.
LEMMA WeightUnion ==
  ASSUME NEW S, IsFiniteSet(S), NEW T, IsFiniteSet(T), S \cap T = {},
         NEW weight, \A x \in S \cup T : weight[x] \in Nat
  PROVE  Weight(S \cup T, weight) = Weight(S, weight) + Weight(T, weight)
<1>1. Units(S \cup T, weight) = Units(S, weight) \cup Units(T, weight)
  BY DEF Units
<1>2. Units(S, weight) \cap Units(T, weight) = {}
  BY DEF Units
<1>3. IsFiniteSet(Units(S, weight)) /\ IsFiniteSet(Units(T, weight))
  BY UnitsFinite
<1> DEFINE m == Cardinality(Units(S, weight))
           n == Cardinality(Units(T, weight))
<1>4. m \in Nat /\ n \in Nat
  BY <1>3, FS_CardinalityType
<1>5. Cardinality(Units(S, weight) \cap Units(T, weight)) = 0
  BY <1>2, FS_EmptySet
<1>6. Cardinality(Units(S, weight) \cup Units(T, weight)) = m + n - 0
  BY <1>3, <1>5, FS_Union
<1>7. Cardinality(Units(S \cup T, weight)) = m + n - 0
  BY <1>1, <1>6
<1>8. m + n - 0 = m + n
  <2> HIDE DEF m, n
  <2> QED BY <1>4
<1> QED BY <1>7, <1>8 DEF Weight

\* Adding a member adds its weight.
LEMMA WeightAdd ==
  ASSUME NEW S, IsFiniteSet(S), NEW x, x \notin S,
         NEW weight, \A y \in S \cup {x} : weight[y] \in Nat
  PROVE  Weight(S \cup {x}, weight) = Weight(S, weight) + weight[x]
<1>1. IsFiniteSet({x}) /\ S \cap {x} = {}
  BY FS_Singleton
<1>2. Weight(S \cup {x}, weight) = Weight(S, weight) + Weight({x}, weight)
  BY <1>1, WeightUnion
<1> QED BY <1>2, WeightSingleton

\* Removing a member removes its weight.
LEMMA WeightRemove ==
  ASSUME NEW S, IsFiniteSet(S), NEW x \in S,
         NEW weight, \A y \in S : weight[y] \in Nat
  PROVE  Weight(S \ {x}, weight) = Weight(S, weight) - weight[x]
<1>1. IsFiniteSet(S \ {x}) /\ x \notin S \ {x} /\ (S \ {x}) \cup {x} = S
  BY FS_RemoveElement
<1>2. Weight(S, weight) = Weight(S \ {x}, weight) + weight[x]
  BY <1>1, WeightAdd
<1>3. Weight(S \ {x}, weight) \in Nat
  BY <1>1, WeightType
<1> QED BY <1>2, <1>3

IInv == TypeOK /\ WaiterState /\ Accounting /\ WithinLimits /\ HeadBlocked /\ NoLeak

Held(leases) == {c \in Callers : leases[c] = "live"}
LeaseStates == {"none", "live", "released"}
-----------------------------------------------------------------------------
\* Every call reserves a positive number of bytes.
LEMMA SizePositive ==
  /\ \A c \in Callers : Size[c] \in Nat /\ Size[c] >= 1
  /\ IsFiniteSet(Callers)
BY LimitsAssumption DEF LimitsAssumption, Size

\* Sets of calls are finite, and their number and their bytes are natural numbers.
LEMMA GroupMeasures ==
  ASSUME NEW S \in SUBSET Callers
  PROVE  IsFiniteSet(S) /\ Cardinality(S) \in Nat /\ Weight(S, Size) \in Nat
<1>1. IsFiniteSet(S)
  BY SizePositive, FS_Subset
<1>2. \A c \in S : Size[c] \in Nat
  BY SizePositive
<1> QED BY <1>1, <1>2, FS_CardinalityType, WeightType

\* Disjoint groups add up, in places and in bytes.
LEMMA GroupUnion ==
  ASSUME NEW S \in SUBSET Callers, NEW T \in SUBSET Callers, S \cap T = {}
  PROVE  /\ Cardinality(S \cup T) = Cardinality(S) + Cardinality(T)
         /\ Weight(S \cup T, Size) = Weight(S, Size) + Weight(T, Size)
<1>1. IsFiniteSet(S) /\ IsFiniteSet(T) /\ Cardinality(S) \in Nat /\ Cardinality(T) \in Nat
  BY GroupMeasures
<1>2. Cardinality(S \cap T) = 0
  BY FS_EmptySet
<1>3. Cardinality(S \cup T) = Cardinality(S) + Cardinality(T) - Cardinality(S \cap T)
  BY <1>1, FS_Union
<1>4. \A c \in S \cup T : Size[c] \in Nat
  BY SizePositive
<1>5. Weight(S \cup T, Size) = Weight(S, Size) + Weight(T, Size)
  BY <1>1, <1>4, WeightUnion
<1> QED BY <1>1, <1>2, <1>3, <1>5

\* A group of one has one place and its own bytes.
LEMMA GroupOfOne ==
  ASSUME NEW c \in Callers
  PROVE  Cardinality({c}) = 1 /\ Weight({c}, Size) = Size[c]
BY SizePositive, FS_Singleton, WeightSingleton

\* What remains when one member leaves a group.
LEMMA GroupWithout ==
  ASSUME NEW S \in SUBSET Callers, NEW c \in S
  PROVE  /\ Cardinality(S \ {c}) = Cardinality(S) - 1
         /\ Weight(S \ {c}, Size) = Weight(S, Size) - Size[c]
<1>1. IsFiniteSet(S)
  BY GroupMeasures
<1>2. \A d \in S : Size[d] \in Nat
  BY SizePositive
<1> QED BY <1>1, <1>2, FS_RemoveElement, WeightRemove

\* The members of a queue's prefix, and how the prefix grows.
LEMMA PrefixGrows ==
  ASSUME NEW q \in Seq(Callers), NEW k \in 0..(Len(q) - 1),
         \A i, j \in 1..Len(q) : q[i] = q[j] => i = j
  PROVE  /\ Prefix(q, k) \in SUBSET Callers
         /\ q[k + 1] \in Callers
         /\ Prefix(q, k + 1) = Prefix(q, k) \cup {q[k + 1]}
         /\ q[k + 1] \notin Prefix(q, k)
<1>1. \A i \in 1..(k + 1) : i \in 1..Len(q) /\ q[i] \in Callers
  BY LenProperties
<1>2. Prefix(q, k + 1) = Prefix(q, k) \cup {q[k + 1]}
  <2>1. 1..(k + 1) = 1..k \cup {k + 1}
    OBVIOUS
  <2> QED BY <2>1 DEF Prefix
<1>3. q[k + 1] \notin Prefix(q, k)
  <2>1. SUFFICES ASSUME NEW i \in 1..k, q[i] = q[k + 1] PROVE FALSE
    BY DEF Prefix
  <2>2. i \in 1..Len(q) /\ k + 1 \in 1..Len(q) /\ i # k + 1
    BY LenProperties
  <2> QED BY <2>1, <2>2
<1> QED BY <1>1, <1>2, <1>3 DEF Prefix

\* What the queue looks like without its first k members.
LEMMA SuffixOf ==
  ASSUME NEW q \in Seq(Callers), NEW k \in 0..Len(q)
  PROVE  /\ SubSeq(q, k + 1, Len(q)) \in Seq(Callers)
         /\ Len(SubSeq(q, k + 1, Len(q))) = Len(q) - k
         /\ \A i \in 1..(Len(q) - k) : SubSeq(q, k + 1, Len(q))[i] = q[k + i]
<1>1. Len(q) \in Nat /\ k \in Nat /\ \A i \in (k + 1)..Len(q) : q[i] \in Callers
  BY LenProperties
<1>2. /\ SubSeq(q, k + 1, Len(q)) \in Seq(Callers)
      /\ Len(SubSeq(q, k + 1, Len(q))) = IF k + 1 <= Len(q) THEN Len(q) - (k + 1) + 1 ELSE 0
      /\ \A i \in 1..(Len(q) - (k + 1) + 1) : SubSeq(q, k + 1, Len(q))[i] = q[(k + 1) + i - 1]
  BY <1>1, SubSeqProperties
<1> QED BY <1>1, <1>2

\* What the queue looks like once its member at i has left.
LEMMA WithoutMember ==
  ASSUME NEW q \in Seq(Callers), NEW i \in 1..Len(q)
  PROVE  /\ RemoveAt(q, i) \in Seq(Callers)
         /\ Len(RemoveAt(q, i)) = Len(q) - 1
         /\ \A j \in 1..(Len(q) - 1) : RemoveAt(q, i)[j] = IF j < i THEN q[j] ELSE q[j + 1]
<1> DEFINE s == SubSeq(q, 1, i - 1)
           t == SubSeq(q, i + 1, Len(q))
<1>1. Len(q) \in Nat /\ \A j \in 1..Len(q) : q[j] \in Callers
  BY LenProperties
<1>2. /\ s \in Seq(Callers) /\ Len(s) = i - 1
      /\ \A j \in 1..(i - 1) : s[j] = q[j]
  <2>1. 1 \in Int /\ i - 1 \in Int /\ \A j \in 1..(i - 1) : q[j] \in Callers
    BY <1>1
  <2>2. /\ s \in Seq(Callers) /\ Len(s) = IF 1 <= i - 1 THEN (i - 1) - 1 + 1 ELSE 0
        /\ \A j \in 1..((i - 1) - 1 + 1) : s[j] = q[1 + j - 1]
    BY <2>1, SubSeqProperties
  <2> HIDE DEF s
  <2> QED BY <2>2, <1>1
<1>3. /\ t \in Seq(Callers) /\ Len(t) = Len(q) - i
      /\ \A j \in 1..(Len(q) - i) : t[j] = q[i + j]
  BY SuffixOf
<1> HIDE DEF s, t
<1>4. /\ s \o t \in Seq(Callers)
      /\ Len(s \o t) = Len(s) + Len(t)
      /\ \A j \in 1..(Len(s) + Len(t)) :
           (s \o t)[j] = IF j <= Len(s) THEN s[j] ELSE t[j - Len(s)]
  BY <1>2, <1>3, ConcatProperties
<1>5. /\ s \o t \in Seq(Callers)
      /\ Len(s \o t) = Len(q) - 1
      /\ \A j \in 1..(Len(q) - 1) : (s \o t)[j] = IF j < i THEN q[j] ELSE q[j + 1]
  <2>1. Len(s) + Len(t) = Len(q) - 1
    BY <1>1, <1>2, <1>3
  <2>2. ASSUME NEW j \in 1..(Len(q) - 1)
        PROVE  (s \o t)[j] = IF j < i THEN q[j] ELSE q[j + 1]
    <3>1. CASE j < i
      <4>1. j <= Len(s) /\ j \in 1..(i - 1)
        BY <3>1, <1>1, <1>2
      <4> QED BY <4>1, <3>1, <2>1, <1>2, <1>4
    <3>2. CASE ~(j < i)
      <4>1. ~(j <= Len(s)) /\ j - Len(s) = j - i + 1 /\ j - i + 1 \in 1..(Len(q) - i)
        BY <3>2, <1>1, <1>2
      <4>2. t[j - i + 1] = q[i + (j - i + 1)]
        BY <4>1, <1>3
      <4>3. i + (j - i + 1) = j + 1
        BY <1>1
      <4>4. (s \o t)[j] = t[j - Len(s)]
        BY <4>1, <2>1, <1>4
      <4> QED BY <4>1, <4>2, <4>3, <4>4, <3>2, <1>1
    <3> QED BY <3>1, <3>2
  <2> QED BY <2>1, <2>2, <1>4
<1> QED BY <1>5 DEF RemoveAt, s, t
-----------------------------------------------------------------------------
\* What drain() does to a queue of distinct waiters, given totals that agree
\* with the leases: the totals still agree, the limits still hold, the waiters
\* it served are a prefix of the queue, and the one left in front does not fit.
LEMMA DrainServes ==
  ASSUME NEW q \in Seq(Callers), NEW n, NEW b, NEW st,
         NEW leases \in [Callers -> LeaseStates],
         \A i, j \in 1..Len(q) : q[i] = q[j] => i = j,
         \A i \in 1..Len(q) : leases[q[i]] = "none",
         n = Cardinality(Held(leases)), b = Weight(Held(leases), Size),
         Drain(q, n, b, leases, st)
  PROVE  \E k \in 0..Len(q) :
           /\ k > 0 => ~closed
           /\ queue' \in Seq(Callers)
           /\ Len(queue') = Len(q) - k
           /\ \A i \in 1..(Len(q) - k) : queue'[i] = q[k + i]
           /\ lease' = [c \in Callers |-> IF c \in Prefix(q, k) THEN "live" ELSE leases[c]]
           /\ active' = Cardinality(Held(lease')) /\ reserved' = Weight(Held(lease'), Size)
           /\ active' \in Nat /\ reserved' \in Nat
           /\ (Enabled => n <= MaxConcurrent /\ b <= MaxBytes)
                => (Enabled => active' <= MaxConcurrent /\ reserved' <= MaxBytes)
           /\ queue' # <<>> => closed \/ ~Fits(active', reserved', {queue'[1]})
<1>1. PICK k \in 0..Len(q) :
        /\ k > 0 => ~closed /\ Fits(n, b, Prefix(q, k))
        /\ k < Len(q) => closed \/ ~Fits(n, b, Prefix(q, k + 1))
        /\ queue' = SubSeq(q, k + 1, Len(q))
        /\ Grant(n, b, Prefix(q, k), leases)
  BY DEF Drain
<1> DEFINE S == Prefix(q, k)
<1>2. S \in SUBSET Callers /\ S \cap Held(leases) = {} /\ Held(leases) \in SUBSET Callers
  BY LenProperties DEF Prefix, Held
<1>3. /\ queue' \in Seq(Callers) /\ Len(queue') = Len(q) - k
      /\ \A i \in 1..(Len(q) - k) : queue'[i] = q[k + i]
  BY <1>1, SuffixOf
<1>4. lease' = [c \in Callers |-> IF c \in S THEN "live" ELSE leases[c]]
  BY <1>1 DEF Grant
<1>5. Held(lease') = Held(leases) \cup S
  BY <1>2, <1>4 DEF Held
<1>6. /\ active' = n + Cardinality(S) /\ reserved' = b + Weight(S, Size)
      /\ active' = Cardinality(Held(lease')) /\ reserved' = Weight(Held(lease'), Size)
  <2>1. /\ Cardinality(Held(leases) \cup S) = n + Cardinality(S)
        /\ Weight(Held(leases) \cup S, Size) = b + Weight(S, Size)
    BY <1>2, GroupUnion
  <2>2. active' = n + Cardinality(S) /\ reserved' = b + Weight(S, Size)
    BY <1>1 DEF Grant
  <2> QED BY <2>1, <2>2, <1>5
<1>7. /\ n \in Nat /\ b \in Nat
      /\ Cardinality(S) \in Nat /\ Weight(S, Size) \in Nat
  BY <1>2, GroupMeasures
<1>8. ASSUME Enabled => n <= MaxConcurrent /\ b <= MaxBytes, Enabled
      PROVE  active' <= MaxConcurrent /\ reserved' <= MaxBytes
  <2>1. CASE k > 0
    BY <2>1, <1>1, <1>6, <1>8 DEF Fits
  <2>2. CASE ~(k > 0)
    <3>1. 1..k = {}
      BY <2>2, LenProperties
    <3>2. S = {}
      BY <3>1 DEF Prefix
    <3>3. Cardinality(S) = 0 /\ Weight(S, Size) = 0
      BY <3>2, FS_EmptySet, WeightEmpty
    <3> QED BY <3>3, <1>6, <1>7, <1>8
  <2> QED BY <2>1, <2>2
<1>9. ASSUME queue' # <<>>, ~closed
      PROVE  ~Fits(active', reserved', {queue'[1]})
  <2>1. Len(q) \in Nat /\ Len(q) - k > 0
    BY <1>3, <1>9, EmptySeq, LenProperties
  <2>2. k \in 0..(Len(q) - 1) /\ queue'[1] = q[k + 1]
    BY <2>1, <1>3
  <2>3. ~Fits(n, b, Prefix(q, k + 1))
    BY <2>2, <1>1, <1>9
  <2>4. /\ q[k + 1] \in Callers /\ q[k + 1] \notin S
        /\ Prefix(q, k + 1) = S \cup {q[k + 1]}
    BY <2>2, PrefixGrows
  <2> DEFINE h == q[k + 1]
  <2>5. /\ Cardinality(S \cup {h}) = Cardinality(S) + Cardinality({h})
        /\ Weight(S \cup {h}, Size) = Weight(S, Size) + Weight({h}, Size)
    <3>1. S \in SUBSET Callers /\ {h} \in SUBSET Callers /\ S \cap {h} = {}
      BY <2>4, <1>2
    <3> HIDE DEF S, h
    <3> QED BY <3>1, GroupUnion
  <2>6. Cardinality({h}) \in Nat /\ Weight({h}, Size) \in Nat
    BY <2>4, GroupMeasures
  <2>7. /\ n + Cardinality(S \cup {h}) = active' + Cardinality({h})
        /\ b + Weight(S \cup {h}, Size) = reserved' + Weight({h}, Size)
    <3> HIDE DEF S, h
    <3> QED BY <2>5, <2>6, <1>6, <1>7
  <2> QED BY <2>2, <2>3, <2>4, <2>7 DEF Fits
<1>10. active' \in Nat /\ reserved' \in Nat
  <2> HIDE DEF S
  <2> QED BY <1>6, <1>7
<1> WITNESS k \in 0..Len(q)
<1> QED BY <1>1, <1>3, <1>4, <1>6, <1>8, <1>9, <1>10
-----------------------------------------------------------------------------
\* A call of Lease.Release: the caller's lease is over, and the waiters served
\* by the drain are exactly those that left the queue.
LEMMA ReleaseServes ==
  ASSUME IInv, NEW c \in Callers, ReleaseLease(c), closed' = closed
  PROVE  \E k \in 0..Len(queue) :
           /\ queue' \in Seq(Callers)
           /\ Len(queue') = Len(queue) - k
           /\ \A i \in 1..(Len(queue) - k) : queue'[i] = queue[k + i]
           /\ lease' = [d \in Callers |-> IF d \in Prefix(queue, k) THEN "live"
                                         ELSE IF d = c /\ lease[c] = "live" THEN "released"
                                         ELSE lease[d]]
           /\ active' \in Nat /\ reserved' \in Nat
           /\ Accounting' /\ WithinLimits' /\ HeadBlocked'
<1>1. /\ queue \in Seq(Callers) /\ lease \in [Callers -> LeaseStates]
      /\ \A i \in 1..Len(queue) : lease[queue[i]] = "none"
      /\ \A i, j \in 1..Len(queue) : queue[i] = queue[j] => i = j
      /\ closed => queue = <<>>
  BY DEF IInv, TypeOK, WaiterState, Answered, LeaseStates, HeadBlocked
<1>2. /\ active = Cardinality(Live) /\ reserved = Weight(Live, Size)
      /\ Live \in SUBSET Callers /\ active \in Nat /\ reserved \in Nat
  BY GroupMeasures DEF IInv, Accounting, Live
<1>3. Len(queue) \in Nat /\ Len(<<>>) = 0
  BY <1>1, LenProperties, EmptySeq
<1>4. CASE lease[c] = "live"
  <2> DEFINE ls == [lease EXCEPT ![c] = "released"]
             q == queue
             n == active - 1
             b == reserved - Size[c]
             st == stats
  <2>1. /\ ls \in [Callers -> LeaseStates] /\ q \in Seq(Callers)
        /\ \A i, j \in 1..Len(q) : q[i] = q[j] => i = j
        /\ \A i \in 1..Len(q) : ls[q[i]] = "none"
    BY <1>1, <1>4, LenProperties DEF LeaseStates
  <2>2. c \in Live /\ Held(ls) = Live \ {c}
    BY <1>1, <1>4 DEF Held, Live
  <2>3. n = Cardinality(Held(ls)) /\ b = Weight(Held(ls), Size)
    BY <1>2, <2>2, GroupWithout
  <2>4. Drain(q, n, b, ls, st)
    BY <1>4 DEF ReleaseLease
  <2>5. (Enabled => n <= MaxConcurrent /\ b <= MaxBytes) /\ Len(queue) <= MaxQueued
    <3>1. Enabled => active <= MaxConcurrent /\ reserved <= MaxBytes
      BY DEF IInv, WithinLimits
    <3>2. Size[c] \in Nat /\ MaxConcurrent \in Nat /\ MaxBytes \in Nat
      BY SizePositive, LimitsAssumption DEF LimitsAssumption
    <3> QED BY <3>1, <3>2, <1>2 DEF IInv, WithinLimits
  <2> HIDE DEF ls, q, n, b, st
  <2>6. PICK k \in 0..Len(q) :
           /\ k > 0 => ~closed
           /\ queue' \in Seq(Callers)
           /\ Len(queue') = Len(q) - k
           /\ \A i \in 1..(Len(q) - k) : queue'[i] = q[k + i]
           /\ lease' = [d \in Callers |-> IF d \in Prefix(q, k) THEN "live" ELSE ls[d]]
           /\ active' = Cardinality(Held(lease')) /\ reserved' = Weight(Held(lease'), Size)
           /\ active' \in Nat /\ reserved' \in Nat
           /\ (Enabled => n <= MaxConcurrent /\ b <= MaxBytes)
                => (Enabled => active' <= MaxConcurrent /\ reserved' <= MaxBytes)
           /\ queue' # <<>> => closed \/ ~Fits(active', reserved', {queue'[1]})
    BY <2>1, <2>3, <2>4, DrainServes
  <2>7. Accounting'
    BY <2>6 DEF Accounting, Live, Held
  <2>8. WithinLimits'
    BY <2>5, <2>6, <1>3, LimitsAssumption DEF WithinLimits, LimitsAssumption, q
  <2>9. HeadBlocked'
    <3>1. SUFFICES ASSUME queue' # <<>> PROVE ~closed' /\ ~Fits(active', reserved', {queue'[1]})
      BY DEF HeadBlocked, Fits
    <3>2. Len(queue') \in Nat \ {0}
      BY <3>1, <2>6, EmptySeq
    <3>3. ~closed
      BY <3>2, <2>6, <1>1, <1>3 DEF q
    <3> QED BY <3>1, <3>3, <2>6
  <2> WITNESS k \in 0..Len(queue)
  <2> QED BY <2>6, <2>7, <2>8, <2>9, <1>1, <1>4 DEF q, ls
<1>5. CASE lease[c] # "live"
  <2>1. UNCHANGED <<lease, queue, active, reserved, closed>>
    BY <1>5 DEF ReleaseLease
  <2>2. Accounting' /\ WithinLimits' /\ HeadBlocked'
    BY <2>1 DEF IInv, Accounting, Live, WithinLimits, HeadBlocked, Fits
  <2>3. Prefix(queue, 0) = {}
    BY DEF Prefix
  <2> WITNESS 0 \in 0..Len(queue)
  <2> QED BY <2>1, <2>2, <2>3, <1>1, <1>2, <1>3, <1>5 DEF LeaseStates
<1> QED BY <1>4, <1>5
-----------------------------------------------------------------------------
\* The steps that leave the leases and the queue alone.
LEMMA QuietSteps ==
  ASSUME IInv, NEW c \in Callers,
         Begin(c) \/ RefuseClosed(c) \/ Reject(c) \/ Recheck(c) \/ GiveUp(c) \/ CancelContext(c) \/ Wake(c)
  PROVE  IInv'
<1> USE DEF IInv, Finish, GoTo
<1>1. UNCHANGED <<lease, failed, queue, active, reserved, closed>>
  BY DEF Begin, RefuseClosed, Reject, Recheck, GiveUp, CancelContext, Wake
<1>2. Accounting' /\ WithinLimits' /\ HeadBlocked'
  BY <1>1 DEF Accounting, Live, WithinLimits, HeadBlocked, Fits
<1>3. /\ pc' \in [Callers -> Stages] /\ outcome' \in [Callers -> Errors \cup {"none", "lease"}]
      /\ ctxDone' \in [Callers -> BOOLEAN]
      /\ \A d \in Callers \ {c} : pc'[d] = pc[d] /\ outcome'[d] = outcome[d]
  BY DEF TypeOK, Stages, Errors, Begin, RefuseClosed, Reject, Recheck, GiveUp, CancelContext, Wake
<1>4. /\ pc[c] \in {"start", "enter"} =>
            pc'[c] \in {"start", "enter"} \/ (pc'[c] = "returned" /\ outcome'[c] \notin {"none", "lease"})
      /\ pc[c] \in {"start", "enter", "select", "abandon"} \/ pc'[c] \in {"select", "abandon"}
            => ~(pc'[c] = "returned" /\ outcome'[c] = "none")
      /\ pc[c] = "select" => \/ pc'[c] = "select"
                             \/ pc'[c] = "abandon" /\ outcome'[c] \in Errors
                             \/ pc'[c] = "returned" /\ outcome'[c] = "ErrClosed" /\ c \in failed
                             \/ pc'[c] = "giveback" /\ outcome'[c] = "ctx" /\ lease[c] # "none"
                             \/ pc'[c] = "recheck" /\ lease[c] # "none" /\ c \notin failed
      /\ pc[c] = "recheck" => \/ pc'[c] = "recheck"
                              \/ pc'[c] = "giveback" /\ outcome'[c] = "ErrClosed"
                              \/ pc'[c] = "returned" /\ outcome'[c] = "lease"
      /\ pc[c] \in {"abandon", "giveback"} => pc'[c] = pc[c] /\ outcome'[c] = outcome[c]
      /\ pc[c] = "returned" => FALSE
  <2>1. CASE Begin(c)
    BY <2>1 DEF TypeOK, Stages, Errors, Begin
  <2>2. CASE RefuseClosed(c)
    BY <2>2 DEF TypeOK, Stages, Errors, RefuseClosed
  <2>3. CASE Reject(c)
    BY <2>3 DEF TypeOK, Stages, Errors, Reject
  <2>4. CASE Recheck(c)
    BY <2>4 DEF TypeOK, Stages, Errors, Recheck
  <2>5. CASE GiveUp(c)
    BY <2>5 DEF TypeOK, Stages, Errors, GiveUp
  <2>6. CASE CancelContext(c)
    BY <2>6 DEF TypeOK, Stages, Errors, CancelContext
  <2>7. CASE Wake(c)
    BY <2>7 DEF TypeOK, Stages, Errors, Wake
  <2> QED BY <2>1, <2>2, <2>3, <2>4, <2>5, <2>6, <2>7
<1>5. TypeOK'
  BY <1>1, <1>3, <1>4 DEF TypeOK, Stages
<1>6. WaiterState'
  BY <1>1, <1>3, <1>4 DEF TypeOK, Stages, WaiterState, Answered
<1>7. NoLeak'
  BY <1>1, <1>3, <1>4 DEF TypeOK, Stages, WaiterState, Answered, NoLeak
<1> QED BY <1>2, <1>5, <1>6, <1>7
\* A call that is admitted without queueing.
LEMMA AdmitNowStep == ASSUME IInv, NEW c \in Callers, AdmitNow(c) PROVE IInv'
<1>1. /\ lease[c] = "none" /\ c \notin failed /\ queue = <<>> /\ queue' = <<>>
      /\ Fits(active, reserved, {c}) /\ Grant(active, reserved, {c}, lease)
      /\ UNCHANGED <<ctxDone, failed, closed>> /\ Len(<<>>) = 0
  BY EmptySeq DEF AdmitNow, Immediate, IInv, WaiterState, Answered, TypeOK
<1>2. /\ pc' = [pc EXCEPT ![c] = "returned"] /\ outcome' = [outcome EXCEPT ![c] = "lease"]
      /\ lease' = [lease EXCEPT ![c] = "live"] /\ pc[c] = "enter"
  BY <1>1 DEF AdmitNow, Finish, Grant, IInv, TypeOK
<1>3. Live' = Live \cup {c} /\ Live \cap {c} = {} /\ Live \in SUBSET Callers
  BY <1>1, <1>2 DEF Live, IInv, TypeOK
<1>4. /\ active' = active + Cardinality({c}) /\ reserved' = reserved + Weight({c}, Size)
  BY <1>1 DEF Grant
<1>5. Accounting'
  BY <1>3, <1>4, GroupUnion DEF Accounting, IInv
<1>6. WithinLimits'
  BY <1>1, <1>4 DEF WithinLimits, IInv, Fits
<1>7. active' \in Nat /\ reserved' \in Nat
  BY <1>3, <1>5, GroupMeasures DEF Accounting, Live
<1>8. TypeOK'
  BY <1>1, <1>2, <1>7 DEF TypeOK, IInv, Stages
<1>9. WaiterState'
  BY <1>1, <1>2 DEF TypeOK, IInv, WaiterState, Answered
<1>10. HeadBlocked' /\ NoLeak'
  BY <1>1, <1>2 DEF TypeOK, IInv, HeadBlocked, NoLeak
<1> QED BY <1>5, <1>6, <1>8, <1>9, <1>10 DEF IInv

\* A call that joins the queue.
LEMMA EnqueueStep == ASSUME IInv, NEW c \in Callers, Enqueue(c) PROVE IInv'
<1>1. /\ lease[c] = "none" /\ c \notin failed /\ pc[c] = "enter" /\ ~closed
      /\ Len(queue) < MaxQueued
      /\ pc' = [pc EXCEPT ![c] = "select"] /\ outcome' = [outcome EXCEPT ![c] = "none"]
      /\ queue' = Append(queue, c) /\ queue \in Seq(Callers)
      /\ UNCHANGED <<ctxDone, lease, failed, active, reserved, closed>>
  BY DEF Enqueue, GoTo, IInv, WaiterState, Answered, TypeOK
<1>2. /\ queue' \in Seq(Callers) /\ Len(queue') = Len(queue) + 1 /\ Len(queue) \in Nat
      /\ \A i \in 1..Len(queue) : queue'[i] = queue[i]
      /\ queue'[Len(queue) + 1] = c
  BY <1>1, AppendProperties, LenProperties
<1>3. \A i \in 1..Len(queue) : queue[i] # c
  BY <1>1 DEF IInv, WaiterState
<1>4. Accounting'
  BY <1>1 DEF Accounting, IInv, Live
<1>5. WithinLimits'
  BY <1>1, <1>2, LimitsAssumption DEF WithinLimits, IInv, LimitsAssumption
<1>6. TypeOK'
  BY <1>1, <1>2 DEF TypeOK, IInv, Stages
<1>7. WaiterState'
  <2>1. \A i \in 1..Len(queue') : (i \in 1..Len(queue) /\ queue'[i] = queue[i]) \/ (i = Len(queue) + 1 /\ queue'[i] = c)
    BY <1>2
  <2>2. \A i \in 1..Len(queue) : i \in 1..Len(queue')
    BY <1>2
  <2>3. Len(queue) + 1 \in 1..Len(queue')
    BY <1>2
  <2>4. \A i, j \in 1..Len(queue') : queue'[i] = queue'[j] => i = j
    BY <2>1, <1>3 DEF IInv, WaiterState
  <2>5. \A i \in 1..Len(queue') : pc'[queue'[i]] \in {"select", "abandon"} 
                                      /\ lease'[queue'[i]] = "none" /\ queue'[i] \notin failed'
    BY <2>1, <1>1, <1>3, LenProperties DEF IInv, WaiterState, TypeOK, Answered
  <2>6. \A d \in Callers : pc'[d] \in {"select", "abandon"} =>
          Answered(d)' \/ \E i \in 1..Len(queue') : queue'[i] = d
    BY <2>2, <2>3, <1>1, <1>2 DEF IInv, WaiterState, TypeOK, Answered
  <2> QED BY <2>4, <2>5, <2>6, <1>1 DEF IInv, WaiterState, TypeOK, Answered
<1>8. HeadBlocked'
  <2>1. CASE queue = <<>>
    <3>1. ~Fits(active, reserved, {c}) /\ queue'[1] = c
      BY <2>1, <1>2, EmptySeq DEF Enqueue, Immediate
    <3> QED BY <3>1, <1>1 DEF HeadBlocked, Fits
  <2>2. CASE queue # <<>>
    <3>1. Len(queue) >= 1
      BY <2>2, <1>1, EmptySeq
    <3>2. queue'[1] = queue[1]
      BY <3>1, <1>2
    <3> QED BY <3>2, <2>2, <1>1 DEF IInv, HeadBlocked, Fits
  <2> QED BY <2>1, <2>2
<1>9. NoLeak'
  BY <1>1 DEF IInv, NoLeak, TypeOK
<1> QED BY <1>4, <1>5, <1>6, <1>7, <1>8, <1>9 DEF IInv

\* Close fails every waiter and empties the queue.
LEMMA CloseStep == ASSUME IInv, Close PROVE IInv'
<1>1. /\ closed' = TRUE /\ queue' = <<>> /\ failed' = failed \cup Range(queue)
      /\ UNCHANGED <<pc, ctxDone, outcome, lease, active, reserved>>
      /\ Len(<<>>) = 0 /\ <<>> \in Seq(Callers)
  BY EmptySeq DEF Close
<1>2. \A d : d \in Range(queue) <=> \E i \in 1..Len(queue) : queue[i] = d
  BY LenProperties, RangeEquality DEF IInv, TypeOK
<1>3. Accounting' /\ WithinLimits'
  BY <1>1, LimitsAssumption DEF IInv, Accounting, Live, WithinLimits, LimitsAssumption
<1>4. TypeOK'
  BY <1>1, RangeOfSeq DEF IInv, TypeOK
<1>5. WaiterState'
  BY <1>1, <1>2 DEF IInv, TypeOK, WaiterState, Answered
<1>6. HeadBlocked' /\ NoLeak'
  BY <1>1 DEF IInv, HeadBlocked, NoLeak
<1> QED BY <1>3, <1>4, <1>5, <1>6 DEF IInv
\* A lease that is released, by its owner or by a call that returns an error.
LEMMA ReleaseSteps ==
  ASSUME IInv, NEW c \in Callers, GiveBack(c) \/ Release(c)
  PROVE  IInv'
<1>1. /\ ReleaseLease(c) /\ pc[c] \in {"giveback", "returned"}
      /\ UNCHANGED <<ctxDone, failed, closed>>
      /\ outcome' = outcome /\ pc' = [pc EXCEPT ![c] = "returned"]
  BY DEF GiveBack, Release, Finish, IInv, TypeOK, callVars
<1>2. PICK k \in 0..Len(queue) :
           /\ queue' \in Seq(Callers)
           /\ Len(queue') = Len(queue) - k
           /\ \A i \in 1..(Len(queue) - k) : queue'[i] = queue[k + i]
           /\ lease' = [d \in Callers |-> IF d \in Prefix(queue, k) THEN "live"
                                         ELSE IF d = c /\ lease[c] = "live" THEN "released"
                                         ELSE lease[d]]
           /\ active' \in Nat /\ reserved' \in Nat
           /\ Accounting' /\ WithinLimits' /\ HeadBlocked'
  BY <1>1, ReleaseServes
<1>3. /\ Len(queue) \in Nat /\ \A i \in 1..Len(queue) : queue[i] \in Callers
      /\ \A i \in 1..Len(queue) : queue[i] # c /\ pc[queue[i]] \in {"select", "abandon"}
      /\ lease[c] # "none" => c \notin failed
  BY <1>1, LenProperties DEF IInv, TypeOK, WaiterState
<1>5. /\ \A d : d \in Prefix(queue, k) <=> \E i \in 1..k : queue[i] = d
      /\ \A i \in 1..k : i \in 1..Len(queue)
  BY <1>3 DEF Prefix
<1>4. /\ lease' \in [Callers -> LeaseStates] /\ lease'[c] # "live"
      /\ \A d \in Callers \ {c} : lease'[d] = IF d \in Prefix(queue, k) THEN "live" ELSE lease[d]
      /\ (lease'[c] = "none" <=> lease[c] = "none")
  <2>1. c \notin Prefix(queue, k)
    BY <1>3, <1>5
  <2>2. lease \in [Callers -> LeaseStates]
    BY DEF IInv, TypeOK, LeaseStates
  <2> QED BY <1>2, <2>1, <2>2 DEF LeaseStates
<1>0. \A d \in Prefix(queue, k) : d \in Callers /\ d # c /\ pc'[d] \in {"select", "abandon"}
  BY <1>1, <1>3, <1>5 DEF IInv, TypeOK
<1>10. /\ pc' \in [Callers -> Stages] /\ pc'[c] = "returned"
       /\ \A d \in Callers \ {c} : pc'[d] = pc[d]
       /\ pc \in [Callers -> Stages] /\ lease \in [Callers -> LeaseStates] /\ failed \subseteq Callers
  BY <1>1 DEF IInv, TypeOK, Stages, LeaseStates
<1>6. TypeOK'
  BY <1>1, <1>2, <1>4 DEF IInv, TypeOK, LeaseStates, Stages
<1>7. WaiterState'
  <2>1. \A i \in 1..Len(queue') : /\ k + i \in 1..Len(queue) /\ queue'[i] = queue[k + i]
                                  /\ queue'[i] \notin Prefix(queue, k)
    <3>1. \A i \in 1..Len(queue') : k + i \in 1..Len(queue) /\ queue'[i] = queue[k + i] /\ k + i > k
      BY <1>2, <1>3
    <3>2. \A i \in 1..Len(queue') : queue'[i] \notin Prefix(queue, k)
      <4>1. SUFFICES ASSUME NEW i \in 1..Len(queue'), NEW j \in 1..k, queue[j] = queue'[i] PROVE FALSE
        BY <1>5
      <4>2. j \in 1..Len(queue) /\ k + i \in 1..Len(queue) /\ j # k + i /\ queue[j] = queue[k + i]
        BY <4>1, <3>1, <1>5
      <4> QED BY <4>2 DEF IInv, WaiterState
    <3> QED BY <3>1, <3>2
  <2>2. \A i, j \in 1..Len(queue') : queue'[i] = queue'[j] => i = j
    BY <2>1, <1>2, <1>3 DEF IInv, WaiterState
  <2>3. \A i \in 1..Len(queue') : /\ pc'[queue'[i]] \in {"select", "abandon"}
                                  /\ lease'[queue'[i]] = "none" /\ queue'[i] \notin failed'
    <3>1. SUFFICES ASSUME NEW i \in 1..Len(queue')
                   PROVE  /\ pc'[queue'[i]] \in {"select", "abandon"}
                          /\ lease'[queue'[i]] = "none" /\ queue'[i] \notin failed'
      OBVIOUS
    <3> DEFINE j == k + i
               d == queue[j]
    <3>2. j \in 1..Len(queue) /\ queue'[i] = d /\ d \notin Prefix(queue, k)
      BY <2>1
    <3> HIDE DEF j
    <3>3. d \in Callers \ {c} /\ pc[d] \in {"select", "abandon"}
      BY <3>2, <1>3
    <3>4. lease[d] = "none" /\ d \notin failed
      BY <3>2 DEF IInv, WaiterState, Answered
    <3> HIDE DEF d
    <3>5. pc'[d] = pc[d] /\ lease'[d] = lease[d]
      BY <3>2, <3>3, <1>4, <1>10
    <3> QED BY <3>2, <3>3, <3>4, <3>5, <1>1
  <2>4. \A d \in Callers : pc'[d] \in {"select", "abandon"} =>
          \/ lease'[d] # "none" \/ d \in failed'
          \/ \E i \in 1..Len(queue') : queue'[i] = d
    <3>1. SUFFICES ASSUME NEW d \in Callers, pc'[d] \in {"select", "abandon"},
                          lease'[d] = "none", d \notin failed'
                   PROVE  \E i \in 1..Len(queue') : queue'[i] = d
      OBVIOUS
    <3>2. d # c /\ lease[d] = "none" /\ d \notin failed /\ d \notin Prefix(queue, k)
          /\ pc[d] \in {"select", "abandon"}
      BY <3>1, <1>1, <1>4, <1>10
    <3>3. PICK j \in 1..Len(queue) : queue[j] = d
      BY <3>2 DEF IInv, WaiterState, Answered
    <3>4. ~(j \in 1..k)
      BY <3>2, <3>3, <1>5
    <3>5. j - k \in 1..Len(queue') /\ k + (j - k) = j
      BY <3>4, <1>2, <1>3
    <3> QED BY <3>3, <3>5, <1>2
  <2>5. \A d \in failed' : lease'[d] = "none"
    <3>1. \A d \in Prefix(queue, k) : d \notin failed
      BY <1>5 DEF IInv, WaiterState, Answered
    <3>2. \A d \in failed : d \in Callers /\ lease[d] = "none"
      BY DEF IInv, WaiterState, TypeOK
    <3> QED BY <3>1, <3>2, <1>1, <1>4
  <2>6. \A d \in Callers : /\ pc'[d] \in {"start", "enter"} => lease'[d] = "none" /\ d \notin failed'
                           /\ pc'[d] = "recheck" => lease'[d] = "live"
                           /\ lease'[d] = "released" => pc'[d] = "returned"
                           /\ pc'[d] \in {"abandon", "giveback"} => outcome'[d] \in Errors
    <3>1. \A d \in Callers \ {c} : d \notin Prefix(queue, k) => pc'[d] = pc[d] /\ lease'[d] = lease[d]
      BY <1>4, <1>10
    <3>2. \A d \in Callers : d \in Prefix(queue, k) => lease'[d] = "live" /\ pc'[d] \in {"select", "abandon"}
      BY <1>0, <1>4
    <3> QED BY <3>1, <3>2, <1>1, <1>10 DEF IInv, WaiterState, Answered
  <2> QED BY <2>2, <2>3, <2>4, <2>5, <2>6 DEF WaiterState, Answered
<1>8. NoLeak'
  <2>1. \A d \in Callers \ {c} : d \notin Prefix(queue, k) => pc'[d] = pc[d] /\ lease'[d] = lease[d]
    BY <1>4, <1>10
  <2> QED BY <2>1, <1>0, <1>1, <1>4 DEF IInv, NoLeak
<1> QED BY <1>2, <1>6, <1>7, <1>8 DEF IInv
\* A waiter that gives up after it was answered: nothing in the limiter moves.
LEMMA AbandonAnswered ==
  ASSUME IInv, NEW c \in Callers, Abandon(c), Answered(c)
  PROVE  IInv'
<1>1. /\ pc[c] = "abandon" /\ UNCHANGED <<lease, failed, queue, active, reserved, closed, ctxDone>>
      /\ pc' = [pc EXCEPT ![c] = IF lease[c] = "none" THEN "returned" ELSE "giveback"]
      /\ outcome' = [outcome EXCEPT ![c] = IF ctxDone[c] THEN "ctx" ELSE outcome[c]]
  BY DEF Abandon, GoTo, Answered
<1>2. outcome[c] \in Errors
  BY <1>1 DEF IInv, WaiterState
<1>3. Accounting' /\ WithinLimits' /\ HeadBlocked'
  BY <1>1 DEF IInv, Accounting, Live, WithinLimits, HeadBlocked, Fits
<1>4. TypeOK'
  BY <1>1, <1>2 DEF IInv, TypeOK, Stages, Errors
<1>5. WaiterState'
  BY <1>1, <1>2 DEF IInv, TypeOK, WaiterState, Answered, Stages, Errors
<1>6. NoLeak'
  BY <1>1 DEF IInv, TypeOK, NoLeak
<1> QED BY <1>3, <1>4, <1>5, <1>6 DEF IInv

\* A waiter that gives up while it is still queued leaves the queue q behind, and
\* the waiters served by the drain are exactly those that then leave q.
LEMMA AbandonServes ==
  ASSUME IInv, NEW c \in Callers, Abandon(c), ~Answered(c)
  PROVE  \E m \in 1..Len(queue), q \in Seq(Callers) : \E k \in 0..Len(q) :
           /\ queue[m] = c
           /\ q \in Seq(Callers) /\ Len(q) = Len(queue) - 1
           /\ \A j \in 1..(Len(queue) - 1) : q[j] = IF j < m THEN queue[j] ELSE queue[j + 1]
           /\ \A i \in 1..Len(queue) : i # m => \E j \in 1..Len(q) : q[j] = queue[i]
           /\ \A i, j \in 1..Len(q) : q[i] = q[j] => i = j
           /\ \A j \in 1..Len(q) : /\ q[j] \in Callers \ {c}
                                   /\ lease[q[j]] = "none" /\ q[j] \notin failed
                                   /\ pc[q[j]] \in {"select", "abandon"}
           /\ k > 0 => ~closed
           /\ queue' \in Seq(Callers)
           /\ Len(queue') = Len(q) - k
           /\ \A i \in 1..(Len(q) - k) : queue'[i] = q[k + i]
           /\ lease' = [d \in Callers |-> IF d \in Prefix(q, k) THEN "live" ELSE lease[d]]
           /\ active' = Cardinality(Held(lease')) /\ reserved' = Weight(Held(lease'), Size)
           /\ active' \in Nat /\ reserved' \in Nat
           /\ (Enabled => active <= MaxConcurrent /\ reserved <= MaxBytes)
                => (Enabled => active' <= MaxConcurrent /\ reserved' <= MaxBytes)
           /\ queue' # <<>> => closed \/ ~Fits(active', reserved', {queue'[1]})
<1>1. /\ pc[c] = "abandon" /\ UNCHANGED <<failed, closed, ctxDone>>
      /\ lease[c] = "none" /\ c \notin failed
      /\ pc' = [pc EXCEPT ![c] = "returned"]
      /\ outcome' = [outcome EXCEPT ![c] = IF ctxDone[c] THEN "ctx" ELSE outcome[c]]
  BY DEF Abandon, GoTo, Answered
<1>2. PICK m \in 1..Len(queue) :
        queue[m] = c /\ \E st : Drain(RemoveAt(queue, m), active, reserved, lease, st)
  BY <1>1 DEF Abandon
<1>21. PICK st : Drain(RemoveAt(queue, m), active, reserved, lease, st)
  BY <1>2
<1> DEFINE q == RemoveAt(queue, m)
<1>3. /\ queue \in Seq(Callers) /\ lease \in [Callers -> LeaseStates] /\ failed \subseteq Callers
      /\ pc \in [Callers -> Stages] /\ Len(queue) \in Nat
      /\ \A i \in 1..Len(queue) : queue[i] \in Callers
      /\ \A i, j \in 1..Len(queue) : queue[i] = queue[j] => i = j
      /\ \A i \in 1..Len(queue) : /\ lease[queue[i]] = "none" /\ queue[i] \notin failed
                                  /\ pc[queue[i]] \in {"select", "abandon"}
  BY LenProperties DEF IInv, TypeOK, WaiterState, Answered, LeaseStates
<1>4. /\ q \in Seq(Callers) /\ Len(q) = Len(queue) - 1
      /\ \A j \in 1..(Len(queue) - 1) : q[j] = IF j < m THEN queue[j] ELSE queue[j + 1]
  BY <1>3, WithoutMember
<1> HIDE DEF q
<1>5. \A j \in 1..Len(q) : \E i \in 1..Len(queue) :
        i # m /\ q[j] = queue[i] /\ (i = IF j < m THEN j ELSE j + 1)
  BY <1>3, <1>4
<1>6. \A i \in 1..Len(queue) : i # m => \E j \in 1..Len(q) : q[j] = queue[i]
  <2>1. SUFFICES ASSUME NEW i \in 1..Len(queue), i # m PROVE \E j \in 1..Len(q) : q[j] = queue[i]
    OBVIOUS
  <2>2. CASE i < m
    <3>1. i \in 1..Len(q) /\ i \in 1..(Len(queue) - 1)
      BY <2>2, <1>3, <1>4
    <3> QED BY <3>1, <2>2, <1>4
  <2>3. CASE ~(i < m)
    <3>1. i - 1 \in 1..Len(q) /\ i - 1 \in 1..(Len(queue) - 1) /\ ~(i - 1 < m) /\ (i - 1) + 1 = i
      BY <2>1, <2>3, <1>3, <1>4
    <3> QED BY <3>1, <1>4
  <2> QED BY <2>2, <2>3
<1>7. /\ \A i, j \in 1..Len(q) : q[i] = q[j] => i = j
      /\ \A j \in 1..Len(q) : /\ q[j] \in Callers \ {c}
                              /\ lease[q[j]] = "none" /\ q[j] \notin failed
                              /\ pc[q[j]] \in {"select", "abandon"}
  <2>1. \A j \in 1..Len(q) : /\ q[j] \in Callers \ {c}
                             /\ lease[q[j]] = "none" /\ q[j] \notin failed
                             /\ pc[q[j]] \in {"select", "abandon"}
    BY <1>2, <1>3, <1>5
  <2>2. ASSUME NEW i \in 1..Len(q), NEW j \in 1..Len(q), q[i] = q[j] PROVE i = j
    <3>1. PICK a \in 1..Len(queue) : q[i] = queue[a] /\ a = IF i < m THEN i ELSE i + 1
      BY <1>5
    <3>2. PICK b \in 1..Len(queue) : q[j] = queue[b] /\ b = IF j < m THEN j ELSE j + 1
      BY <1>5
    <3>3. a = b
      BY <3>1, <3>2, <2>2, <1>3
    <3>4. i \in Int /\ j \in Int /\ m \in Int
      BY <1>3, <1>4
    <3> QED BY <3>1, <3>2, <3>3, <3>4
  <2> QED BY <2>1, <2>2
<1>8. active = Cardinality(Held(lease)) /\ reserved = Weight(Held(lease), Size)
  BY DEF IInv, Accounting, Live, Held
<1>9. Drain(q, active, reserved, lease, st)
  BY <1>21 DEF q
<1>10. PICK k \in 0..Len(q) :
           /\ k > 0 => ~closed
           /\ queue' \in Seq(Callers)
           /\ Len(queue') = Len(q) - k
           /\ \A i \in 1..(Len(q) - k) : queue'[i] = q[k + i]
           /\ lease' = [d \in Callers |-> IF d \in Prefix(q, k) THEN "live" ELSE lease[d]]
           /\ active' = Cardinality(Held(lease')) /\ reserved' = Weight(Held(lease'), Size)
           /\ active' \in Nat /\ reserved' \in Nat
           /\ (Enabled => active <= MaxConcurrent /\ reserved <= MaxBytes)
                => (Enabled => active' <= MaxConcurrent /\ reserved' <= MaxBytes)
           /\ queue' # <<>> => closed \/ ~Fits(active', reserved', {queue'[1]})
  <2>1. /\ \A i, j \in 1..Len(q) : q[i] = q[j] => i = j
        /\ \A i \in 1..Len(q) : lease[q[i]] = "none"
        /\ q \in Seq(Callers) /\ lease \in [Callers -> LeaseStates]
    BY <1>3, <1>4, <1>7
  <2> DEFINE n == active
             b == reserved
  <2>2. n = Cardinality(Held(lease)) /\ b = Weight(Held(lease), Size) /\ Drain(q, n, b, lease, st)
    BY <1>8, <1>9
  <2> HIDE DEF n, b
  <2>3. \E k \in 0..Len(q) :
           /\ k > 0 => ~closed
           /\ queue' \in Seq(Callers)
           /\ Len(queue') = Len(q) - k
           /\ \A i \in 1..(Len(q) - k) : queue'[i] = q[k + i]
           /\ lease' = [d \in Callers |-> IF d \in Prefix(q, k) THEN "live" ELSE lease[d]]
           /\ active' = Cardinality(Held(lease')) /\ reserved' = Weight(Held(lease'), Size)
           /\ active' \in Nat /\ reserved' \in Nat
           /\ (Enabled => n <= MaxConcurrent /\ b <= MaxBytes)
                => (Enabled => active' <= MaxConcurrent /\ reserved' <= MaxBytes)
           /\ queue' # <<>> => closed \/ ~Fits(active', reserved', {queue'[1]})
    BY <2>1, <2>2, DrainServes, SMTT(30)
  <2> QED BY <2>3 DEF n, b
<1> WITNESS m \in 1..Len(queue), q \in Seq(Callers)
<1> WITNESS k \in 0..Len(q)
<1> QED BY <1>2, <1>4, <1>6, <1>7, <1>10

\* A waiter that gives up while it is still queued: it leaves, and whoever now
\* fits is served.
LEMMA AbandonQueued ==
  ASSUME IInv, NEW c \in Callers, Abandon(c), ~Answered(c)
  PROVE  IInv'
<1>1. /\ pc[c] = "abandon" /\ UNCHANGED <<failed, closed, ctxDone>>
      /\ lease[c] = "none" /\ c \notin failed
      /\ pc' = [pc EXCEPT ![c] = "returned"]
      /\ outcome' = [outcome EXCEPT ![c] = IF ctxDone[c] THEN "ctx" ELSE outcome[c]]
  BY DEF Abandon, GoTo, Answered
<1>2. PICK m \in 1..Len(queue), q \in Seq(Callers) : \E k \in 0..Len(q) :
           /\ queue[m] = c
           /\ q \in Seq(Callers) /\ Len(q) = Len(queue) - 1
           /\ \A j \in 1..(Len(queue) - 1) : q[j] = IF j < m THEN queue[j] ELSE queue[j + 1]
           /\ \A i \in 1..Len(queue) : i # m => \E j \in 1..Len(q) : q[j] = queue[i]
           /\ \A i, j \in 1..Len(q) : q[i] = q[j] => i = j
           /\ \A j \in 1..Len(q) : /\ q[j] \in Callers \ {c}
                                   /\ lease[q[j]] = "none" /\ q[j] \notin failed
                                   /\ pc[q[j]] \in {"select", "abandon"}
           /\ k > 0 => ~closed
           /\ queue' \in Seq(Callers)
           /\ Len(queue') = Len(q) - k
           /\ \A i \in 1..(Len(q) - k) : queue'[i] = q[k + i]
           /\ lease' = [d \in Callers |-> IF d \in Prefix(q, k) THEN "live" ELSE lease[d]]
           /\ active' = Cardinality(Held(lease')) /\ reserved' = Weight(Held(lease'), Size)
           /\ active' \in Nat /\ reserved' \in Nat
           /\ (Enabled => active <= MaxConcurrent /\ reserved <= MaxBytes)
                => (Enabled => active' <= MaxConcurrent /\ reserved' <= MaxBytes)
           /\ queue' # <<>> => closed \/ ~Fits(active', reserved', {queue'[1]})
  BY AbandonServes
<1>3. /\ queue \in Seq(Callers) /\ lease \in [Callers -> LeaseStates] /\ failed \subseteq Callers
      /\ pc \in [Callers -> Stages] /\ Len(queue) \in Nat
      /\ \A i \in 1..Len(queue) : queue[i] \in Callers
      /\ \A i, j \in 1..Len(queue) : queue[i] = queue[j] => i = j
      /\ \A i \in 1..Len(queue) : /\ lease[queue[i]] = "none" /\ queue[i] \notin failed
                                  /\ pc[queue[i]] \in {"select", "abandon"}
  BY LenProperties DEF IInv, TypeOK, WaiterState, Answered, LeaseStates
<1>4. q \in Seq(Callers) /\ Len(q) = Len(queue) - 1
  BY <1>2
<1>6. \A i \in 1..Len(queue) : i # m => \E j \in 1..Len(q) : q[j] = queue[i]
  BY <1>2
<1>7. /\ \A i, j \in 1..Len(q) : q[i] = q[j] => i = j
      /\ \A j \in 1..Len(q) : /\ q[j] \in Callers \ {c}
                              /\ lease[q[j]] = "none" /\ q[j] \notin failed
                              /\ pc[q[j]] \in {"select", "abandon"}
  BY <1>2
<1>10. PICK k \in 0..Len(q) :
           /\ k > 0 => ~closed
           /\ queue' \in Seq(Callers)
           /\ Len(queue') = Len(q) - k
           /\ \A i \in 1..(Len(q) - k) : queue'[i] = q[k + i]
           /\ lease' = [d \in Callers |-> IF d \in Prefix(q, k) THEN "live" ELSE lease[d]]
           /\ active' = Cardinality(Held(lease')) /\ reserved' = Weight(Held(lease'), Size)
           /\ active' \in Nat /\ reserved' \in Nat
           /\ (Enabled => active <= MaxConcurrent /\ reserved <= MaxBytes)
                => (Enabled => active' <= MaxConcurrent /\ reserved' <= MaxBytes)
           /\ queue' # <<>> => closed \/ ~Fits(active', reserved', {queue'[1]})
  BY <1>2
<1>11. /\ \A d : d \in Prefix(q, k) <=> \E i \in 1..k : q[i] = d
       /\ \A i \in 1..k : i \in 1..Len(q)
  BY <1>3, <1>4 DEF Prefix
<1>12. \A d \in Prefix(q, k) : d \in Callers \ {c} /\ d \notin failed /\ pc[d] \in {"select", "abandon"}
  BY <1>7, <1>11
<1>13. /\ lease' \in [Callers -> LeaseStates] /\ lease'[c] = "none"
       /\ \A d \in Callers : d \in Prefix(q, k) => lease'[d] = "live"
       /\ \A d \in Callers : d \notin Prefix(q, k) => lease'[d] = lease[d]
  BY <1>1, <1>3, <1>10, <1>12 DEF LeaseStates
<1>14. /\ pc' \in [Callers -> Stages] /\ pc'[c] = "returned"
       /\ \A d \in Callers \ {c} : pc'[d] = pc[d] /\ outcome'[d] = outcome[d]
       /\ outcome' \in [Callers -> Errors \cup {"none", "lease"}] /\ outcome'[c] \in Errors
  BY <1>1 DEF IInv, TypeOK, WaiterState, Stages, Errors
<1>15. Accounting'
  BY <1>10 DEF Accounting, Live, Held
<1>16. WithinLimits'
  <2>1. Enabled => active <= MaxConcurrent /\ reserved <= MaxBytes
    BY DEF IInv, WithinLimits
  <2>2. Len(queue) <= MaxQueued /\ MaxQueued \in Nat
    BY LimitsAssumption DEF IInv, WithinLimits, LimitsAssumption
  <2>3. Len(queue') <= MaxQueued
    BY <2>2, <1>3, <1>4, <1>10
  <2> QED BY <2>1, <2>3, <1>10 DEF WithinLimits
<1>17. HeadBlocked'
  <2>1. SUFFICES ASSUME queue' # <<>> PROVE ~closed' /\ ~Fits(active', reserved', {queue'[1]})
    BY DEF HeadBlocked, Fits
  <2>2. queue # <<>>
    BY <1>2, EmptySeq
  <2>3. ~closed
    BY <2>2 DEF IInv, HeadBlocked
  <2> QED BY <2>1, <2>3, <1>1, <1>10
<1>18. TypeOK'
  <2>1. \A d \in Callers : pc'[d] \in {"giveback", "returned"} => outcome'[d] # "none"
    BY <1>14 DEF IInv, TypeOK, Errors
  <2> QED BY <2>1, <1>1, <1>10, <1>13, <1>14 DEF IInv, TypeOK, LeaseStates
<1>19. WaiterState'
  <2>1. \A i \in 1..Len(queue') : k + i \in 1..Len(q) /\ queue'[i] = q[k + i] /\ k + i > k
    <3>1. Len(q) \in Nat /\ k \in 0..Len(q) /\ Len(queue') = Len(q) - k
      BY <1>3, <1>4, <1>10
    <3>2. \A i \in 1..Len(queue') : i \in 1..(Len(q) - k) /\ k + i \in 1..Len(q) /\ k + i > k
      BY ONLY <3>1
    <3>3. \A i \in 1..(Len(q) - k) : queue'[i] = q[k + i]
      BY <1>10
    <3> QED BY ONLY <3>2, <3>3
  <2>2. ASSUME NEW i \in 1..Len(queue'), NEW j \in 1..Len(queue'), queue'[i] = queue'[j]
        PROVE  i = j
    <3>1. k + i \in 1..Len(q) /\ k + j \in 1..Len(q) /\ q[k + i] = q[k + j]
      BY <2>1, <2>2
    <3>2. k + i = k + j
      BY <3>1, <1>7
    <3>3. i \in Int /\ j \in Int /\ k \in Int
      BY <1>4, <1>10
    <3> QED BY ONLY <3>2, <3>3
  <2>3. \A i \in 1..Len(queue') : /\ pc'[queue'[i]] \in {"select", "abandon"}
                                  /\ lease'[queue'[i]] = "none" /\ queue'[i] \notin failed'
    <3>1. \A i \in 1..Len(queue') : queue'[i] \notin Prefix(q, k)
      <4>1. SUFFICES ASSUME NEW i \in 1..Len(queue'), NEW j \in 1..k, q[j] = queue'[i] PROVE FALSE
        BY <1>11
      <4>2. j \in 1..Len(q) /\ k + i \in 1..Len(q) /\ j # k + i /\ q[j] = q[k + i]
        BY <4>1, <2>1, <1>11
      <4> QED BY <4>2, <1>7
    <3>2. ASSUME NEW i \in 1..Len(queue'), NEW d, d = queue'[i]
          PROVE  pc'[d] \in {"select", "abandon"} /\ lease'[d] = "none" /\ d \notin failed'
      <4>1. k + i \in 1..Len(q) /\ d = q[k + i] /\ d \notin Prefix(q, k)
        BY <3>2, <2>1, <3>1
      <4>2. /\ d \in Callers \ {c} /\ lease[d] = "none" /\ d \notin failed
            /\ pc[d] \in {"select", "abandon"}
        BY <4>1, <1>7
      <4>3. lease'[d] = lease[d] /\ pc'[d] = pc[d]
        BY <4>1, <4>2, <1>13, <1>14
      <4> QED BY <4>2, <4>3, <1>1
    <3> QED BY <3>2
  <2>4. \A d \in Callers : pc'[d] \in {"select", "abandon"} =>
          \/ lease'[d] # "none" \/ d \in failed'
          \/ \E i \in 1..Len(queue') : queue'[i] = d
    <3>1. SUFFICES ASSUME NEW d \in Callers, pc'[d] \in {"select", "abandon"},
                          lease'[d] = "none", d \notin failed'
                   PROVE  \E i \in 1..Len(queue') : queue'[i] = d
      OBVIOUS
    <3>2. d # c /\ lease[d] = "none" /\ d \notin failed /\ d \notin Prefix(q, k)
          /\ pc[d] \in {"select", "abandon"}
      BY <3>1, <1>1, <1>13, <1>14
    <3>3. PICK i \in 1..Len(queue) : queue[i] = d
      BY <3>2 DEF IInv, WaiterState, Answered
    <3>4. PICK j \in 1..Len(q) : q[j] = d
      BY <3>2, <3>3, <1>2, <1>6
    <3>5. ~(j \in 1..k)
      BY <3>2, <3>4, <1>11
    <3>6. j - k \in 1..Len(queue') /\ j - k \in 1..(Len(q) - k) /\ k + (j - k) = j
      <4>1. Len(q) \in Nat /\ k \in 0..Len(q) /\ Len(queue') = Len(q) - k /\ j \in 1..Len(q)
        BY <1>3, <1>4, <1>10
      <4> QED BY ONLY <4>1, <3>5
    <3> QED BY <3>4, <3>6, <1>10
  <2>5. \A d \in failed' : lease'[d] = "none"
    <3>1. \A d \in failed : d \in Callers /\ lease[d] = "none"
      BY <1>3 DEF IInv, WaiterState
    <3> QED BY <3>1, <1>1, <1>12, <1>13
  <2>6. \A d \in Callers : /\ pc'[d] \in {"start", "enter"} => lease'[d] = "none" /\ d \notin failed'
                           /\ pc'[d] = "recheck" => lease'[d] = "live"
                           /\ lease'[d] = "released" => pc'[d] = "returned"
                           /\ pc'[d] \in {"abandon", "giveback"} => outcome'[d] \in Errors
    BY <1>1, <1>12, <1>13, <1>14 DEF IInv, WaiterState, Answered
  <2> QED BY <2>2, <2>3, <2>4, <2>5, <2>6 DEF WaiterState, Answered
<1>20. NoLeak'
  BY <1>12, <1>13, <1>14 DEF IInv, NoLeak
<1> QED BY <1>15, <1>16, <1>17, <1>18, <1>19, <1>20 DEF IInv
-----------------------------------------------------------------------------
\* The limiter starts inside the invariant.
LEMMA InitIInv == Init => IInv
<1> SUFFICES ASSUME Init PROVE IInv
  OBVIOUS
<1>1. <<>> \in Seq(Callers) /\ Len(<<>>) = 0 /\ Live = {}
  BY EmptySeq DEF Init, Live
<1>2. Cardinality({}) = 0 /\ Weight({}, Size) = 0
  BY FS_EmptySet, WeightEmpty
<1>3. TypeOK
  <2>1. /\ pc \in [Callers -> Stages] /\ ctxDone \in [Callers -> BOOLEAN]
        /\ outcome \in [Callers -> Errors \cup {"none", "lease"}]
        /\ lease \in [Callers -> {"none", "live", "released"}]
    BY DEF Init, Stages
  <2>2. \A c \in Callers : pc[c] = "start"
    BY DEF Init
  <2>3. queue = <<>> /\ failed = {} /\ active = 0 /\ reserved = 0 /\ closed = FALSE
    BY DEF Init
  <2>4. queue \in Seq(Callers)
    BY <2>3, <1>1
  <2>5. active \in Int /\ reserved \in Int
    BY <2>3
  <2>6. closed \in BOOLEAN /\ failed \subseteq Callers
    BY <2>3
  <2>7. \A c \in Callers : pc[c] \in {"giveback", "returned"} => outcome[c] # "none"
    BY <2>2
  <2> QED BY ONLY <2>1, <2>4, <2>5, <2>6, <2>7 DEF TypeOK
<1>4. WaiterState
  BY <1>1 DEF Init, WaiterState, Answered
<1>5. Accounting
  BY <1>1, <1>2 DEF Init, Accounting
<1>6. WithinLimits
  BY <1>1, LimitsAssumption DEF LimitsAssumption, Init, WithinLimits
<1>7. HeadBlocked /\ NoLeak
  BY DEF Init, HeadBlocked, NoLeak
<1> QED BY <1>3, <1>4, <1>5, <1>6, <1>7 DEF IInv

\* Every step keeps it.
LEMMA NextIInv == IInv /\ [Next]_vars => IInv'
<1> SUFFICES ASSUME IInv, [Next]_vars PROVE IInv'
  OBVIOUS
<1>1. ASSUME NEW c \in Callers, Proceed(c) PROVE IInv'
  <2>1. CASE Abandon(c)
    BY <2>1, AbandonAnswered, AbandonQueued
  <2> QED BY <1>1, <2>1, QuietSteps, AdmitNowStep, EnqueueStep, ReleaseSteps DEF Proceed, Critical
<1>2. ASSUME NEW c \in Callers, Release(c) PROVE IInv'
  BY <1>2, ReleaseSteps
<1>3. ASSUME NEW c \in Callers, GiveUp(c) \/ CancelContext(c) PROVE IInv'
  BY <1>3, QuietSteps
<1>4. CASE Close
  BY <1>4, CloseStep
<1>5. CASE UNCHANGED vars
  BY <1>5 DEF vars, IInv, TypeOK, WaiterState, Answered, Accounting, Live, WithinLimits,
              HeadBlocked, Fits, NoLeak
<1> QED BY <1>1, <1>2, <1>3, <1>4, <1>5 DEF Next

\* The limiter never leaves its inductive invariant.
THEOREM Invariance == Spec => []IInv
BY InitIInv, NextIInv, PTL DEF Spec

\* The state of admission.Limiter is well typed, and a call that is over has
\* either a lease or an error.
THEOREM TypeCorrect == Spec => []TypeOK
<1>1. IInv => TypeOK
  BY DEF IInv
<1> QED BY <1>1, Invariance, PTL

\* Active and ReservedBodyBytes are exactly what the live leases hold, for any
\* callers and any interleaving of grants, cancellations, closes and releases.
THEOREM AccountingHolds == Spec => []Accounting
<1>1. IInv => Accounting
  BY DEF IInv
<1> QED BY <1>1, Invariance, PTL

\* Admission never exceeds its places, its bytes or its queue.
THEOREM LimitsHold == Spec => []WithinLimits
<1>1. IInv => WithinLimits
  BY DEF IInv
<1> QED BY <1>1, Invariance, PTL

\* No wake-up is lost: the head of the queue never fits.
THEOREM HeadStaysBlocked == Spec => []HeadBlocked
<1>1. IInv => HeadBlocked
  BY DEF IInv
<1> QED BY <1>1, Invariance, PTL

\* A call that returned an error holds no lease.
THEOREM LeakFree == Spec => []NoLeak
<1>1. IInv => NoLeak
  BY DEF IInv
<1> QED BY <1>1, Invariance, PTL

\* What admission.Limiter has counted is what its callers hold, within the limits
\* and without a leak, for any number of callers.
THEOREM LeasesAreExact == Spec => []LeasesExact
<1>1. IInv => LeasesExact
  BY DEF IInv, LeasesExact
<1> QED BY <1>1, Invariance, PTL
-----------------------------------------------------------------------------
\* s is what remains of the queue q when its first k members are served.
Remains(s, q, k) == /\ q \in Seq(Callers) /\ k \in 0..Len(q) /\ s \in Seq(Callers)
                    /\ Len(s) = Len(q) - k /\ \A i \in 1..(Len(q) - k) : s[i] = q[k + i]
Precedes(q, c, d) == \E i, j \in 1..Len(q) : i < j /\ q[i] = c /\ q[j] = d

\* A caller served by a drain was ahead of everybody whom the drain left waiting.
LEMMA AheadOfTheRest ==
  ASSUME NEW q, NEW k, NEW s, Remains(s, q, k), NEW c \in Prefix(q, k), NEW d \in Range(s)
  PROVE  Precedes(q, c, d)
<1>1. PICK i \in 1..k : q[i] = c
  BY DEF Prefix
<1>2. PICK j \in 1..Len(s) : s[j] = d
  BY RangeEquality DEF Remains
<1>3. Len(q) \in Nat /\ k \in 0..Len(q) /\ Len(s) = Len(q) - k
  BY LenProperties DEF Remains
<1>4. i \in 1..Len(q) /\ k + j \in 1..Len(q) /\ i < k + j /\ j \in 1..(Len(q) - k)
  BY <1>3
<1>5. q[k + j] = d
  BY <1>2, <1>4 DEF Remains
<1> QED BY <1>1, <1>4, <1>5 DEF Precedes

\* Who leaves the queue at m does not change the order of the others.
LEMMA OrderWithoutMember ==
  ASSUME NEW p \in Seq(Callers), NEW m \in 1..Len(p), NEW q, Len(q) = Len(p) - 1,
         \A j \in 1..(Len(p) - 1) : q[j] = IF j < m THEN p[j] ELSE p[j + 1],
         NEW c, NEW d, Precedes(q, c, d)
  PROVE  Precedes(p, c, d)
<1>1. PICK i, j \in 1..Len(q) : i < j /\ q[i] = c /\ q[j] = d
  BY DEF Precedes
<1>2. Len(p) \in Nat
  BY LenProperties
<1> DEFINE at(x) == IF x < m THEN x ELSE x + 1
<1>3. at(i) \in 1..Len(p) /\ at(j) \in 1..Len(p) /\ at(i) < at(j)
  BY <1>1, <1>2
<1>4. p[at(i)] = c /\ p[at(j)] = d
  BY <1>1
<1> HIDE DEF at
<1> QED BY <1>3, <1>4 DEF Precedes

\* Releasing a lease serves the queue in its order.
LEMMA ReleaseKeepsOrder ==
  ASSUME IInv, NEW c \in Callers, ReleaseLease(c), closed' = closed,
         NEW d \in Callers, lease[d] = "none", lease'[d] = "live", NEW e \in Range(queue')
  PROVE  Before(d, e)
<1>1. PICK k \in 0..Len(queue) :
        /\ queue' \in Seq(Callers)
        /\ Len(queue') = Len(queue) - k
        /\ \A i \in 1..(Len(queue) - k) : queue'[i] = queue[k + i]
        /\ lease' = [x \in Callers |-> IF x \in Prefix(queue, k) THEN "live"
                                      ELSE IF x = c /\ lease[c] = "live" THEN "released"
                                      ELSE lease[x]]
  BY ReleaseServes
<1>2. Remains(queue', queue, k)
  BY <1>1 DEF Remains, IInv, TypeOK
<1>3. d \in Prefix(queue, k)
  BY <1>1
<1>4. Precedes(queue, d, e)
  BY <1>2, <1>3, AheadOfTheRest, Zenon
<1> QED BY <1>4 DEF Precedes, Before

\* So does a waiter that leaves: the others keep their order.
LEMMA AbandonKeepsOrder ==
  ASSUME IInv, NEW c \in Callers, Abandon(c),
         NEW d \in Callers, lease[d] = "none", lease'[d] = "live", NEW e \in Range(queue')
  PROVE  Before(d, e)
<1>1. ~Answered(c)
  BY DEF Abandon, Answered
<1>2. PICK m \in 1..Len(queue), q \in Seq(Callers) : \E k \in 0..Len(q) :
           /\ queue[m] = c
           /\ q \in Seq(Callers) /\ Len(q) = Len(queue) - 1
           /\ \A j \in 1..(Len(queue) - 1) : q[j] = IF j < m THEN queue[j] ELSE queue[j + 1]
           /\ \A i \in 1..Len(queue) : i # m => \E j \in 1..Len(q) : q[j] = queue[i]
           /\ \A i, j \in 1..Len(q) : q[i] = q[j] => i = j
           /\ \A j \in 1..Len(q) : /\ q[j] \in Callers \ {c}
                                   /\ lease[q[j]] = "none" /\ q[j] \notin failed
                                   /\ pc[q[j]] \in {"select", "abandon"}
           /\ k > 0 => ~closed
           /\ queue' \in Seq(Callers)
           /\ Len(queue') = Len(q) - k
           /\ \A i \in 1..(Len(q) - k) : queue'[i] = q[k + i]
           /\ lease' = [x \in Callers |-> IF x \in Prefix(q, k) THEN "live" ELSE lease[x]]
           /\ active' = Cardinality(Held(lease')) /\ reserved' = Weight(Held(lease'), Size)
           /\ active' \in Nat /\ reserved' \in Nat
           /\ (Enabled => active <= MaxConcurrent /\ reserved <= MaxBytes)
                => (Enabled => active' <= MaxConcurrent /\ reserved' <= MaxBytes)
           /\ queue' # <<>> => closed \/ ~Fits(active', reserved', {queue'[1]})
  BY <1>1, AbandonServes
<1>3. PICK k \in 0..Len(q) :
        /\ queue' \in Seq(Callers) /\ Len(queue') = Len(q) - k
        /\ \A i \in 1..(Len(q) - k) : queue'[i] = q[k + i]
        /\ lease' = [x \in Callers |-> IF x \in Prefix(q, k) THEN "live" ELSE lease[x]]
  BY <1>2
<1>4. Remains(queue', q, k)
  BY <1>3 DEF Remains
<1>5. d \in Prefix(q, k)
  BY <1>3
<1>6. Precedes(q, d, e)
  BY <1>4, <1>5, AheadOfTheRest, Zenon
<1>7. /\ queue \in Seq(Callers) /\ Len(q) = Len(queue) - 1
      /\ \A j \in 1..(Len(queue) - 1) : q[j] = IF j < m THEN queue[j] ELSE queue[j + 1]
  BY <1>2 DEF IInv, TypeOK
<1>8. Precedes(queue, d, e)
  BY <1>6, <1>7, OrderWithoutMember
<1> QED BY <1>8 DEF Precedes, Before

\* First come, first served, for any queue and any limits: no grant of
\* admission.Limiter passes over a waiter that was ahead.
THEOREM FirstComeFirstServed == Spec => Fifo
<1> DEFINE Ordered == \A c \in Callers :
             lease[c] = "none" /\ lease'[c] = "live" => \A d \in Range(queue') : Before(c, d)
<1>1. IInv /\ [Next]_vars => [Ordered]_vars
  <2> SUFFICES ASSUME IInv, Next, NEW c \in Callers, lease[c] = "none", lease'[c] = "live",
                      NEW d \in Range(queue')
               PROVE  Before(c, d)
    OBVIOUS
  <2>1. ASSUME NEW x \in Callers, Proceed(x) PROVE Before(c, d)
    <3>1. CASE AdmitNow(x)
      <4>1. queue' = <<>>
        BY <3>1 DEF AdmitNow, Immediate
      <4> QED BY <4>1, EmptySeq DEF Range
    <3>2. CASE Abandon(x)
      BY <3>2, AbandonKeepsOrder
    <3>3. CASE GiveBack(x)
      BY <3>3, ReleaseKeepsOrder DEF GiveBack
    <3>4. CASE Begin(x) \/ RefuseClosed(x) \/ Reject(x) \/ Enqueue(x) \/ Wake(x) \/ Recheck(x)
      BY <3>4 DEF Begin, RefuseClosed, Reject, Enqueue, Wake, Recheck
    <3> QED BY <2>1, <3>1, <3>2, <3>3, <3>4 DEF Proceed, Critical
  <2>2. ASSUME NEW x \in Callers, Release(x) PROVE Before(c, d)
    BY <2>2, ReleaseKeepsOrder DEF Release
  <2>3. ASSUME NEW x \in Callers, GiveUp(x) \/ CancelContext(x) PROVE Before(c, d)
    BY <2>3 DEF GiveUp, CancelContext
  <2>4. CASE Close
    BY <2>4 DEF Close
  <2> QED BY <2>1, <2>2, <2>3, <2>4 DEF Next
<1> QED BY <1>1, Invariance, PTL DEF Spec, Fifo

\* Acquire reports success only before Close, and hands out a live lease.
THEOREM SuccessBeforeClose == Spec => NoSuccessAfterClose
<1> DEFINE Honest == \A c \in Callers :
             pc[c] # "returned" /\ pc'[c] = "returned" /\ outcome'[c] = "lease"
               => ~closed /\ lease'[c] = "live"
<1>1. IInv /\ [Next]_vars => [Honest]_vars
  <2> SUFFICES ASSUME IInv, Next, NEW c \in Callers,
                      pc[c] # "returned", pc'[c] = "returned", outcome'[c] = "lease"
               PROVE  ~closed /\ lease'[c] = "live"
    OBVIOUS
  <2>1. /\ pc \in [Callers -> Stages] /\ lease \in [Callers -> LeaseStates]
        /\ outcome \in [Callers -> Errors \cup {"none", "lease"}]
        /\ pc[c] = "recheck" => lease[c] = "live"
        /\ pc[c] \in {"abandon", "giveback"} => outcome[c] \in Errors
    BY DEF IInv, TypeOK, WaiterState, LeaseStates
  <2>2. ASSUME NEW x \in Callers, Proceed(x) PROVE ~closed /\ lease'[c] = "live"
    <3>1. CASE AdmitNow(x)
      BY <3>1, <2>1 DEF AdmitNow, Grant, Finish
    <3>2. CASE Recheck(x)
      BY <3>2, <2>1 DEF Recheck, GoTo, Finish
    <3>3. CASE Abandon(x) \/ GiveBack(x)
      BY <3>3, <2>1 DEF Abandon, GiveBack, GoTo, Finish, Errors
    <3>4. CASE Begin(x) \/ RefuseClosed(x) \/ Reject(x) \/ Enqueue(x) \/ Wake(x)
      BY <3>4, <2>1 DEF Begin, RefuseClosed, Reject, Enqueue, Wake, GoTo, Finish
    <3> QED BY <2>2, <3>1, <3>2, <3>3, <3>4 DEF Proceed, Critical
  <2>3. ASSUME NEW x \in Callers, Release(x) \/ GiveUp(x) \/ CancelContext(x)
        PROVE  ~closed /\ lease'[c] = "live"
    BY <2>3, <2>1 DEF Release, GiveUp, CancelContext, GoTo, callVars
  <2>4. CASE Close
    BY <2>4 DEF Close
  <2> QED BY <2>2, <2>3, <2>4 DEF Next
<1> QED BY <1>1, Invariance, PTL DEF Spec, NoSuccessAfterClose
-----------------------------------------------------------------------------
\* The pool counts and weighs as the limiter does.
LEMMA PoolMeasures ==
  ASSUME NEW S
  PROVE  Pool!Cardinality(S) = Cardinality(S) /\ Pool!Weight(S, Size) = Weight(S, Size)
<1>1. Pool!Units(S, Size) = Units(S, Size)
  BY DEF Pool!Units, Units
<1> QED BY <1>1 DEF Pool!Weight, Weight, Pool!Cardinality, Cardinality

\* A grant to callers without a lease is a Take of the pool.
LEMMA PoolTakes ==
  ASSUME IInv, Accounting', WithinLimits', ~closed, closed' = closed, NEW S \in SUBSET Callers,
         \A c \in S : lease[c] = "none",
         lease' = [c \in Callers |-> IF c \in S THEN "live" ELSE lease[c]]
  PROVE  Pool!Take(S)
<1>1. /\ Live' = Live \cup S
      /\ {c \in Callers : lease'[c] = "released"} = {c \in Callers : lease[c] = "released"}
      /\ S \cap (Live \cup {c \in Callers : lease[c] = "released"}) = {}
  BY DEF Live
<1>2. Pool!WithinPool(Live')
  <2>1. /\ Pool!Cardinality(Live') = Cardinality(Live') /\ Pool!Weight(Live', Size) = Weight(Live', Size)
        /\ active' = Cardinality(Live') /\ reserved' = Weight(Live', Size)
    BY PoolMeasures DEF Accounting
  <2> QED BY <2>1 DEF Pool!WithinPool, WithinLimits
<1> QED BY <1>1, <1>2 DEF Pool!Take

\* Giving and taking at once is a step of the pool.
LEMMA PoolGives ==
  ASSUME NEW c \in Callers, NEW S \in SUBSET Callers, Pool!GiveAndTake(c, S)
  PROVE  Pool!Next
BY DEF Pool!Next

\* Releasing a lease is a GiveAndTake of the pool, or nothing for a second release.
LEMMA ReleaseGivesAndTakes ==
  ASSUME IInv, NEW c \in Callers, ReleaseLease(c), closed' = closed
  PROVE  Pool!Next \/ UNCHANGED Pool!poolVars
<1>1. CASE lease[c] = "live"
  <2>1. PICK k \in 0..Len(queue) :
          /\ lease' = [x \in Callers |-> IF x \in Prefix(queue, k) THEN "live"
                                        ELSE IF x = c /\ lease[c] = "live" THEN "released"
                                        ELSE lease[x]]
          /\ Accounting' /\ WithinLimits'
    BY ReleaseServes
  <2>2. /\ queue \in Seq(Callers) /\ lease \in [Callers -> LeaseStates]
        /\ \A i \in 1..Len(queue) : lease[queue[i]] = "none"
        /\ closed => queue = <<>>
    BY DEF IInv, TypeOK, WaiterState, Answered, LeaseStates, HeadBlocked
  <2>3. Len(queue) \in Nat /\ \A i \in 1..k : i \in 1..Len(queue) /\ queue[i] \in Callers
    BY <2>2, LenProperties
  <2>4. Prefix(queue, k) \in SUBSET Callers /\ \A d \in Prefix(queue, k) : lease[d] = "none"
    BY <2>2, <2>3 DEF Prefix
  <2> PICK S \in SUBSET Callers : S = Prefix(queue, k)
    BY <2>4, Zenon
  <2>5. S # {} => ~closed
    BY <2>2, <2>3, <2>4, EmptySeq DEF Prefix
  <2>6. /\ Live' = (Live \ {c}) \cup S
        /\ {d \in Callers : lease'[d] = "released"} = {d \in Callers : lease[d] = "released"} \cup {c}
        /\ S \cap (Live \cup {d \in Callers : lease[d] = "released"}) = {}
        /\ c \in Live
    BY <1>1, <2>1, <2>4 DEF Live
  <2>7. Pool!WithinPool(Live')
    <3>1. /\ Pool!Cardinality(Live') = Cardinality(Live') /\ Pool!Weight(Live', Size) = Weight(Live', Size)
          /\ active' = Cardinality(Live') /\ reserved' = Weight(Live', Size)
      BY <2>1, PoolMeasures DEF Accounting
    <3> QED BY <2>1, <3>1 DEF Pool!WithinPool, WithinLimits
  <2>8. Pool!GiveAndTake(c, S)
    BY <2>5, <2>6, <2>7 DEF Pool!GiveAndTake
  <2> QED BY <2>8, PoolGives
<1>2. CASE lease[c] # "live"
  BY <1>2 DEF ReleaseLease, Pool!poolVars, Live
<1> QED BY <1>1, <1>2

\* A waiter that leaves the queue lets the pool take whoever now fits.
LEMMA AbandonTakes ==
  ASSUME IInv, NEW c \in Callers, Abandon(c), Accounting', WithinLimits'
  PROVE  Pool!Next \/ UNCHANGED Pool!poolVars
<1>1. CASE Answered(c)
  BY <1>1 DEF Abandon, Answered, Pool!poolVars, Live
<1>2. CASE ~Answered(c)
  <2>1. PICK m \in 1..Len(queue), q \in Seq(Callers) : \E k \in 0..Len(q) :
           /\ queue[m] = c
           /\ q \in Seq(Callers) /\ Len(q) = Len(queue) - 1
           /\ \A j \in 1..(Len(queue) - 1) : q[j] = IF j < m THEN queue[j] ELSE queue[j + 1]
           /\ \A i \in 1..Len(queue) : i # m => \E j \in 1..Len(q) : q[j] = queue[i]
           /\ \A i, j \in 1..Len(q) : q[i] = q[j] => i = j
           /\ \A j \in 1..Len(q) : /\ q[j] \in Callers \ {c}
                                   /\ lease[q[j]] = "none" /\ q[j] \notin failed
                                   /\ pc[q[j]] \in {"select", "abandon"}
           /\ k > 0 => ~closed
           /\ queue' \in Seq(Callers)
           /\ Len(queue') = Len(q) - k
           /\ \A i \in 1..(Len(q) - k) : queue'[i] = q[k + i]
           /\ lease' = [d \in Callers |-> IF d \in Prefix(q, k) THEN "live" ELSE lease[d]]
           /\ active' = Cardinality(Held(lease')) /\ reserved' = Weight(Held(lease'), Size)
           /\ active' \in Nat /\ reserved' \in Nat
           /\ (Enabled => active <= MaxConcurrent /\ reserved <= MaxBytes)
                => (Enabled => active' <= MaxConcurrent /\ reserved' <= MaxBytes)
           /\ queue' # <<>> => closed \/ ~Fits(active', reserved', {queue'[1]})
    BY <1>2, AbandonServes
  <2>2. PICK k \in 0..Len(q) :
          /\ k > 0 => ~closed
          /\ lease' = [x \in Callers |-> IF x \in Prefix(q, k) THEN "live" ELSE lease[x]]
    BY <2>1
  <2> DEFINE S == Prefix(q, k)
  <2>3. Len(q) \in Nat /\ \A i \in 1..k : i \in 1..Len(q)
    BY LenProperties
  <2>4. \A j \in 1..Len(q) : q[j] \in Callers /\ lease[q[j]] = "none"
    BY <2>1
  <2>5. S \in SUBSET Callers /\ \A d \in S : lease[d] = "none"
    BY <2>3, <2>4 DEF Prefix
  <2>6. closed' = closed /\ queue # <<>>
    BY <2>1, EmptySeq DEF Abandon
  <2>7. ~closed
    BY <2>6 DEF IInv, HeadBlocked
  <2> HIDE DEF S
  <2>8. lease' = [x \in Callers |-> IF x \in S THEN "live" ELSE lease[x]]
    BY <2>2 DEF S
  <2>9. Pool!Take(S)
    BY <2>5, <2>6, <2>7, <2>8, PoolTakes
  <2> QED BY <2>5, <2>9 DEF Pool!Next
<1> QED BY <1>1, <1>2

\* The abstract pool starts empty, and so does the limiter.
LEMMA PoolInit == Init => Pool!Init
BY DEF Init, Pool!Init, Live

\* admission.Limiter implements CapacityPool: whatever queue, timers, contexts
\* and Close do, its leases come and go as those of a pool that never hands out
\* more than it has, and nothing once it is shut.
THEOREM ImplementsPool == Spec => PoolSpec
<1>1. IInv /\ IInv' /\ [Next]_vars => [Pool!Next]_(Pool!poolVars)
  <2> SUFFICES ASSUME IInv, IInv', [Next]_vars PROVE Pool!Next \/ UNCHANGED Pool!poolVars
    OBVIOUS
  <2>1. Accounting' /\ WithinLimits'
    BY DEF IInv
  <2>2. ASSUME NEW c \in Callers, Proceed(c) PROVE Pool!Next \/ UNCHANGED Pool!poolVars
    <3>1. CASE AdmitNow(c)
      <4>1. lease[c] = "none" /\ ~closed /\ closed' = closed
        BY <3>1 DEF AdmitNow, IInv, TypeOK, WaiterState, Answered
      <4>2. lease' = [d \in Callers |-> IF d \in {c} THEN "live" ELSE lease[d]]
        BY <3>1 DEF AdmitNow, Grant
      <4>3. Pool!Take({c})
        BY <4>1, <4>2, <2>1, PoolTakes
      <4> QED BY <4>3 DEF Pool!Next
    <3>2. CASE Abandon(c)
      BY <3>2, <2>1, AbandonTakes
    <3>3. CASE GiveBack(c)
      BY <3>3, ReleaseGivesAndTakes DEF GiveBack
    <3>4. CASE Begin(c) \/ RefuseClosed(c) \/ Reject(c) \/ Enqueue(c) \/ Wake(c) \/ Recheck(c)
      BY <3>4 DEF Begin, RefuseClosed, Reject, Enqueue, Wake, Recheck, Pool!poolVars, Live
    <3> QED BY <2>2, <3>1, <3>2, <3>3, <3>4 DEF Proceed, Critical
  <2>3. ASSUME NEW c \in Callers, Release(c) PROVE Pool!Next \/ UNCHANGED Pool!poolVars
    BY <2>3, ReleaseGivesAndTakes DEF Release
  <2>4. ASSUME NEW c \in Callers, GiveUp(c) \/ CancelContext(c) PROVE UNCHANGED Pool!poolVars
    BY <2>4 DEF GiveUp, CancelContext, Pool!poolVars, Live
  <2>5. CASE Close
    BY <2>5 DEF Close, Pool!Next, Pool!Shut, Live
  <2>6. CASE UNCHANGED vars
    BY <2>6 DEF vars, Pool!poolVars, Live
  <2> QED BY <2>2, <2>3, <2>4, <2>5, <2>6 DEF Next
<1> QED BY <1>1, PoolInit, Invariance, PTL DEF Spec, PoolSpec, Pool!Spec
-----------------------------------------------------------------------------
(* The server.                                                             *)

\* What doShutdown has behind it: the phases after each of its steps, latest first.
AfterWriter == {"store", "done"}
AfterStopWriter == {"writer"} \cup AfterWriter
AfterLoops == {"stopWriter"} \cup AfterStopWriter
AfterRequests == {"loops"} \cup AfterLoops
AfterJobs == {"requests"} \cup AfterRequests
AfterStopJobs == {"jobs"} \cup AfterJobs
AfterSessions == {"stopJobs"} \cup AfterStopJobs
AfterStopSessions == {"sessions"} \cup AfterSessions
AfterAgent == {"stopSessions"} \cup AfterStopSessions
AfterCloseAgent == {"agent"} \cup AfterAgent
AfterCancel == {"closeAgent"} \cup AfterCloseAgent
AfterClose == {"cancel"} \cup AfterCancel
AfterStop == {"close"} \cup AfterClose

\* What each step of the shutdown has established, and later ones rely on.
Progress ==
  /\ phase \in AfterStop => stopped
  /\ phase \in AfterClose => closed
  /\ phase \in AfterCancel => cancelled
  /\ phase \in AfterCloseAgent => agentClosed
  /\ phase \in AfterAgent /\ storageSafe => turn # "running"
  /\ phase \in AfterStopSessions => sessionsStopped
  /\ phase \in AfterSessions => sessions = {}
  /\ phase \in AfterStopJobs => jobsStopped
  /\ phase \in AfterJobs => worker # "running"
  /\ phase \in AfterRequests /\ storageSafe => refreshes = {} /\ \A c \in Callers : ~Active(c)
  /\ phase \in AfterLoops => loops = "ended"
  /\ phase \in AfterStopWriter => writerClosed
  /\ phase \in AfterWriter => writerGone

\* A request that has not been admitted has not begun to prepare; one that is
\* over has returned from Acquire and holds no lease.
RequestState == \A c \in Callers :
  /\ http[c] \in {"absent", "new", "refused"} => pc[c] = "start"
  /\ http[c] = "over" => pc[c] = "returned" /\ lease[c] # "live"

\* The writer leaves nothing behind, and the store is closed at the very end.
Endings ==
  /\ writerGone => writerClosed /\ \A c \in Callers : records[c] # "queued"
  /\ ~storeOpen => phase = "done" /\ storageSafe

SInv == ServerTypeOK /\ Progress /\ RequestState /\ Endings
-----------------------------------------------------------------------------
\* A step of one call of Acquire leaves the other calls where they are.
LEMMA OtherCalls ==
  ASSUME IInv, NEW c \in Callers, Proceed(c) \/ GiveUp(c) \/ Release(c) \/ CancelContext(c),
         NEW d \in Callers, d # c
  PROVE  pc'[d] = pc[d]
<1>1. pc \in [Callers -> Stages]
  BY DEF IInv, TypeOK
<1>2. pc' = pc \/ \E stage : pc' = [pc EXCEPT ![c] = stage]
  <2>1. CASE Proceed(c)
    BY <2>1 DEF Proceed, Critical, Begin, RefuseClosed, Reject, AdmitNow, Enqueue, Wake, Recheck,
                Abandon, GiveBack, GoTo, Finish
  <2>2. CASE GiveUp(c) \/ Release(c) \/ CancelContext(c)
    BY <2>2 DEF GiveUp, Release, CancelContext, callVars, GoTo
  <2> QED BY <2>1, <2>2
<1> QED BY <1>1, <1>2

\* A call that has returned without a lease, or given it back, is never granted one.
LEMMA ReturnedGetsNothing ==
  ASSUME IInv, [Next]_vars, NEW d \in Callers, pc[d] = "returned", lease[d] # "live"
  PROVE  lease'[d] # "live"
<1>1. /\ lease \in [Callers -> LeaseStates] /\ queue \in Seq(Callers)
      /\ \A i \in 1..Len(queue) : pc[queue[i]] \in {"select", "abandon"}
  BY DEF IInv, TypeOK, WaiterState, LeaseStates
<1>2. ASSUME NEW c \in Callers, ReleaseLease(c), closed' = closed PROVE lease'[d] # "live"
  <2>1. PICK k \in 0..Len(queue) :
          lease' = [x \in Callers |-> IF x \in Prefix(queue, k) THEN "live"
                                      ELSE IF x = c /\ lease[c] = "live" THEN "released"
                                      ELSE lease[x]]
    BY <1>2, ReleaseServes
  <2>2. d \notin Prefix(queue, k)
    <3>1. \A i \in 1..k : i \in 1..Len(queue)
      BY <1>1, LenProperties
    <3> QED BY <1>1, <3>1 DEF Prefix
  <2> QED BY <2>1, <2>2
<1>3. ASSUME NEW c \in Callers, Abandon(c) PROVE lease'[d] # "live"
  <2>1. CASE Answered(c)
    BY <1>3, <2>1 DEF Abandon, Answered
  <2>2. CASE ~Answered(c)
    <3>1. \E q \in Seq(Callers) : \E k \in 0..Len(q) :
            /\ \A j \in 1..Len(q) : pc[q[j]] \in {"select", "abandon"}
            /\ lease' = [x \in Callers |-> IF x \in Prefix(q, k) THEN "live" ELSE lease[x]]
      BY <1>3, <2>2, AbandonServes
    <3>2. PICK q \in Seq(Callers) : \E k \in 0..Len(q) :
            /\ \A j \in 1..Len(q) : pc[q[j]] \in {"select", "abandon"}
            /\ lease' = [x \in Callers |-> IF x \in Prefix(q, k) THEN "live" ELSE lease[x]]
      BY <3>1
    <3>3. PICK k \in 0..Len(q) :
            lease' = [x \in Callers |-> IF x \in Prefix(q, k) THEN "live" ELSE lease[x]]
      BY <3>2
    <3>4. d \notin Prefix(q, k)
      <4>1. \A i \in 1..k : i \in 1..Len(q)
        BY LenProperties
      <4> QED BY <3>2, <4>1 DEF Prefix
    <3> QED BY <3>3, <3>4
  <2> QED BY <2>1, <2>2
<1>4. ASSUME NEW c \in Callers, AdmitNow(c) PROVE lease'[d] # "live"
  BY <1>1, <1>4 DEF AdmitNow, Grant
<1>5. ASSUME NEW c \in Callers, Proceed(c) PROVE lease'[d] # "live"
  <2>1. CASE Begin(c) \/ RefuseClosed(c) \/ Reject(c) \/ Enqueue(c) \/ Wake(c) \/ Recheck(c)
    BY <2>1 DEF Begin, RefuseClosed, Reject, Enqueue, Wake, Recheck
  <2>2. CASE GiveBack(c)
    BY <1>2, <2>2 DEF GiveBack
  <2> QED BY <1>3, <1>4, <1>5, <2>1, <2>2 DEF Proceed, Critical
<1>6. ASSUME NEW c \in Callers, GiveUp(c) \/ Release(c) \/ CancelContext(c) PROVE lease'[d] # "live"
  BY <1>2, <1>6 DEF GiveUp, Release, CancelContext
<1>7. CASE Close \/ UNCHANGED vars
  BY <1>7 DEF Close, vars
<1> QED BY <1>5, <1>6, <1>7 DEF Next

-----------------------------------------------------------------------------
\* A step of a request's own call of Acquire.
CallStep == \E c \in Callers : Interrupt(c) \/ LoseClient(c) \/ Prepare(c) \/ QueueTimer(c) \/ GiveLeaseBack(c)

\* The server moves the limiter only in its own ways.
LEMMA LimiterStep == [ServerNext]_allVars => [Next]_vars
<1>1. ASSUME CallStep PROVE Next
  BY <1>1 DEF CallStep, Interrupt, LoseClient, Prepare, QueueTimer, GiveLeaseBack, Next
<1>2. ASSUME CloseLimiter PROVE Next
  BY <1>2 DEF CloseLimiter, Next
<1>3. ASSUME NEW c \in Callers,
             Enter(c) \/ BeginSession(c) \/ EndSession(c) \/ StartWorker(c) \/ StartRefresh(c)
               \/ StartTurn(c) \/ Complete(c) \/ WriteRecord(c)
      PROVE  UNCHANGED vars
  BY <1>3 DEF Enter, BeginSession, EndSession, StartWorker, StartRefresh, StartTurn, Complete,
              WriteRecord, limiter
<1>4. ASSUME EndRefresh \/ EndTurn \/ EndWorker \/ EndLoops \/ WriterEnds \/ Deadline
               \/ FlushDeadline \/ RequestShutdown
      PROVE  UNCHANGED vars
  BY <1>4 DEF EndRefresh, EndTurn, EndWorker, EndLoops, WriterEnds, Deadline, FlushDeadline,
              RequestShutdown, limiter
<1>5. ASSUME ShutdownStep, ~CloseLimiter PROVE UNCHANGED vars
  BY <1>5 DEF ShutdownStep, StopRequests, CancelLifecycle, CloseAgent, AgentShutdown, StopSessions,
              SessionsEnded, StopJobs, JobsEnded, RequestsEnded, LoopsEnded, StopUsageWriter,
              WriterEnded, CloseStore, limiter
<1>6. ASSUME UNCHANGED allVars PROVE UNCHANGED vars
  BY <1>6 DEF allVars, limiter
<1> QED BY <1>1, <1>2, <1>3, <1>4, <1>5, <1>6 DEF ServerNext, CallStep

\* The server uses the limiter as PrepAdmission describes: what is proved of the
\* limiter holds of the limiter in the server.
THEOREM LimiterInServer == ServerSpec => Spec
<1>1. ServerInit => Init
  BY DEF ServerInit
<1> QED BY <1>1, LimiterStep, PTL DEF ServerSpec, Spec

-----------------------------------------------------------------------------
PhaseNames == {"up", "stop"} \cup AfterStop

\* The phases are the ones listed above.
LEMMA PhaseSet == Range(Phases) = PhaseNames
BY DEF Range, Phases, PhaseNames, AfterStop, AfterClose, AfterCancel, AfterCloseAgent, AfterAgent,
       AfterStopSessions, AfterSessions, AfterStopJobs, AfterJobs, AfterRequests, AfterLoops,
       AfterStopWriter, AfterWriter

\* Each wait follows the step after which nothing new can be waited for.
LEMMA PhaseOrder ==
  /\ AfterRequests \subseteq AfterStop /\ AfterSessions \subseteq AfterStopSessions
  /\ AfterJobs \subseteq AfterStopJobs /\ AfterAgent \subseteq AfterCloseAgent
BY DEF AfterStop, AfterClose, AfterCancel, AfterCloseAgent, AfterAgent,
       AfterStopSessions, AfterSessions, AfterStopJobs, AfterJobs, AfterRequests

\* The steps of the limiter leave the server's own state alone; only the calls of
\* active requests move, and nothing is granted to a request that is over.
LEMMA CallKeeps ==
  ASSUME IInv, IInv', SInv, CallStep
  PROVE  SInv'
<1>1. PICK c \in Callers : /\ Active(c) /\ UNCHANGED serverVars
                           /\ Proceed(c) \/ GiveUp(c) \/ Release(c) \/ CancelContext(c)
  BY DEF CallStep, Interrupt, LoseClient, Prepare, QueueTimer, GiveLeaseBack, Handling
<1>2. /\ UNCHANGED <<phase, http, stopped, cancelled, sessions, sessionsStopped, jobsStopped,
                     agentClosed, refreshes, worker, turn, loops, records, writerClosed, writerGone,
                     storageSafe, storeOpen>>
      /\ closed' = closed
  <2>1. closed' = closed
    BY <1>1 DEF Proceed, Critical, Begin, RefuseClosed, Reject, AdmitNow, Enqueue, Wake, Recheck,
                Abandon, GiveBack, GiveUp, Release, CancelContext
  <2> QED BY <1>1, <2>1 DEF serverVars, requestVars, sessionVars, workers, usage, clocks, store
<1>3. \A d \in Callers : d # c => pc'[d] = pc[d]
  BY <1>1, OtherCalls
<1>4. [Next]_vars
  BY <1>1 DEF Next
<1>5. \A d \in Callers : pc[d] = "returned" /\ lease[d] # "live" => lease'[d] # "live"
  BY <1>4, ReturnedGetsNothing
<1>6. RequestState'
  BY <1>1, <1>2, <1>3, <1>5 DEF SInv, RequestState, Active
<1>7. ServerTypeOK'
  BY <1>2 DEF SInv, ServerTypeOK, Active
<1>8. Progress'
  BY <1>2 DEF SInv, Progress, Active
<1>9. Endings'
  BY <1>2 DEF SInv, Endings
<1> QED BY <1>6, <1>7, <1>8, <1>9 DEF SInv

\* Requests that arrive, start something, or end.
LEMMA RequestKeeps ==
  ASSUME IInv, SInv, NEW c \in Callers,
         Enter(c) \/ BeginSession(c) \/ EndSession(c) \/ StartWorker(c) \/ StartRefresh(c)
           \/ StartTurn(c) \/ Complete(c) \/ WriteRecord(c)
  PROVE  SInv'
<1> USE DEF limiter, requestVars, sessionVars, workers, usage, clocks, store, vars
<1>1. CASE Enter(c)
  <2>1. ServerTypeOK' BY <1>1 DEF Enter, SInv, ServerTypeOK, Active
  <2>2. Progress' BY <1>1, PhaseOrder DEF Enter, SInv, Progress, Active, Admits
  <2>3. RequestState' /\ Endings' BY <1>1 DEF Enter, SInv, RequestState, Endings, ServerTypeOK
  <2> QED BY <2>1, <2>2, <2>3 DEF SInv
<1>2. CASE BeginSession(c)
  <2>1. ServerTypeOK' BY <1>2 DEF BeginSession, SInv, ServerTypeOK, Active, Served, Handling
  <2>2. Progress' BY <1>2, PhaseOrder DEF BeginSession, SInv, Progress, Active
  <2>3. RequestState' /\ Endings' BY <1>2 DEF BeginSession, SInv, RequestState, Endings
  <2> QED BY <2>1, <2>2, <2>3 DEF SInv
<1>3. CASE EndSession(c)
  <2>1. ServerTypeOK' BY <1>3 DEF EndSession, SInv, ServerTypeOK, Active
  <2>2. Progress' BY <1>3 DEF EndSession, SInv, Progress, Active
  <2>3. RequestState' /\ Endings' BY <1>3 DEF EndSession, SInv, RequestState, Endings, ServerTypeOK
  <2> QED BY <2>1, <2>2, <2>3 DEF SInv
<1>4. CASE StartWorker(c)
  <2>1. ServerTypeOK' BY <1>4 DEF StartWorker, SInv, ServerTypeOK, Active
  <2>2. Progress' BY <1>4, PhaseOrder DEF StartWorker, SInv, Progress, Active
  <2>3. RequestState' /\ Endings' BY <1>4 DEF StartWorker, SInv, RequestState, Endings
  <2> QED BY <2>1, <2>2, <2>3 DEF SInv
<1>5. CASE StartRefresh(c)
  <2>1. Cardinality(refreshes') <= 1
    <3>1. refreshes' = {c} /\ Cardinality({c}) = 1
      BY <1>5, FS_Singleton DEF StartRefresh
    <3> QED BY <3>1
  <2>2. ServerTypeOK' BY <1>5, <2>1 DEF StartRefresh, SInv, ServerTypeOK, Active
  <2>3. Progress' BY <1>5 DEF StartRefresh, SInv, Progress, Active, Served, Handling
  <2>4. RequestState' /\ Endings' BY <1>5 DEF StartRefresh, SInv, RequestState, Endings
  <2> QED BY <2>2, <2>3, <2>4 DEF SInv
<1>6. CASE StartTurn(c)
  <2>1. ServerTypeOK' BY <1>6 DEF StartTurn, SInv, ServerTypeOK, Active
  <2>2. Progress' BY <1>6, PhaseOrder DEF StartTurn, SInv, Progress, Active
  <2>3. RequestState' /\ Endings' BY <1>6 DEF StartTurn, SInv, RequestState, Endings
  <2> QED BY <2>1, <2>2, <2>3 DEF SInv
<1>7. CASE Complete(c)
  <2>1. ServerTypeOK' BY <1>7 DEF Complete, SInv, ServerTypeOK, Active
  <2>2. Progress' BY <1>7 DEF Complete, SInv, Progress, Active, ServerTypeOK
  <2>3. RequestState' BY <1>7 DEF Complete, SInv, RequestState, ServerTypeOK, Handling
  <2>4. Endings' BY <1>7 DEF Complete, SInv, Endings, ServerTypeOK
  <2> QED BY <2>1, <2>2, <2>3, <2>4 DEF SInv
<1>8. CASE WriteRecord(c)
  <2>1. ServerTypeOK' BY <1>8 DEF WriteRecord, SInv, ServerTypeOK, Active
  <2>2. Progress' BY <1>8 DEF WriteRecord, SInv, Progress, Active
  <2>3. RequestState' /\ Endings' BY <1>8 DEF WriteRecord, SInv, RequestState, Endings, ServerTypeOK
  <2> QED BY <2>1, <2>2, <2>3 DEF SInv
<1> QED BY <1>1, <1>2, <1>3, <1>4, <1>5, <1>6, <1>7, <1>8

\* What runs beside the requests ends, and deadlines pass.
LEMMA BesideKeeps ==
  ASSUME SInv, EndRefresh \/ EndTurn \/ EndWorker \/ EndLoops \/ WriterEnds \/ Deadline
                 \/ FlushDeadline
  PROVE  SInv'
<1> USE DEF limiter, requestVars, sessionVars, workers, usage, clocks, store, vars,
            EndRefresh, EndTurn, EndWorker, EndLoops, WriterEnds, Deadline, FlushDeadline
<1>1. ServerTypeOK'
  <2>1. Cardinality(refreshes') <= 1
    BY FS_EmptySet DEF SInv, ServerTypeOK
  <2> QED BY <2>1 DEF SInv, ServerTypeOK, Active
<1>2. Progress'
  BY DEF SInv, Progress, Active, ServerTypeOK
<1>3. RequestState' /\ Endings'
  BY DEF SInv, RequestState, Endings
<1> QED BY <1>1, <1>2, <1>3 DEF SInv

\* The steps of doShutdown: each comes after the ones whose work it relies on.
LEMMA ShutdownKeeps ==
  ASSUME SInv, RequestShutdown \/ ShutdownStep
  PROVE  SInv'
<1> USE DEF limiter, requestVars, sessionVars, workers, usage, clocks, store, vars, At, Then
<1> DEFINE Order == /\ AfterStop = {"close"} \cup AfterClose
                    /\ AfterClose = {"cancel"} \cup AfterCancel
                    /\ AfterCancel = {"closeAgent"} \cup AfterCloseAgent
                    /\ AfterCloseAgent = {"agent"} \cup AfterAgent
                    /\ AfterAgent = {"stopSessions"} \cup AfterStopSessions
                    /\ AfterStopSessions = {"sessions"} \cup AfterSessions
                    /\ AfterSessions = {"stopJobs"} \cup AfterStopJobs
                    /\ AfterStopJobs = {"jobs"} \cup AfterJobs
                    /\ AfterJobs = {"requests"} \cup AfterRequests
                    /\ AfterRequests = {"loops"} \cup AfterLoops
                    /\ AfterLoops = {"stopWriter"} \cup AfterStopWriter
                    /\ AfterStopWriter = {"writer"} \cup AfterWriter
                    /\ AfterWriter = {"store", "done"}
<1>1. Order
  BY DEF AfterStop, AfterClose, AfterCancel, AfterCloseAgent, AfterAgent, AfterStopSessions,
         AfterSessions, AfterStopJobs, AfterJobs, AfterRequests, AfterLoops, AfterStopWriter,
         AfterWriter
<1>2. phase \in PhaseNames /\ phase' \in PhaseNames
  <2>1. phase \in PhaseNames
    BY PhaseSet DEF SInv, ServerTypeOK
  <2> QED BY <1>1, <2>1 DEF PhaseNames, RequestShutdown, ShutdownStep, StopRequests, CloseLimiter,
             CancelLifecycle, CloseAgent, AgentShutdown, StopSessions, SessionsEnded, StopJobs,
             JobsEnded, RequestsEnded, LoopsEnded, StopUsageWriter, WriterEnded, CloseStore
<1>3. ServerTypeOK'
  <2>1. UNCHANGED <<http, records, sessions, refreshes, worker, turn, loops>>
    BY DEF RequestShutdown, ShutdownStep, StopRequests, CloseLimiter,
           CancelLifecycle, CloseAgent, AgentShutdown, StopSessions, SessionsEnded, StopJobs,
           JobsEnded, RequestsEnded, LoopsEnded, StopUsageWriter, WriterEnded, CloseStore
  <2> QED BY <1>2, <2>1, PhaseSet DEF SInv, ServerTypeOK, Active
<1>4. RequestState'
  <2>1. UNCHANGED <<http, pc, lease>>
    BY DEF RequestShutdown, ShutdownStep, StopRequests, CloseLimiter, Close,
           CancelLifecycle, CloseAgent, AgentShutdown, StopSessions, SessionsEnded, StopJobs,
           JobsEnded, RequestsEnded, LoopsEnded, StopUsageWriter, WriterEnded, CloseStore
  <2> QED BY <2>1 DEF SInv, RequestState
<1>5. Endings'
  <2>1. UNCHANGED <<writerGone, records>> /\ (writerClosed => writerClosed')
    BY DEF RequestShutdown, ShutdownStep, StopRequests, CloseLimiter,
           CancelLifecycle, CloseAgent, AgentShutdown, StopSessions, SessionsEnded, StopJobs,
           JobsEnded, RequestsEnded, LoopsEnded, StopUsageWriter, WriterEnded, CloseStore
  <2>2. CASE CloseStore
    <3>1. phase' = "done" /\ storageSafe' = storageSafe /\ storeOpen' = ~storageSafe
      BY <2>2 DEF CloseStore
    <3>2. ~storeOpen' => storageSafe'
      BY ONLY <3>1, Zenon
    <3> QED BY <2>1, <3>1, <3>2 DEF SInv, Endings
  <2>3. CASE ~CloseStore
    <3>1. phase # "done" /\ storeOpen' = storeOpen
      BY <2>3 DEF RequestShutdown, ShutdownStep, StopRequests, CloseLimiter,
           CancelLifecycle, CloseAgent, AgentShutdown, StopSessions, SessionsEnded, StopJobs,
           JobsEnded, RequestsEnded, LoopsEnded, StopUsageWriter, WriterEnded
    <3> QED BY <2>1, <3>1 DEF SInv, Endings
  <2> QED BY <2>2, <2>3
<1>6. Progress'
  <2>1. CASE RequestShutdown \/ StopRequests \/ CancelLifecycle \/ CloseAgent
    BY <1>1, <2>1 DEF SInv, Progress, Active, RequestShutdown, StopRequests, CancelLifecycle, CloseAgent
  <2>2. CASE CloseLimiter
    BY <1>1, <2>2 DEF SInv, Progress, Active, CloseLimiter, Close
  <2>3. CASE AgentShutdown
    BY <1>1, <2>3 DEF SInv, Progress, Active, AgentShutdown, WaitUntilLate
  <2>4. CASE StopSessions \/ SessionsEnded \/ StopJobs \/ JobsEnded
    BY <1>1, <2>4 DEF SInv, Progress, Active, StopSessions, SessionsEnded, StopJobs, JobsEnded
  <2>5. CASE RequestsEnded
    BY <1>1, <2>5 DEF SInv, Progress, Active, RequestsEnded, WaitUntilLate
  <2>6. CASE LoopsEnded \/ StopUsageWriter \/ WriterEnded \/ CloseStore
    BY <1>1, <2>6 DEF SInv, Progress, Active, LoopsEnded, StopUsageWriter, WriterEnded, CloseStore
  <2> QED BY <2>1, <2>2, <2>3, <2>4, <2>5, <2>6 DEF ShutdownStep
<1> QED BY <1>3, <1>4, <1>5, <1>6 DEF SInv

-----------------------------------------------------------------------------
\* The server starts with nothing under way.
LEMMA InitSInv == ServerInit => SInv
<1> SUFFICES ASSUME ServerInit PROVE SInv
  OBVIOUS
<1>1. ServerTypeOK
  <2>1. Cardinality(refreshes) <= 1
    BY FS_EmptySet DEF ServerInit
  <2>2. phase \in Range(Phases)
    BY PhaseSet DEF ServerInit, PhaseNames
  <2> QED BY <2>1, <2>2 DEF ServerInit, ServerTypeOK
<1>2. Progress
  BY DEF ServerInit, Progress, AfterStop, AfterClose, AfterCancel, AfterCloseAgent, AfterAgent,
         AfterStopSessions, AfterSessions, AfterStopJobs, AfterJobs, AfterRequests, AfterLoops,
         AfterStopWriter, AfterWriter
<1>3. RequestState /\ Endings
  BY DEF ServerInit, Init, RequestState, Endings
<1> QED BY <1>1, <1>2, <1>3 DEF SInv

\* What the shutdown has behind it stays behind it, whatever requests, sessions,
\* jobs, turns and deadlines do meanwhile.
THEOREM ServerInvariance == ServerSpec => []SInv
<1>1. IInv /\ IInv' /\ SInv /\ [ServerNext]_allVars => SInv'
  <2> SUFFICES ASSUME IInv, IInv', SInv, [ServerNext]_allVars PROVE SInv'
    OBVIOUS
  <2>1. CASE UNCHANGED allVars
    BY <2>1 DEF allVars, limiter, vars, serverVars, requestVars, sessionVars, workers, usage, clocks,
                store, SInv, ServerTypeOK, Progress, RequestState, Endings, Active
  <2>2. CASE CallStep
    BY <2>2, CallKeeps
  <2>3. ASSUME NEW c \in Callers,
               Enter(c) \/ BeginSession(c) \/ EndSession(c) \/ StartWorker(c) \/ StartRefresh(c)
                 \/ StartTurn(c) \/ Complete(c) \/ WriteRecord(c)
        PROVE  SInv'
    BY <2>3, RequestKeeps
  <2>4. CASE EndRefresh \/ EndTurn \/ EndWorker \/ EndLoops \/ WriterEnds \/ Deadline \/ FlushDeadline
    BY <2>4, BesideKeeps
  <2>5. CASE RequestShutdown \/ ShutdownStep
    BY <2>5, ShutdownKeeps
  <2> QED BY <2>1, <2>2, <2>3, <2>4, <2>5 DEF ServerNext, CallStep
<1> QED BY <1>1, InitSInv, LimiterInServer, Invariance, PTL DEF ServerSpec

\* The store is closed only when nothing that uses it is left.
THEOREM StoreIsLast == ServerSpec => []StoreOutlivesWork
<1>1. IInv /\ SInv => StoreOutlivesWork
  <2> SUFFICES ASSUME IInv, SInv, ~storeOpen
               PROVE  /\ \A c \in Callers : ~Active(c) /\ lease[c] # "live" /\ records[c] # "queued"
                      /\ sessions = {} /\ refreshes = {} /\ writerGone
                      /\ "running" \notin {worker, turn, loops}
    BY DEF SInv, StoreOutlivesWork
  <2>1. phase = "done" /\ storageSafe
    BY DEF SInv, Endings
  <2>2. /\ \A c \in Callers : ~Active(c)
        /\ sessions = {} /\ refreshes = {} /\ writerGone
        /\ worker # "running" /\ turn # "running" /\ loops = "ended"
    BY <2>1 DEF SInv, Progress, AfterAgent, AfterStopSessions, AfterSessions, AfterStopJobs, AfterJobs,
                AfterRequests, AfterLoops, AfterStopWriter, AfterWriter
  <2>3. ASSUME NEW c \in Callers PROVE lease[c] # "live"
    <3>1. http[c] = "over" \/ pc[c] = "start"
      BY <2>2 DEF SInv, ServerTypeOK, RequestState, Active
    <3>2. pc[c] = "start" => lease[c] = "none"
      BY DEF IInv, WaiterState, Answered
    <3> QED BY <3>1, <3>2 DEF SInv, RequestState
  <2> QED BY <2>2, <2>3 DEF SInv, Endings
<1> QED BY <1>1, ServerInvariance, LimiterInServer, Invariance, PTL
=============================================================================
