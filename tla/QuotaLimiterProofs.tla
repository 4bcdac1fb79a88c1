------------------------- MODULE QuotaLimiterProofs -------------------------
(***************************************************************************)
(* Proofs about QuotaLimiter, for any calls, groups, estimates and limits: *)
(* the counters of every group in use are exact and the limits hold.       *)
(***************************************************************************)
EXTENDS QuotaLimiter, FiniteSetTheorems, FunctionTheorems, TLAPS

(***************************************************************************)
(* The arithmetic of Weight: what a finite set weighs is a natural number, *)
(* and adding or removing members changes it by what they weigh.           *)
(***************************************************************************)

\* A finite set carries finitely many units.
LEMMA UnitsFinite ==
  ASSUME NEW S, IsFiniteSet(S), NEW weight, \A x \in S : weight[x] \in Nat
  PROVE  IsFiniteSet(Units(S, weight))
<1> DEFINE f == [x \in S |-> {x} \X (1..weight[x])]
           T == {{x} \X (1..weight[x]) : x \in S}
<1>1. f \in Surjection(S, T)
  BY Fun_IsSurj
<1>2. IsFiniteSet(T)
  BY <1>1, FS_Surjection
<1>3. ASSUME NEW U \in T PROVE IsFiniteSet(U)
  <2>1. PICK x \in S : U = {x} \X (1..weight[x])
    OBVIOUS
  <2>2. IsFiniteSet({x})
    BY FS_Singleton
  <2>3. weight[x] \in Int /\ 1 \in Int
    OBVIOUS
  <2>4. IsFiniteSet(1..weight[x])
    BY ONLY <2>3, FS_Interval
  <2> QED BY <2>1, <2>2, <2>4, FS_Product
<1>4. IsFiniteSet(UNION T)
  BY <1>2, <1>3, FS_UNION
<1> QED BY <1>4 DEF Units

\* The total weight of a finite set is a natural number.
LEMMA WeightType ==
  ASSUME NEW S, IsFiniteSet(S), NEW weight, \A x \in S : weight[x] \in Nat
  PROVE  Weight(S, weight) \in Nat
BY UnitsFinite, FS_CardinalityType DEF Weight

\* Nothing weighs nothing.
LEMMA WeightEmpty == ASSUME NEW weight PROVE Weight({}, weight) = 0
<1>1. Units({}, weight) = {}
  BY DEF Units
<1> QED BY <1>1, FS_EmptySet DEF Weight

\* One member weighs what its weight says.
LEMMA WeightSingleton ==
  ASSUME NEW x, NEW weight, weight[x] \in Nat
  PROVE  Weight({x}, weight) = weight[x]
<1>1. Units({x}, weight) = {x} \X (1..weight[x])
  BY DEF Units
<1>2. IsFiniteSet({x}) /\ Cardinality({x}) = 1
  BY FS_Singleton
<1> DEFINE w == weight[x]
<1>3. IsFiniteSet(1..w) /\ Cardinality(1..w) = w
  <2>1. w \in Nat
    OBVIOUS
  <2> HIDE DEF w
  <2>2. /\ IsFiniteSet(1..w)
        /\ Cardinality(1..w) = IF 1 > w THEN 0 ELSE w - 1 + 1
    BY <2>1, FS_Interval
  <2> QED BY ONLY <2>1, <2>2
<1> HIDE DEF w
<1>4. Cardinality({x} \X (1..w)) = Cardinality({x}) * Cardinality(1..w)
  BY <1>2, <1>3, FS_Product
<1>5. Cardinality({x} \X (1..w)) = 1 * w
  BY ONLY <1>2, <1>3, <1>4
<1>6. w \in Nat
  BY DEF w
<1>7. Cardinality({x} \X (1..w)) = w
  BY ONLY <1>5, <1>6
<1> QED BY <1>1, <1>7 DEF Weight, w

\* The weight of a disjoint union is the sum of the weights.
LEMMA WeightUnion ==
  ASSUME NEW S, IsFiniteSet(S), NEW T, IsFiniteSet(T), S \cap T = {},
         NEW weight, \A x \in S \cup T : weight[x] \in Nat
  PROVE  Weight(S \cup T, weight) = Weight(S, weight) + Weight(T, weight)
<1>1. Units(S \cup T, weight) = Units(S, weight) \cup Units(T, weight)
  BY DEF Units
<1>2. Units(S, weight) \cap Units(T, weight) = {}
  BY DEF Units
<1>3. IsFiniteSet(Units(S, weight)) /\ IsFiniteSet(Units(T, weight))
  BY UnitsFinite
<1> DEFINE m == Cardinality(Units(S, weight))
           n == Cardinality(Units(T, weight))
<1>4. m \in Nat /\ n \in Nat
  BY <1>3, FS_CardinalityType
<1>5. Cardinality(Units(S, weight) \cap Units(T, weight)) = 0
  BY <1>2, FS_EmptySet
<1>6. Cardinality(Units(S, weight) \cup Units(T, weight)) = m + n - 0
  BY <1>3, <1>5, FS_Union
<1>7. Cardinality(Units(S \cup T, weight)) = m + n - 0
  BY <1>1, <1>6
<1>8. m + n - 0 = m + n
  <2> HIDE DEF m, n
  <2> QED BY <1>4
<1> QED BY <1>7, <1>8 DEF Weight

\* Adding a member adds its weight.
LEMMA WeightAdd ==
  ASSUME NEW S, IsFiniteSet(S), NEW x, x \notin S,
         NEW weight, \A y \in S \cup {x} : weight[y] \in Nat
  PROVE  Weight(S \cup {x}, weight) = Weight(S, weight) + weight[x]
<1>1. IsFiniteSet({x}) /\ S \cap {x} = {}
  BY FS_Singleton
<1>2. Weight(S \cup {x}, weight) = Weight(S, weight) + Weight({x}, weight)
  BY <1>1, WeightUnion
<1> QED BY <1>2, WeightSingleton

\* Removing a member removes its weight.
LEMMA WeightRemove ==
  ASSUME NEW S, IsFiniteSet(S), NEW x \in S,
         NEW weight, \A y \in S : weight[y] \in Nat
  PROVE  Weight(S \ {x}, weight) = Weight(S, weight) - weight[x]
<1>1. IsFiniteSet(S \ {x}) /\ x \notin S \ {x} /\ (S \ {x}) \cup {x} = S
  BY FS_RemoveElement
<1>2. Weight(S, weight) = Weight(S \ {x}, weight) + weight[x]
  BY <1>1, WeightAdd
<1>3. Weight(S \ {x}, weight) \in Nat
  BY <1>1, WeightType
<1> QED BY <1>2, <1>3

\* What the counters of a group's object say, and that they keep the limits.
Right(g, q) ==
  /\ q.active = Cardinality(Holding(q.obj))
  /\ q.tokens = Weight(HoldingOn(q.obj, q.date), Reserve) + Weight(ChargedOn(q.obj, q.date), Charge)
  /\ MaxConcurrency[g] > 0 => q.active <= MaxConcurrency[g]
  /\ DailyRequests[g] > 0 => q.requests <= DailyRequests[g]
  /\ DailyTokens[g] > 0 => Weight(HoldingOn(q.obj, q.date), Reserve) <= DailyTokens[g]

CountersRight == \A g \in Groups : quota[g].obj # 0 => Right(g, quota[g])

\* An object belongs to one group, that of the calls which hold it, and no call
\* knows an object that does not exist yet.
Identities ==
  /\ \A g, h \in Groups : quota[g].obj # 0 /\ quota[g].obj = quota[h].obj => g = h
  /\ \A c \in Calls : pc[c] = "held" => heldObj[c] \in 1..made
  /\ \A c \in Calls, g \in Groups : pc[c] = "held" /\ quota[g].obj = heldObj[c] => g = Group[c]
  /\ \A c \in Calls : chargedTo[c][1] <= made

\* Nothing was reserved or charged on an object after the day it is dated.
NothingFromTomorrow ==
  \A c \in Calls, g \in Groups :
    quota[g].obj # 0 =>
      /\ pc[c] = "held" /\ heldObj[c] = quota[g].obj => heldOn[c] <= quota[g].date
      /\ chargedTo[c][1] = quota[g].obj => chargedTo[c][2] <= quota[g].date

IInv == TypeOK /\ CountersRight /\ Identities /\ NothingFromTomorrow
-----------------------------------------------------------------------------
Quotas == [obj : Nat, date : Nat, requests : Nat, tokens : Int, active : Nat]

\* What a call reserves and is charged are natural numbers.
LEMMA Amounts == Reserve \in [Calls -> Nat] /\ Charge \in [Calls -> Nat]
BY QuotaAssumption DEF Reserve, Charge

\* The sets of calls that the counters are compared with are finite.
LEMMA CallSets ==
  ASSUME NEW n, NEW d
  PROVE  /\ IsFiniteSet(Holding(n)) /\ IsFiniteSet(HoldingOn(n, d)) /\ IsFiniteSet(ChargedOn(n, d))
         /\ Holding(n) \subseteq Calls /\ HoldingOn(n, d) \subseteq Calls
         /\ ChargedOn(n, d) \subseteq Calls
<1>1. /\ Holding(n) \subseteq Calls /\ HoldingOn(n, d) \subseteq Calls
      /\ ChargedOn(n, d) \subseteq Calls
  BY DEF Holding, HoldingOn, ChargedOn
<1> QED BY <1>1, QuotaAssumption, FS_Subset

\* Their sizes and weights are natural numbers.
LEMMA CallTotals ==
  ASSUME NEW n, NEW d
  PROVE  /\ Cardinality(Holding(n)) \in Nat
         /\ Weight(HoldingOn(n, d), Reserve) \in Nat
         /\ Weight(ChargedOn(n, d), Charge) \in Nat
<1>1. /\ \A c \in HoldingOn(n, d) : Reserve[c] \in Nat
      /\ \A c \in ChargedOn(n, d) : Charge[c] \in Nat
  BY Amounts, CallSets
<1> QED BY <1>1, CallSets, WeightType, FS_CardinalityType

\* The updates that the operations make of a group's counters.
LEMMA QuotaRolled ==
  ASSUME NEW q \in Quotas, NEW day \in Nat
  PROVE  [q EXCEPT !.date = day, !.requests = 0, !.tokens = 0] \in Quotas
<1>1. PICK n \in Int : n = 0
  OBVIOUS
<1>2. [q EXCEPT !.date = day, !.requests = 0, !.tokens = n] \in Quotas
  BY DEF Quotas
<1> QED BY <1>1, <1>2, Zenon

\* Limiter.state keeps the identity of an object in use and dates it today.
LEMMA CurrentFields ==
  ASSUME IInv, NEW g \in Groups
  PROVE  /\ Current(g) \in Quotas
         /\ Current(g).date = today
         /\ Current(g).obj = IF quota[g].obj = 0 THEN made + 1 ELSE quota[g].obj
         /\ Current(g).active = IF quota[g].obj = 0 THEN 0 ELSE quota[g].active
         /\ IF quota[g].obj # 0 /\ quota[g].date = today
              THEN Current(g).requests = quota[g].requests /\ Current(g).tokens = quota[g].tokens
              ELSE Current(g).requests = 0 /\ Current(g).tokens = 0
<1>1. quota[g] \in Quotas /\ made \in Nat /\ today \in Nat \ {0}
  BY DEF IInv, TypeOK, Quotas
<1> DEFINE new == [obj |-> made + 1, date |-> 0, requests |-> 0, tokens |-> 0, active |-> 0]
           q == IF quota[g].obj = 0 THEN new ELSE quota[g]
<1>2. new = [Nil EXCEPT !.obj = made + 1]
  BY DEF Nil
<1>3. q \in Quotas /\ new.date # today
  BY <1>1 DEF Quotas
<1>4. Current(g) = IF q.date = today THEN q
                   ELSE [q EXCEPT !.date = today, !.requests = 0, !.tokens = 0]
  BY <1>2 DEF Current
<1>5. /\ q.obj = IF quota[g].obj = 0 THEN made + 1 ELSE quota[g].obj
      /\ q.active = IF quota[g].obj = 0 THEN 0 ELSE quota[g].active
      /\ quota[g].obj # 0 => q = quota[g]
      /\ quota[g].obj = 0 => q.date # today
  BY <1>3
<1> HIDE DEF q, new
<1>6. CASE q.date = today
  BY <1>1, <1>3, <1>4, <1>5, <1>6
<1>7. CASE q.date # today
  <2>1. Current(g) = [q EXCEPT !.date = today, !.requests = 0, !.tokens = 0]
    BY <1>4, <1>7
  <2>2. Current(g) \in Quotas
    BY <1>1, <1>3, <2>1, QuotaRolled
  <2>3. /\ Current(g).date = today /\ Current(g).obj = q.obj /\ Current(g).active = q.active
        /\ Current(g).requests = 0 /\ Current(g).tokens = 0
    BY <2>1, <1>3 DEF Quotas
  <2>4. ~(quota[g].obj # 0 /\ quota[g].date = today)
    BY <1>5, <1>7
  <2> QED BY <2>2, <2>3, <2>4, <1>5
<1> QED BY <1>6, <1>7

\* Nobody holds or was charged anything on an object that is not made yet, nor
\* on a day later than that of the object.
LEMMA NobodyYet ==
  ASSUME IInv, NEW g \in Groups
  PROVE  /\ quota[g].obj = 0 => Holding(made + 1) = {} /\ HoldingOn(made + 1, today) = {}
                                /\ ChargedOn(made + 1, today) = {}
         /\ quota[g].obj # 0 /\ quota[g].date # today =>
              HoldingOn(quota[g].obj, today) = {} /\ ChargedOn(quota[g].obj, today) = {}
<1>1. /\ made \in Nat /\ today \in Nat /\ quota[g].date \in Nat /\ quota[g].obj \in Nat
      /\ quota[g].obj # 0 => quota[g].date <= today
      /\ \A c \in Calls : heldObj[c] \in Nat /\ heldOn[c] \in Nat /\ chargedTo[c] \in Nat \X Nat
  BY DEF IInv, TypeOK, Nil
<1>2. Holding(made + 1) = {}
  BY <1>1 DEF IInv, Identities, Holding
<1>3. ChargedOn(made + 1, today) = {}
  BY <1>1 DEF IInv, Identities, ChargedOn
<1>4. ASSUME quota[g].obj # 0, quota[g].date # today
      PROVE  HoldingOn(quota[g].obj, today) = {} /\ ChargedOn(quota[g].obj, today) = {}
  BY <1>1, <1>4 DEF IInv, NothingFromTomorrow, HoldingOn, Holding, ChargedOn
<1> QED BY <1>2, <1>3, <1>4 DEF HoldingOn

\* Rolling the day over leaves the counters right.
LEMMA CurrentRight ==
  ASSUME IInv, NEW g \in Groups
  PROVE  Right(g, Current(g))
<1> PICK q \in Quotas : q = Current(g)
  BY CurrentFields
<1>1. /\ MaxConcurrency[g] \in Nat /\ DailyRequests[g] \in Nat /\ DailyTokens[g] \in Nat
  BY QuotaAssumption
<1>2. CASE quota[g].obj = 0
  <2>1. q.obj = made + 1 /\ q.date = today /\ q.active = 0 /\ q.tokens = 0 /\ q.requests = 0
    BY <1>2, CurrentFields
  <2>2. /\ Cardinality(Holding(q.obj)) = 0
        /\ Weight(HoldingOn(q.obj, q.date), Reserve) = 0
        /\ Weight(ChargedOn(q.obj, q.date), Charge) = 0
    BY <1>2, <2>1, NobodyYet, WeightEmpty, FS_EmptySet
  <2> QED BY <1>1, <2>1, <2>2 DEF Right
<1>3. CASE quota[g].obj # 0 /\ quota[g].date = today
  <2>1. Right(g, quota[g])
    BY <1>3 DEF IInv, CountersRight
  <2>2. /\ q.obj = quota[g].obj /\ q.date = quota[g].date /\ q.active = quota[g].active
        /\ q.tokens = quota[g].tokens /\ q.requests = quota[g].requests
    BY <1>3, CurrentFields
  <2> QED BY <2>1, <2>2 DEF Right
<1>4. CASE quota[g].obj # 0 /\ quota[g].date # today
  <2>1. Right(g, quota[g])
    BY <1>4 DEF IInv, CountersRight
  <2>2. /\ q.obj = quota[g].obj /\ q.date = today /\ q.active = quota[g].active
        /\ q.tokens = 0 /\ q.requests = 0
    BY <1>4, CurrentFields
  <2>3. /\ Weight(HoldingOn(q.obj, q.date), Reserve) = 0
        /\ Weight(ChargedOn(q.obj, q.date), Charge) = 0
    BY <1>4, <2>2, NobodyYet, WeightEmpty
  <2> QED BY <1>1, <2>1, <2>2, <2>3 DEF Right
<1> QED BY <1>2, <1>3, <1>4

\* Storing a group's object disturbs no other group: none shares its object.
LEMMA StoreRight ==
  ASSUME IInv, NEW g \in Groups, NEW q \in Quotas, quota' = [quota EXCEPT ![g] = q],
         q.obj = Current(g).obj, Right(g, q)',
         \A n, d : n \notin {0, q.obj} =>
            /\ Holding(n)' = Holding(n) /\ HoldingOn(n, d)' = HoldingOn(n, d)
            /\ ChargedOn(n, d)' = ChargedOn(n, d)
  PROVE  CountersRight'
<1> SUFFICES ASSUME NEW h \in Groups, quota'[h].obj # 0
             PROVE  Right(h, quota[h])'
  BY DEF CountersRight
<1>1. CASE h = g
  <2>1. quota'[h] = q
    BY <1>1 DEF IInv, TypeOK
  <2> QED BY <1>1, <2>1 DEF Right
<1>2. CASE h # g
  <2>1. quota'[h] = quota[h]
    BY <1>2 DEF IInv, TypeOK
  <2>2. quota[h].obj # q.obj
    <3>1. quota[h].obj \in 1..made /\ made \in Nat
      BY <2>1 DEF IInv, TypeOK, Nil
    <3> QED BY <1>2, <3>1, CurrentFields DEF IInv, Identities
  <2>3. Right(h, quota[h])
    BY <2>1 DEF IInv, CountersRight
  <2> PICK r : r = quota[h]
    OBVIOUS
  <2>4. /\ Holding(r.obj)' = Holding(r.obj) /\ HoldingOn(r.obj, r.date)' = HoldingOn(r.obj, r.date)
        /\ ChargedOn(r.obj, r.date)' = ChargedOn(r.obj, r.date)
    <3>1. r.obj \notin {0, q.obj}
      BY <2>1, <2>2
    <3> QED BY <3>1
  <2>5. Right(h, r)'
    BY <2>3, <2>4 DEF Right
  <2> QED BY <2>1, <2>5 DEF Right
<1> QED BY <1>1, <1>2

\* Storing the object that Limiter.state returned keeps the objects of the groups
\* apart, and no object in use changes its group or its date backwards.
LEMMA StoreFrame ==
  ASSUME IInv, NEW g \in Groups, NEW q \in Quotas, Store(g, q),
         q.obj = Current(g).obj, q.date = today
  PROVE  /\ quota' = [quota EXCEPT ![g] = q] /\ quota' \in [Groups -> Quotas]
         /\ made' \in Nat /\ made <= made' /\ q.obj \in 1..made'
         /\ quota'[g] = q
         /\ \A h \in Groups : quota'[h] # Nil => quota'[h].obj \in 1..made' /\ quota'[h].date \in 1..today
         /\ \A h, k \in Groups : quota'[h].obj # 0 /\ quota'[h].obj = quota'[k].obj => h = k
         /\ \A h \in Groups : quota'[h].obj \in 1..made =>
              quota[h].obj = quota'[h].obj /\ quota[h].date <= quota'[h].date
<1>1. /\ quota \in [Groups -> Quotas] /\ made \in Nat /\ today \in Nat \ {0}
      /\ \A h \in Groups : quota[h] # Nil => quota[h].obj \in 1..made /\ quota[h].date \in 1..today
      /\ \A h, k \in Groups : quota[h].obj # 0 /\ quota[h].obj = quota[k].obj => h = k
  BY DEF IInv, TypeOK, Quotas, Identities
<1>2. /\ quota' = [quota EXCEPT ![g] = q] /\ quota' \in [Groups -> Quotas]
      /\ made' = IF quota[g].obj = 0 THEN made + 1 ELSE made
      /\ quota'[g] = q /\ \A h \in Groups : h # g => quota'[h] = quota[h]
  BY <1>1 DEF Store
<1>3. q.obj = IF quota[g].obj = 0 THEN made + 1 ELSE quota[g].obj
  BY CurrentFields
<1>4. \A h \in Groups : quota[h].obj # 0 => quota[h].obj \in 1..made /\ quota[h].date \in 1..today
  BY <1>1 DEF Nil
<1>5. \A h \in Groups : quota[h].obj \in Nat /\ quota[h].date \in Nat
  BY <1>1 DEF Quotas
<1>6. q.obj \in 1..made' /\ made' \in Nat /\ made <= made'
  BY <1>1, <1>2, <1>3, <1>4, <1>5
<1>7. \A h \in Groups : quota'[h] # Nil => quota'[h].obj \in 1..made' /\ quota'[h].date \in 1..today
  BY <1>1, <1>2, <1>6
<1>8. \A h, k \in Groups : quota'[h].obj # 0 /\ quota'[h].obj = quota'[k].obj => h = k
  BY <1>1, <1>2, <1>3, <1>4, <1>5
<1>9. \A h \in Groups : quota'[h].obj \in 1..made =>
        quota[h].obj = quota'[h].obj /\ quota[h].date <= quota'[h].date
  BY <1>1, <1>2, <1>3, <1>4, <1>5
<1> QED BY <1>2, <1>6, <1>7, <1>8, <1>9

\* What is known of the calls survives a step in which a call of the group starts
\* to hold, or is charged on, the object that the step stores.
LEMMA CallsFrame ==
  ASSUME IInv, NEW g \in Groups, NEW q \in Quotas, Store(g, q),
         q.obj = Current(g).obj, q.date = today,
         \A d \in Calls : pc'[d] = "held" =>
            \/ pc[d] = "held" /\ heldObj'[d] = heldObj[d] /\ heldOn'[d] = heldOn[d]
            \/ Group[d] = g /\ heldObj'[d] = q.obj /\ heldOn'[d] = today,
         \A d \in Calls : chargedTo'[d] = chargedTo[d] \/ chargedTo'[d] = <<q.obj, today>>
  PROVE  Identities' /\ NothingFromTomorrow'
<1>1. /\ made' \in Nat /\ made \in Nat /\ made <= made' /\ q.obj \in 1..made' /\ quota'[g] = q
      /\ \A h, k \in Groups : quota'[h].obj # 0 /\ quota'[h].obj = quota'[k].obj => h = k
      /\ \A h \in Groups : quota'[h].obj \in 1..made =>
              quota[h].obj = quota'[h].obj /\ quota[h].date <= quota'[h].date
      /\ quota' \in [Groups -> Quotas]
  BY StoreFrame DEF IInv, TypeOK
<1>2. /\ \A d \in Calls : heldObj[d] \in Nat /\ heldOn[d] \in Nat /\ chargedTo[d] \in Nat \X Nat
      /\ \A d \in Calls : chargedTo[d][1] \in Nat /\ chargedTo[d][2] \in Nat
      /\ \A h \in Groups : quota[h].obj \in Nat /\ quota[h].date \in Nat
                           /\ quota'[h].obj \in Nat /\ quota'[h].date \in Nat
      /\ today \in Nat
  BY <1>1 DEF IInv, TypeOK, Quotas
<1>3. Identities'
  <2>1. ASSUME NEW d \in Calls, pc'[d] = "held"
        PROVE  /\ heldObj'[d] \in 1..made'
               /\ \A h \in Groups : quota'[h].obj = heldObj'[d] => h = Group[d]
    <3>1. CASE pc[d] = "held" /\ heldObj'[d] = heldObj[d]
      <4>1. heldObj'[d] \in 1..made /\ heldObj'[d] \in 1..made'
        BY <1>1, <1>2, <3>1 DEF IInv, Identities
      <4> QED BY <1>1, <1>2, <3>1, <4>1 DEF IInv, Identities
    <3>2. CASE Group[d] = g /\ heldObj'[d] = q.obj
      BY <1>1, <1>2, <3>2
    <3> QED BY <2>1, <3>1, <3>2
  <2>2. \A d \in Calls : chargedTo'[d][1] <= made'
    BY <1>1, <1>2 DEF IInv, Identities
  <2> QED BY <1>1, <2>1, <2>2 DEF Identities
<1>4. NothingFromTomorrow'
  <2> SUFFICES ASSUME NEW d \in Calls, NEW h \in Groups, quota'[h].obj # 0
               PROVE  /\ pc'[d] = "held" /\ heldObj'[d] = quota'[h].obj => heldOn'[d] <= quota'[h].date
                      /\ chargedTo'[d][1] = quota'[h].obj => chargedTo'[d][2] <= quota'[h].date
    BY DEF NothingFromTomorrow
  <2>1. ASSUME pc'[d] = "held", heldObj'[d] = quota'[h].obj PROVE heldOn'[d] <= quota'[h].date
    <3>1. CASE pc[d] = "held" /\ heldObj'[d] = heldObj[d] /\ heldOn'[d] = heldOn[d]
      <4>1. quota'[h].obj \in 1..made
        BY <2>1, <3>1 DEF IInv, Identities
      <4>2. heldOn[d] <= quota[h].date
        BY <1>1, <2>1, <3>1, <4>1 DEF IInv, NothingFromTomorrow
      <4> QED BY <1>1, <1>2, <3>1, <4>1, <4>2
    <3>2. CASE heldObj'[d] = q.obj /\ heldOn'[d] = today
      <4>1. h = g
        BY <1>1, <1>2, <2>1, <3>2
      <4> QED BY <1>1, <1>2, <3>2, <4>1
    <3> QED BY <2>1, <3>1, <3>2
  <2>2. ASSUME chargedTo'[d][1] = quota'[h].obj PROVE chargedTo'[d][2] <= quota'[h].date
    <3>1. CASE chargedTo'[d] = <<q.obj, today>>
      BY <1>1, <1>2, <2>2, <3>1
    <3>2. CASE chargedTo'[d] = chargedTo[d]
      <4>1. quota'[h].obj \in 1..made
        BY <1>1, <1>2, <2>2, <3>2 DEF IInv, Identities
      <4>2. chargedTo[d][2] <= quota[h].date
        BY <1>1, <2>2, <3>2, <4>1 DEF IInv, NothingFromTomorrow
      <4> QED BY <1>1, <1>2, <3>2, <4>1, <4>2
    <3> QED BY <3>1, <3>2
  <2> QED BY <2>1, <2>2
<1> QED BY <1>3, <1>4

\* Reserving: one more holder of the group's object, today.
LEMMA AcquireKeeps ==
  ASSUME IInv, NEW c \in Calls, Acquire(c)
  PROVE  IInv'
<1> PICK g \in Groups : g = Group[c]
  BY QuotaAssumption
<1> PICK p \in Quotas : p = Current(g)
  BY CurrentFields
<1>1. p.date = today /\ Right(g, p)
  BY CurrentFields, CurrentRight
<1>2. /\ p.active \in Nat /\ p.requests \in Nat /\ p.tokens \in Int /\ p.obj \in Nat /\ today \in Nat
      /\ Reserve[c] \in Nat /\ MaxConcurrency[g] \in Nat /\ DailyRequests[g] \in Nat
      /\ DailyTokens[g] \in Nat /\ Estimate[c] \in Int
      /\ Reserve[c] = IF Estimate[c] > 0 THEN Estimate[c] ELSE 0
  BY Amounts, QuotaAssumption DEF IInv, TypeOK, Quotas, Reserve
<1> PICK a \in Nat, r \in Nat, n \in Int :
      a = p.active + 1 /\ r = p.requests + 1 /\ n = p.tokens + Reserve[c]
  BY <1>2
<1> PICK q : q = [p EXCEPT !.active = a, !.requests = r, !.tokens = n]
  OBVIOUS
<1>3. /\ q \in Quotas /\ q.obj = p.obj /\ q.date = today
      /\ q.active = p.active + 1 /\ q.requests = p.requests + 1 /\ q.tokens = p.tokens + Reserve[c]
  BY <1>1 DEF Quotas
<1>4. /\ Store(g, q) /\ pc[c] = "open" /\ pc' = [pc EXCEPT ![c] = "held"]
      /\ heldObj' = [heldObj EXCEPT ![c] = p.obj] /\ heldOn' = [heldOn EXCEPT ![c] = today]
      /\ today' = today /\ startedOn' = startedOn /\ chargedTo' = chargedTo
      /\ Admits(g, p, Estimate[c])
  <2>1. q = [p EXCEPT !.active = @ + 1, !.requests = @ + 1, !.tokens = @ + Reserve[c]]
    OBVIOUS
  <2> QED BY <1>1, <2>1 DEF Acquire
<1>5. TypeOK'
  BY <1>2, <1>3, <1>4, StoreFrame DEF IInv, TypeOK, Quotas
<1>6. Identities' /\ NothingFromTomorrow'
  <2>1. \A d \in Calls : pc'[d] = "held" =>
            \/ pc[d] = "held" /\ heldObj'[d] = heldObj[d] /\ heldOn'[d] = heldOn[d]
            \/ Group[d] = g /\ heldObj'[d] = q.obj /\ heldOn'[d] = today
    BY <1>3, <1>4 DEF IInv, TypeOK
  <2>2. IInv /\ g \in Groups /\ q \in Quotas /\ Store(g, q)
        /\ q.obj = Current(g).obj /\ q.date = today
    BY <1>3, <1>4
  <2>3. \A d \in Calls : chargedTo'[d] = chargedTo[d] \/ chargedTo'[d] = <<q.obj, today>>
    BY <1>4
  <2> QED BY ONLY <2>1, <2>2, <2>3, CallsFrame
<1>7. CountersRight'
  <2>1. /\ pc \in [Calls -> {"start", "open", "held", "released", "refused"}]
        /\ heldObj \in [Calls -> Nat] /\ heldOn \in [Calls -> Nat]
    BY DEF IInv, TypeOK
  <2>2. /\ Holding(q.obj)' = Holding(q.obj) \cup {c} /\ c \notin Holding(q.obj)
        /\ HoldingOn(q.obj, q.date)' = HoldingOn(q.obj, q.date) \cup {c}
        /\ c \notin HoldingOn(q.obj, q.date)
        /\ ChargedOn(q.obj, q.date)' = ChargedOn(q.obj, q.date)
    BY <1>3, <1>4, <2>1 DEF Holding, HoldingOn, ChargedOn
  <2>3. \A m, d : m \notin {0, q.obj} =>
            /\ Holding(m)' = Holding(m) /\ HoldingOn(m, d)' = HoldingOn(m, d)
            /\ ChargedOn(m, d)' = ChargedOn(m, d)
    BY <1>3, <1>4, <2>1 DEF Holding, HoldingOn, ChargedOn
  <2>4. Cardinality(Holding(q.obj)') = Cardinality(Holding(q.obj)) + 1
    BY <2>2, CallSets, FS_AddElement
  <2>5. Weight(HoldingOn(q.obj, q.date)', Reserve)
          = Weight(HoldingOn(q.obj, q.date), Reserve) + Reserve[c]
    <3>1. \A x \in HoldingOn(q.obj, q.date) \cup {c} : Reserve[x] \in Nat
      BY Amounts, CallSets
    <3> QED BY <2>2, <3>1, CallSets, WeightAdd
  <2>6. Right(g, q)'
    <3>1. /\ Cardinality(Holding(q.obj)) \in Nat /\ Weight(HoldingOn(q.obj, q.date), Reserve) \in Nat
          /\ Weight(ChargedOn(q.obj, q.date), Charge) \in Nat
      BY CallTotals
    <3>2. /\ p.active = Cardinality(Holding(q.obj))
          /\ p.tokens = Weight(HoldingOn(q.obj, q.date), Reserve) + Weight(ChargedOn(q.obj, q.date), Charge)
          /\ DailyTokens[g] > 0 => Weight(HoldingOn(q.obj, q.date), Reserve) <= DailyTokens[g]
      BY <1>1, <1>3 DEF Right
    <3>3. q.active = Cardinality(Holding(q.obj)')
      BY <1>3, <2>4, <3>2
    <3>4. q.tokens = Weight(HoldingOn(q.obj, q.date)', Reserve) + Weight(ChargedOn(q.obj, q.date)', Charge)
      BY <1>2, <1>3, <2>2, <2>5, <3>1, <3>2
    <3>5. MaxConcurrency[g] > 0 => q.active <= MaxConcurrency[g]
      BY <1>2, <1>3, <1>4 DEF Admits
    <3>6. DailyRequests[g] > 0 => q.requests <= DailyRequests[g]
      BY <1>2, <1>3, <1>4 DEF Admits
    <3>7. DailyTokens[g] > 0 => Weight(HoldingOn(q.obj, q.date)', Reserve) <= DailyTokens[g]
      BY <1>2, <1>4, <2>5, <3>1, <3>2 DEF Admits
    <3> QED BY <3>3, <3>4, <3>5, <3>6, <3>7 DEF Right
  <2> QED BY <1>3, <1>4, <2>3, <2>6, StoreRight DEF Store
<1> QED BY <1>5, <1>6, <1>7 DEF IInv

\* Rolling the day over, which any question does, keeps the invariant.
LEMMA RollKeeps ==
  ASSUME IInv, NEW g \in Groups, Store(g, Current(g)), today' = today,
         UNCHANGED <<startedOn, heldObj, heldOn, chargedTo>>,
         pc' \in [Calls -> {"start", "open", "held", "released", "refused"}],
         \A d \in Calls : pc'[d] = "held" <=> pc[d] = "held"
  PROVE  IInv'
<1> PICK q \in Quotas : q = Current(g)
  BY CurrentFields
<1>1. q.obj = Current(g).obj /\ q.date = today /\ Store(g, q) /\ Right(g, q)
  BY CurrentFields, CurrentRight
<1>2. TypeOK'
  BY <1>1, StoreFrame DEF IInv, TypeOK, Quotas
<1>3. Identities' /\ NothingFromTomorrow'
  <2>1. /\ \A d \in Calls : pc'[d] = "held" =>
              \/ pc[d] = "held" /\ heldObj'[d] = heldObj[d] /\ heldOn'[d] = heldOn[d]
              \/ Group[d] = g /\ heldObj'[d] = q.obj /\ heldOn'[d] = today
        /\ \A d \in Calls : chargedTo'[d] = chargedTo[d] \/ chargedTo'[d] = <<q.obj, today>>
    OBVIOUS
  <2> QED BY <1>1, <2>1, CallsFrame, Zenon
<1>4. CountersRight'
  <2>1. \A n, d : /\ Holding(n)' = Holding(n) /\ HoldingOn(n, d)' = HoldingOn(n, d)
                  /\ ChargedOn(n, d)' = ChargedOn(n, d)
    BY DEF Holding, HoldingOn, ChargedOn
  <2>2. Right(g, q)'
    BY <1>1, <2>1 DEF Right
  <2> QED BY <1>1, <2>1, <2>2, StoreRight DEF Store
<1> QED BY <1>2, <1>3, <1>4 DEF IInv

\* Settling: the usage is one more charge of the object, on the request's day.
LEMMA AdjustKeeps ==
  ASSUME IInv, NEW c \in Calls, Adjust(c)
  PROVE  IInv'
<1> PICK g \in Groups : g = Group[c]
  BY QuotaAssumption
<1> PICK p \in Quotas : p = Current(g)
  BY CurrentFields
<1>1. p.date = today /\ Right(g, p)
  BY CurrentFields, CurrentRight
<1>2. CASE p.date # startedOn[c]
  <2>1. Store(g, Current(g)) /\ today' = today /\ UNCHANGED <<pc, startedOn, heldObj, heldOn, chargedTo>>
    BY <1>2 DEF Adjust, IInv, TypeOK
  <2> QED BY <2>1, RollKeeps DEF IInv, TypeOK
<1>3. CASE p.date = startedOn[c]
  <2>1. /\ p.tokens \in Int /\ p.obj \in Nat /\ today \in Nat \ {0} /\ Charge[c] \in Nat
    BY Amounts DEF IInv, TypeOK, Quotas
  <2> PICK n \in Int : n = p.tokens + Charge[c]
    BY <2>1
  <2> PICK q : q = [p EXCEPT !.tokens = n]
    OBVIOUS
  <2>2. /\ q \in Quotas /\ q.obj = p.obj /\ q.date = today /\ q.active = p.active
        /\ q.requests = p.requests /\ q.tokens = p.tokens + Charge[c]
    BY <1>1 DEF Quotas
  <2>3. /\ Store(g, q) /\ chargedTo[c] = <<0, 0>> /\ chargedTo' = [chargedTo EXCEPT ![c] = <<p.obj, today>>]
        /\ UNCHANGED <<today, pc, startedOn, heldObj, heldOn>>
    <3>1. q = [p EXCEPT !.tokens = @ + Charge[c]]
      OBVIOUS
    <3> QED BY <1>1, <1>3, <3>1 DEF Adjust, Nowhere
  <2>4. TypeOK'
    BY <2>1, <2>2, <2>3, StoreFrame DEF IInv, TypeOK, Quotas
  <2>5. Identities' /\ NothingFromTomorrow'
    <3>1. \A d \in Calls : pc'[d] = "held" =>
            \/ pc[d] = "held" /\ heldObj'[d] = heldObj[d] /\ heldOn'[d] = heldOn[d]
            \/ Group[d] = g /\ heldObj'[d] = q.obj /\ heldOn'[d] = today
      BY <2>3
    <3>2. \A d \in Calls : chargedTo'[d] = chargedTo[d] \/ chargedTo'[d] = <<q.obj, today>>
      BY <2>2, <2>3 DEF IInv, TypeOK
    <3>3. IInv /\ g \in Groups /\ q \in Quotas /\ Store(g, q)
          /\ q.obj = Current(g).obj /\ q.date = today
      BY <2>2, <2>3
    <3> QED BY ONLY <3>1, <3>2, <3>3, CallsFrame
  <2>6. CountersRight'
    <3>1. chargedTo \in [Calls -> Nat \X Nat]
      BY DEF IInv, TypeOK
    <3>2. /\ \A m, d : Holding(m)' = Holding(m) /\ HoldingOn(m, d)' = HoldingOn(m, d)
          /\ \A m, d : m \notin {0, q.obj} => ChargedOn(m, d)' = ChargedOn(m, d)
          /\ ChargedOn(q.obj, q.date)' = ChargedOn(q.obj, q.date) \cup {c}
          /\ c \notin ChargedOn(q.obj, q.date)
      <4>1. \A m, d : Holding(m)' = Holding(m) /\ HoldingOn(m, d)' = HoldingOn(m, d)
        BY <2>3 DEF Holding, HoldingOn
      <4>2. \A m, d : m \notin {0, q.obj} => ChargedOn(m, d)' = ChargedOn(m, d)
        BY <2>2, <2>3, <3>1 DEF ChargedOn
      <4>3. q.obj # 0
        BY <2>2, CurrentFields DEF IInv, TypeOK
      <4>4. <<q.obj, q.date>> # <<0, 0>> /\ chargedTo'[c] = <<q.obj, q.date>>
        <5>1. <<q.obj, q.date>> # <<0, 0>>
          BY ONLY <4>3
        <5>2. chargedTo'[c] = <<p.obj, today>>
          BY <2>3, <3>1
        <5> QED BY <2>2, <5>1, <5>2
      <4>5. c \notin ChargedOn(q.obj, q.date)
        BY <2>3, <4>4 DEF ChargedOn
      <4>6. ChargedOn(q.obj, q.date)' = ChargedOn(q.obj, q.date) \cup {c}
        BY <2>3, <3>1, <4>4 DEF ChargedOn
      <4> QED BY <4>1, <4>2, <4>5, <4>6
    <3>3. Weight(ChargedOn(q.obj, q.date)', Charge)
            = Weight(ChargedOn(q.obj, q.date), Charge) + Charge[c]
      <4>1. \A x \in ChargedOn(q.obj, q.date) \cup {c} : Charge[x] \in Nat
        BY Amounts, CallSets
      <4>2. IsFiniteSet(ChargedOn(q.obj, q.date)) /\ c \notin ChargedOn(q.obj, q.date)
        BY <3>2, CallSets
      <4>3. Weight(ChargedOn(q.obj, q.date) \cup {c}, Charge)
              = Weight(ChargedOn(q.obj, q.date), Charge) + Charge[c]
        BY ONLY <4>1, <4>2, WeightAdd
      <4> QED BY <3>2, <4>3
    <3>4. Right(g, q)'
      <4>1. /\ Weight(HoldingOn(q.obj, q.date), Reserve) \in Nat
            /\ Weight(ChargedOn(q.obj, q.date), Charge) \in Nat
        BY CallTotals
      <4> QED BY <1>1, <2>1, <2>2, <3>2, <3>3, <4>1 DEF Right
    <3>5. IInv /\ g \in Groups /\ q \in Quotas /\ quota' = [quota EXCEPT ![g] = q]
          /\ q.obj = Current(g).obj
      BY <2>2, <2>3 DEF Store
    <3> QED BY ONLY <3>2, <3>4, <3>5, StoreRight
  <2> QED BY <2>4, <2>5, <2>6 DEF IInv
<1> QED BY <1>2, <1>3

\* Releasing: one holder less, if the group is still the object it reserved from;
\* the estimate is given back on the day it was reserved.
LEMMA ReleaseKeeps ==
  ASSUME IInv, NEW c \in Calls, pc[c] = "held", Release(c)
  PROVE  IInv'
<1> PICK g \in Groups : g = Group[c]
  BY QuotaAssumption
<1> PICK p \in Quotas : p = Current(g)
  BY CurrentFields
<1>1. /\ p.date = today /\ Right(g, p) /\ p.obj # 0
      /\ p.active \in Nat /\ p.tokens \in Int /\ p.obj \in Nat /\ today \in Nat \ {0}
      /\ Reserve[c] \in Nat
  BY CurrentFields, CurrentRight, Amounts DEF IInv, TypeOK, Quotas
<1>2. /\ pc' = [pc EXCEPT ![c] = "released"]
      /\ UNCHANGED <<today, startedOn, heldObj, heldOn, chargedTo>>
  BY DEF Release
<1>3. /\ pc \in [Calls -> {"start", "open", "held", "released", "refused"}]
      /\ pc' \in [Calls -> {"start", "open", "held", "released", "refused"}]
      /\ heldObj \in [Calls -> Nat] /\ heldOn \in [Calls -> Nat]
      /\ \A d \in Calls : pc'[d] = "held" => pc[d] = "held"
  BY <1>2 DEF IInv, TypeOK
<1>4. \A m, d : m # heldObj[c] => /\ Holding(m)' = Holding(m) /\ HoldingOn(m, d)' = HoldingOn(m, d)
                                  /\ ChargedOn(m, d)' = ChargedOn(m, d)
  BY <1>2, <1>3 DEF Holding, HoldingOn, ChargedOn
<1>5. CASE quota[g].obj # heldObj[c]
  <2>1. UNCHANGED <<quota, made>>
    BY <1>5 DEF Release
  <2>2. TypeOK' /\ Identities' /\ NothingFromTomorrow'
    BY <1>2, <1>3, <2>1 DEF IInv, TypeOK, Identities, NothingFromTomorrow
  <2>3. CountersRight'
    <3> SUFFICES ASSUME NEW h \in Groups, quota'[h].obj # 0 PROVE Right(h, quota[h])'
      BY DEF CountersRight
    <3>1. quota[h].obj # heldObj[c] /\ Right(h, quota[h]) /\ quota'[h] = quota[h]
      BY <1>5, <2>1 DEF IInv, Identities, CountersRight
    <3> PICK r : r = quota[h]
      OBVIOUS
    <3>2. Right(h, r)'
      BY <1>4, <3>1 DEF Right
    <3> QED BY <3>1, <3>2 DEF Right
  <2> QED BY <2>2, <2>3 DEF IInv
<1>6. CASE quota[g].obj = heldObj[c]
  <2>1. p.obj = heldObj[c]
    BY <1>6, CurrentFields DEF IInv, Identities
  <2> DEFINE H == Holding(p.obj)
             D == HoldingOn(p.obj, p.date)
             C == ChargedOn(p.obj, p.date)
  <2>2. c \in H /\ (p.date = heldOn[c] => c \in D) /\ (p.date # heldOn[c] => c \notin D)
    BY <2>1 DEF Holding, HoldingOn
  <2>3. Holding(p.obj)' = H \ {c} /\ HoldingOn(p.obj, p.date)' = D \ {c} /\ ChargedOn(p.obj, p.date)' = C
    BY <1>2, <1>3 DEF Holding, HoldingOn, ChargedOn
  <2>4. IsFiniteSet(H) /\ IsFiniteSet(D) /\ IsFiniteSet(C) /\ \A x \in D : Reserve[x] \in Nat
    BY Amounts, CallSets
  <2>5. Cardinality(H) \in Nat /\ Weight(D, Reserve) \in Nat /\ Weight(C, Charge) \in Nat
    BY CallTotals
  <2>6. p.active = Cardinality(H) /\ p.tokens = Weight(D, Reserve) + Weight(C, Charge)
        /\ (MaxConcurrency[g] > 0 => p.active <= MaxConcurrency[g])
        /\ (DailyRequests[g] > 0 => p.requests <= DailyRequests[g])
        /\ (DailyTokens[g] > 0 => Weight(D, Reserve) <= DailyTokens[g])
    BY <1>1 DEF Right
  <2> HIDE DEF H, D, C
  <2>7. Cardinality(H \ {c}) = Cardinality(H) - 1 /\ Cardinality(H \ {c}) \in Nat
    BY <2>2, <2>4, FS_RemoveElement, FS_CardinalityType
  <2>8. /\ p.date = heldOn[c] => Weight(D \ {c}, Reserve) = Weight(D, Reserve) - Reserve[c]
        /\ p.date # heldOn[c] => D \ {c} = D
        /\ Weight(D \ {c}, Reserve) \in Nat
    <3>1. IsFiniteSet(D \ {c}) /\ \A x \in D \ {c} : Reserve[x] \in Nat
      BY <2>4, FS_Subset
    <3> QED BY <2>2, <2>4, <3>1, WeightRemove, WeightType
  <2> PICK a \in Nat, n \in Int :
        /\ a = IF p.active > 0 THEN p.active - 1 ELSE p.active
        /\ n = IF p.date # heldOn[c] THEN p.tokens
               ELSE IF p.tokens > Reserve[c] THEN p.tokens - Reserve[c] ELSE 0
    BY <1>1
  <2>9. a = Cardinality(H \ {c}) /\ n = Weight(D \ {c}, Reserve) + Weight(C, Charge)
        /\ Weight(D \ {c}, Reserve) <= Weight(D, Reserve) /\ a <= p.active
    <3>1. a = Cardinality(H \ {c}) /\ a <= p.active
      BY <2>5, <2>6, <2>7
    <3>2. CASE p.date = heldOn[c]
      <4>1. Weight(D \ {c}, Reserve) = Weight(D, Reserve) - Reserve[c] /\ Weight(D \ {c}, Reserve) \in Nat
        BY <2>8, <3>2
      <4>2. n = IF p.tokens > Reserve[c] THEN p.tokens - Reserve[c] ELSE 0
        BY <3>2
      <4>3. n = Weight(D \ {c}, Reserve) + Weight(C, Charge)
        BY ONLY <1>1, <2>5, <2>6, <4>1, <4>2
      <4> QED BY <1>1, <2>5, <3>1, <4>1, <4>3
    <3>3. CASE p.date # heldOn[c]
      <4>1. Weight(D \ {c}, Reserve) = Weight(D, Reserve)
        BY <2>8, <3>3
      <4>2. n = p.tokens
        BY <3>3
      <4> QED BY <2>5, <2>6, <3>1, <4>1, <4>2
    <3> QED BY <3>2, <3>3
  <2> PICK q : q = [p EXCEPT !.active = a, !.tokens = n]
    OBVIOUS
  <2>10. /\ q \in Quotas /\ q.obj = p.obj /\ q.date = p.date /\ q.active = a
         /\ q.requests = p.requests /\ q.tokens = n
    BY DEF Quotas
  <2>11. Store(g, q)
    <3>1. q = [p EXCEPT !.active = IF @ > 0 THEN @ - 1 ELSE @,
                        !.tokens = IF p.date # heldOn[c] THEN @
                                   ELSE IF @ > Reserve[c] THEN @ - Reserve[c] ELSE 0]
      OBVIOUS
    <3>2. Store(g, [p EXCEPT !.active = IF @ > 0 THEN @ - 1 ELSE @,
                        !.tokens = IF p.date # heldOn[c] THEN @
                                   ELSE IF @ > Reserve[c] THEN @ - Reserve[c] ELSE 0])
      BY <1>6 DEF Release
    <3> QED BY <3>1, <3>2
  <2>12. TypeOK'
    BY <1>1, <1>2, <1>3, <2>10, <2>11, StoreFrame DEF IInv, TypeOK, Quotas
  <2>13. Identities' /\ NothingFromTomorrow'
    <3>1. /\ q.obj = Current(g).obj /\ q.date = today
          /\ \A d \in Calls : pc'[d] = "held" =>
               \/ pc[d] = "held" /\ heldObj'[d] = heldObj[d] /\ heldOn'[d] = heldOn[d]
               \/ Group[d] = g /\ heldObj'[d] = q.obj /\ heldOn'[d] = today
          /\ \A d \in Calls : chargedTo'[d] = chargedTo[d] \/ chargedTo'[d] = <<q.obj, today>>
      BY <1>1, <1>2, <1>3, <2>10
    <3> QED BY <2>10, <2>11, <3>1, CallsFrame, Zenon
  <2>14. CountersRight'
    <3>1. Right(g, q)'
      <4>1. /\ DailyTokens[g] \in Nat /\ MaxConcurrency[g] \in Nat
        BY QuotaAssumption
      <4>2. DailyTokens[g] > 0 => Weight(D \ {c}, Reserve) <= DailyTokens[g]
        BY <2>5, <2>6, <2>8, <2>9, <4>1
      <4>3. MaxConcurrency[g] > 0 => a <= MaxConcurrency[g]
        BY <1>1, <2>6, <2>9, <4>1
      <4> QED BY <2>3, <2>6, <2>9, <2>10, <4>2, <4>3 DEF Right
    <3>2. \A m, d : m \notin {0, q.obj} =>
            /\ Holding(m)' = Holding(m) /\ HoldingOn(m, d)' = HoldingOn(m, d)
            /\ ChargedOn(m, d)' = ChargedOn(m, d)
      BY <1>4, <2>1, <2>10
    <3> QED BY <2>10, <2>11, <3>1, <3>2, StoreRight DEF Store
  <2> QED BY <2>12, <2>13, <2>14 DEF IInv
<1> QED BY <1>5, <1>6

\* Deleting a group: whatever still refers to its object refers to no group.
LEMMA ForgetKeeps ==
  ASSUME IInv, NEW g \in Groups, Forget(g)
  PROVE  IInv'
<1>1. /\ quota' = [quota EXCEPT ![g] = Nil]
      /\ UNCHANGED <<made, today, pc, startedOn, heldObj, heldOn, chargedTo>>
      /\ quota \in [Groups -> Quotas] /\ Nil \in Quotas /\ Nil.obj = 0
  BY DEF Forget, callVars, IInv, TypeOK, Quotas, Nil
<1>2. /\ quota'[g] = Nil /\ \A h \in Groups : h # g => quota'[h] = quota[h]
      /\ \A d \in Calls : pc[d] = "held" => heldObj[d] # 0
  BY <1>1 DEF IInv, TypeOK, Identities
<1>3. TypeOK'
  BY <1>1, <1>2 DEF IInv, TypeOK, Quotas
<1>4. Identities' /\ NothingFromTomorrow'
  BY <1>1, <1>2 DEF IInv, Identities, NothingFromTomorrow
<1>5. CountersRight'
  <2> SUFFICES ASSUME NEW h \in Groups, quota'[h].obj # 0 PROVE Right(h, quota[h])'
    BY DEF CountersRight
  <2>1. quota'[h] = quota[h] /\ Right(h, quota[h])
    BY <1>1, <1>2 DEF IInv, CountersRight
  <2> QED BY <1>1, <2>1 DEF Right, Holding, HoldingOn, ChargedOn
<1> QED BY <1>3, <1>4, <1>5 DEF IInv

\* Beginning a request and midnight leave the counters alone.
LEMMA ElsewhereKeeps ==
  ASSUME IInv, \/ \E c \in Calls : Begin(c)
               \/ Midnight
               \/ UNCHANGED vars
  PROVE  IInv'
<1>1. /\ UNCHANGED <<quota, made, heldObj, heldOn, chargedTo>>
      /\ today' \in Nat \ {0} /\ today <= today'
      /\ \A d \in Calls : pc'[d] = "held" <=> pc[d] = "held"
  BY DEF Begin, Midnight, vars, callVars, IInv, TypeOK
<1>2. TypeOK'
  BY <1>1 DEF Begin, Midnight, vars, callVars, IInv, TypeOK
<1>3. Identities' /\ NothingFromTomorrow'
  BY <1>1 DEF IInv, Identities, NothingFromTomorrow
<1>4. CountersRight'
  <2>1. \A n, d : /\ Holding(n)' = Holding(n) /\ HoldingOn(n, d)' = HoldingOn(n, d)
                  /\ ChargedOn(n, d)' = ChargedOn(n, d)
    BY <1>1 DEF Holding, HoldingOn, ChargedOn
  <2> QED BY <1>1, <2>1 DEF IInv, CountersRight, Right
<1> QED BY <1>2, <1>3, <1>4 DEF IInv
-----------------------------------------------------------------------------
\* The invariant holds initially and every step keeps it, for any calls, groups,
\* estimates and limits.
THEOREM Invariance == Spec => []IInv
<1>1. Init => IInv
  <2> SUFFICES ASSUME Init PROVE IInv
    OBVIOUS
  <2>1. TypeOK
    BY DEF Init, TypeOK, Nil, Nowhere
  <2>2. CountersRight /\ Identities /\ NothingFromTomorrow
    BY DEF Init, CountersRight, Identities, NothingFromTomorrow, Nil, Nowhere
  <2> QED BY <2>1, <2>2 DEF IInv
<1>2. IInv /\ [Next]_vars => IInv'
  <2> SUFFICES ASSUME IInv, [Next]_vars PROVE IInv'
    OBVIOUS
  <2>1. ASSUME NEW c \in Calls, Refuse(c) PROVE IInv'
    <3>1. /\ Group[c] \in Groups /\ Store(Group[c], Current(Group[c])) /\ today' = today
          /\ UNCHANGED <<startedOn, heldObj, heldOn, chargedTo>>
          /\ pc' = [pc EXCEPT ![c] = "refused"] /\ pc[c] = "open"
      BY <2>1, QuotaAssumption DEF Refuse
    <3> QED BY <3>1, RollKeeps DEF IInv, TypeOK
  <2>2. ASSUME NEW g \in Groups, Usage(g) PROVE IInv'
    BY <2>2, RollKeeps DEF Usage, callVars, IInv, TypeOK
  <2>3. ASSUME NEW c \in Calls, Release(c) PROVE IInv'
    <3>1. CASE pc[c] = "held"
      BY <2>3, <3>1, ReleaseKeeps
    <3>2. CASE pc[c] # "held"
      BY <2>3, <3>2, ElsewhereKeeps DEF Release
    <3> QED BY <3>1, <3>2
  <2> QED BY <2>1, <2>2, <2>3, AcquireKeeps, AdjustKeeps, ForgetKeeps, ElsewhereKeeps DEF Next
<1> QED BY <1>1, <1>2, PTL DEF Spec

\* Whatever a run of calls, deletions and midnights does, the counters of a
\* group say exactly what its calls hold and have been charged.
THEOREM CountersExact == Spec => []QuotaExact
<1>1. IInv => QuotaExact
  BY DEF IInv, QuotaExact, ActiveExact, TokensExact, CountersRight, Right
<1> QED BY <1>1, Invariance, PTL

\* No group is ever beyond its concurrency, its requests or its tokens of a day.
THEOREM LimitsHold == Spec => []WithinQuota
<1>1. IInv => WithinQuota
  BY DEF IInv, WithinQuota, CountersRight, Right
<1> QED BY <1>1, Invariance, PTL
=============================================================================
