------------------------- MODULE ResourceViewProofs -------------------------
(***************************************************************************)
(* What readers show, what loads and what a plan admits are right for all  *)
(* keys, costs, budgets, views and demands: they follow from ViewInv,      *)
(* which every step of a component, a cache or a frame keeps.  Of the      *)
(* caches it takes IInv, and the lemmas by which their steps keep it.      *)
(***************************************************************************)
EXTENDS ResourceViewProperties, ResourceCacheProofs

(* What the open views want. *)
Demanded == UNION {KeysIn(demand[v]) : v \in Views}

ViewTypeOK ==
  /\ views \in [Caches -> Seq(Views)] /\ demand \in [Views -> Seq(Demands)]
  /\ lanes \in SUBSET Keys /\ wanted \in Seq(Demands)

(* Only an open view has a plan, and of keys of its collection.             *)
OpenOK ==
  /\ \A c \in Caches : \A v \in ToSet(views[c]) : CollectionOf[v] = c
  /\ \A v \in Views : ~IsOpen(v) => demand[v] = <<>>
  /\ \A v \in Views : \A k \in KeysIn(demand[v]) : HomeOf[k] = CollectionOf[v]

RestOK == at = "rest" => pc = "idle" /\ told = {} /\ dirty = {}

LanesOK == Demanded \in SUBSET lanes

(* A reader that does not show what its view would answer runs at the next  *)
(* flush.                                                                   *)
ReadOK ==
  \A r \in Readers : \/ r \in told
                     \/ r[2] \in dirty \cap lanes /\ shown[r].lane
                     \/ shown[r] = Read(r)

WantOK ==
  /\ \A k \in ToSet(residents) : entry[k].desired => k \in Demanded
  /\ KeysIn(todo) \in SUBSET Demanded

(* The plan being admitted is of one cache, within its budgets, and what    *)
(* the cache holds besides it is free to go.                                *)
PlanOf(c) ==
  /\ \A k \in KeysIn(wanted) : HomeOf[k] = c
  /\ TotalCost(KeysIn(wanted)) <= MaxCost /\ Cardinality(KeysIn(wanted)) <= MaxEntries
  /\ \A k \in KeysIn(wanted) : k \in ToSet(residents) \/ k \in KeysIn(todo)
  /\ KeysIn(todo) \in SUBSET KeysIn(wanted)
  /\ \A k \in Resident(c) : /\ entry[k].desired <=> k \in KeysIn(wanted)
                            /\ ~entry[k].desired => ~entry[k].pin

PlanOK == pc = "admit" => \E c \in Caches : PlanOf(c)

ViewInv ==
  IInv /\ ViewTypeOK /\ OpenOK /\ RestOK /\ LanesOK /\ ReadOK /\ WantOK /\ PlanOK

-----------------------------------------------------------------------------
(* The union of the demands of the open views.                              *)

(* Demands of the keys of a list. *)
LEMMA KeysOfList ==
  ASSUME NEW s \in Seq(Demands)
  PROVE  /\ KeysIn(s) \in SUBSET Keys /\ IsFiniteSet(KeysIn(s))
         /\ \A i \in DOMAIN s : s[i] \in Demands /\ s[i].key \in KeysIn(s)
         /\ \A k \in KeysIn(s) : \E i \in DOMAIN s : s[i].key = k
  <1>1. \A i \in DOMAIN s : s[i] \in Demands /\ s[i] \in ToSet(s)
    BY DEF ToSet
  <1>2. [i \in DOMAIN s |-> s[i].key] \in Surjection(DOMAIN s, KeysIn(s))
    BY DEF Surjection, KeysIn, ToSet
  <1>3. IsFiniteSet(DOMAIN s)
    BY FS_Interval
  <1>4. IsFiniteSet(KeysIn(s))
    BY <1>2, <1>3, FS_Surjection
  <1>5. KeysIn(s) \in SUBSET Keys
    BY <1>1 DEF KeysIn, ToSet, Demands
  <1> QED BY <1>1, <1>4, <1>5 DEF KeysIn, ToSet

(* Merging keeps the keys. *)
LEMMA MergedKeys ==
  ASSUME NEW s \in Seq(Demands)
  PROVE  Merged(s) \in Seq(Demands) /\ KeysIn(Merged(s)) = KeysIn(s)
  <1> DEFINE m == Merged(s)
  <1>1. m \in Seq(Demands)
    BY MergedFacts
  <1>2. PICK keys : /\ Gathered(s, Len(s), keys) /\ DOMAIN m = DOMAIN keys
                    /\ \A i \in DOMAIN keys : m[i].key = keys[i]
    BY MergedFacts
  <1> HIDE DEF m
  <1>3. DOMAIN s = 1 .. Len(s)
    OBVIOUS
  <1>4. \A k \in KeysIn(s) : k \in KeysIn(m)
    <2> TAKE k \in KeysIn(s)
    <2>1. PICK r \in 1 .. Len(s) : s[r].key = k
      BY <1>3, KeysOfList
    <2>2. PICK i \in DOMAIN keys : keys[i] = k
      BY <1>2, <2>1 DEF Gathered
    <2> QED BY <1>1, <1>2, <2>2, KeysOfList
  <1>5. \A k \in KeysIn(m) : k \in KeysIn(s)
    <2> TAKE k \in KeysIn(m)
    <2>1. PICK i \in DOMAIN m : m[i].key = k
      BY <1>1, KeysOfList
    <2>2. PICK q \in 1 .. Len(s) : s[q].key = k
      <3>1. i \in DOMAIN keys /\ keys[i] = k
        BY <1>2, <2>1
      <3>2. \A j \in DOMAIN keys : \E q \in 1 .. Len(s) : s[q].key = keys[j]
        BY <1>2 DEF Gathered
      <3> QED BY <3>1, <3>2
    <2>3. s[q].key \in KeysIn(s)
      BY <1>3, KeysOfList
    <2> QED BY <2>2, <2>3
  <1> QED BY <1>1, <1>4, <1>5 DEF m

(* Places by priority are places of the union, each once: as many demands   *)
(* go ahead of one as come before it.                                       *)
LEMMA SortedFacts ==
  ASSUME NEW union \in Seq(Demands)
  PROVE  /\ ByPriority(union) \in Seq(Demands)
         /\ KeysIn(ByPriority(union)) \in SUBSET KeysIn(union)
  <1> DEFINE D == DOMAIN union
             rank == [i \in D |-> Cardinality(Ahead(union, i)) + 1]
             Nth(m) == CHOOSE i \in D : Cardinality(Ahead(union, i)) = m - 1
  <1>1. /\ Len(union) \in Nat /\ D = 1 .. Len(union) /\ IsFiniteSet(D) /\ Cardinality(D) = Len(union)
        /\ \A i \in D : union[i] \in Demands
    <2>1. Len(union) \in Nat /\ D = 1 .. Len(union) /\ \A i \in D : union[i] \in Demands
      OBVIOUS
    <2>2. \A len \in Nat : IsFiniteSet(1 .. len) /\ Cardinality(1 .. len) = len
      <3> TAKE len \in Nat
      <3>1. 1 \in Int /\ len \in Int
        OBVIOUS
      <3>2. IsFiniteSet(1 .. len) /\ Cardinality(1 .. len) = IF 1 > len THEN 0 ELSE len - 1 + 1
        BY <3>1, FS_Interval
      <3> QED BY <3>2
    <2> QED BY <2>1, <2>2
  <1>2. \A i \in D : union[i].priority \in Nat
    BY <1>1 DEF Demands
  <1> HIDE DEF D
  <1>3. ASSUME NEW i \in D
        PROVE  /\ Ahead(union, i) \in SUBSET (D \ {i}) /\ IsFiniteSet(Ahead(union, i))
               /\ Cardinality(Ahead(union, i)) \in Nat /\ rank[i] \in D
    <2>1. Ahead(union, i) \in SUBSET (D \ {i})
      BY <1>1, <1>2 DEF Ahead, D
    <2>2. IsFiniteSet(D \ {i}) /\ Cardinality(D \ {i}) = Cardinality(D) - 1
      BY <1>1, FS_RemoveElement
    <2>3. IsFiniteSet(Ahead(union, i)) /\ Cardinality(Ahead(union, i)) <= Cardinality(D) - 1
      BY <2>1, <2>2, FS_Subset
    <2>4. Cardinality(Ahead(union, i)) \in Nat
      BY <2>3, FS_CardinalityType
    <2>5. Cardinality(Ahead(union, i)) + 1 \in 1 .. Len(union)
      BY <1>1, <2>3, <2>4
    <2> QED BY <1>1, <2>1, <2>3, <2>4, <2>5
  <1>4. ASSUME NEW i \in D, NEW j \in D, i \in Ahead(union, j)
        PROVE  Cardinality(Ahead(union, i)) < Cardinality(Ahead(union, j))
    <2>1. Ahead(union, i) \in SUBSET (Ahead(union, j) \ {i})
      <3>1. \A h \in Ahead(union, i) : h \in D /\ h # i
        BY <1>3
      <3>2. \A h \in D : /\ h \in Ahead(union, i) <=> \/ union[h].priority < union[i].priority
                                                      \/ union[h].priority = union[i].priority /\ h < i
                         /\ h \in Ahead(union, j) <=> \/ union[h].priority < union[j].priority
                                                      \/ union[h].priority = union[j].priority /\ h < j
        BY DEF Ahead, D
      <3>3. \A h \in Ahead(union, i) : h \in Ahead(union, j)
        BY <1>1, <1>2, <1>4, <3>1, <3>2
      <3> QED BY <3>1, <3>3
    <2>2. /\ IsFiniteSet(Ahead(union, j) \ {i})
          /\ Cardinality(Ahead(union, j) \ {i}) = Cardinality(Ahead(union, j)) - 1
      BY <1>3, <1>4, FS_RemoveElement
    <2>3. Cardinality(Ahead(union, i)) <= Cardinality(Ahead(union, j)) - 1
      BY <2>1, <2>2, FS_Subset
    <2> QED BY <1>3, <2>3
  <1>5. \A i, j \in D : i # j => i \in Ahead(union, j) \/ j \in Ahead(union, i)
    BY <1>1, <1>2 DEF Ahead, D
  <1>6. rank \in Injection(D, D)
    <2>1. \A i, j \in D : i # j => Cardinality(Ahead(union, i)) # Cardinality(Ahead(union, j))
      <3> SUFFICES ASSUME NEW i \in D, NEW j \in D, i # j
                   PROVE  Cardinality(Ahead(union, i)) # Cardinality(Ahead(union, j))
        OBVIOUS
      <3>1. Cardinality(Ahead(union, i)) \in Nat /\ Cardinality(Ahead(union, j)) \in Nat
        BY <1>3
      <3>2. \/ Cardinality(Ahead(union, i)) < Cardinality(Ahead(union, j))
            \/ Cardinality(Ahead(union, j)) < Cardinality(Ahead(union, i))
        BY <1>4, <1>5
      <3> QED BY <3>1, <3>2
    <2>2. \A i, j \in D : rank[i] = rank[j] => i = j
      <3> SUFFICES ASSUME NEW i \in D, NEW j \in D, rank[i] = rank[j] PROVE i = j
        OBVIOUS
      <3>1. Cardinality(Ahead(union, i)) + 1 = Cardinality(Ahead(union, j)) + 1
        OBVIOUS
      <3>2. Cardinality(Ahead(union, i)) \in Nat /\ Cardinality(Ahead(union, j)) \in Nat
        BY <1>3
      <3> QED BY <2>1, <3>1, <3>2
    <2>3. rank \in [D -> D]
      BY <1>3
    <2> HIDE DEF rank
    <2> QED BY <2>2, <2>3 DEF Injection, IsInjective
  <1>7. rank \in Surjection(D, D)
    <2> HIDE DEF rank
    <2> QED BY <1>1, <1>6, FS_Injection
  <1>8. ASSUME NEW m \in D PROVE Nth(m) \in D
    <2>1. PICK i \in D : rank[i] = m
      <3> HIDE DEF rank
      <3> QED BY <1>7 DEF Surjection
    <2>2. Cardinality(Ahead(union, i)) = m - 1
      <3>1. Cardinality(Ahead(union, i)) + 1 = m /\ Cardinality(Ahead(union, i)) \in Nat
        BY <1>3, <2>1
      <3> QED BY <3>1
    <2> QED BY <2>2
  <1>9. ByPriority(union) = [m \in 1 .. Len(union) |-> union[Nth(m)]]
    BY <1>1 DEF ByPriority, D
  <1> HIDE DEF Nth
  <1>10. \A m \in 1 .. Len(union) : union[Nth(m)] \in Demands
    BY <1>1, <1>8
  <1>11. [m \in 1 .. Len(union) |-> union[Nth(m)]] \in Seq(Demands)
    BY <1>1, <1>10
  <1>12. \A k \in KeysIn(ByPriority(union)) : k \in KeysIn(union)
    <2> TAKE k \in KeysIn(ByPriority(union))
    <2>1. PICK m \in 1 .. Len(union) : ByPriority(union)[m].key = k
      BY <1>9, <1>11, KeysOfList
    <2>2. Nth(m) \in DOMAIN union /\ union[Nth(m)].key = k
      BY <1>1, <1>8, <1>9, <2>1 DEF D
    <2> QED BY <2>2, KeysOfList
  <1> QED BY <1>9, <1>11, <1>12

(* The plan is cut from the union: the equation its fold has.               *)
Taking(plan, d) ==
  IF Len(plan) < MaxEntries /\ TotalCost(KeysIn(plan)) + Cost[d.key] <= MaxCost
  THEN Append(plan, d) ELSE plan
Takes(s, h) ==
  h = [T \in SUBSET DOMAIN s |-> IF T = {} THEN <<>> ELSE Taking(h[T \ {Max(T)}], s[Max(T)])]

(* Plans a cache has room for.                                              *)
Affordable(s) ==
  {p \in Seq(Demands) : /\ Len(p) <= MaxEntries /\ TotalCost(KeysIn(p)) <= MaxCost
                        /\ Cardinality(KeysIn(p)) <= MaxEntries
                        /\ KeysIn(p) \in SUBSET KeysIn(s)}

(* The equation, set by set. *)
LEMMA TakesEquation ==
  ASSUME NEW s, NEW h
  PROVE  Takes(s, h) <=>
           /\ h = [T \in SUBSET DOMAIN s |-> h[T]] /\ h[{}] = <<>>
           /\ \A T \in SUBSET DOMAIN s : T # {} => h[T] = Taking(h[T \ {Max(T)}], s[Max(T)])
  <1> DEFINE At(T) == IF T = {} THEN <<>> ELSE Taking(h[T \ {Max(T)}], s[Max(T)])
  <1>1. Takes(s, h) <=> h = [T \in SUBSET DOMAIN s |-> At(T)]
    BY DEF Takes
  <1>2. At({}) = <<>> /\ \A T \in SUBSET DOMAIN s :
          T # {} => At(T) = Taking(h[T \ {Max(T)}], s[Max(T)])
    OBVIOUS
  <1>3. {} \in SUBSET DOMAIN s
    OBVIOUS
  <1> HIDE DEF At
  <1> QED BY <1>1, <1>2, <1>3

(* A plan that is affordable stays so. *)
LEMMA TakingAffordable ==
  ASSUME NEW s \in Seq(Demands), NEW p \in Affordable(s), NEW i \in DOMAIN s
  PROVE  Taking(p, s[i]) \in Affordable(s)
  <1> DEFINE d == s[i]
             q == Append(p, d)
  <1>1. d \in Demands /\ d.key \in KeysIn(s)
    BY KeysOfList
  <1> HIDE DEF d
  <1>2. /\ p \in Seq(Demands) /\ Len(p) <= MaxEntries /\ TotalCost(KeysIn(p)) <= MaxCost
        /\ Cardinality(KeysIn(p)) <= MaxEntries /\ KeysIn(p) \in SUBSET KeysIn(s)
    BY DEF Affordable
  <1>3. q \in Seq(Demands) /\ Len(q) = Len(p) + 1 /\ Len(p) \in Nat
    BY <1>1, <1>2
  <1>4. KeysIn(q) = KeysIn(p) \cup {d.key}
    <2>1. \A e : e \in ToSet(q) <=> e \in ToSet(p) \/ e = d
      BY <1>1, <1>2, MembersAppend
    <2> QED BY <2>1 DEF KeysIn
  <1> HIDE DEF q
  <1>5. d.key \in Keys /\ Cost[d.key] \in Nat /\ MaxEntries \in Nat /\ MaxCost \in Nat
    BY <1>1, CacheAssumption DEF Demands
  <1>6. KeysIn(p) \in SUBSET Keys /\ IsFiniteSet(KeysIn(p))
    BY <1>2, KeysOfList
  <1>7. TotalCost(KeysIn(p)) \in Nat /\ Cardinality(KeysIn(p)) \in Nat
    BY <1>6, CostMonotone
  <1>8. CASE Len(p) < MaxEntries /\ TotalCost(KeysIn(p)) + Cost[d.key] <= MaxCost
    <2>1. TotalCost(KeysIn(q)) <= MaxCost
      <3>1. CASE d.key \in KeysIn(p)
        <4>1. KeysIn(q) = KeysIn(p)
          BY <1>4, <3>1
        <4> QED BY <1>2, <4>1
      <3>2. CASE d.key \notin KeysIn(p)
        <4>1. TotalCost(KeysIn(q)) = TotalCost(KeysIn(p)) + Cost[d.key]
          BY <1>4, <1>5, <1>6, <3>2, CostInsert
        <4> QED BY <1>8, <4>1
      <3> QED BY <3>1, <3>2
    <2>2. Cardinality(KeysIn(q)) <= Len(q)
      <3>1. [j \in 1 .. Len(q) |-> q[j].key] \in Surjection(1 .. Len(q), KeysIn(q))
        <4>1. DOMAIN q = 1 .. Len(q)
          BY <1>3
        <4>2. \A j \in 1 .. Len(q) : q[j].key \in KeysIn(q)
          BY <1>3, <4>1, KeysOfList
        <4>3. \A k \in KeysIn(q) : \E j \in 1 .. Len(q) : q[j].key = k
          BY <1>3, <4>1, KeysOfList
        <4> QED BY <4>2, <4>3 DEF Surjection
      <3>2. IsFiniteSet(1 .. Len(q)) /\ Cardinality(1 .. Len(q)) = IF 1 > Len(q) THEN 0 ELSE Len(q) - 1 + 1
        BY <1>3, FS_Interval
      <3>3. Cardinality(KeysIn(q)) <= Cardinality(1 .. Len(q))
        BY <3>1, <3>2, FS_Surjection
      <3> QED BY <1>3, <3>2, <3>3
    <2>3. Len(q) <= MaxEntries
      BY <1>3, <1>5, <1>8
    <2>4. KeysIn(q) \in SUBSET KeysIn(s)
      BY <1>1, <1>2, <1>4
    <2>5. Cardinality(KeysIn(q)) <= MaxEntries
      <3>1. IsFiniteSet(KeysIn(q))
        BY <1>3, KeysOfList
      <3>2. Cardinality(KeysIn(q)) \in Nat
        BY <3>1, FS_CardinalityType
      <3> QED BY <1>3, <1>5, <2>2, <2>3, <3>2
    <2>6. Taking(p, d) = q
      BY <1>8 DEF Taking, q
    <2> QED BY <1>3, <2>1, <2>3, <2>4, <2>5, <2>6 DEF Affordable, d
  <1>9. CASE ~(Len(p) < MaxEntries /\ TotalCost(KeysIn(p)) + Cost[d.key] <= MaxCost)
    BY <1>9 DEF Taking, d
  <1> QED BY <1>8, <1>9

(* An empty plan is within every budget. *)
LEMMA NothingAffordable ==
  ASSUME NEW s
  PROVE  <<>> \in Affordable(s)
  <1>1. <<>> \in Seq(Demands) /\ Len(<<>>) = 0 /\ KeysIn(<<>>) = {}
    BY DEF KeysIn, ToSet
  <1>2. TotalCost({}) = 0 /\ Cardinality({}) = 0
    BY FS_EmptySet, CostStep
  <1>3. MaxEntries \in Nat /\ MaxCost \in Nat
    BY CacheAssumption
  <1>4. TotalCost(KeysIn(<<>>)) = 0 /\ Cardinality(KeysIn(<<>>)) = 0 /\ KeysIn(<<>>) \in SUBSET KeysIn(s)
    BY <1>1, <1>2
  <1>5. Len(<<>>) <= MaxEntries /\ 0 <= MaxEntries /\ 0 <= MaxCost
    BY <1>1, <1>3
  <1> QED BY <1>1, <1>4, <1>5 DEF Affordable

(* There is a function that satisfies the equation of the fold. *)
LEMMA TakesExists ==
  ASSUME NEW s \in Seq(Demands)
  PROVE  \E h : Takes(s, h)
  <1> DEFINE D == DOMAIN s
             V == Affordable(s)
             pick == [T \in SUBSET D |-> Max(T)]
             step == [i \in D |-> [v \in V |-> Taking(v, s[i])]]
  <1>1. D = 1 .. Len(s) /\ Len(s) \in Nat /\ IsFiniteSet(D) /\ <<>> \in V
    BY FS_Interval, NothingAffordable
  <1>2. \A T \in SUBSET D : T # {} => Max(T) \in T
    BY <1>1, MaxIn
  <1>3. \A T \in SUBSET D : T # {} => pick[T] \in T
    BY <1>2
  <1>4. step \in [D -> [V -> V]]
    BY TakingAffordable
  <1>5. PICK h : h \in SetFolds(D, V, <<>>, pick, step)
    <2> HIDE DEF D, V, pick, step
    <2> QED BY <1>1, <1>3, <1>4, SetFold
  <1>6. /\ h \in [SUBSET D -> V]
        /\ \A T \in SUBSET D : h[T] = IF T = {} THEN <<>> ELSE step[pick[T]][h[T \ {pick[T]}]]
    <2> HIDE DEF D, V, pick, step
    <2> QED BY <1>5 DEF SetFolds
  <1>7. ASSUME NEW T \in SUBSET D, T # {} PROVE h[T] = Taking(h[T \ {Max(T)}], s[Max(T)])
    <2>1. Max(T) \in D /\ T \ {Max(T)} \in SUBSET D /\ pick[T] = Max(T)
      BY <1>2, <1>7
    <2>2. h[T \ {Max(T)}] \in V
      <3> HIDE DEF D, V
      <3> QED BY <1>6, <2>1
    <2>3. h[T] = step[Max(T)][h[T \ {Max(T)}]]
      <3> HIDE DEF D, V, step, pick
      <3> QED BY <1>6, <1>7, <2>1
    <2> HIDE DEF V, D
    <2> QED BY <2>1, <2>2, <2>3
  <1>8. h[{}] = <<>> /\ h = [T \in SUBSET D |-> h[T]]
    <2> HIDE DEF D, V, pick, step
    <2> QED BY <1>6
  <1> QED BY <1>7, <1>8, TakesEquation

(* What is cut from a union is affordable. *)
LEMMA FittingFacts ==
  ASSUME NEW union \in Seq(Demands)
  PROVE  Fitting(union) \in Affordable(union)
  <1> DEFINE s == ByPriority(union)
  <1>1. s \in Seq(Demands) /\ KeysIn(s) \in SUBSET KeysIn(union)
    BY SortedFacts
  <1>2. Fitting(union) = (CHOOSE h : Takes(s, h))[DOMAIN s]
    BY DEF Fitting, FoldLeft, MapThenFoldSet, Takes, Taking
  <1> HIDE DEF s
  <1>3. PICK h : Takes(s, h) /\ Fitting(union) = h[DOMAIN s]
    BY <1>1, <1>2, TakesExists
  <1>4. /\ h[{}] = <<>>
        /\ \A T \in SUBSET DOMAIN s : T # {} => h[T] = Taking(h[T \ {Max(T)}], s[Max(T)])
    BY <1>3, TakesEquation
  <1>5. DOMAIN s = 1 .. Len(s) /\ Len(s) \in Nat /\ IsFiniteSet(DOMAIN s)
    BY <1>1, FS_Interval
  <1> DEFINE Bad == {T \in SUBSET DOMAIN s : h[T] \notin Affordable(s)}
  <1>6. ASSUME Bad # {} PROVE FALSE
    <2>1. PICK T \in Bad : \A U \in Bad : U \subseteq T => U = T
      <3>1. Bad \in SUBSET SUBSET DOMAIN s
        OBVIOUS
      <3> HIDE DEF Bad
      <3> QED BY <1>5, <1>6, <3>1, LeastSet
    <2>2. T \in SUBSET DOMAIN s /\ T # {} /\ h[T] \notin Affordable(s)
      BY <1>4, NothingAffordable
    <2>3. Max(T) \in T
      BY <1>5, <2>2, MaxIn
    <2>4. T \ {Max(T)} \in SUBSET DOMAIN s /\ T \ {Max(T)} # T /\ T \ {Max(T)} \subseteq T
      BY <2>2, <2>3
    <2>5. h[T \ {Max(T)}] \in Affordable(s)
      BY <2>1, <2>4
    <2>6. Taking(h[T \ {Max(T)}], s[Max(T)]) \in Affordable(s)
      BY <1>1, <2>2, <2>3, <2>5, TakingAffordable
    <2> QED BY <1>4, <2>2, <2>6
  <1>7. h[DOMAIN s] \in Affordable(s)
    BY <1>6
  <1> QED BY <1>1, <1>3, <1>7 DEF Affordable

(* The union demands what the views do, and no more. *)
LEMMA UnionFacts ==
  ASSUME NEW open \in Seq(Views), NEW wants, \A v \in Views : wants[v] \in Seq(Demands)
  PROVE  /\ Union(open, wants) \in Seq(Demands)
         /\ \A k : k \in KeysIn(Union(open, wants)) <=> \E v \in ToSet(open) : k \in KeysIn(wants[v])
  <1> DEFINE lists == [i \in DOMAIN open |-> wants[open[i]]]
  <1>1. DOMAIN open = 1 .. Len(open) /\ \A i \in DOMAIN open : open[i] \in Views
    OBVIOUS
  <1>2. lists \in Seq(Seq(Demands))
    BY <1>1
  <1>3. DOMAIN lists = DOMAIN open /\ \A i \in DOMAIN open : lists[i] = wants[open[i]]
    OBVIOUS
  <1>4. Union(open, wants) = Merged(FlattenSeq(lists))
    BY DEF Union
  <1> HIDE DEF lists
  <1>5. /\ FlattenSeq(lists) \in Seq(Demands)
        /\ \A x : x \in ToSet(FlattenSeq(lists)) <=> \E i \in DOMAIN open : x \in ToSet(wants[open[i]])
    BY <1>2, <1>3, FlatFacts
  <1>6. \A k : k \in KeysIn(FlattenSeq(lists)) <=> \E i \in DOMAIN open : k \in KeysIn(wants[open[i]])
    BY <1>5 DEF KeysIn
  <1>7. \A k : (\E v \in ToSet(open) : k \in KeysIn(wants[v])) <=> \E i \in DOMAIN open : k \in KeysIn(wants[open[i]])
    BY DEF ToSet
  <1> QED BY <1>4, <1>5, <1>6, <1>7, MergedKeys

-----------------------------------------------------------------------------
(* What the steps of a cache leave alone.                                   *)

(* Readers see no change but in the keys of K, and nothing is wanted that   *)
(* was not.                                                                 *)
Steady(K) == \A k \in Keys \ K : entry'[k].state = entry[k].state /\ entry'[k].value = entry[k].value
NoNewWant ==
  \A k \in ToSet(residents') : entry'[k].desired => k \in ToSet(residents) /\ entry[k].desired

(* Entries that stay alike in what readers and plans look at. *)
LEMMA AlikeSteady ==
  ASSUME IInv, residents' = residents, NEW K,
         \A k \in Keys : /\ entry'[k].desired = entry[k].desired
                         /\ k \notin K => entry'[k].state = entry[k].state /\ entry'[k].value = entry[k].value
  PROVE  Steady(K) /\ NoNewWant
  <1>1. ToSet(residents) \in SUBSET Keys
    BY ResidentFacts
  <1> QED BY <1>1 DEF Steady, NoNewWant

(* Dropping entries shows to the readers of their keys only. *)
LEMMA DropSteady ==
  ASSUME IInv, NEW K \in SUBSET ToSet(residents), Drop(K)
  PROVE  Steady(K) /\ NoNewWant /\ ToSet(residents') = ToSet(residents) \ K
  <1>1. residents \in Seq(Keys) /\ ToSet(residents) \in SUBSET Keys
    BY ResidentFacts DEF IInv, TypeOK
  <1>2. /\ residents' = Omit(residents, K)
        /\ entry' = [k \in Keys |-> IF k \in K THEN Blank ELSE entry[k]]
    BY DEF Drop
  <1>3. ToSet(residents') = ToSet(residents) \ K
    BY <1>1, <1>2, OmitFacts
  <1>4. \A k \in Keys \ K : entry'[k] = entry[k]
    BY <1>2
  <1> QED BY <1>1, <1>3, <1>4 DEF Steady, NoNewWant

(* A load withdrawn leaves what readers and plans look at. *)
LEMMA HaltedWants ==
  ASSUME NEW e \in Entries
  PROVE  Halted(e).desired = e.desired /\ Halted(e).state = e.state /\ Halted(e).value = e.value
  BY DEF Halted, Entries

(* Cancelled loads show to nobody. *)
LEMMA CancelSteady ==
  ASSUME IInv, NEW C, Cancel(C)
  PROVE  Steady({}) /\ NoNewWant
  <1>1. PICK K : /\ entry' = [k \in Keys |-> IF k \in K THEN Halted(entry[k]) ELSE entry[k]]
                 /\ residents' = residents
    BY DEF Cancel
  <1>2. \A k \in Keys : entry[k] \in Entries
    BY EntryFacts
  <1>3. \A k \in Keys : /\ Halted(entry[k]).desired = entry[k].desired
                        /\ Halted(entry[k]).state = entry[k].state /\ Halted(entry[k]).value = entry[k].value
    BY <1>2, HaltedWants
  <1>4. \A k \in Keys : /\ entry'[k].desired = entry[k].desired
                        /\ entry'[k].state = entry[k].state /\ entry'[k].value = entry[k].value
    BY <1>1, <1>3
  <1> QED BY <1>1, <1>4, AlikeSteady

(* Invalidated entries show to the readers of their keys. *)
LEMMA InvalidateSteady ==
  ASSUME IInv, NEW K, NEW dropValue \in BOOLEAN, InvalidateEntries(K, dropValue)
  PROVE  Steady(K) /\ NoNewWant
  <1>1. /\ entry' = [k \in Keys |-> IF k \in K THEN Invalidated(entry[k], dropValue) ELSE entry[k]]
        /\ residents' = residents
    BY DEF InvalidateEntries
  <1>2. \A k \in Keys : entry[k] \in Entries
    BY EntryFacts
  <1>3. ASSUME NEW k \in Keys PROVE Invalidated(entry[k], dropValue).desired = entry[k].desired
    <2>1. PICK e \in Entries : e = entry[k]
      BY <1>2
    <2>2. Halted(e).desired = e.desired
      BY HaltedWants
    <2>3. Invalidated(e, dropValue).desired = Halted(e).desired
      BY DEF Invalidated, Halted, Entries
    <2> QED BY <2>1, <2>2, <2>3
  <1>4. \A k \in Keys : /\ entry'[k].desired = entry[k].desired
                        /\ k \notin K => entry'[k].state = entry[k].state /\ entry'[k].value = entry[k].value
    BY <1>1, <1>3
  <1> QED BY <1>1, <1>4, AlikeSteady

(* A new frame shows to nobody. *)
LEMMA StepSteady ==
  ASSUME IInv, Step
  PROVE  Steady({}) /\ NoNewWant
  <1>1. /\ entry' = [k \in Keys |-> IF k \in ToSet(residents) THEN Aged(k) ELSE entry[k]]
        /\ residents' = residents
    BY DEF Step
  <1>2. \A k \in Keys : \A field \in {"desired", "state", "value"} : Aged(k)[field] = entry[k][field]
    BY AgedFacts
  <1>3. \A k \in Keys : /\ Aged(k).desired = entry[k].desired
                        /\ Aged(k).state = entry[k].state /\ Aged(k).value = entry[k].value
    BY <1>2
  <1>4. \A k \in Keys : /\ entry'[k].desired = entry[k].desired
                        /\ entry'[k].state = entry[k].state /\ entry'[k].value = entry[k].value
    BY <1>1, <1>3
  <1> QED BY <1>1, <1>4, AlikeSteady

(* A completion shows to the readers of its key. *)
LEMMA CompleteSteady ==
  ASSUME IInv, Complete
  PROVE  Steady({NextResult}) /\ NoNewWant
  <1> DEFINE k == NextResult
  <1>1. arrived # <<>> /\ residents' = residents
    BY DEF Complete
  <1>2. k \in Keys
    <2>1. arrived \in Seq(Keys)
      BY DEF IInv, TypeOK
    <2> QED BY <1>1, <2>1 DEF NextResult
  <1> HIDE DEF k
  <1>3. entry \in [Keys -> Entries] /\ entry[k] \in Entries
    BY <1>2 DEF IInv, TypeOK
  <1>4. (\E value : Materialized(k, value)) \/ Failed(k)
    BY DEF Complete, k
  <1>5. entry'[k].desired = entry[k].desired /\ \A j \in Keys \ {k} : entry'[j] = entry[j]
    <2>1. ASSUME NEW value, Materialized(k, value)
          PROVE  entry'[k].desired = entry[k].desired /\ \A j \in Keys \ {k} : entry'[j] = entry[j]
      <3>1. entry' = [entry EXCEPT ![k] =
                        [Taken(entry[k]) EXCEPT !.state = "ready", !.value = value, !.stale = FALSE,
                                                !.error = FALSE, !.attempts = 0, !.age = 0]]
        BY <2>1 DEF Materialized
      <3> QED BY <1>2, <1>3, <3>1 DEF Taken, Entries
    <2>2. CASE Failed(k)
      <3>1. PICK error \in BOOLEAN :
              entry' = [entry EXCEPT ![k] =
                [Taken(entry[k]) EXCEPT !.error = error, !.stale = TRUE,
                   !.backoff = Min({MaxDelay, Delay * 2 ^ Min({20, entry[k].attempts - 1})}),
                   !.state = IF @ = "ready" THEN @ ELSE "error"]]
        BY <2>2 DEF Failed
      <3> QED BY <1>2, <1>3, <3>1 DEF Taken, Entries
    <2> QED BY <1>4, <2>1, <2>2
  <1>6. \A j \in Keys : /\ entry'[j].desired = entry[j].desired
                        /\ j \notin {k} => entry'[j].state = entry[j].state /\ entry'[j].value = entry[j].value
    BY <1>5
  <1> QED BY <1>1, <1>6, AlikeSteady DEF k

(* A load preempted shows to nobody. *)
LEMMA PreemptSteady ==
  ASSUME IInv, Preempt
  PROVE  Steady({}) /\ NoNewWant
  <1>1. PICK worst \in Speculative : entry' = [entry EXCEPT ![worst] = Halted(entry[worst])]
    BY DEF Preempt
  <1>2. residents' = residents /\ worst \in Keys
    BY ResidentFacts DEF Preempt, Speculative
  <1>3. entry \in [Keys -> Entries] /\ entry[worst] \in Entries
    BY <1>2 DEF IInv, TypeOK
  <1>4. /\ Halted(entry[worst]).desired = entry[worst].desired
        /\ Halted(entry[worst]).state = entry[worst].state
        /\ Halted(entry[worst]).value = entry[worst].value
    BY <1>3, HaltedWants
  <1>5. \A k \in Keys : /\ entry'[k].desired = entry[k].desired
                        /\ entry'[k].state = entry[k].state /\ entry'[k].value = entry[k].value
    BY <1>1, <1>2, <1>3, <1>4
  <1> QED BY <1>2, <1>5, AlikeSteady

(* A load started or declined shows to nobody. *)
LEMMA StartSteady ==
  ASSUME IInv, Start
  PROVE  Steady({}) /\ NoNewWant
  <1>1. PICK k \in Candidates : Decline(k) \/ StartLater(k) \/ StartNow(k)
    BY DEF Start
  <1>2. residents' = residents /\ k \in Keys
    BY ResidentFacts DEF Start, Candidates
  <1>3. entry \in [Keys -> Entries] /\ entry[k] \in Entries /\ entry[k].desired
    BY <1>2, StartableFacts DEF IInv, TypeOK
  <1>4. PICK e : /\ entry' = [entry EXCEPT ![k] = e]
                 /\ e.desired = entry[k].desired /\ e.state = entry[k].state /\ e.value = entry[k].value
    <2>1. CASE Decline(k)
      <3>1. entry' = [entry EXCEPT ![k] = [Halted(entry[k]) EXCEPT !.stale = TRUE, !.declined = TRUE]]
        BY <2>1 DEF Decline
      <3>2. PICK h : h = Halted(entry[k])
        OBVIOUS
      <3>3. h.desired = entry[k].desired /\ h.state = entry[k].state /\ h.value = entry[k].value
        BY <1>3, <3>2, HaltedWants
      <3>4. /\ [h EXCEPT !.stale = TRUE, !.declined = TRUE].desired = h.desired
            /\ [h EXCEPT !.stale = TRUE, !.declined = TRUE].state = h.state
            /\ [h EXCEPT !.stale = TRUE, !.declined = TRUE].value = h.value
        BY <1>3, <3>2 DEF Halted, Entries
      <3> QED BY <3>1, <3>2, <3>3, <3>4
    <2>2. CASE StartLater(k)
      <3>1. entry' = [entry EXCEPT ![k] = Started(k, "none")]
        BY <2>2 DEF StartLater
      <3>2. /\ Started(k, "none").desired /\ Started(k, "none").state = entry[k].state
            /\ Started(k, "none").value = entry[k].value /\ Started(k, "none") \in Entries
        BY StartedFacts
      <3>3. Started(k, "none").desired = entry[k].desired
        BY <1>3, <3>2 DEF Entries
      <3> QED BY <3>1, <3>2, <3>3
    <2>3. CASE StartNow(k)
      <3>1. PICK result \in {"none", "ok", "failed"} : entry' = [entry EXCEPT ![k] = Started(k, result)]
        BY <2>3 DEF StartNow
      <3>2. /\ Started(k, result).desired /\ Started(k, result).state = entry[k].state
            /\ Started(k, result).value = entry[k].value /\ Started(k, result) \in Entries
        BY StartedFacts
      <3>3. Started(k, result).desired = entry[k].desired
        BY <1>3, <3>2 DEF Entries
      <3> QED BY <3>1, <3>2, <3>3
    <2> QED BY <1>1, <2>1, <2>2, <2>3
  <1>5. \A j \in Keys : /\ entry'[j].desired = entry[j].desired
                        /\ entry'[j].state = entry[j].state /\ entry'[j].value = entry[j].value
    BY <1>2, <1>3, <1>4
  <1> QED BY <1>2, <1>5, AlikeSteady

(* An answer shows to nobody before it is materialized. *)
LEMMA AnswerSteady ==
  ASSUME IInv, NEW f \in flights, Answer(f)
  PROVE  Steady({}) /\ NoNewWant
  <1>1. entry \in [Keys -> Entries] /\ f.key \in Keys /\ entry[f.key] \in Entries
    BY DEF IInv, TypeOK, Flights
  <1>2. residents' = residents
    BY DEF Answer
  <1>3. \A k \in Keys : /\ entry'[k].desired = entry[k].desired
                        /\ entry'[k].state = entry[k].state /\ entry'[k].value = entry[k].value
    <2>1. ASSUME NEW result, entry' = [entry EXCEPT ![f.key].result = result]
          PROVE  \A k \in Keys : /\ entry'[k].desired = entry[k].desired
                                 /\ entry'[k].state = entry[k].state /\ entry'[k].value = entry[k].value
      <3>1. PICK e : e = [entry[f.key] EXCEPT !.result = result]
        OBVIOUS
      <3>2. e.desired = entry[f.key].desired /\ e.state = entry[f.key].state /\ e.value = entry[f.key].value
        BY <1>1, <3>1 DEF Entries
      <3>3. entry'[f.key] = e /\ \A k \in Keys \ {f.key} : entry'[k] = entry[k]
        BY <1>1, <2>1, <3>1
      <3> QED BY <3>2, <3>3
    <2>2. entry' = entry \/ \E result : entry' = [entry EXCEPT ![f.key].result = result]
      BY DEF Answer
    <2> QED BY <2>1, <2>2
  <1> QED BY <1>2, <1>3, AlikeSteady

(* An entry that is new shows as pending, as no entry does. *)
LEMMA AdmitSteady ==
  ASSUME IInv, Admit
  PROVE  LET k == Head(todo).key
         IN  /\ Steady({}) /\ k \in Keys /\ k \notin ToSet(residents) /\ entry'[k].desired
             /\ ToSet(residents') = ToSet(residents) \cup {k}
             /\ \A j \in Keys \ {k} : entry'[j] = entry[j]
  <1> DEFINE d == Head(todo)
             k == d.key
             e == [Blank EXCEPT !.desired = TRUE, !.pin = d.pin, !.priority = d.priority]
  <1>1. /\ todo # <<>> /\ k \notin ToSet(residents)
        /\ residents' = Append(residents, k) /\ entry' = [entry EXCEPT ![k] = e]
    BY DEF Admit, Admitting
  <1>2. d \in Demands
    <2>1. todo \in Seq(Demands)
      BY DEF IInv, TypeOK
    <2> QED BY <1>1, <2>1, TailFacts
  <1>3. e.desired /\ e.state = "pending" /\ e.value = 0
    BY DEF Blank
  <1>4. k \in Keys /\ entry \in [Keys -> Entries] /\ residents \in Seq(Keys)
    BY <1>2 DEF IInv, TypeOK, Demands
  <1>5. entry[k].state = "pending" /\ entry[k].value = 0
    BY <1>1, <1>4 DEF IInv, ResidentsOK, Blank
  <1> HIDE DEF e, k
  <1>6. entry'[k] = e /\ \A j \in Keys \ {k} : entry'[j] = entry[j]
    BY <1>1, <1>4
  <1>7. Steady({})
    BY <1>3, <1>5, <1>6 DEF Steady
  <1>8. ToSet(residents') = ToSet(residents) \cup {k}
    BY <1>1, <1>4, MembersAppend
  <1> QED BY <1>1, <1>3, <1>4, <1>6, <1>7, <1>8 DEF k

(* What a plan does not demand is neither desired nor pinned. *)
LEMMA MarkedWants ==
  ASSUME IInv, NEW k \in Keys, NEW demands \in SUBSET Demands
  PROVE  LET m == Marked(k, demands)
         IN  /\ m.state = entry[k].state /\ m.value = entry[k].value
             /\ (\E d \in demands : d.key = k) => m.desired
             /\ ~(\E d \in demands : d.key = k) => ~m.desired /\ ~m.pin
  <1>1. entry[k] \in Entries
    BY EntryFacts
  <1>2. /\ Marked(k, demands).state = entry[k].state /\ Marked(k, demands).value = entry[k].value
        /\ (\E d \in demands : d.key = k) => Marked(k, demands).desired
    BY MarkedFacts
  <1>3. ASSUME ~\E d \in demands : d.key = k
        PROVE  ~Marked(k, demands).desired /\ ~Marked(k, demands).pin
    <2>1. PICK u : u = [entry[k] EXCEPT !.desired = FALSE, !.pin = FALSE]
      OBVIOUS
    <2>2. u \in Entries /\ ~u.desired /\ ~u.pin
      BY <1>1, <2>1 DEF Entries
    <2>3. Marked(k, demands) = IF u.busy THEN Halted(u) ELSE u
      BY <1>3, <2>1 DEF Marked
    <2>4. Halted(u).desired = u.desired /\ Halted(u).pin = u.pin
      BY <2>2 DEF Halted, Entries
    <2> QED BY <2>2, <2>3, <2>4
  <1> QED BY <1>2, <1>3

(* A view is open when its collection lists it. *)
LEMMA OpenMember ==
  ASSUME NEW v \in Views, views \in [Caches -> Seq(Views)]
  PROVE  IsOpen(v) <=> v \in ToSet(views[CollectionOf[v]])
  <1>1. views[CollectionOf[v]] \in Seq(Views)
    BY ViewAssumption
  <1> QED BY <1>1 DEF IsOpen, Contains, ToSet

(* The same in the next state. *)
LEMMA OpenMemberNext ==
  ASSUME NEW v \in Views, views' \in [Caches -> Seq(Views)]
  PROVE  IsOpen(v)' <=> v \in ToSet(views'[CollectionOf[v]])
  <1>1. views'[CollectionOf[v]] \in Seq(Views)
    BY ViewAssumption
  <1> QED BY <1>1 DEF IsOpen, Contains, ToSet

(* A list without members has no keys. *)
LEMMA NoKeys == KeysIn(<<>>) = {}
  BY DEF KeysIn, ToSet

(* What is demanded is in the plan of an open view of the key's collection. *)
LEMMA DemandedFacts ==
  ASSUME ViewTypeOK, OpenOK, NEW k \in Demanded
  PROVE  /\ k \in Keys
         /\ \E v \in Views : /\ k \in KeysIn(demand[v]) /\ IsOpen(v) /\ CollectionOf[v] = HomeOf[k]
                             /\ v \in ToSet(views[CollectionOf[v]])
  <1>1. PICK v \in Views : k \in KeysIn(demand[v])
    BY DEF Demanded
  <1>2. demand[v] \in Seq(Demands) /\ demand[v] # <<>>
    BY <1>1, NoKeys DEF ViewTypeOK
  <1>3. IsOpen(v) /\ HomeOf[k] = CollectionOf[v]
    BY <1>1, <1>2 DEF OpenOK
  <1>4. v \in ToSet(views[CollectionOf[v]])
    BY <1>3, OpenMember DEF ViewTypeOK
  <1>5. k \in Keys
    BY <1>1, <1>2, KeysOfList
  <1> QED BY <1>1, <1>3, <1>4, <1>5

(* Outside an admission nothing is left to look at. *)
LEMMA NothingTodo ==
  ASSUME IInv, pc # "admit"
  PROVE  KeysIn(todo) = {}
  <1>1. ToSet(todo) = {}
    BY DEF IInv, ResidentsOK
  <1> QED BY <1>1 DEF KeysIn

(* Nothing is open, demanded or shown at first. *)
LEMMA ViewInitHolds ==
  ASSUME ViewInit
  PROVE  ViewInv
  <1>1. IInv
    BY InitHolds DEF ViewInit
  <1>2. /\ views = [c \in Caches |-> <<>>] /\ demand = [v \in Views |-> <<>>]
        /\ lanes = {} /\ dirty = {} /\ told = {} /\ shown = [r \in Readers |-> Unread]
        /\ pc = "idle" /\ wanted = <<>> /\ residents = <<>> /\ todo = <<>>
    BY DEF ViewInit, Init
  <1>3. /\ <<>> \in Seq(Views) /\ <<>> \in Seq(Demands) /\ ToSet(<<>>) = {}
        /\ \A x : ~Contains(<<>>, x)
    BY DEF ToSet, Contains
  <1>4. Demanded = {}
    BY <1>2, NoKeys DEF Demanded
  <1>5. ViewTypeOK
    BY <1>2, <1>3 DEF ViewTypeOK
  <1>6. OpenOK
    BY <1>2, <1>3, NoKeys, ViewAssumption DEF OpenOK
  <1>7. RestOK /\ LanesOK /\ PlanOK
    BY <1>2, <1>4 DEF RestOK, LanesOK, PlanOK
  <1>8. ReadOK
    <2>1. ASSUME NEW r \in Readers PROVE ~IsOpen(r[1])
      BY <1>2, <1>3, ViewAssumption DEF IsOpen, Readers
    <2> QED BY <1>2, <2>1 DEF ReadOK, Read
  <1>9. WantOK
    BY <1>2, <1>3, NoKeys DEF WantOK
  <1> QED BY <1>1, <1>5, <1>6, <1>7, <1>8, <1>9 DEF ViewInv

-----------------------------------------------------------------------------
(* Readers hear of the keys a cache has changed. *)
LEMMA ReadKept ==
  ASSUME ViewInv, NEW K,
         views' = views, demand' = demand, lanes' = lanes, shown' = shown,
         told \in SUBSET told', dirty \in SUBSET dirty', K \cap lanes \in SUBSET dirty', Steady(K)
  PROVE  ReadOK'
  <1> SUFFICES ASSUME NEW r \in Readers
               PROVE  r \in told' \/ (r[2] \in dirty' \cap lanes' /\ shown'[r].lane) \/ shown'[r] = Read(r)'
    BY DEF ReadOK
  <1>1. r[1] \in Views /\ r[2] \in Keys
    BY DEF Readers
  <1>2. IsOpen(r[1])' <=> IsOpen(r[1])
    BY DEF IsOpen
  <1>3. CASE r \in told \/ (r[2] \in dirty \cap lanes /\ shown[r].lane)
    BY <1>3
  <1>4. CASE shown[r] = Read(r) /\ (~IsOpen(r[1]) \/ r[2] \notin KeysIn(demand[r[1]]))
    BY <1>2, <1>4 DEF Read
  <1>5. CASE shown[r] = Read(r) /\ IsOpen(r[1]) /\ r[2] \in KeysIn(demand[r[1]])
    <2>1. r[2] \in lanes /\ Read(r).lane
      BY <1>1, <1>5 DEF ViewInv, LanesOK, Demanded, Read
    <2>2. CASE r[2] \in K
      BY <1>5, <2>1, <2>2
    <2>3. CASE r[2] \notin K
      <3>1. entry'[r[2]].state = entry[r[2]].state /\ entry'[r[2]].value = entry[r[2]].value
        BY <1>1, <2>3 DEF Steady
      <3>2. Read(r)' = Read(r)
        BY <1>2, <1>5, <3>1 DEF Read
      <3> QED BY <1>5, <3>2
    <2> QED BY <2>2, <2>3
  <1> QED BY <1>3, <1>4, <1>5 DEF ViewInv, ReadOK

(* What nobody wanted is wanted no more, while demands stay as they are. *)
LEMMA WantKept ==
  ASSUME ViewInv, demand' = demand, NoNewWant, KeysIn(todo)' \in SUBSET KeysIn(todo)
  PROVE  WantOK'
  <1>1. Demanded' = Demanded
    BY DEF Demanded
  <1> QED BY <1>1 DEF ViewInv, WantOK, NoNewWant

(* The demands and lanes that stay what they are stay in order. *)
LEMMA ViewsKept ==
  ASSUME ViewInv, views' = views, demand' = demand, lanes' = lanes
  PROVE  /\ wanted' \in Seq(Demands) => ViewTypeOK'
         /\ OpenOK' /\ LanesOK'
  <1>1. \A v \in Views : IsOpen(v)' <=> IsOpen(v)
    BY DEF IsOpen
  <1>2. Demanded' = Demanded
    BY DEF Demanded
  <1> QED BY <1>1, <1>2 DEF ViewInv, ViewTypeOK, OpenOK, LanesOK

(* The demands of the plan come from the views that stay open. *)
LEMMA PlannedFacts ==
  ASSUME NEW c \in Caches, NEW open \in Seq(Views), NEW wants \in [Views -> Seq(Demands)],
         NEW notified, ReconcileViews(c, open, wants, notified)
  PROVE  \E plan \in Seq(Demands) :
           /\ Reconcile(c, plan) /\ plan = Fitting(Union(open, wants))
           /\ wanted' = Merged(plan) /\ todo' = Merged(plan) /\ Merged(plan) \in Seq(Demands)
           /\ KeysIn(Merged(plan)) = KeysIn(plan)
           /\ TotalCost(KeysIn(plan)) <= MaxCost /\ Cardinality(KeysIn(plan)) <= MaxEntries
           /\ \A k \in KeysIn(plan) : k \in KeysIn(Union(open, wants)) /\ HomeOf[k] = c
  <1> DEFINE union == Union(open, wants)
             plan == Fitting(union)
  <1>1. union \in Seq(Demands)
    BY UnionFacts
  <1>2. /\ plan \in Seq(Demands) /\ TotalCost(KeysIn(plan)) <= MaxCost
        /\ Cardinality(KeysIn(plan)) <= MaxEntries /\ KeysIn(plan) \in SUBSET KeysIn(union)
    BY <1>1, FittingFacts DEF Affordable
  <1>3. Reconcile(c, plan)
    BY DEF ReconcileViews
  <1>4. Merged(plan) \in Seq(Demands) /\ KeysIn(Merged(plan)) = KeysIn(plan)
    BY <1>2, MergedKeys
  <1>5. /\ wanted' = Merged(plan) /\ todo' = Merged(plan)
        /\ \A d \in ToSet(Merged(plan)) : HomeOf[d.key] = c
    BY <1>3 DEF Reconcile
  <1>6. \A k \in KeysIn(Merged(plan)) : HomeOf[k] = c
    BY <1>5 DEF KeysIn
  <1> QED BY <1>2, <1>3, <1>4, <1>5, <1>6

(* What a plan marks is desired, and readers see no change. *)
LEMMA ReconcileMarks ==
  ASSUME IInv, NEW c \in Caches, NEW plan \in Seq(Demands), Reconcile(c, plan)
  PROVE  /\ residents' = residents /\ pc' = "admit" /\ pc = "idle" /\ Steady({})
         /\ \A k \in Resident(c) : /\ entry'[k].desired <=> k \in KeysIn(Merged(plan))
                                   /\ ~entry'[k].desired => ~entry'[k].pin
         /\ \A k \in Keys \ Resident(c) : entry'[k] = entry[k]
  <1> DEFINE demands == ToSet(Merged(plan))
  <1>1. /\ residents' = residents /\ pc' = "admit" /\ pc = "idle"
        /\ entry' = [k \in Keys |-> IF k \in Resident(c) THEN Marked(k, demands) ELSE entry[k]]
    BY DEF Reconcile
  <1>2. demands \in SUBSET Demands
    BY MergedKeys, MembersFinite
  <1>3. \A k : k \in KeysIn(Merged(plan)) <=> \E d \in demands : d.key = k
    BY DEF KeysIn
  <1> HIDE DEF demands
  <1>4. \A k \in Keys : LET m == Marked(k, demands)
                        IN  /\ m.state = entry[k].state /\ m.value = entry[k].value
                            /\ (\E d \in demands : d.key = k) => m.desired
                            /\ ~(\E d \in demands : d.key = k) => ~m.desired /\ ~m.pin
    BY <1>2, MarkedWants
  <1>5. \A k \in Resident(c) : k \in Keys /\ entry'[k] = Marked(k, demands)
    BY <1>1, ResidentFacts
  <1>6. \A k \in Resident(c) : /\ entry'[k].desired <=> k \in KeysIn(Merged(plan))
                               /\ ~entry'[k].desired => ~entry'[k].pin
    BY <1>3, <1>4, <1>5
  <1>7. \A k \in Keys \ Resident(c) : entry'[k] = entry[k]
    BY <1>1
  <1>8. Steady({})
    BY <1>4, <1>5, <1>7 DEF Steady
  <1> QED BY <1>1, <1>6, <1>7, <1>8

(* A collection is planned anew for the views that stay open: of those who  *)
(* are not notified, neither the keys nor whether they are open changes.    *)
Replans(c, open, wants, notified) ==
  /\ ReconcileViews(c, open, wants, notified)
  /\ open \in Seq(Views) /\ wants \in [Views -> Seq(Demands)]
  /\ views' \in [Caches -> Seq(Views)] /\ views'[c] = open
  /\ \A d \in Caches \ {c} : views'[d] = views[d]
  /\ \A v \in ToSet(open) : CollectionOf[v] = c
  /\ \A v \in Views : CollectionOf[v] # c => wants[v] = demand[v]
  /\ \A v \in Views : CollectionOf[v] = c /\ v \notin ToSet(open) => wants[v] = <<>>
  /\ \A v \in Views : \A k \in KeysIn(wants[v]) : HomeOf[k] = CollectionOf[v]
  /\ \A r \in Readers \ notified : /\ KeysIn(wants[r[1]]) = KeysIn(demand[r[1]])
                                   /\ IsOpen(r[1])' <=> IsOpen(r[1])

(* Then every reader shows what it would read, or will be told. *)
LEMMA ReplansKeeps ==
  ASSUME ViewInv, NEW c \in Caches, NEW open, NEW wants, NEW notified,
         Replans(c, open, wants, notified)
  PROVE  /\ IInv' /\ ViewTypeOK' /\ OpenOK' /\ LanesOK' /\ ReadOK' /\ WantOK' /\ PlanOK'
         /\ pc = "idle"
  <1>0. /\ ReconcileViews(c, open, wants, notified)
        /\ open \in Seq(Views) /\ wants \in [Views -> Seq(Demands)]
        /\ views' \in [Caches -> Seq(Views)] /\ views'[c] = open
        /\ \A d \in Caches \ {c} : views'[d] = views[d]
        /\ \A v \in ToSet(open) : CollectionOf[v] = c
        /\ \A v \in Views : CollectionOf[v] # c => wants[v] = demand[v]
        /\ \A v \in Views : CollectionOf[v] = c /\ v \notin ToSet(open) => wants[v] = <<>>
        /\ \A v \in Views : \A k \in KeysIn(wants[v]) : HomeOf[k] = CollectionOf[v]
        /\ \A r \in Readers \ notified : /\ KeysIn(wants[r[1]]) = KeysIn(demand[r[1]])
                                         /\ IsOpen(r[1])' <=> IsOpen(r[1])
    BY DEF Replans
  <1> DEFINE union == Union(open, wants)
             gone == {k \in lanes : HomeOf[k] = c} \ KeysIn(union)
  <1>1. PICK plan \in Seq(Demands) :
          /\ Reconcile(c, plan) /\ plan = Fitting(union)
          /\ wanted' = Merged(plan) /\ todo' = Merged(plan) /\ Merged(plan) \in Seq(Demands)
          /\ KeysIn(Merged(plan)) = KeysIn(plan)
          /\ TotalCost(KeysIn(plan)) <= MaxCost /\ Cardinality(KeysIn(plan)) <= MaxEntries
          /\ \A k \in KeysIn(plan) : k \in KeysIn(union) /\ HomeOf[k] = c
    BY <1>0, PlannedFacts
  <1>2. /\ demand' = wants /\ lanes' = (lanes \ gone) \cup KeysIn(union) /\ shown' = shown
        /\ \E O : dirty' = dirty \cup O
        /\ told' = told \cup notified \cup {r \in Readers : r[2] \in gone /\ shown[r].lane}
    BY <1>0 DEF ReconcileViews
  <1>3. /\ residents' = residents /\ pc' = "admit" /\ pc = "idle" /\ Steady({})
        /\ \A k \in Resident(c) : /\ entry'[k].desired <=> k \in KeysIn(Merged(plan))
                                  /\ ~entry'[k].desired => ~entry'[k].pin
        /\ \A k \in Keys \ Resident(c) : entry'[k] = entry[k]
    BY <1>1, ReconcileMarks DEF ViewInv
  <1>4. /\ union \in Seq(Demands) /\ KeysIn(union) \in SUBSET Keys
        /\ \A k : k \in KeysIn(union) <=> \E v \in ToSet(open) : k \in KeysIn(wants[v])
    BY <1>0, UnionFacts, KeysOfList
  <1>5. ToSet(open) \in SUBSET Views
    BY <1>0, MembersFinite
  <1>6. IInv'
    BY <1>1, ReconcileKeeps DEF ViewInv
  <1>7. /\ views \in [Caches -> Seq(Views)] /\ demand \in [Views -> Seq(Demands)]
        /\ lanes \in SUBSET Keys /\ CollectionOf \in [Views -> Caches]
    BY ViewAssumption DEF ViewInv, ViewTypeOK
  <1> HIDE DEF union
  <1>8. ViewTypeOK'
    BY <1>0, <1>1, <1>2, <1>4, <1>7 DEF ViewTypeOK
  <1>9. OpenOK'
    <2>1. \A d \in Caches : \A v \in ToSet(views'[d]) : CollectionOf[v] = d
      BY <1>0 DEF ViewInv, OpenOK
    <2>2. ASSUME NEW v \in Views, ~IsOpen(v)' PROVE wants[v] = <<>>
      <3>1. v \notin ToSet(views'[CollectionOf[v]])
        BY <1>0, <2>2, OpenMemberNext
      <3>2. CASE CollectionOf[v] = c
        BY <1>0, <3>1, <3>2
      <3>3. CASE CollectionOf[v] # c
        <4>1. v \notin ToSet(views[CollectionOf[v]])
          BY <1>0, <1>7, <3>1, <3>3
        <4>2. ~IsOpen(v)
          BY <1>7, <4>1, OpenMember
        <4> QED BY <1>0, <3>3, <4>2 DEF ViewInv, OpenOK
      <3> QED BY <3>2, <3>3
    <2> QED BY <1>0, <1>2, <2>1, <2>2 DEF OpenOK
  <1>10. \A k : k \in Demanded /\ HomeOf[k] # c => k \in Demanded'
    <2> SUFFICES ASSUME NEW k \in Demanded, HomeOf[k] # c
                 PROVE  \E v \in Views : k \in KeysIn(wants[v])
      BY <1>2 DEF Demanded
    <2>1. PICK v \in Views : k \in KeysIn(demand[v]) /\ CollectionOf[v] = HomeOf[k]
      BY DemandedFacts DEF ViewInv
    <2> QED BY <1>0, <2>1
  <1>11. KeysIn(union) \in SUBSET Demanded'
    BY <1>2, <1>4, <1>5 DEF Demanded
  <1>12. LanesOK'
    <2> SUFFICES ASSUME NEW v \in Views, NEW k \in KeysIn(wants[v])
                 PROVE  k \in lanes'
      BY <1>2 DEF LanesOK, Demanded
    <2>1. CASE CollectionOf[v] = c
      <3>1. v \in ToSet(open)
        BY <1>0, <2>1, NoKeys
      <3> QED BY <1>2, <1>4, <3>1
    <2>2. CASE CollectionOf[v] # c
      <3>1. k \in KeysIn(demand[v]) /\ HomeOf[k] # c
        BY <1>0, <2>2
      <3>2. k \in lanes
        BY <3>1 DEF ViewInv, LanesOK, Demanded
      <3> QED BY <1>2, <3>1, <3>2
    <2> QED BY <2>1, <2>2
  <1>13. ReadOK'
    <2> SUFFICES ASSUME NEW r \in Readers, r \notin told'
                 PROVE  (r[2] \in dirty' \cap lanes' /\ shown'[r].lane) \/ shown'[r] = Read(r)'
      BY DEF ReadOK
    <2>1. r \notin told /\ r \notin notified /\ ~(r[2] \in gone /\ shown[r].lane)
      BY <1>2
    <2>2. r[1] \in Views /\ r[2] \in Keys
      BY DEF Readers
    <2>3. CASE r[2] \in dirty \cap lanes /\ shown[r].lane
      BY <1>2, <2>1, <2>3
    <2>4. CASE shown[r] = Read(r)
      <3>1. KeysIn(demand'[r[1]]) = KeysIn(demand[r[1]]) /\ (IsOpen(r[1])' <=> IsOpen(r[1]))
        <4>1. KeysIn(wants[r[1]]) = KeysIn(demand[r[1]])
          BY <1>0, <2>1
        <4>2. IsOpen(r[1])' <=> IsOpen(r[1])
          BY <2>1 DEF Replans
        <4> QED BY <1>2, <4>1, <4>2
      <3>2. entry'[r[2]].state = entry[r[2]].state /\ entry'[r[2]].value = entry[r[2]].value
        BY <1>3, <2>2 DEF Steady
      <3>3. Read(r)' = Read(r)
        BY <3>1, <3>2 DEF Read
      <3> QED BY <1>2, <2>4, <3>3
    <2> QED BY <2>1, <2>3, <2>4 DEF ViewInv, ReadOK
  <1>14. WantOK'
    <2>1. ASSUME NEW k \in ToSet(residents), entry'[k].desired
          PROVE  k \in Demanded'
      <3>1. k \in Keys
        BY ResidentFacts DEF ViewInv
      <3>2. CASE HomeOf[k] = c
        <4>1. k \in Resident(c)
          BY <3>2 DEF Resident
        <4>2. k \in KeysIn(plan)
          BY <1>1, <1>3, <2>1, <4>1
        <4> QED BY <1>1, <1>11, <4>2
      <3>3. CASE HomeOf[k] # c
        <4>1. entry'[k] = entry[k]
          BY <1>3, <3>1, <3>3 DEF Resident
        <4>2. k \in Demanded
          BY <2>1, <4>1 DEF ViewInv, WantOK
        <4> QED BY <1>10, <3>3, <4>2
      <3> QED BY <3>2, <3>3
    <2>2. KeysIn(todo)' = KeysIn(plan)
      BY <1>1 DEF KeysIn
    <2>3. \A k \in KeysIn(plan) : k \in Demanded'
      BY <1>1, <1>11
    <2>4. ToSet(residents)' = ToSet(residents)
      BY <1>3
    <2> QED BY <2>1, <2>2, <2>3, <2>4 DEF WantOK
  <1>15. PlanOK'
    <2>1. KeysIn(wanted)' = KeysIn(plan) /\ KeysIn(todo)' = KeysIn(plan)
      BY <1>1 DEF KeysIn
    <2>2. Resident(c)' = Resident(c)
      BY <1>3 DEF Resident
    <2>3. /\ \A k \in KeysIn(wanted)' : HomeOf[k] = c
          /\ TotalCost(KeysIn(wanted))' <= MaxCost /\ Cardinality(KeysIn(wanted))' <= MaxEntries
      BY <1>1, <2>1
    <2>4. /\ \A k \in KeysIn(wanted)' : k \in ToSet(residents)' \/ k \in KeysIn(todo)'
          /\ KeysIn(todo)' \in SUBSET KeysIn(wanted)'
      BY <2>1
    <2>5. \A k \in Resident(c)' : /\ entry'[k].desired <=> k \in KeysIn(wanted)'
                                  /\ ~entry'[k].desired => ~entry'[k].pin
      BY <1>1, <1>3, <2>1, <2>2
    <2>6. PlanOf(c)'
      BY <2>3, <2>4, <2>5 DEF PlanOf
    <2> QED BY <2>6 DEF PlanOK
  <1> QED BY <1>3, <1>6, <1>8, <1>9, <1>12, <1>13, <1>14, <1>15

(* Every view is asked before any is changed. *)
LEMMA PlanKeeps ==
  ASSUME ViewInv, Plan
  PROVE  ViewInv'
  <1> DEFINE c == turn
             mine == ToSet(views[c])
             Wants(asks) == [v \in Views |-> IF v \in mine THEN Merged(asks[v]) ELSE demand[v]]
             Hear(wants) == {r \in Readers : r[1] \in ChangedViews(mine, wants)}
  <1>1. PICK asks \in [mine -> UNION {Asks[v] : v \in mine}] :
          /\ \A v \in mine : asks[v] \in Asks[v]
          /\ ReconcileViews(c, views[c], Wants(asks), Hear(Wants(asks)))
    BY DEF Plan
  <1>2. c \in Caches /\ views' = views /\ at' = "plan"
    BY DEF Plan
  <1>3. /\ views \in [Caches -> Seq(Views)] /\ demand \in [Views -> Seq(Demands)]
        /\ views[c] \in Seq(Views) /\ mine \in SUBSET Views
        /\ \A v \in mine : CollectionOf[v] = c
    <2>1. views \in [Caches -> Seq(Views)] /\ demand \in [Views -> Seq(Demands)] /\ views[c] \in Seq(Views)
      BY <1>2 DEF ViewInv, ViewTypeOK
    <2>2. mine \in SUBSET Views
      BY <2>1, MembersFinite
    <2> QED BY <1>2, <2>1, <2>2 DEF ViewInv, OpenOK
  <1>4. ASSUME NEW v \in mine
        PROVE  /\ Merged(asks[v]) \in Seq(Demands)
               /\ \A k \in KeysIn(Merged(asks[v])) : HomeOf[k] = c
    <2>1. PICK ask \in Asks[v] : ask = asks[v]
      BY <1>1
    <2>2. /\ v \in Views /\ CollectionOf[v] = c
          /\ \A i \in DOMAIN ask : HomeOf[ask[i].key] = c
      BY <1>3, ViewAssumption
    <2>3. ask \in Seq(Demands)
      BY <2>1, <2>2, ViewAssumption
    <2>4. \A k \in KeysIn(ask) : HomeOf[k] = c
      BY <2>2, <2>3, KeysOfList
    <2> QED BY <2>1, <2>3, <2>4, MergedKeys
  <1>5. PICK wants : wants = Wants(asks)
    OBVIOUS
  <1>6. /\ wants \in [Views -> Seq(Demands)]
        /\ \A v \in mine : wants[v] = Merged(asks[v])
        /\ \A v \in Views \ mine : wants[v] = demand[v]
    BY <1>3, <1>4, <1>5
  <1>7. ReconcileViews(c, views[c], wants, Hear(wants))
    BY <1>1, <1>5
  <1> HIDE DEF Wants
  <1>8. \A v \in Views : CollectionOf[v] # c => wants[v] = demand[v]
    BY <1>3, <1>6
  <1>9. \A v \in Views : CollectionOf[v] = c /\ v \notin mine => wants[v] = <<>>
    <2> SUFFICES ASSUME NEW v \in Views, CollectionOf[v] = c, v \notin mine
                 PROVE  wants[v] = <<>>
      OBVIOUS
    <2>1. ~IsOpen(v)
      BY <1>3, OpenMember
    <2> QED BY <1>6, <2>1 DEF ViewInv, OpenOK
  <1>10. \A v \in Views : \A k \in KeysIn(wants[v]) : HomeOf[k] = CollectionOf[v]
    BY <1>3, <1>4, <1>6 DEF ViewInv, OpenOK
  <1>11. \A r \in Readers \ Hear(wants) : /\ KeysIn(wants[r[1]]) = KeysIn(demand[r[1]])
                                          /\ IsOpen(r[1])' <=> IsOpen(r[1])
    <2> SUFFICES ASSUME NEW r \in Readers, r \notin Hear(wants)
                 PROVE  KeysIn(wants[r[1]]) = KeysIn(demand[r[1]])
      BY <1>2 DEF IsOpen
    <2>1. r[1] \in Views
      BY DEF Readers
    <2> QED BY <1>6, <2>1 DEF ChangedViews
  <1>12. /\ IInv' /\ ViewTypeOK' /\ OpenOK' /\ LanesOK' /\ ReadOK' /\ WantOK' /\ PlanOK'
    <2>1. PICK open, notified : open = views[c] /\ notified = Hear(wants)
      OBVIOUS
    <2>2. /\ open \in Seq(Views) /\ ReconcileViews(c, open, wants, notified)
          /\ views' \in [Caches -> Seq(Views)] /\ views'[c] = open
          /\ \A d \in Caches \ {c} : views'[d] = views[d]
      BY <1>2, <1>3, <1>7, <2>1
    <2>3. /\ \A v \in ToSet(open) : CollectionOf[v] = c
          /\ \A v \in Views : CollectionOf[v] = c /\ v \notin ToSet(open) => wants[v] = <<>>
          /\ \A r \in Readers \ notified : /\ KeysIn(wants[r[1]]) = KeysIn(demand[r[1]])
                                           /\ IsOpen(r[1])' <=> IsOpen(r[1])
      BY <1>3, <1>9, <1>11, <2>1
    <2> HIDE DEF Hear, mine
    <2>4. Replans(c, open, wants, notified)
      BY <1>6, <1>8, <1>10, <2>2, <2>3 DEF Replans
    <2> QED BY <1>2, <2>4, ReplansKeeps
  <1>13. RestOK'
    BY <1>2 DEF RestOK
  <1> QED BY <1>12, <1>13 DEF ViewInv

(* A view that closes takes its demand along. *)
LEMMA CloseKeeps ==
  ASSUME ViewInv, NEW v \in Views, Close(v)
  PROVE  ViewInv'
  <1> DEFINE c == CollectionOf[v]
             others == Omit(views[c], {v})
             wants == [demand EXCEPT ![v] = <<>>]
             notified == {r \in Readers : r[1] = v}
  <1>1. /\ views' = [views EXCEPT ![c] = others] /\ at' = "flush"
        /\ ReconcileViews(c, others, wants, notified)
    BY DEF Close
  <1>2. c \in Caches /\ views \in [Caches -> Seq(Views)] /\ demand \in [Views -> Seq(Demands)]
    BY ViewAssumption DEF ViewInv, ViewTypeOK
  <1>3. others \in Seq(Views) /\ ToSet(others) = ToSet(views[c]) \ {v}
    BY <1>2, OmitFacts
  <1>4. /\ wants \in [Views -> Seq(Demands)] /\ wants[v] = <<>>
        /\ \A w \in Views \ {v} : wants[w] = demand[w]
    BY <1>2
  <1> HIDE DEF others, wants
  <1>5. /\ views' \in [Caches -> Seq(Views)] /\ views'[c] = others
        /\ \A d \in Caches \ {c} : views'[d] = views[d]
    BY <1>1, <1>2, <1>3
  <1>6. \A w \in ToSet(others) : CollectionOf[w] = c
    BY <1>2, <1>3 DEF ViewInv, OpenOK
  <1>7. \A w \in Views : CollectionOf[w] # c => wants[w] = demand[w]
    BY <1>4
  <1>8. \A w \in Views : CollectionOf[w] = c /\ w \notin ToSet(others) => wants[w] = <<>>
    <2> SUFFICES ASSUME NEW w \in Views, CollectionOf[w] = c, w \notin ToSet(others)
                 PROVE  wants[w] = <<>>
      OBVIOUS
    <2>1. CASE w = v
      BY <1>4, <2>1
    <2>2. CASE w # v
      <3>1. ~IsOpen(w)
        BY <1>2, <1>3, <2>2, OpenMember
      <3> QED BY <1>4, <2>2, <3>1 DEF ViewInv, OpenOK
    <2> QED BY <2>1, <2>2
  <1>9. \A w \in Views : \A k \in KeysIn(wants[w]) : HomeOf[k] = CollectionOf[w]
    BY <1>4, NoKeys DEF ViewInv, OpenOK
  <1>10. \A r \in Readers \ notified : /\ KeysIn(wants[r[1]]) = KeysIn(demand[r[1]])
                                       /\ IsOpen(r[1])' <=> IsOpen(r[1])
    <2> SUFFICES ASSUME NEW r \in Readers, r[1] # v
                 PROVE  wants[r[1]] = demand[r[1]] /\ (IsOpen(r[1])' <=> IsOpen(r[1]))
      OBVIOUS
    <2>1. r[1] \in Views
      BY DEF Readers
    <2>2. r[1] \in ToSet(views'[CollectionOf[r[1]]]) <=> r[1] \in ToSet(views[CollectionOf[r[1]]])
      <3>1. CollectionOf[r[1]] \in Caches
        BY <2>1, ViewAssumption
      <3> QED BY <1>3, <1>5, <3>1
    <2>3. IsOpen(r[1])' <=> r[1] \in ToSet(views'[CollectionOf[r[1]]])
      BY <1>5, <2>1, OpenMemberNext
    <2>4. IsOpen(r[1]) <=> r[1] \in ToSet(views[CollectionOf[r[1]]])
      BY <1>2, <2>1, OpenMember
    <2> QED BY <1>4, <2>1, <2>2, <2>3, <2>4
  <1>11. /\ IInv' /\ ViewTypeOK' /\ OpenOK' /\ LanesOK' /\ ReadOK' /\ WantOK' /\ PlanOK'
    <2>1. PICK open, plans, heard : open = others /\ plans = wants /\ heard = notified
      OBVIOUS
    <2>2. /\ open \in Seq(Views) /\ ReconcileViews(c, open, plans, heard)
          /\ plans \in [Views -> Seq(Demands)]
          /\ views' \in [Caches -> Seq(Views)] /\ views'[c] = open
          /\ \A d \in Caches \ {c} : views'[d] = views[d]
      BY <1>1, <1>3, <1>4, <1>5, <2>1
    <2>3. /\ \A w \in ToSet(open) : CollectionOf[w] = c
          /\ \A w \in Views : CollectionOf[w] # c => plans[w] = demand[w]
          /\ \A w \in Views : CollectionOf[w] = c /\ w \notin ToSet(open) => plans[w] = <<>>
          /\ \A w \in Views : \A k \in KeysIn(plans[w]) : HomeOf[k] = CollectionOf[w]
          /\ \A r \in Readers \ heard : /\ KeysIn(plans[r[1]]) = KeysIn(demand[r[1]])
                                        /\ IsOpen(r[1])' <=> IsOpen(r[1])
      BY <1>6, <1>7, <1>8, <1>9, <1>10, <2>1
    <2> HIDE DEF notified, c
    <2>4. Replans(c, open, plans, heard)
      BY <2>2, <2>3 DEF Replans
    <2> QED BY <1>2, <2>4, ReplansKeeps
  <1>12. RestOK'
    BY <1>1 DEF RestOK
  <1> QED BY <1>11, <1>12 DEF ViewInv

(* A view that opens asks for nothing until the next plan. *)
LEMMA OpenKeeps ==
  ASSUME ViewInv, NEW v \in Views, Open(v)
  PROVE  ViewInv'
  <1> DEFINE c == CollectionOf[v]
  <1>1. /\ views' = [views EXCEPT ![c] = Append(views[c], v)] /\ ~IsOpen(v)
        /\ UNCHANGED <<vars, demand, signals, at, turn>>
    BY DEF Open
  <1>2. c \in Caches /\ views \in [Caches -> Seq(Views)] /\ views[c] \in Seq(Views)
    BY ViewAssumption DEF ViewInv, ViewTypeOK
  <1>3. Append(views[c], v) \in Seq(Views) /\ ToSet(Append(views[c], v)) = ToSet(views[c]) \cup {v}
    BY <1>2, MembersAppend
  <1>4. /\ views' \in [Caches -> Seq(Views)] /\ ToSet(views'[c]) = ToSet(views[c]) \cup {v}
        /\ \A d \in Caches \ {c} : views'[d] = views[d]
    BY <1>1, <1>2, <1>3
  <1>5. \A w \in Views : (w # v => (IsOpen(w)' <=> IsOpen(w))) /\ (IsOpen(w) => IsOpen(w)')
    <2> SUFFICES ASSUME NEW w \in Views
                 PROVE  (w # v => (IsOpen(w)' <=> IsOpen(w))) /\ (IsOpen(w) => IsOpen(w)')
      OBVIOUS
    <2>1. /\ w # v => (w \in ToSet(views'[CollectionOf[w]]) <=> w \in ToSet(views[CollectionOf[w]]))
          /\ w \in ToSet(views[CollectionOf[w]]) => w \in ToSet(views'[CollectionOf[w]])
      BY <1>4, ViewAssumption
    <2>2. IsOpen(w)' <=> w \in ToSet(views'[CollectionOf[w]])
      BY <1>4, OpenMemberNext
    <2>3. IsOpen(w) <=> w \in ToSet(views[CollectionOf[w]])
      BY <1>2, OpenMember
    <2> QED BY <2>1, <2>2, <2>3
  <1>6. IInv'
    BY <1>1, StutterKeeps DEF ViewInv
  <1>7. /\ demand' = demand /\ lanes' = lanes /\ dirty' = dirty /\ told' = told /\ shown' = shown
        /\ at' = at /\ pc' = pc /\ wanted' = wanted /\ todo' = todo /\ residents' = residents
        /\ entry' = entry
    BY <1>1 DEF signals, vars, caches, place
  <1>8. Demanded' = Demanded
    BY <1>7 DEF Demanded
  <1>9. ViewTypeOK' /\ RestOK' /\ LanesOK' /\ WantOK'
    BY <1>4, <1>7, <1>8 DEF ViewInv, ViewTypeOK, RestOK, LanesOK, WantOK
  <1>10. OpenOK'
    <2>1. \A d \in Caches : \A w \in ToSet(views'[d]) : CollectionOf[w] = d
      BY <1>4 DEF ViewInv, OpenOK
    <2> QED BY <1>5, <1>7, <2>1 DEF ViewInv, OpenOK
  <1>11. ReadOK'
    <2>1. ASSUME NEW r \in Readers PROVE Read(r)' = Read(r)
      <3>1. r[1] \in Views
        BY DEF Readers
      <3>2. CASE r[1] # v
        BY <1>5, <1>7, <3>1, <3>2 DEF Read
      <3>3. CASE r[1] = v
        <4>1. KeysIn(demand[v]) = {}
          BY <1>1, NoKeys DEF ViewInv, OpenOK
        <4> QED BY <1>7, <3>3, <4>1 DEF Read
      <3> QED BY <3>2, <3>3
    <2> QED BY <1>7, <2>1 DEF ViewInv, ReadOK
  <1>12. PlanOK'
    <2>1. \A d : Resident(d)' = Resident(d)
      BY <1>7 DEF Resident
    <2>2. \A d \in Caches : PlanOf(d) => PlanOf(d)'
      BY <1>7, <2>1 DEF PlanOf
    <2> QED BY <1>7, <2>2 DEF ViewInv, PlanOK
  <1> QED BY <1>6, <1>9, <1>10, <1>11, <1>12 DEF ViewInv

(* The flush runs every reader that could show something else. *)
LEMMA FlushKeeps ==
  ASSUME ViewInv, Flush
  PROVE  ViewInv'
  <1>1. /\ shown' = [r \in Readers |->
             IF r \in told \/ (r[2] \in dirty \cap lanes /\ shown[r].lane) THEN Read(r) ELSE shown[r]]
        /\ told' = {} /\ dirty' = {} /\ pc = "idle"
        /\ UNCHANGED <<vars, views, demand, lanes>>
    BY DEF Flush
  <1>2. IInv'
    BY <1>1, StutterKeeps DEF ViewInv
  <1>3. /\ views' = views /\ demand' = demand /\ lanes' = lanes /\ pc' = pc /\ wanted' = wanted
        /\ todo' = todo /\ residents' = residents /\ entry' = entry
    BY <1>1 DEF vars, caches, place
  <1>4. ViewTypeOK' /\ OpenOK' /\ LanesOK'
    BY <1>3, ViewsKept DEF ViewInv, ViewTypeOK
  <1>5. RestOK' /\ PlanOK'
    BY <1>1, <1>3 DEF RestOK, PlanOK
  <1>6. WantOK'
    <2>1. NoNewWant /\ KeysIn(todo)' \in SUBSET KeysIn(todo)
      BY <1>3 DEF NoNewWant
    <2> QED BY <1>3, <2>1, WantKept
  <1>7. ReadOK'
    <2>1. ASSUME NEW r \in Readers PROVE Read(r)' = Read(r)
      BY <1>3 DEF Read, IsOpen
    <2>2. ASSUME NEW r \in Readers PROVE shown'[r] = Read(r)
      BY <1>1 DEF ViewInv, ReadOK
    <2> QED BY <2>1, <2>2 DEF ReadOK
  <1> QED BY <1>2, <1>4, <1>5, <1>6, <1>7 DEF ViewInv

(* Looking at the next demand leaves the others of the list. *)
LEMMA TailKeys ==
  ASSUME NEW s \in Seq(Demands), s # <<>>
  PROVE  /\ Head(s) \in Demands /\ Head(s).key \in Keys /\ Head(s).key \in KeysIn(s)
         /\ Tail(s) \in Seq(Demands) /\ KeysIn(Tail(s)) \in SUBSET KeysIn(s)
         /\ \A k \in KeysIn(s) : k = Head(s).key \/ k \in KeysIn(Tail(s))
  <1>1. Head(s) \in ToSet(s) /\ Head(s) \in Demands /\ Tail(s) \in Seq(Demands) /\ ToSet(Tail(s)) \in SUBSET ToSet(s)
    BY TailFacts
  <1>2. \A d \in ToSet(s) : d = Head(s) \/ d \in ToSet(Tail(s))
    <2> SUFFICES ASSUME NEW i \in 1 .. Len(s), i # 1
                 PROVE  s[i] \in ToSet(Tail(s))
      BY DEF ToSet
    <2>1. i - 1 \in 1 .. Len(Tail(s)) /\ Tail(s)[i - 1] = s[i]
      OBVIOUS
    <2>2. DOMAIN Tail(s) = 1 .. Len(Tail(s))
      BY <1>1
    <2> QED BY <2>1, <2>2 DEF ToSet
  <1> QED BY <1>1, <1>2 DEF KeysIn, Demands

(* A demand of the plan always fits when all that is resident is wanted:    *)
(* otherwise something is resident that may go, and it goes before what is  *)
(* wanted.                                                                  *)
LEMMA Spare ==
  ASSUME IInv, ViewTypeOK, NEW c \in Caches, PlanOf(c), todo # <<>>
  PROVE  LET d == Head(todo)
         IN  /\ d \in Demands /\ d.key \in KeysIn(wanted) /\ HomeOf[d.key] = c
             /\ Cost[d.key] <= MaxCost
             /\ d.key \notin ToSet(residents) /\ ~Fits(d) =>
                  \E k \in Evictable(d) : ~entry[k].desired
  <1> DEFINE d == Head(todo)
             k == d.key
             W == KeysIn(wanted)
             R == Resident(c)
  <1>1. d \in Demands /\ k \in Keys /\ k \in KeysIn(todo)
    <2>1. todo \in Seq(Demands)
      BY DEF IInv, TypeOK
    <2> QED BY <2>1, TailKeys
  <1>2. /\ k \in W /\ HomeOf[k] = c
    BY <1>1 DEF PlanOf
  <1>3. W \in SUBSET Keys /\ IsFiniteSet(W) /\ R \in SUBSET Keys /\ IsFiniteSet(R)
    BY KeysOfList, ResidentFacts DEF ViewTypeOK
  <1>4. TotalCost(W) <= MaxCost /\ Cardinality(W) <= MaxEntries
    BY DEF PlanOf
  <1>5. Cost[k] \in Nat /\ MaxCost \in Nat /\ MaxEntries \in Nat
    BY <1>1, CacheAssumption
  <1> HIDE DEF d
  <1>6. Cost[k] <= MaxCost
    <2>1. IsFiniteSet({}) /\ {} \in SUBSET Keys
      BY FS_EmptySet
    <2>2. TotalCost({} \cup {k}) = TotalCost({}) + Cost[k] /\ TotalCost({}) = 0
      BY <1>1, <2>1, CostInsert, CostStep
    <2>3. TotalCost({} \cup {k}) <= TotalCost(W) /\ TotalCost(W) \in Nat
      BY <1>2, <1>3, CostMonotone
    <2> QED BY <1>4, <1>5, <2>2, <2>3
  <1>7. ASSUME k \notin ToSet(residents), ~Fits(d)
        PROVE  \E j \in Evictable(d) : ~entry[j].desired
    <2>1. PICK j \in R : ~entry[j].desired
      <3> SUFFICES ASSUME \A j \in R : entry[j].desired
                   PROVE  FALSE
        OBVIOUS
      <3>1. R \cup {k} \in SUBSET W /\ k \notin R
        BY <1>2, <1>7 DEF PlanOf, Resident
      <3>2. /\ TotalCost(R \cup {k}) <= TotalCost(W) /\ Cardinality(R \cup {k}) <= Cardinality(W)
            /\ TotalCost(W) \in Nat /\ Cardinality(W) \in Nat
        BY <1>3, <3>1, CostMonotone
      <3>3. TotalCost(R \cup {k}) = TotalCost(R) + Cost[k] /\ TotalCost(R) \in Nat
        BY <1>1, <1>3, <3>1, CostInsert, CostStep
      <3>4. Cardinality(R \cup {k}) = Cardinality(R) + 1 /\ Cardinality(R) \in Nat
        BY <1>3, <3>1, FS_AddElement, FS_CardinalityType
      <3>5. cost[c] = TotalCost(R)
        BY BusyFacts DEF CostOK
      <3>6. Cardinality(R) < MaxEntries /\ cost[c] + Cost[k] <= MaxCost
        BY <1>4, <1>5, <3>2, <3>3, <3>4, <3>5
      <3> QED BY <1>2, <1>7, <3>6 DEF Fits
    <2>2. ~entry[j].pin
      BY <2>1 DEF PlanOf
    <2>3. j \in Evictable(d)
      BY <1>2, <2>1, <2>2 DEF Evictable
    <2> QED BY <2>1, <2>3
  <1> QED BY <1>1, <1>2, <1>6, <1>7 DEF d

(* To make room nothing of the plan is evicted. *)
LEMMA EvictSpares ==
  ASSUME IInv, ViewTypeOK, PlanOK, Evict
  PROVE  \E c \in Caches : \E victim \in ToSet(residents) :
           /\ PlanOf(c) /\ Drop({victim}) /\ victim \notin KeysIn(wanted)
           /\ UNCHANGED <<place, dead, intruded>> /\ pc = "admit"
  <1> DEFINE d == Head(todo)
  <1>1. pc = "admit" /\ todo # <<>> /\ ~Room(d)
    BY DEF Evict, Admitting
  <1>2. PICK c \in Caches : PlanOf(c)
    BY <1>1 DEF PlanOK
  <1>3. PICK victim \in Evictable(d) :
          (\A k \in Evictable(d) \ {victim} : Sooner(victim, k)) /\ Drop({victim})
    BY DEF Evict
  <1>4. /\ d.key \notin ToSet(residents) /\ ~Fits(d) /\ HomeOf[d.key] = c
        /\ \E k \in Evictable(d) : ~entry[k].desired
    BY <1>1, <1>2, Spare DEF Room
  <1>5. PICK k \in Evictable(d) : ~entry[k].desired
    BY <1>4
  <1>6. victim \in Resident(c) /\ k \in Resident(c)
    BY <1>4 DEF Evictable
  <1>7. victim \in ToSet(residents) /\ victim \in Keys /\ k \in Keys
    BY <1>6, ResidentFacts
  <1>8. ~entry[victim].desired
    <2>1. entry[k].desired \in BOOLEAN /\ entry[victim].desired \in BOOLEAN
      BY <1>7, EntryFacts DEF Entries
    <2>2. CASE k = victim
      BY <1>5, <2>2
    <2>3. CASE k # victim
      BY <1>3, <1>5, <2>1, <2>3 DEF Sooner
    <2> QED BY <2>2, <2>3
  <1>9. victim \notin KeysIn(wanted)
    BY <1>2, <1>6, <1>8 DEF PlanOf
  <1> QED BY <1>1, <1>2, <1>3, <1>7, <1>9 DEF Evict

(* Steps of the cache that are heard of by the readers of the keys of K. *)
LEMMA WorkKept ==
  ASSUME ViewInv, NEW K, IInv', Notify(K), Steady(K), NoNewWant,
         wanted' \in Seq(Demands), KeysIn(todo)' \in SUBSET KeysIn(todo), RestOK'
  PROVE  /\ IInv' /\ ViewTypeOK' /\ OpenOK' /\ RestOK' /\ LanesOK' /\ ReadOK' /\ WantOK'
  <1>1. /\ dirty' = dirty \cup K /\ views' = views /\ demand' = demand /\ lanes' = lanes
        /\ told' = told /\ shown' = shown /\ at' = at
    BY DEF Notify
  <1> QED BY <1>1, ReadKept, WantKept, ViewsKept

(* Nothing in a cache happens at rest, but what its callers do. *)
LEMMA NotAtRest ==
  ASSUME ViewInv, pc # "idle", Notify({}) \/ \E K : Notify(K)
  PROVE  RestOK'
  BY DEF ViewInv, RestOK, Notify

(* The readers of the key evicted are told, and its plan stays complete. *)
LEMMA EvictKeepsViews ==
  ASSUME ViewInv, Evict, Notify(ToSet(residents) \ ToSet(residents'))
  PROVE  ViewInv'
  <1>1. PICK c \in Caches, victim \in ToSet(residents) :
          /\ PlanOf(c) /\ Drop({victim}) /\ victim \notin KeysIn(wanted)
          /\ UNCHANGED <<place, dead, intruded>> /\ pc = "admit"
    BY EvictSpares DEF ViewInv
  <1>2. Steady({victim}) /\ NoNewWant /\ ToSet(residents') = ToSet(residents) \ {victim}
    BY <1>1, DropSteady DEF ViewInv
  <1>3. pc' = pc /\ wanted' = wanted /\ todo' = todo
    BY <1>1 DEF place
  <1>4. IInv'
    BY EvictKeeps DEF ViewInv
  <1>5. RestOK'
    BY <1>1, NotAtRest
  <1>6. Notify({victim})
    <2>1. ToSet(residents) \ ToSet(residents') = {victim}
      BY <1>1, <1>2
    <2> QED BY <2>1
  <1>7. wanted' \in Seq(Demands) /\ KeysIn(todo)' \in SUBSET KeysIn(todo)
    BY <1>3 DEF ViewInv, ViewTypeOK
  <1>8. PlanOK'
    <2>1. \A k \in Keys : k # victim => entry'[k] = entry[k]
      BY <1>1 DEF Drop
    <2>2. Resident(c)' \in SUBSET Resident(c) /\ victim \notin Resident(c)'
      BY <1>2 DEF Resident
    <2>3. Resident(c) \in SUBSET Keys
      BY ResidentFacts DEF ViewInv
    <2>4. PlanOf(c)'
      BY <1>1, <1>2, <1>3, <2>1, <2>2, <2>3 DEF PlanOf
    <2> QED BY <2>4 DEF PlanOK
  <1> QED BY <1>2, <1>4, <1>5, <1>6, <1>7, <1>8, WorkKept DEF ViewInv

(* What is passed over is resident: nothing of a plan is refused. *)
LEMMA PassOverKeepsViews ==
  ASSUME ViewInv, PassOver, Notify({})
  PROVE  ViewInv'
  <1> DEFINE d == Head(todo)
  <1>1. /\ pc = "admit" /\ todo # <<>> /\ todo' = Tail(todo)
        /\ pc' = pc /\ wanted' = wanted /\ residents' = residents /\ entry' = entry
    BY DEF PassOver, Admitting, Passed
  <1>2. PICK c \in Caches : PlanOf(c)
    BY <1>1 DEF ViewInv, PlanOK
  <1>3. todo \in Seq(Demands) /\ wanted \in Seq(Demands)
    BY DEF ViewInv, ViewTypeOK, IInv, TypeOK
  <1>4. /\ KeysIn(Tail(todo)) \in SUBSET KeysIn(todo)
        /\ \A k \in KeysIn(todo) : k = d.key \/ k \in KeysIn(Tail(todo))
    BY <1>1, <1>3, TailKeys
  <1>5. d.key \in ToSet(residents)
    <2>1. /\ d \in Demands /\ Cost[d.key] <= MaxCost /\ d.key \in Keys
          /\ d.key \notin ToSet(residents) /\ ~Fits(d) => \E k \in Evictable(d) : ~entry[k].desired
      BY <1>1, <1>2, <1>3, Spare, TailKeys DEF ViewInv
    <2>2. Cost[d.key] \in Nat /\ MaxCost \in Nat
      BY <2>1, CacheAssumption
    <2>3. d.key \in ToSet(residents) \/ Cost[d.key] > MaxCost \/ (~Fits(d) /\ Evictable(d) = {})
      BY DEF PassOver
    <2> QED BY <2>1, <2>2, <2>3
  <1>6. IInv' /\ RestOK'
    BY <1>1, PlainStepsKeep, NotAtRest DEF ViewInv
  <1>7. Steady({}) /\ NoNewWant
    BY <1>1 DEF Steady, NoNewWant
  <1>8. KeysIn(todo)' = KeysIn(Tail(todo))
    BY <1>1
  <1>9. PlanOK'
    <2>1. Resident(c)' = Resident(c) /\ ToSet(residents)' = ToSet(residents) /\ KeysIn(wanted)' = KeysIn(wanted)
      BY <1>1 DEF Resident
    <2>2. PlanOf(c)'
      <3> HIDE DEF d
      <3> QED BY <1>1, <1>2, <1>4, <1>5, <1>8, <2>1 DEF PlanOf
    <2> QED BY <2>2 DEF PlanOK
  <1> QED BY <1>1, <1>3, <1>4, <1>6, <1>7, <1>8, <1>9, WorkKept DEF ViewInv

(* What is admitted is demanded. *)
LEMMA AdmitKeepsViews ==
  ASSUME ViewInv, Admit, Notify({})
  PROVE  ViewInv'
  <1> DEFINE d == Head(todo)
             key == d.key
  <1>1. /\ pc = "admit" /\ todo # <<>> /\ todo' = Tail(todo) /\ pc' = pc /\ wanted' = wanted
    BY DEF Admit, Admitting, Passed
  <1>2. PICK c \in Caches : PlanOf(c)
    BY <1>1 DEF ViewInv, PlanOK
  <1>3. todo \in Seq(Demands) /\ wanted \in Seq(Demands)
    BY DEF ViewInv, ViewTypeOK, IInv, TypeOK
  <1>4. /\ KeysIn(Tail(todo)) \in SUBSET KeysIn(todo) /\ key \in KeysIn(todo)
        /\ \A k \in KeysIn(todo) : k = key \/ k \in KeysIn(Tail(todo))
    BY <1>1, <1>3, TailKeys
  <1>5. /\ Steady({}) /\ key \in Keys /\ entry'[key].desired
        /\ ToSet(residents') = ToSet(residents) \cup {key}
        /\ \A j \in Keys \ {key} : entry'[j] = entry[j]
    BY AdmitSteady DEF ViewInv
  <1>6. IInv' /\ RestOK'
    BY <1>1, AdmitKeeps, NotAtRest DEF ViewInv
  <1> HIDE DEF d, key
  <1>7. KeysIn(todo)' = KeysIn(Tail(todo))
    BY <1>1
  <1>8. /\ dirty' = dirty \cup {} /\ views' = views /\ demand' = demand /\ lanes' = lanes
        /\ told' = told /\ shown' = shown
    BY DEF Notify
  <1>9. ViewTypeOK' /\ OpenOK' /\ LanesOK' /\ ReadOK'
    BY <1>1, <1>3, <1>5, <1>8, ReadKept, ViewsKept
  <1>10. ToSet(residents) \in SUBSET Keys
    BY ResidentFacts DEF ViewInv
  <1>11. WantOK'
    <2>1. Demanded' = Demanded
      BY <1>8 DEF Demanded
    <2>2. KeysIn(todo) \in SUBSET Demanded /\ \A k \in ToSet(residents) : entry[k].desired => k \in Demanded
      BY DEF ViewInv, WantOK
    <2>3. \A k \in ToSet(residents') : entry'[k].desired => k \in Demanded
      BY <1>4, <1>5, <1>10, <2>2
    <2> QED BY <1>4, <1>7, <2>1, <2>2, <2>3 DEF WantOK
  <1>12. PlanOK'
    <2>1. KeysIn(wanted)' = KeysIn(wanted) /\ \A k \in Resident(c)' : k \in Resident(c) \/ k = key
      BY <1>1, <1>5 DEF Resident
    <2>2. key \in KeysIn(wanted) /\ Resident(c) \in SUBSET Keys
      BY <1>2, <1>4, ResidentFacts DEF PlanOf, ViewInv
    <2>3. \A k \in Resident(c)' : /\ entry'[k].desired <=> k \in KeysIn(wanted)
                                  /\ ~entry'[k].desired => ~entry'[k].pin
      <3> SUFFICES ASSUME NEW k \in Resident(c)'
                   PROVE  /\ entry'[k].desired <=> k \in KeysIn(wanted)
                          /\ ~entry'[k].desired => ~entry'[k].pin
        OBVIOUS
      <3>1. CASE k = key
        BY <1>5, <2>2, <3>1
      <3>2. CASE k # key
        BY <1>2, <1>5, <2>1, <2>2, <3>2 DEF PlanOf
      <3> QED BY <3>1, <3>2
    <2>4. PlanOf(c)'
      BY <1>2, <1>4, <1>5, <1>7, <2>1, <2>3 DEF PlanOf
    <2> QED BY <2>4 DEF PlanOK
  <1> QED BY <1>6, <1>9, <1>11, <1>12 DEF ViewInv

(* The other steps of a cache at work; only an end of a reconcile comes     *)
(* with a plan, and lets go of it.                                          *)
LEMMA WorkElse ==
  ASSUME ViewInv, NEW K, IInv', Notify(K), Steady(K), NoNewWant,
         pc # "idle", pc' # "admit", wanted' \in {wanted, <<>>}, todo' = todo
  PROVE  ViewInv'
  <1>1. wanted' \in Seq(Demands) /\ KeysIn(todo)' \in SUBSET KeysIn(todo)
    <2>1. <<>> \in Seq(Demands)
      OBVIOUS
    <2> QED BY <2>1 DEF ViewInv, ViewTypeOK
  <1>2. RestOK'
    BY NotAtRest
  <1>3. PlanOK'
    BY DEF PlanOK
  <1> QED BY <1>1, <1>2, <1>3, WorkKept DEF ViewInv

(* Every step of a cache at work. *)
LEMMA WorkKeeps ==
  ASSUME ViewInv, Work
  PROVE  ViewInv'
  <1> USE DEF place
  <1>1. CASE Evict /\ Notify(ToSet(residents) \ ToSet(residents'))
    BY <1>1, EvictKeepsViews
  <1>2. CASE Complete /\ Notify({NextResult})
    <2>1. pc = "complete" /\ pc' = pc /\ wanted' = wanted /\ todo' = todo
      BY <1>2 DEF Complete
    <2>2. IInv' /\ Steady({NextResult}) /\ NoNewWant
      BY <1>2, CompleteKeeps, CompleteSteady DEF ViewInv
    <2>3. PICK K : K = {NextResult}
      OBVIOUS
    <2> QED BY <1>2, <2>1, <2>2, <2>3, WorkElse
  <1>3. ASSUME Preempt \/ Start, NEW K, Notify(K)
        PROVE  ViewInv'
    <2>1. pc = "start" /\ pc' = pc /\ wanted' = wanted /\ todo' = todo
      BY <1>3 DEF Preempt, Start, Starting
    <2>2. IInv' /\ Steady({}) /\ NoNewWant
      BY <1>3, PreemptKeeps, PreemptSteady, StartKeeps, StartSteady DEF ViewInv
    <2>3. Steady(K)
      BY <2>2 DEF Steady
    <2> QED BY <1>3, <2>1, <2>2, <2>3, WorkElse
  <1>4. CASE PassOver /\ Notify({})
    BY <1>4, PassOverKeepsViews
  <1>5. CASE Admit /\ Notify({})
    BY <1>5, AdmitKeepsViews
  <1>6. CASE (ReconcileEnd \/ CompletionsEnd \/ StepEnd) /\ Notify({})
    <2>1. /\ pc # "idle" /\ pc' # "admit" /\ wanted' \in {wanted, <<>>} /\ todo' = todo
          /\ residents' = residents /\ entry' = entry
      BY <1>6 DEF ReconcileEnd, CompletionsEnd, StepEnd, caches
    <2>2. IInv'
      BY <1>6, PlainStepsKeep DEF ViewInv
    <2>3. Steady({}) /\ NoNewWant
      BY <2>1 DEF Steady, NoNewWant
    <2> QED BY <1>6, <2>1, <2>2, <2>3, WorkElse
  <1> QED BY <1>1, <1>2, <1>3, <1>4, <1>5, <1>6 DEF Work

(* Steps that change nothing of the views, and leave the cache idle or at   *)
(* its step.                                                                *)
LEMMA QuietViews ==
  ASSUME ViewInv, IInv', Steady({}), NoNewWant, UNCHANGED <<views, demand, signals>>,
         wanted' = wanted, todo' = todo, pc' # "admit", RestOK'
  PROVE  ViewInv'
  <1>1. /\ views' = views /\ demand' = demand /\ lanes' = lanes /\ dirty' = dirty
        /\ told' = told /\ shown' = shown
    BY DEF signals
  <1>2. wanted' \in Seq(Demands) /\ KeysIn(todo)' \in SUBSET KeysIn(todo)
    BY DEF ViewInv, ViewTypeOK
  <1>3. ViewTypeOK' /\ OpenOK' /\ LanesOK' /\ WantOK'
    BY <1>1, <1>2, WantKept, ViewsKept
  <1>4. ReadOK'
    BY <1>1, ReadKept
  <1>5. PlanOK'
    BY DEF PlanOK
  <1> QED BY <1>3, <1>4, <1>5 DEF ViewInv

(* A collection disposed of has no plan. *)
LEMMA NoPlanKeeps ==
  ASSUME ViewInv, NoPlan
  PROVE  ViewInv'
  <1>1. /\ pc = "idle" /\ at' = "plan" /\ UNCHANGED <<vars, views, demand, signals>>
    BY DEF NoPlan
  <1>2. IInv'
    BY <1>1, StutterKeeps DEF ViewInv
  <1>3. /\ residents' = residents /\ entry' = entry /\ wanted' = wanted /\ todo' = todo /\ pc' = pc
    BY <1>1 DEF vars, caches, place
  <1>4. Steady({}) /\ NoNewWant
    BY <1>3 DEF Steady, NoNewWant
  <1>5. RestOK'
    BY <1>1 DEF RestOK
  <1> QED BY <1>1, <1>2, <1>3, <1>4, <1>5, QuietViews

(* The scheduler begins its step. *)
LEMMA ScheduleKeeps ==
  ASSUME ViewInv, Schedule
  PROVE  ViewInv'
  <1>1. Step /\ at' = "flush" /\ UNCHANGED <<views, demand, signals, turn>>
    BY DEF Schedule
  <1>2. IInv' /\ Steady({}) /\ NoNewWant
    BY <1>1, StepKeeps, StepSteady DEF ViewInv
  <1>3. wanted' = wanted /\ todo' = todo /\ pc' = "complete"
    BY <1>1 DEF Step
  <1>4. RestOK'
    BY <1>1 DEF RestOK
  <1> QED BY <1>1, <1>2, <1>3, <1>4, QuietViews

(* A collection made anew is empty. *)
LEMMA CreateCollectionKeeps ==
  ASSUME ViewInv, NEW c \in Caches, CreateCollection(c)
  PROVE  ViewInv'
  <1>1. CreateCache(c) /\ UNCHANGED viewVars
    BY DEF CreateCollection
  <1>2. IInv'
    BY <1>1, PlainStepsKeep DEF ViewInv
  <1>3. /\ pc = "idle" /\ residents' = residents /\ entry' = entry
        /\ wanted' = wanted /\ todo' = todo /\ pc' = pc
    BY <1>1 DEF CreateCache, place
  <1>4. Steady({}) /\ NoNewWant
    BY <1>3 DEF Steady, NoNewWant
  <1>5. RestOK'
    BY <1>1, <1>3 DEF ViewInv, RestOK, viewVars, signals
  <1> QED BY <1>1, <1>2, <1>3, <1>4, <1>5, QuietViews DEF viewVars

(* A result that arrives changes what no reader sees. *)
LEMMA AnsweredKeeps ==
  ASSUME ViewInv, Answered
  PROVE  ViewInv'
  <1>1. PICK f \in flights : Answer(f)
    BY DEF Answered
  <1>2. Notify({}) /\ at = "rest"
    BY DEF Answered
  <1>3. IInv' /\ Steady({}) /\ NoNewWant
    BY <1>1, AnswerKeeps, AnswerSteady DEF ViewInv
  <1>4. pc = "idle" /\ wanted' = wanted /\ todo' = todo /\ pc' = pc
    BY <1>1 DEF Answer, place
  <1>5. RestOK'
    BY <1>2, <1>4 DEF ViewInv, RestOK, Notify
  <1>6. UNCHANGED <<views, demand, signals>>
    BY <1>2 DEF Notify, signals
  <1> QED BY <1>3, <1>4, <1>5, <1>6, QuietViews

(* A call of the application tells the readers of the keys it changes. *)
LEMMA UpdateKeeps ==
  ASSUME ViewInv, NEW K, IInv', Update(K), Steady(K), NoNewWant, UNCHANGED place, pc = "idle"
  PROVE  ViewInv'
  <1>1. /\ dirty' = dirty \cup K /\ at' = "flush" /\ views' = views /\ demand' = demand
        /\ lanes' = lanes /\ told' = told /\ shown' = shown
    BY DEF Update
  <1>2. wanted' = wanted /\ todo' = todo /\ pc' = pc
    BY DEF place
  <1>3. wanted' \in Seq(Demands) /\ KeysIn(todo)' \in SUBSET KeysIn(todo)
    BY <1>2 DEF ViewInv, ViewTypeOK
  <1>4. ViewTypeOK' /\ OpenOK' /\ LanesOK' /\ ReadOK' /\ WantOK'
    BY <1>1, <1>3, ReadKept, WantKept, ViewsKept
  <1>5. RestOK' /\ PlanOK'
    BY <1>1, <1>2 DEF RestOK, PlanOK
  <1> QED BY <1>4, <1>5 DEF ViewInv

(* The calls of the application. *)
LEMMA CallKeeps ==
  ASSUME ViewInv, Call
  PROVE  ViewInv'
  <1>1. ASSUME NEW c \in Caches, Clear(c), Update(Resident(c))
        PROVE  ViewInv'
    <2>1. Drop(Resident(c)) /\ UNCHANGED place /\ pc = "idle"
      BY <1>1 DEF Clear
    <2>2. PICK K : K = Resident(c)
      OBVIOUS
    <2>3. K \in SUBSET ToSet(residents) /\ Drop(K)
      BY <2>1, <2>2, ResidentFacts DEF ViewInv
    <2>4. IInv' /\ Steady(K) /\ NoNewWant
      BY <1>1, <2>3, ClearKeeps, DropSteady DEF ViewInv
    <2> QED BY <1>1, <2>1, <2>2, <2>4, UpdateKeeps
  <1>2. ASSUME Cancel(Caches), NEW K, Update(K)
        PROVE  ViewInv'
    <2>1. UNCHANGED place /\ pc = "idle"
      BY <1>2 DEF Cancel
    <2>2. IInv' /\ Steady({}) /\ NoNewWant
      BY <1>2, CancelKeeps, CancelSteady DEF ViewInv
    <2>3. Steady(K)
      BY <2>2 DEF Steady
    <2> QED BY <1>2, <2>1, <2>2, <2>3, UpdateKeeps
  <1>3. ASSUME NEW c \in Caches, NEW K \in SUBSET Resident(c), NEW dropValue \in BOOLEAN,
               InvalidateEntries(K, dropValue), Update(K)
        PROVE  ViewInv'
    <2>1. UNCHANGED place /\ pc = "idle"
      BY <1>3 DEF InvalidateEntries
    <2>2. K \in SUBSET ToSet(residents)
      BY ResidentFacts DEF ViewInv
    <2>3. IInv' /\ Steady(K) /\ NoNewWant
      BY <1>3, <2>2, InvalidateEntriesKeeps, InvalidateSteady DEF ViewInv
    <2> QED BY <1>3, <2>1, <2>3, UpdateKeeps
  <1> QED BY <1>1, <1>2, <1>3 DEF Call

(* The views of a collection close with it. *)
LEMMA DisposeCollectionsKeeps ==
  ASSUME ViewInv, NEW C \in SUBSET Caches, DisposeCollections(C)
  PROVE  ViewInv'
  <1> DEFINE closed == UNION {ToSet(views[c]) : c \in C}
             K == UNION {Resident(c) : c \in C}
  <1>1. /\ at = "rest" /\ Dispose(C) /\ at' = "flush"
        /\ views' = [c \in Caches |-> IF c \in C THEN <<>> ELSE views[c]]
        /\ demand' = [v \in Views |-> IF v \in closed THEN <<>> ELSE demand[v]]
        /\ told' = told \cup {r \in Readers : r[1] \in closed}
        /\ lanes' = {k \in lanes : HomeOf[k] \notin C}
        /\ dirty' = dirty /\ shown' = shown
    BY DEF DisposeCollections
  <1>2. /\ pc = "idle" /\ pc' = pc /\ wanted' = wanted /\ todo' = todo /\ Drop(K)
    BY <1>1 DEF Dispose, place
  <1>3. /\ views \in [Caches -> Seq(Views)] /\ demand \in [Views -> Seq(Demands)]
        /\ lanes \in SUBSET Keys /\ wanted \in Seq(Demands) /\ CollectionOf \in [Views -> Caches]
    BY ViewAssumption DEF ViewInv, ViewTypeOK
  <1>4. PICK D : D = K /\ D \in SUBSET ToSet(residents) /\ Drop(D)
    <2>1. K \in SUBSET ToSet(residents)
      BY ResidentFacts DEF ViewInv
    <2> QED BY <1>2, <2>1
  <1>5. /\ Steady(D) /\ NoNewWant /\ ToSet(residents') = ToSet(residents) \ D
        /\ \A k \in D : HomeOf[k] \in C
        /\ \A k \in ToSet(residents) : HomeOf[k] \in C => k \in D
        /\ ToSet(residents) \in SUBSET Keys
    <2>1. Steady(D) /\ NoNewWant /\ ToSet(residents') = ToSet(residents) \ D
      BY <1>4, DropSteady DEF ViewInv
    <2>2. ToSet(residents) \in SUBSET Keys
      BY ResidentFacts DEF ViewInv
    <2>3. \A k : k \in D <=> k \in ToSet(residents) /\ HomeOf[k] \in C
      BY <1>4 DEF Resident
    <2> QED BY <2>1, <2>2, <2>3
  <1>6. \A v \in Views : v \in closed <=> IsOpen(v) /\ CollectionOf[v] \in C
    <2> SUFFICES ASSUME NEW v \in Views
                 PROVE  v \in closed <=> v \in ToSet(views[CollectionOf[v]]) /\ CollectionOf[v] \in C
      BY <1>3, OpenMember
    <2>1. \A c \in C : v \in ToSet(views[c]) => CollectionOf[v] = c
      BY DEF ViewInv, OpenOK
    <2> QED BY <2>1
  <1>7. /\ views' \in [Caches -> Seq(Views)] /\ \A c \in C : views'[c] = <<>>
        /\ \A c \in Caches \ C : views'[c] = views[c]
    <2>1. <<>> \in Seq(Views)
      OBVIOUS
    <2> QED BY <1>1, <1>3, <2>1
  <1>8. \A v \in Views : demand'[v] = IF v \in closed THEN <<>> ELSE demand[v]
    BY <1>1
  <1> HIDE DEF closed, K
  <1>9. \A v \in Views : IsOpen(v)' <=> IsOpen(v) /\ v \notin closed
    <2> SUFFICES ASSUME NEW v \in Views
                 PROVE  IsOpen(v)' <=> IsOpen(v) /\ v \notin closed
      OBVIOUS
    <2>1. IsOpen(v)' <=> v \in ToSet(views'[CollectionOf[v]])
      BY <1>7, OpenMemberNext
    <2>2. IsOpen(v) <=> v \in ToSet(views[CollectionOf[v]])
      BY <1>3, OpenMember
    <2>3. CollectionOf[v] \in Caches
      BY <1>3
    <2>4. CASE CollectionOf[v] \in C
      <3>1. ToSet(<<>>) = {}
        BY DEF ToSet
      <3> QED BY <1>6, <1>7, <2>1, <2>4, <3>1
    <2>5. CASE CollectionOf[v] \notin C
      BY <1>6, <1>7, <2>1, <2>2, <2>3, <2>5
    <2> QED BY <2>4, <2>5
  <1>10. IInv'
    BY <1>1, DisposeKeeps DEF ViewInv
  <1>11. ViewTypeOK'
    <2>1. <<>> \in Seq(Demands)
      OBVIOUS
    <2>2. demand' \in [Views -> Seq(Demands)]
      BY <1>1, <1>3, <2>1
    <2> QED BY <1>1, <1>2, <1>3, <1>7, <2>2 DEF ViewTypeOK
  <1>12. OpenOK'
    <2>1. \A c \in Caches : \A v \in ToSet(views'[c]) : CollectionOf[v] = c
      <3>1. ToSet(<<>>) = {}
        BY DEF ToSet
      <3> QED BY <1>7, <3>1 DEF ViewInv, OpenOK
    <2>2. \A v \in Views : ~IsOpen(v)' => demand'[v] = <<>>
      BY <1>8, <1>9 DEF ViewInv, OpenOK
    <2>3. \A v \in Views : \A k \in KeysIn(demand'[v]) : HomeOf[k] = CollectionOf[v]
      BY <1>8, NoKeys DEF ViewInv, OpenOK
    <2> QED BY <2>1, <2>2, <2>3 DEF OpenOK
  <1>13. RestOK' /\ PlanOK'
    BY <1>1, <1>2 DEF RestOK, PlanOK
  <1>14. \A k : k \in Demanded' <=> k \in Demanded /\ HomeOf[k] \notin C
    <2>1. ASSUME NEW k \in Demanded' PROVE k \in Demanded /\ HomeOf[k] \notin C
      <3>1. PICK v \in Views : k \in KeysIn(demand'[v])
        BY DEF Demanded
      <3>2. v \notin closed /\ demand'[v] = demand[v]
        BY <1>8, <3>1, NoKeys
      <3>3. HomeOf[k] = CollectionOf[v] /\ IsOpen(v)
        BY <3>1, <3>2, NoKeys DEF ViewInv, OpenOK
      <3> QED BY <1>6, <3>1, <3>2, <3>3 DEF Demanded
    <2>2. ASSUME NEW k \in Demanded, HomeOf[k] \notin C PROVE k \in Demanded'
      <3>1. PICK v \in Views : k \in KeysIn(demand[v]) /\ CollectionOf[v] = HomeOf[k]
        BY DemandedFacts DEF ViewInv
      <3>2. demand'[v] = demand[v]
        BY <1>6, <1>8, <2>2, <3>1
      <3> QED BY <3>1, <3>2 DEF Demanded
    <2> QED BY <2>1, <2>2
  <1>15. LanesOK'
    BY <1>1, <1>14 DEF ViewInv, LanesOK
  <1>16. WantOK'
    <2>1. KeysIn(todo)' = {}
      BY <1>2, NothingTodo DEF ViewInv
    <2>2. ASSUME NEW k \in ToSet(residents'), entry'[k].desired
          PROVE  k \in Demanded'
      <3>1. k \in ToSet(residents) /\ entry[k].desired /\ HomeOf[k] \notin C
        BY <1>5, <2>2 DEF NoNewWant
      <3> QED BY <1>14, <3>1 DEF ViewInv, WantOK
    <2> QED BY <2>1, <2>2 DEF WantOK
  <1>17. ReadOK'
    <2> SUFFICES ASSUME NEW r \in Readers, r \notin told'
                 PROVE  shown'[r] = Read(r)'
      BY DEF ReadOK
    <2>1. r \notin told /\ r[1] \notin closed /\ r[1] \in Views /\ r[2] \in Keys
          /\ HomeOf[r[2]] = CollectionOf[r[1]]
      BY <1>1 DEF Readers
    <2>2. shown[r] = Read(r)
      BY <1>1, <2>1 DEF ViewInv, RestOK, ReadOK
    <2>3. IsOpen(r[1])' <=> IsOpen(r[1])
      BY <1>9, <2>1
    <2>4. demand'[r[1]] = demand[r[1]]
      BY <1>8, <2>1
    <2>5. CASE IsOpen(r[1])
      <3>1. r[2] \notin D
        BY <1>5, <1>6, <2>1, <2>5
      <3>2. entry'[r[2]].state = entry[r[2]].state /\ entry'[r[2]].value = entry[r[2]].value
        BY <1>5, <2>1, <3>1 DEF Steady
      <3> QED BY <1>1, <2>2, <2>3, <2>4, <3>2 DEF Read
    <2>6. CASE ~IsOpen(r[1])
      BY <1>1, <2>2, <2>3, <2>6 DEF Read
    <2> QED BY <2>5, <2>6
  <1> QED BY <1>10, <1>11, <1>12, <1>13, <1>15, <1>16, <1>17 DEF ViewInv

(* Where nothing changes, nothing changes. *)
LEMMA ViewStutterKeeps ==
  ASSUME ViewInv, UNCHANGED <<vars, viewVars>>
  PROVE  ViewInv'
  <1>1. /\ views' = views /\ demand' = demand /\ lanes' = lanes /\ dirty' = dirty
        /\ told' = told /\ shown' = shown /\ at' = at
        /\ residents' = residents /\ entry' = entry /\ pc' = pc /\ wanted' = wanted /\ todo' = todo
    BY DEF viewVars, signals, vars, caches, place
  <1>2. IInv'
    BY StutterKeeps DEF ViewInv
  <1>3. Steady({}) /\ NoNewWant
    BY <1>1 DEF Steady, NoNewWant
  <1>4. KeysIn(todo)' \in SUBSET KeysIn(todo) /\ wanted' \in Seq(Demands)
    BY <1>1 DEF ViewInv, ViewTypeOK
  <1>5. ViewTypeOK' /\ OpenOK' /\ LanesOK' /\ ReadOK' /\ WantOK'
    BY <1>1, <1>3, <1>4, ReadKept, WantKept, ViewsKept
  <1>6. RestOK'
    BY <1>1 DEF ViewInv, RestOK
  <1>7. PlanOK'
    <2>1. \A d : Resident(d)' = Resident(d)
      BY <1>1 DEF Resident
    <2>2. \A d \in Caches : PlanOf(d) => PlanOf(d)'
      BY <1>1, <2>1 DEF PlanOf
    <2> QED BY <1>1, <2>2 DEF ViewInv, PlanOK
  <1> QED BY <1>2, <1>5, <1>6, <1>7 DEF ViewInv

(* Every step of views, caches and application keeps the invariant. *)
LEMMA ViewNextKeeps ==
  ASSUME ViewInv, [ViewNext]_<<vars, viewVars>>
  PROVE  ViewInv'
  <1>1. CASE Call
    BY <1>1, CallKeeps
  <1>2. CASE \E v \in Views : Open(v) \/ Close(v)
    BY <1>2, OpenKeeps, CloseKeeps
  <1>3. CASE \E c \in Caches : CreateCollection(c)
    BY <1>3, CreateCollectionKeeps
  <1>4. CASE DisposeCollections(Caches) \/ \E c \in Caches : DisposeCollections({c})
    <2>1. Caches \in SUBSET Caches /\ \A c \in Caches : {c} \in SUBSET Caches
      OBVIOUS
    <2> QED BY <1>4, <2>1, DisposeCollectionsKeeps
  <1>5. CASE Plan
    BY <1>5, PlanKeeps
  <1>6. CASE NoPlan \/ Schedule
    BY <1>6, NoPlanKeeps, ScheduleKeeps
  <1>7. CASE Work
    BY <1>7, WorkKeeps
  <1>8. CASE Flush
    BY <1>8, FlushKeeps
  <1>9. CASE Answered
    BY <1>9, AnsweredKeeps
  <1>10. CASE UNCHANGED <<vars, viewVars>>
    BY <1>10, ViewStutterKeeps
  <1> QED BY <1>1, <1>2, <1>3, <1>4, <1>5, <1>6, <1>7, <1>8, <1>9, <1>10
          DEF ViewNext, Application, Runtime

-----------------------------------------------------------------------------
(* The strengthening holds in every state: it relates what is demanded, the *)
(* lanes, who is told and what is shown, and the plan being admitted.       *)
THEOREM ViewsInductive == ViewSpec => []ViewInv
  <1>1. ViewInit => ViewInv
    BY ViewInitHolds
  <1>2. ViewInv /\ [ViewNext]_<<vars, viewVars>> => ViewInv'
    BY ViewNextKeeps
  <1> QED BY <1>1, <1>2, PTL DEF ViewSpec

(* The state a component shows is the state of its key in its view, after   *)
(* every flush, for all views, demands and budgets.                         *)
THEOREM ViewsShowTheCache == ViewSpec => []ReadersCurrent
  <1>1. ViewInv => ReadersCurrent
    BY DEF ViewInv, RestOK, ReadOK, ReadersCurrent
  <1> QED BY <1>1, ViewsInductive, PTL

(* A load goes on only for a key that an open view demands.                 *)
THEOREM OnlyDemandLoads == ViewSpec => []LoadsWanted
  <1>1. ASSUME ViewInv PROVE LoadsWanted
    <2> SUFFICES ASSUME NEW k \in Keys, entry[k].busy
                 PROVE  \E v \in Views : IsOpen(v) /\ k \in KeysIn(demand[v])
      BY DEF LoadsWanted
    <2>1. entry[k].desired /\ k \in ToSet(residents)
      BY <1>1, EntryFacts DEF ViewInv
    <2>2. k \in Demanded
      BY <1>1, <2>1 DEF ViewInv, WantOK
    <2> QED BY <1>1, <2>2, DemandedFacts DEF ViewInv
  <1> QED BY <1>1, ViewsInductive, PTL

(* Views that come, go and plan leave the values of the caches owned.       *)
THEOREM ViewsOwnValues == ViewSpec => []ValuesOwned
  <1>1. ViewInv => ValuesOwned
    BY EntryFacts DEF ViewInv, ValuesOwned
  <1> QED BY <1>1, ViewsInductive, PTL

PlanStep ==
  pc = "admit" =>
    /\ KeysIn(wanted) \cap ToSet(residents) \subseteq ToSet(residents')
    /\ todo = <<>> => KeysIn(wanted) \subseteq ToSet(residents)

(* What a step of an admission may do. *)
LEMMA PlanStepHolds ==
  ASSUME ViewInv, ViewNext
  PROVE  PlanStep
  <1> SUFFICES ASSUME pc = "admit"
               PROVE  /\ KeysIn(wanted) \cap ToSet(residents) \subseteq ToSet(residents')
                      /\ todo = <<>> => KeysIn(wanted) \subseteq ToSet(residents)
    BY DEF PlanStep
  <1>1. PICK c \in Caches : PlanOf(c)
    BY DEF ViewInv, PlanOK
  <1>2. todo = <<>> => KeysIn(wanted) \subseteq ToSet(residents)
    BY <1>1, NoKeys DEF PlanOf
  <1>3. at # "rest"
    BY DEF ViewInv, RestOK
  <1>4. CASE Evict
    <2>1. PICK victim \in ToSet(residents) : Drop({victim}) /\ victim \notin KeysIn(wanted)
      BY <1>4, EvictSpares DEF ViewInv
    <2>2. ToSet(residents') = ToSet(residents) \ {victim}
      BY <2>1, DropSteady DEF ViewInv
    <2> QED BY <1>2, <2>1, <2>2
  <1>5. CASE PassOver \/ ReconcileEnd
    <2>1. residents' = residents
      BY <1>5 DEF PassOver, ReconcileEnd, caches
    <2> QED BY <1>2, <2>1
  <1>6. CASE Admit
    BY <1>2, <1>6, AdmitSteady DEF ViewInv
  <1>7. Evict \/ PassOver \/ ReconcileEnd \/ Admit
    <2>1. ~Application /\ ~Answered
      BY <1>3 DEF Application, Call, Open, Close, DisposeCollections, CreateCollection, Answered
    <2>2. ~Plan /\ ~NoPlan /\ ~Schedule /\ ~Flush
      BY DEF Plan, NoPlan, Schedule, Step, Flush
    <2>3. Work
      BY <2>1, <2>2 DEF ViewNext, Runtime
    <2> QED BY <2>3 DEF Work, Complete, Preempt, Start, Starting, CompletionsEnd, StepEnd
  <1> QED BY <1>4, <1>5, <1>6, <1>7

(* All of a plan is admitted, and none of it is evicted to make room: what  *)
(* Fitting cuts off the union is enough, for all costs and budgets.         *)
THEOREM PlansFit == ViewSpec => PlanAdmitted
  <1>1. ViewInv /\ [ViewNext]_<<vars, viewVars>> => [PlanStep]_<<vars, viewVars>>
    BY PlanStepHolds
  <1>2. PlanAdmitted <=> [][PlanStep]_<<vars, viewVars>>
    BY DEF PlanAdmitted, PlanStep
  <1> HIDE DEF PlanStep, PlanAdmitted
  <1> QED BY <1>1, <1>2, ViewsInductive, PTL DEF ViewSpec
=============================================================================
