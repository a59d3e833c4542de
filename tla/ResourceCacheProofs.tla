------------------------ MODULE ResourceCacheProofs -------------------------
(***************************************************************************)
(* The budgets, the failure budget, the values and the loads of the shared *)
(* read scheduler are right for all keys, costs, limits and plans: they    *)
(* follow from IInv, which every step keeps.  So is admission, which       *)
(* follows from AdmissionOK.                                               *)
(***************************************************************************)
EXTENDS ResourceCacheProperties, FoldLemmas

(* An entry, and a load or a completion that outlives one.                  *)
Entries ==
  [desired : BOOLEAN, pin : BOOLEAN, priority : Nat, touched : Nat, busy : BOOLEAN,
   generation : Nat, result : {"none", "ok", "failed"}, charged : BOOLEAN, attempts : Nat,
   backoff : Nat, age : Nat, declined : BOOLEAN, state : {"pending", "ready", "error"},
   value : Nat, stale : BOOLEAN, error : BOOLEAN]
Flights == [key : Keys, generation : Nat, left : Nat, live : BOOLEAN]

TypeOK ==
  /\ residents \in Seq(Keys) /\ arrived \in Seq(Keys) /\ todo \in Seq(Demands)
  /\ entry \in [Keys -> Entries] /\ cost \in [Caches -> Nat] /\ dead \subseteq Caches
  /\ active \in Nat /\ flights \subseteq Flights /\ IsFiniteSet(flights)
  /\ alive \in [Keys -> SUBSET Nat] /\ failures \in [Keys -> Nat] /\ intruded \in BOOLEAN

(* Only residents have an entry, and none is in a cache disposed of, nor    *)
(* about to be admitted to one.                                             *)
ResidentsOK ==
  /\ \A k \in Keys \ ToSet(residents) : entry[k] = Blank
  /\ \A k \in ToSet(residents) : HomeOf[k] \notin dead
  /\ \A d \in ToSet(todo) : pc = "admit" /\ HomeOf[d.key] \notin dead

(* A load is charged while it is under way or waits to be materialized, and *)
(* an entry is worked on only while it is desired.                          *)
EntryOK(k) ==
  /\ entry[k].busy <=> entry[k].charged
  /\ entry[k].result # "none" => entry[k].busy
  /\ entry[k].busy => entry[k].desired
  /\ entry[k].attempts = failures[k] + IF entry[k].charged THEN 1 ELSE 0
  /\ alive[k] = IF entry[k].state = "ready" THEN {entry[k].value} ELSE {}

(* A load under way waits for one completion, told from the late ones of    *)
(* earlier loads by its generation.                                         *)
Waits(k) == entry[k].busy /\ entry[k].result = "none"
FlightsOK ==
  /\ \A f \in flights : f.live => Waits(f.key) /\ entry[f.key].generation = f.generation
  /\ \A f \in flights : ~f.live => ~(Waits(f.key) /\ entry[f.key].generation = f.generation)
  /\ \A f, g \in flights : f.live /\ g.live /\ f.key = g.key => f = g
  /\ \A k \in Keys : Waits(k) => \E f \in flights : f.live /\ f.key = k
  /\ Cardinality({f \in flights : ~f.live}) <= MaxLate

ArrivedOK == IsInjective(arrived) /\ ToSet(arrived) = {k \in Keys : entry[k].result # "none"}

IInv ==
  /\ TypeOK /\ ResidentsOK /\ FlightsOK /\ ArrivedOK /\ BudgetsHold /\ NoIntruder
  /\ \A k \in Keys : EntryOK(k)

-----------------------------------------------------------------------------
(* Sequences and sets.                                                      *)

(* The equation TotalCost recurs by, and that it has one solution. *)
Pick(T) == CHOOSE k \in T : TRUE
Adds(S, h) ==
  h = [T \in SUBSET S |-> IF T = {} THEN 0 ELSE Cost[Pick(T)] + h[T \ {Pick(T)}]]

LEMMA AddsEquation ==
  ASSUME NEW S, NEW h
  PROVE  Adds(S, h) <=>
           /\ h = [T \in SUBSET S |-> h[T]] /\ h[{}] = 0
           /\ \A T \in SUBSET S : T # {} => h[T] = Cost[Pick(T)] + h[T \ {Pick(T)}]
  <1> DEFINE At(T) == IF T = {} THEN 0 ELSE Cost[Pick(T)] + h[T \ {Pick(T)}]
  <1>1. Adds(S, h) <=> h = [T \in SUBSET S |-> At(T)]
    BY DEF Adds
  <1>2. At({}) = 0 /\ \A T \in SUBSET S : T # {} => At(T) = Cost[Pick(T)] + h[T \ {Pick(T)}]
    OBVIOUS
  <1>3. {} \in SUBSET S
    OBVIOUS
  <1> HIDE DEF At
  <1> QED BY <1>1, <1>2, <1>3

LEMMA PickIn ==
  ASSUME NEW T, T # {}
  PROVE  Pick(T) \in T
  BY DEF Pick

LEMMA AddsExists ==
  ASSUME NEW S \in SUBSET Keys, IsFiniteSet(S)
  PROVE  \E h \in [SUBSET S -> Nat] : Adds(S, h)
  <1> DEFINE pick == [T \in SUBSET S |-> Pick(T)]
             step == [k \in S |-> [v \in Nat |-> Cost[k] + v]]
  <1>1. \A T \in SUBSET S : T # {} => pick[T] \in T
    BY PickIn
  <1>2. step \in [S -> [Nat -> Nat]]
    BY CacheAssumption
  <1>3. PICK h : h \in SetFolds(S, Nat, 0, pick, step)
    <2> HIDE DEF pick, step
    <2> QED BY <1>1, <1>2, SetFold
  <1>4. h \in [SUBSET S -> Nat]
    <2> HIDE DEF pick, step
    <2> QED BY <1>3 DEF SetFolds
  <1>5. \A T \in SUBSET S : h[T] = IF T = {} THEN 0 ELSE step[pick[T]][h[T \ {pick[T]}]]
    <2> HIDE DEF pick, step
    <2> QED BY <1>3 DEF SetFolds
  <1>6. ASSUME NEW T \in SUBSET S, T # {} PROVE h[T] = Cost[Pick(T)] + h[T \ {Pick(T)}]
    <2>1. Pick(T) \in S /\ T \ {Pick(T)} \in SUBSET S
      BY <1>6, PickIn
    <2>2. h[T \ {Pick(T)}] \in Nat
      BY <1>4, <2>1
    <2> QED BY <1>5, <1>6, <2>1, <2>2
  <1>7. h[{}] = 0 /\ h = [T \in SUBSET S |-> h[T]]
    BY <1>4, <1>5
  <1> QED BY <1>4, <1>6, <1>7, AddsEquation

LEMMA AddsAgree ==
  ASSUME NEW S, IsFiniteSet(S), NEW T \in SUBSET S, NEW g, Adds(S, g), NEW h, Adds(T, h)
  PROVE  g[T] = h[T]
  <1> DEFINE Bad == {U \in SUBSET T : g[U] # h[U]}
  <1>1. IsFiniteSet(T) /\ Bad \in SUBSET SUBSET T
    BY FS_Subset
  <1>2. SUFFICES ASSUME Bad # {} PROVE FALSE
    OBVIOUS
  <1>3. PICK U \in Bad : \A W \in Bad : W \subseteq U => W = U
    <2> HIDE DEF Bad
    <2> QED BY <1>1, <1>2, LeastSet
  <1>4. U # {}
    BY AddsEquation
  <1>5. Pick(U) \in U /\ U \ {Pick(U)} \in SUBSET T /\ U \in SUBSET S /\ U \in SUBSET T
    BY <1>4, PickIn
  <1>6. g[U \ {Pick(U)}] = h[U \ {Pick(U)}]
    BY <1>3, <1>5
  <1>7. g[U] = Cost[Pick(U)] + g[U \ {Pick(U)}] /\ h[U] = Cost[Pick(U)] + h[U \ {Pick(U)}]
    BY <1>4, <1>5, AddsEquation
  <1> QED BY <1>6, <1>7

(* TotalCost takes one key, and adds up the rest. *)
LEMMA CostStep ==
  ASSUME NEW S \in SUBSET Keys, IsFiniteSet(S)
  PROVE  /\ TotalCost(S) \in Nat
         /\ S = {} => TotalCost(S) = 0
         /\ S # {} => Pick(S) \in S /\ TotalCost(S) = Cost[Pick(S)] + TotalCost(S \ {Pick(S)})
  <1>1. ASSUME NEW T \in SUBSET Keys, IsFiniteSet(T)
        PROVE  \E h \in [SUBSET T -> Nat] : Adds(T, h) /\ TotalCost(T) = h[T]
    <2>1. TotalCost(T) = (CHOOSE h : Adds(T, h))[T]
      BY DEF TotalCost, MapThenSumSet, MapThenFoldSet, Adds, Pick
    <2>2. Adds(T, CHOOSE h : Adds(T, h))
      BY <1>1, AddsExists
    <2>3. PICK g \in [SUBSET T -> Nat] : Adds(T, g)
      BY <1>1, AddsExists
    <2>4. g[T] = (CHOOSE h : Adds(T, h))[T]
      BY <1>1, <2>2, <2>3, AddsAgree
    <2> QED BY <2>1, <2>3, <2>4
  <1>2. PICK h \in [SUBSET S -> Nat] : Adds(S, h) /\ TotalCost(S) = h[S]
    BY <1>1
  <1>3. TotalCost(S) \in Nat /\ (S = {} => TotalCost(S) = 0)
    BY <1>2, AddsEquation
  <1>4. ASSUME S # {} PROVE TotalCost(S) = Cost[Pick(S)] + TotalCost(S \ {Pick(S)})
    <2> DEFINE R == S \ {Pick(S)}
    <2>1. R \in SUBSET S /\ R \in SUBSET Keys /\ IsFiniteSet(R)
      BY FS_Subset
    <2>2. PICK g \in [SUBSET R -> Nat] : Adds(R, g) /\ TotalCost(R) = g[R]
      <3> HIDE DEF R
      <3> QED BY <1>1, <2>1
    <2>3. h[R] = g[R]
      <3> HIDE DEF R
      <3> QED BY <1>2, <2>1, <2>2, AddsAgree
    <2>4. h[S] = Cost[Pick(S)] + h[R]
      BY <1>2, <1>4, AddsEquation
    <2> QED BY <1>2, <2>2, <2>3, <2>4
  <1> QED BY <1>3, <1>4, PickIn

(* One more key adds its cost, and the costs of a part can be taken away. *)
LEMMA CostInsert ==
  ASSUME NEW S \in SUBSET Keys, IsFiniteSet(S), NEW k \in Keys, k \notin S
  PROVE  TotalCost(S \cup {k}) = TotalCost(S) + Cost[k]
  <1> DEFINE All == S \cup {k}
             Adding(T, j) == TotalCost(T \cup {j}) = TotalCost(T) + Cost[j]
             Bad == {T \in SUBSET All : \E j \in All \ T : ~Adding(T, j)}
  <1>1. All \in SUBSET Keys /\ IsFiniteSet(All)
    BY FS_AddElement
  <1>2. SUFFICES ASSUME Bad # {} PROVE FALSE
    <2>1. S \in SUBSET All /\ k \in All \ S
      OBVIOUS
    <2> HIDE DEF Adding
    <2>2. Adding(S, k)
      BY <2>1
    <2> QED BY <2>2 DEF Adding
  <1> HIDE DEF All
  <1>3. PICK T \in Bad : \A U \in Bad : U \subseteq T => U = T
    <2>1. Bad \in SUBSET SUBSET All
      OBVIOUS
    <2> HIDE DEF Bad
    <2> QED BY <1>1, <1>2, <2>1, LeastSet
  <1>4. T \in SUBSET All /\ \A U \in SUBSET T : U # T => \A j \in All \ U : Adding(U, j)
    <2> HIDE DEF Adding
    <2> QED BY <1>3
  <1>5. PICK j \in All \ T : ~Adding(T, j)
    <2> HIDE DEF Adding
    <2> QED BY <1>3
  <1> HIDE DEF Bad
  <1> DEFINE W == T \cup {j}
             p == Pick(W)
  <1>6. /\ T \in SUBSET Keys /\ IsFiniteSet(T) /\ j \in Keys
        /\ W \in SUBSET Keys /\ IsFiniteSet(W) /\ W # {}
    BY <1>1, <1>4, <1>5, FS_Subset, FS_AddElement
  <1>7. p \in W /\ TotalCost(W) = Cost[p] + TotalCost(W \ {p})
    <2> HIDE DEF W
    <2> QED BY <1>6, CostStep
  <1> HIDE DEF p
  <1>8. p # j
    <2> SUFFICES ASSUME p = j PROVE FALSE
      OBVIOUS
    <2>1. W \ {p} = T
      BY <1>5
    <2>2. TotalCost(W) = Cost[j] + TotalCost(T)
      BY <1>7, <2>1
    <2>3. TotalCost(T) \in Nat /\ Cost[j] \in Nat
      BY <1>6, CostStep, CacheAssumption
    <2> QED BY <1>5, <2>2, <2>3
  <1> DEFINE R == T \ {p}
  <1>9. p \in T /\ W \ {p} = R \cup {j} /\ R \cup {p} = T /\ R # T /\ R \in SUBSET T
        /\ p \in All \ R /\ j \in All \ R
    BY <1>4, <1>5, <1>7, <1>8
  <1>10. Adding(R, j) /\ Adding(R, p)
    <2> HIDE DEF R, Adding
    <2> QED BY <1>4, <1>9
  <1>11. TotalCost(R) \in Nat /\ Cost[p] \in Nat /\ Cost[j] \in Nat
    <2>1. R \in SUBSET Keys /\ IsFiniteSet(R)
      BY <1>6, FS_Subset
    <2> QED BY <1>6, <1>9, <2>1, CostStep, CacheAssumption
  <1>12. TotalCost(W) = Cost[p] + TotalCost(R \cup {j}) /\ TotalCost(R \cup {p}) = TotalCost(T)
    BY <1>7, <1>9
  <1> HIDE DEF R
  <1>13. /\ TotalCost(R \cup {j}) = TotalCost(R) + Cost[j]
         /\ TotalCost(R \cup {p}) = TotalCost(R) + Cost[p]
         /\ TotalCost(W) # TotalCost(T) + Cost[j]
    BY <1>5, <1>10
  <1> QED BY <1>11, <1>12, <1>13

LEMMA CostRemove ==
  ASSUME NEW S \in SUBSET Keys, IsFiniteSet(S), NEW K \in SUBSET S
  PROVE  TotalCost(S \ K) = TotalCost(S) - TotalCost(K)
  <1> DEFINE Removing(T) == TotalCost(S) = TotalCost(S \ T) + TotalCost(T)
             Bad == {T \in SUBSET S : ~Removing(T)}
  <1>1. ASSUME NEW T \in SUBSET S
        PROVE  /\ T \in SUBSET Keys /\ IsFiniteSet(T) /\ S \ T \in SUBSET Keys /\ IsFiniteSet(S \ T)
               /\ TotalCost(T) \in Nat /\ TotalCost(S \ T) \in Nat
    <2>1. T \in SUBSET Keys /\ IsFiniteSet(T) /\ S \ T \in SUBSET Keys /\ IsFiniteSet(S \ T)
      BY FS_Subset
    <2> QED BY <2>1, CostStep
  <1>2. SUFFICES ASSUME Bad # {} PROVE FALSE
    <2>1. TotalCost(S) = TotalCost(S \ K) + TotalCost(K)
      <3> HIDE DEF Removing
      <3>1. Removing(K)
        OBVIOUS
      <3> QED BY <3>1 DEF Removing
    <2>2. TotalCost(S \ K) \in Nat /\ TotalCost(K) \in Nat
      BY <1>1
    <2> QED BY <2>1, <2>2
  <1>3. PICK T \in Bad : \A U \in Bad : U \subseteq T => U = T
    <2>1. Bad \in SUBSET SUBSET S
      OBVIOUS
    <2> HIDE DEF Bad
    <2> QED BY <1>2, <2>1, LeastSet
  <1>4. T \in SUBSET S /\ ~Removing(T) /\ \A U \in SUBSET T : U # T => Removing(U)
    <2> HIDE DEF Removing
    <2> QED BY <1>3
  <1>5. T # {}
    <2> SUFFICES ASSUME T = {} PROVE FALSE
      OBVIOUS
    <2>1. S \ T = S /\ TotalCost(T) = 0 /\ TotalCost(S) \in Nat
      BY <1>1, CostStep
    <2> QED BY <1>4, <2>1
  <1>6. PICK k : k \in T
    BY <1>5
  <1> DEFINE R == T \ {k}
  <1>7. R \in SUBSET T /\ R # T /\ R \in SUBSET S /\ R \cup {k} = T /\ k \notin R /\ k \in Keys
        /\ S \ R = (S \ T) \cup {k} /\ k \notin S \ T
    BY <1>4, <1>6
  <1> HIDE DEF R
  <1>8. TotalCost(S) = TotalCost(S \ R) + TotalCost(R)
    BY <1>4, <1>7
  <1>9. TotalCost(T) = TotalCost(R) + Cost[k]
    BY <1>1, <1>7, CostInsert
  <1>10. TotalCost(S \ R) = TotalCost(S \ T) + Cost[k]
    BY <1>1, <1>4, <1>7, CostInsert
  <1>11. TotalCost(R) \in Nat /\ TotalCost(T) \in Nat /\ TotalCost(S \ T) \in Nat /\ Cost[k] \in Nat
    BY <1>1, <1>4, <1>7, CacheAssumption
  <1> QED BY <1>4, <1>8, <1>9, <1>10, <1>11

(* Extremes of sets of numbers. *)
LEMMA MinIn ==
  ASSUME NEW S \in SUBSET Nat, S # {}
  PROVE  Min(S) \in S /\ \A x \in S : Min(S) <= x
  <1>1. \E x \in S : \A y \in S : x <= y
    BY LeastNumber
  <1> QED BY <1>1 DEF Min

LEMMA MaxIn ==
  ASSUME NEW m \in Nat, NEW S \in SUBSET (1 .. m), S # {}
  PROVE  Max(S) \in S
  <1> DEFINE Gaps == {m - x : x \in S}
  <1>1. Gaps \in SUBSET Nat /\ Gaps # {}
    <2>1. \A x \in S : x \in Nat /\ m - x \in Nat
      OBVIOUS
    <2> QED BY <2>1
  <1>2. PICK g \in Gaps : \A h \in Gaps : g <= h
    <2> HIDE DEF Gaps
    <2> QED BY <1>1, LeastNumber
  <1>3. PICK x \in S : g = m - x
    OBVIOUS
  <1>4. \A y \in S : m - x <= m - y
    BY <1>2, <1>3
  <1>5. ASSUME NEW y \in S PROVE x >= y
    <2>1. x \in Nat /\ y \in Nat /\ m - x <= m - y
      BY <1>4
    <2> QED BY <2>1
  <1> QED BY <1>5 DEF Max

(* The equation the merged keys of a plan are collected by. *)
Collected(seen, d) == IF Contains(seen, d.key) THEN seen ELSE Append(seen, d.key)
Collects(plan, h) ==
  h = [T \in SUBSET DOMAIN plan |->
         IF T = {} THEN <<>> ELSE Collected(h[T \ {Max(T)}], plan[Max(T)])]
KeysOf(plan) == {plan[i].key : i \in DOMAIN plan}

LEMMA CollectsEquation ==
  ASSUME NEW plan, NEW h
  PROVE  Collects(plan, h) <=>
           /\ h = [T \in SUBSET DOMAIN plan |-> h[T]] /\ h[{}] = <<>>
           /\ \A T \in SUBSET DOMAIN plan : T # {} => h[T] = Collected(h[T \ {Max(T)}], plan[Max(T)])
  <1> DEFINE At(T) == IF T = {} THEN <<>> ELSE Collected(h[T \ {Max(T)}], plan[Max(T)])
  <1>1. Collects(plan, h) <=> h = [T \in SUBSET DOMAIN plan |-> At(T)]
    BY DEF Collects
  <1>2. At({}) = <<>> /\ \A T \in SUBSET DOMAIN plan :
          T # {} => At(T) = Collected(h[T \ {Max(T)}], plan[Max(T)])
    OBVIOUS
  <1>3. {} \in SUBSET DOMAIN plan
    OBVIOUS
  <1> HIDE DEF At
  <1> QED BY <1>1, <1>2, <1>3

LEMMA CollectedIn ==
  ASSUME NEW plan, NEW seen \in Seq(KeysOf(plan)), NEW i \in DOMAIN plan
  PROVE  Collected(seen, plan[i]) \in Seq(KeysOf(plan))
  <1>1. plan[i].key \in KeysOf(plan)
    BY DEF KeysOf
  <1> QED BY <1>1 DEF Collected

LEMMA CollectsExists ==
  ASSUME NEW plan \in Seq(Demands)
  PROVE  \E h : Collects(plan, h)
  <1> DEFINE D == DOMAIN plan
             V == Seq(KeysOf(plan))
             pick == [T \in SUBSET D |-> Max(T)]
             step == [i \in D |-> [v \in V |-> Collected(v, plan[i])]]
  <1>1. D = 1 .. Len(plan) /\ Len(plan) \in Nat /\ IsFiniteSet(D) /\ <<>> \in V
    BY FS_Interval
  <1>2. \A T \in SUBSET D : T # {} => Max(T) \in T
    BY <1>1, MaxIn
  <1>3. \A T \in SUBSET D : T # {} => pick[T] \in T
    BY <1>2
  <1>4. step \in [D -> [V -> V]]
    BY CollectedIn
  <1>5. PICK h : h \in SetFolds(D, V, <<>>, pick, step)
    <2> HIDE DEF D, V, pick, step
    <2> QED BY <1>1, <1>3, <1>4, SetFold
  <1>6. /\ h \in [SUBSET D -> V]
        /\ \A T \in SUBSET D : h[T] = IF T = {} THEN <<>> ELSE step[pick[T]][h[T \ {pick[T]}]]
    <2> HIDE DEF D, V, pick, step
    <2> QED BY <1>5 DEF SetFolds
  <1>7. ASSUME NEW T \in SUBSET D, T # {} PROVE h[T] = Collected(h[T \ {Max(T)}], plan[Max(T)])
    <2>1. Max(T) \in D /\ T \ {Max(T)} \in SUBSET D /\ pick[T] = Max(T)
      BY <1>2, <1>7
    <2>2. h[T \ {Max(T)}] \in V
      <3> HIDE DEF D, V
      <3> QED BY <1>6, <2>1
    <2>3. h[T] = step[Max(T)][h[T \ {Max(T)}]]
      <3> HIDE DEF D, V, step, pick
      <3> QED BY <1>6, <1>7, <2>1
    <2> HIDE DEF V, D
    <2> QED BY <2>1, <2>2, <2>3
  <1>8. h[{}] = <<>> /\ h = [T \in SUBSET D |-> h[T]]
    <2> HIDE DEF D, V, pick, step
    <2> QED BY <1>6
  <1> QED BY <1>7, <1>8, CollectsEquation

(* Keys gathered from the first m demands: each once, and one that comes    *)
(* earlier was demanded before any demand of a later one.                   *)
Gathered(plan, m, s) ==
  /\ s \in Seq(Keys)
  /\ \A r \in 1 .. m : \E i \in DOMAIN s : s[i] = plan[r].key
  /\ \A i \in DOMAIN s : \E q \in 1 .. m : plan[q].key = s[i]
  /\ \A i, j \in DOMAIN s : i < j =>
       s[i] # s[j] /\ \E q \in 1 .. m : plan[q].key = s[i] /\ \A r \in 1 .. m : plan[r].key = s[j] => q < r

LEMMA GatherOne ==
  ASSUME NEW plan \in Seq(Demands), NEW m \in 1 .. Len(plan), NEW s, Gathered(plan, m - 1, s)
  PROVE  Gathered(plan, m, Collected(s, plan[m]))
  <1> DEFINE key == plan[m].key
  <1>1. m \in Nat /\ m - 1 \in Nat /\ (\A q : q \in 1 .. m <=> q \in 1 .. m - 1 \/ q = m)
        /\ \A q \in 1 .. m - 1 : q < m
    OBVIOUS
  <1>2. key \in Keys
    <2>1. plan[m] \in Demands
      OBVIOUS
    <2> QED BY <2>1 DEF Demands
  <1>3. /\ s \in Seq(Keys)
        /\ \A r \in 1 .. m - 1 : \E i \in DOMAIN s : s[i] = plan[r].key
        /\ \A i \in DOMAIN s : \E q \in 1 .. m - 1 : plan[q].key = s[i]
        /\ \A i, j \in DOMAIN s : i < j =>
             s[i] # s[j] /\ \E q \in 1 .. m - 1 : plan[q].key = s[i]
                                /\ \A r \in 1 .. m - 1 : plan[r].key = s[j] => q < r
    BY DEF Gathered
  <1>4. DOMAIN s = 1 .. Len(s) /\ Len(s) \in Nat
    BY <1>3
  <1> HIDE DEF key
  <1>5. CASE \E i \in DOMAIN s : s[i] = key
    <2>1. Collected(s, plan[m]) = s
      BY <1>4, <1>5 DEF Collected, Contains, key
    <2>2. \A r \in 1 .. m : \E i \in DOMAIN s : s[i] = plan[r].key
      BY <1>1, <1>3, <1>5 DEF key
    <2>3. \A i \in DOMAIN s : \E q \in 1 .. m : plan[q].key = s[i]
      BY <1>1, <1>3
    <2>4. ASSUME NEW i \in DOMAIN s, NEW j \in DOMAIN s, i < j
          PROVE  s[i] # s[j] /\ \E q \in 1 .. m : plan[q].key = s[i]
                                   /\ \A r \in 1 .. m : plan[r].key = s[j] => q < r
      <3>1. PICK q \in 1 .. m - 1 : plan[q].key = s[i] /\ \A r \in 1 .. m - 1 : plan[r].key = s[j] => q < r
        BY <1>3, <2>4
      <3>2. s[i] # s[j]
        BY <1>3, <2>4
      <3>3. q \in 1 .. m /\ \A r \in 1 .. m : plan[r].key = s[j] => q < r
        BY <1>1, <3>1
      <3> QED BY <3>1, <3>2, <3>3
    <2> QED BY <1>3, <2>1, <2>2, <2>3, <2>4 DEF Gathered
  <1>6. CASE ~\E i \in DOMAIN s : s[i] = key
    <2> DEFINE t == Append(s, key)
    <2>1. Collected(s, plan[m]) = t
      BY <1>4, <1>6 DEF Collected, Contains, key
    <2>2. /\ t \in Seq(Keys) /\ DOMAIN t = 1 .. Len(s) + 1 /\ t[Len(s) + 1] = key
          /\ \A i \in DOMAIN s : i \in DOMAIN t /\ t[i] = s[i]
          /\ \A i \in DOMAIN t : i \in DOMAIN s \/ i = Len(s) + 1
      BY <1>2, <1>3, <1>4
    <2> HIDE DEF t
    <2>3. \A r \in 1 .. m : \E i \in DOMAIN t : t[i] = plan[r].key
      <3>1. Len(s) + 1 \in DOMAIN t
        BY <1>4, <2>2
      <3> TAKE r \in 1 .. m
      <3>2. CASE r = m
        BY <2>2, <3>1, <3>2 DEF key
      <3>3. CASE r \in 1 .. m - 1
        <4>1. PICK i \in DOMAIN s : s[i] = plan[r].key
          BY <1>3, <3>3
        <4> QED BY <2>2, <4>1
      <3> QED BY <1>1, <3>2, <3>3
    <2>4. \A i \in DOMAIN t : \E q \in 1 .. m : plan[q].key = t[i]
      <3> TAKE i \in DOMAIN t
      <3>1. CASE i = Len(s) + 1
        BY <1>1, <2>2, <3>1 DEF key
      <3>2. CASE i \in DOMAIN s
        <4>1. PICK q \in 1 .. m - 1 : plan[q].key = s[i]
          BY <1>3, <3>2
        <4> QED BY <1>1, <2>2, <3>2, <4>1
      <3> QED BY <2>2, <3>1, <3>2
    <2>5. ASSUME NEW i \in DOMAIN t, NEW j \in DOMAIN t, i < j
          PROVE  t[i] # t[j] /\ \E q \in 1 .. m : plan[q].key = t[i]
                                   /\ \A r \in 1 .. m : plan[r].key = t[j] => q < r
      <3>1. i \in DOMAIN s
        BY <1>4, <2>2, <2>5
      <3>2. CASE j \in DOMAIN s
        <4>1. PICK q \in 1 .. m - 1 :
                plan[q].key = s[i] /\ \A r \in 1 .. m - 1 : plan[r].key = s[j] => q < r
          BY <1>3, <2>5, <3>1, <3>2
        <4>2. s[i] # s[j]
          BY <1>3, <2>5, <3>1, <3>2
        <4>3. q \in 1 .. m /\ \A r \in 1 .. m : plan[r].key = s[j] => q < r
          BY <1>1, <4>1
        <4> QED BY <2>2, <3>1, <3>2, <4>1, <4>2, <4>3
      <3>3. CASE j = Len(s) + 1
        <4>1. t[j] = key /\ t[i] = s[i] /\ s[i] # key
          BY <1>6, <2>2, <3>1, <3>3
        <4>2. PICK q \in 1 .. m - 1 : plan[q].key = s[i]
          BY <1>3, <3>1
        <4>3. \A r \in 1 .. m - 1 : plan[r].key # key
          BY <1>3, <1>6
        <4>4. q \in 1 .. m /\ \A r \in 1 .. m : plan[r].key = key => q < r
          BY <1>1, <4>3
        <4> QED BY <4>1, <4>2, <4>4
      <3> QED BY <2>2, <3>2, <3>3
    <2> QED BY <2>1, <2>2, <2>3, <2>4, <2>5 DEF Gathered
  <1> QED BY <1>5, <1>6

(* Reconcile gathers the keys of a plan, one demand for each.               *)
LEMMA MergedGathers ==
  ASSUME NEW plan \in Seq(Demands)
  PROVE  \E keys : /\ Gathered(plan, Len(plan), keys)
                   /\ Merged(plan) = [i \in DOMAIN keys |->
                        [key |-> keys[i],
                         priority |-> Min({d.priority : d \in {d \in ToSet(plan) : d.key = keys[i]}}),
                         pin |-> \E d \in {d \in ToSet(plan) : d.key = keys[i]} : d.pin]]
  <1> DEFINE D == DOMAIN plan
  <1>1. PICK h : Collects(plan, h) /\ h[D] = FoldLeft(LAMBDA seen, d : IF Contains(seen, d.key) THEN seen
                                                        ELSE Append(seen, d.key), <<>>, plan)
    <2>1. FoldLeft(LAMBDA seen, d : IF Contains(seen, d.key) THEN seen ELSE Append(seen, d.key), <<>>, plan)
          = (CHOOSE h : Collects(plan, h))[D]
      BY DEF FoldLeft, MapThenFoldSet, Collects, Collected
    <2> QED BY <2>1, CollectsExists
  <1>2. D = 1 .. Len(plan) /\ Len(plan) \in Nat
    OBVIOUS
  <1> DEFINE Good(m) == Gathered(plan, m, h[1 .. m])
             Bad == {m \in 0 .. Len(plan) : ~Good(m)}
  <1>3. Good(0)
    <2>1. h[{}] = <<>>
      BY <1>1, CollectsEquation
    <2>2. 1 .. 0 = {} /\ <<>> \in Seq(Keys) /\ DOMAIN <<>> = {}
      OBVIOUS
    <2>3. Gathered(plan, 0, <<>>)
      BY <2>2 DEF Gathered
    <2> QED BY <2>1, <2>2, <2>3
  <1>4. ASSUME NEW m \in 1 .. Len(plan), Good(m - 1) PROVE Good(m)
    <2>1. 1 .. m \in SUBSET D /\ 1 .. m # {} /\ m \in Nat
      <3>1. m \in 1 .. m /\ m \in Nat /\ 1 .. m \in SUBSET (1 .. Len(plan))
        BY <1>2
      <3> HIDE DEF D
      <3> QED BY <1>2, <3>1
    <2>2. Max(1 .. m) = m
      <3>1. m \in 1 .. m /\ \A x \in 1 .. m : m >= x
        OBVIOUS
      <3>2. \A x \in 1 .. m : (\A y \in 1 .. m : x >= y) => x = m
        OBVIOUS
      <3> QED BY <3>1, <3>2 DEF Max
    <2>3. (1 .. m) \ {m} = 1 .. m - 1
      OBVIOUS
    <2>4. h[1 .. m] = Collected(h[1 .. m - 1], plan[m])
      BY <1>1, <2>1, <2>2, <2>3, CollectsEquation
    <2> QED BY <1>4, <2>4, GatherOne
  <1>5. Good(Len(plan))
    <2>1. SUFFICES ASSUME Bad # {} PROVE FALSE
      <3>1. Len(plan) \in 0 .. Len(plan)
        BY <1>2
      <3> HIDE DEF Good
      <3> QED BY <3>1
    <2>2. PICK m \in Bad : \A i \in Bad : m <= i
      <3>1. Bad \in SUBSET Nat
        OBVIOUS
      <3> HIDE DEF Bad
      <3> QED BY <2>1, <3>1, LeastNumber
    <2> HIDE DEF Good
    <2>3. m \in 1 .. Len(plan) /\ m - 1 \in 0 .. Len(plan) /\ m - 1 \notin Bad
      <3>1. m # 0
        BY <1>3, <2>2
      <3>2. m \in 0 .. Len(plan)
        OBVIOUS
      <3> HIDE DEF Bad
      <3> QED BY <2>2, <3>1, <3>2
    <2> QED BY <1>4, <2>2, <2>3
  <1>6. Gathered(plan, Len(plan), h[D])
    BY <1>2, <1>5
  <1> WITNESS h[D]
  <1>7. Merged(plan) = [i \in DOMAIN h[D] |->
           [key |-> h[D][i],
            priority |-> Min({d.priority : d \in {d \in ToSet(plan) : d.key = h[D][i]}}),
            pin |-> \E d \in {d \in ToSet(plan) : d.key = h[D][i]} : d.pin]]
    BY <1>1 DEF Merged
  <1> QED BY <1>6, <1>7

(* The demands merged from a plan are demands for its keys: each key once,  *)
(* at the priority of its most important demand.                            *)
LEMMA MergedFacts ==
  ASSUME NEW plan \in Seq(Demands)
  PROVE  /\ Merged(plan) \in Seq(Demands)
         /\ \E keys : /\ Gathered(plan, Len(plan), keys) /\ DOMAIN Merged(plan) = DOMAIN keys
                      /\ \A i \in DOMAIN keys :
                           /\ Merged(plan)[i].key = keys[i]
                           /\ \E q \in 1 .. Len(plan) :
                                plan[q].key = keys[i] /\ plan[q].priority = Merged(plan)[i].priority
                           /\ \A r \in 1 .. Len(plan) :
                                plan[r].key = keys[i] => Merged(plan)[i].priority <= plan[r].priority
  <1> DEFINE Of(k) == {d \in ToSet(plan) : d.key = k}
             Priorities(k) == {d.priority : d \in Of(k)}
             At(k) == [key |-> k, priority |-> Min(Priorities(k)), pin |-> \E d \in Of(k) : d.pin]
  <1>1. PICK keys : Gathered(plan, Len(plan), keys) /\ Merged(plan) = [i \in DOMAIN keys |-> At(keys[i])]
    BY MergedGathers
  <1>2. /\ keys \in Seq(Keys) /\ DOMAIN keys = 1 .. Len(keys) /\ Len(keys) \in Nat
        /\ \A i \in DOMAIN keys : keys[i] \in Keys /\ \E q \in 1 .. Len(plan) : plan[q].key = keys[i]
    BY <1>1 DEF Gathered
  <1>3. ASSUME NEW i \in DOMAIN keys
        PROVE  /\ At(keys[i]) \in Demands /\ At(keys[i]).key = keys[i]
               /\ \E q \in 1 .. Len(plan) : plan[q].key = keys[i] /\ plan[q].priority = At(keys[i]).priority
               /\ \A r \in 1 .. Len(plan) : plan[r].key = keys[i] => At(keys[i]).priority <= plan[r].priority
    <2> DEFINE k == keys[i]
    <2>1. k \in Keys
      BY <1>2
    <2>2. \A d \in Of(k) : d \in Demands /\ \E q \in 1 .. Len(plan) : d = plan[q] /\ plan[q].key = k
      BY DEF ToSet
    <2>3. \A r \in 1 .. Len(plan) : plan[r].key = k => plan[r] \in Of(k)
      BY DEF ToSet
    <2>4. PICK q \in 1 .. Len(plan) : plan[q].key = k
      BY <1>2
    <2> HIDE DEF Of, k
    <2>5. Priorities(k) \in SUBSET Nat /\ Priorities(k) # {}
      BY <2>2, <2>3, <2>4 DEF Demands
    <2> HIDE DEF Priorities
    <2>6. Min(Priorities(k)) \in Priorities(k) /\ \A x \in Priorities(k) : Min(Priorities(k)) <= x
      BY <2>5, MinIn
    <2>7. At(k) \in Demands /\ At(k).key = k /\ At(k).priority = Min(Priorities(k))
      BY <2>1, <2>5, <2>6 DEF Demands
    <2> HIDE DEF At
    <2>8. \E r \in 1 .. Len(plan) : plan[r].key = k /\ plan[r].priority = At(k).priority
      <3>1. PICK d \in Of(k) : d.priority = Min(Priorities(k))
        BY <2>6 DEF Priorities
      <3>2. PICK r \in 1 .. Len(plan) : d = plan[r] /\ plan[r].key = k
        BY <2>2
      <3> QED BY <2>7, <3>1, <3>2
    <2>9. \A r \in 1 .. Len(plan) : plan[r].key = k => At(k).priority <= plan[r].priority
      BY <2>3, <2>6, <2>7 DEF Priorities
    <2> QED BY <2>7, <2>8, <2>9 DEF k
  <1> HIDE DEF At
  <1>4. [i \in 1 .. Len(keys) |-> At(keys[i])] \in Seq(Demands)
    BY <1>2, <1>3
  <1>5. Merged(plan) \in Seq(Demands) /\ DOMAIN Merged(plan) = DOMAIN keys
        /\ \A i \in DOMAIN keys : Merged(plan)[i] = At(keys[i])
    BY <1>1, <1>2, <1>4
  <1> QED BY <1>1, <1>3, <1>5

-----------------------------------------------------------------------------
(* What the invariant says of the entries that are worked on.               *)

Busy == {k \in Keys : entry[k].busy}
Late == {f \in flights : ~f.live}
ActiveOK == active = Cardinality(Busy) /\ active <= MaxConcurrent
CostOK ==
  \A c \in Caches : /\ cost[c] = TotalCost(Resident(c)) /\ cost[c] <= MaxCost
                    /\ Cardinality(Resident(c)) <= MaxEntries

LEMMA BusyFacts ==
  ASSUME IInv
  PROVE  /\ Busy \in SUBSET ToSet(residents) /\ IsFiniteSet(Busy) /\ Cardinality(Busy) \in Nat
         /\ active = Cardinality(Busy) /\ active <= MaxConcurrent /\ CostOK
  <1>1. ToSet(residents) \in SUBSET Keys /\ IsFiniteSet(ToSet(residents))
    BY MembersFinite DEF IInv, TypeOK
  <1>2. Busy \in SUBSET ToSet(residents)
    BY DEF IInv, ResidentsOK, Busy, Blank
  <1>3. IsFiniteSet(Busy) /\ Cardinality(Busy) \in Nat
    BY <1>1, <1>2, FS_Subset, FS_CardinalityType
  <1> QED BY <1>2, <1>3 DEF IInv, BudgetsHold, Busy, CostOK

LEMMA EntryFacts ==
  ASSUME IInv, NEW k \in Keys
  PROVE  /\ entry[k] \in Entries /\ failures[k] \in Nat /\ alive[k] \in SUBSET Nat
         /\ entry[k].charged => entry[k].attempts - 1 \in Nat /\ entry[k].attempts - 1 = failures[k]
         /\ ~entry[k].charged => entry[k].attempts = failures[k]
         /\ entry[k].busy <=> entry[k].charged
         /\ entry[k].busy => entry[k].desired /\ k \in ToSet(residents)
         /\ entry[k].result # "none" => entry[k].busy
         /\ alive[k] = IF entry[k].state = "ready" THEN {entry[k].value} ELSE {}
  <1>1. entry[k] \in Entries /\ failures[k] \in Nat /\ alive[k] \in SUBSET Nat
    BY DEF IInv, TypeOK
  <1>2. EntryOK(k)
    BY DEF IInv
  <1>3. entry[k].attempts \in Nat
    BY <1>1 DEF Entries
  <1>4. entry[k].busy => k \in ToSet(residents)
    BY DEF IInv, ResidentsOK, Blank
  <1> QED BY <1>1, <1>2, <1>3, <1>4 DEF EntryOK

LEMMA ResidentFacts ==
  ASSUME IInv, NEW c
  PROVE  /\ Resident(c) \in SUBSET ToSet(residents) /\ Resident(c) \in SUBSET Keys
         /\ IsFiniteSet(Resident(c)) /\ ToSet(residents) \in SUBSET Keys
         /\ IsFiniteSet(ToSet(residents))
  <1>1. ToSet(residents) \in SUBSET Keys /\ IsFiniteSet(ToSet(residents))
    BY MembersFinite DEF IInv, TypeOK
  <1>2. Resident(c) \in SUBSET ToSet(residents)
    BY DEF Resident
  <1> QED BY <1>1, <1>2, FS_Subset

(* The system starts with nothing resident and nothing under way. *)
LEMMA InitHolds ==
  ASSUME Init
  PROVE  IInv
  <1>1. ToSet(<<>>) = {} /\ IsInjective(<<>>) /\ \A S : <<>> \in Seq(S)
    BY DEF ToSet, IsInjective
  <1>2. IsFiniteSet({}) /\ Cardinality({}) = 0
    BY FS_EmptySet
  <1>3. TotalCost({}) = 0
    BY <1>2, CostStep
  <1>4. Blank \in Entries
    BY DEF Blank, Entries
  <1>5. TypeOK
    BY <1>1, <1>2, <1>4 DEF Init, TypeOK
  <1>6. \A k \in Keys : entry[k] = Blank /\ alive[k] = {} /\ failures[k] = 0
    BY DEF Init
  <1>7. {k \in Keys : entry[k].busy} = {} /\ {k \in Keys : entry[k].result # "none"} = {}
    BY <1>6 DEF Blank
  <1>8. \A c : Resident(c) = {}
    BY <1>1 DEF Init, Resident
  <1>9. ResidentsOK /\ ArrivedOK
    BY <1>1, <1>6, <1>7 DEF Init, ResidentsOK, ArrivedOK
  <1>10. \A c \in Caches : cost[c] = 0
    BY DEF Init
  <1>11. 0 <= MaxConcurrent /\ 0 <= MaxCost /\ 0 <= MaxEntries /\ 0 <= MaxLate
    BY CacheAssumption
  <1>12. BudgetsHold
    BY <1>2, <1>3, <1>7, <1>8, <1>10, <1>11 DEF Init, BudgetsHold
  <1>13. FlightsOK
    <2>1. flights = {} /\ {f \in flights : ~f.live} = {}
      BY DEF Init
    <2>2. \A k \in Keys : ~Waits(k)
      BY <1>6 DEF Waits, Blank
    <2> QED BY <1>2, <1>11, <2>1, <2>2 DEF FlightsOK
  <1>14. \A k \in Keys : EntryOK(k)
    BY <1>6 DEF EntryOK, Blank
  <1> QED BY <1>5, <1>9, <1>12, <1>13, <1>14 DEF Init, IInv, NoIntruder

(* The account of active loads without some of the keys. *)
LEMMA BusyWithout ==
  ASSUME IInv, NEW K
  PROVE  /\ Cardinality(Busy \ K) \in Nat /\ Cardinality(Busy \ K) <= MaxConcurrent
         /\ Cardinality(Busy \ K) = active - Cardinality(Busy \cap K)
  <1>1. /\ IsFiniteSet(Busy) /\ Cardinality(Busy) \in Nat
        /\ active = Cardinality(Busy) /\ active <= MaxConcurrent
    BY BusyFacts
  <1>2. Cardinality(Busy \ K) = Cardinality(Busy) - Cardinality(Busy \cap K)
    BY <1>1, FS_Difference
  <1>3. Cardinality(Busy \ K) \in Nat /\ Cardinality(Busy \ K) <= Cardinality(Busy)
    BY <1>1, FS_Subset, FS_CardinalityType
  <1>4. MaxConcurrent \in Nat
    BY CacheAssumption
  <1> QED BY <1>1, <1>2, <1>3, <1>4

(* A completion that outlives its load keeps its key. *)
LEMMA Outlives ==
  ASSUME NEW L \in SUBSET Flights, IsFiniteSet(L)
  PROVE  LET O == {[f EXCEPT !.live = FALSE] : f \in L}
         IN  O \in SUBSET Flights /\ IsFiniteSet(O)
               /\ \A g \in O : ~g.live /\ \E f \in L : g.key = f.key
  <1> DEFINE O == {[f EXCEPT !.live = FALSE] : f \in L}
  <1>1. [f \in L |-> [f EXCEPT !.live = FALSE]] \in Surjection(L, O)
    BY DEF Surjection
  <1>2. IsFiniteSet(O)
    <2> HIDE DEF O
    <2> QED BY <1>1, FS_Surjection
  <1>3. \A f \in L : /\ [f EXCEPT !.live = FALSE] \in Flights
                     /\ [f EXCEPT !.live = FALSE].live = FALSE
                     /\ [f EXCEPT !.live = FALSE].key = f.key
    BY DEF Flights
  <1> QED BY <1>2, <1>3

(* Withdrawing entries that are no longer worked on afterwards keeps the    *)
(* account of active loads, the queue of results and the flights right.     *)
LEMMA WithdrawKeeps ==
  ASSUME IInv, NEW K \in SUBSET ToSet(residents), Withdraw(K),
         \A k \in K : ~entry'[k].busy /\ entry'[k].result = "none",
         \A k \in Keys \ K : /\ entry'[k].busy = entry[k].busy
                             /\ entry'[k].generation = entry[k].generation
                             /\ entry'[k].result = entry[k].result
  PROVE  /\ active' \in Nat /\ ActiveOK' /\ arrived' \in Seq(Keys) /\ ArrivedOK'
         /\ flights' \in SUBSET Flights /\ IsFiniteSet(flights') /\ FlightsOK'
  <1>0. /\ K \in SUBSET Keys
        /\ arrived \in Seq(Keys) /\ flights \in SUBSET Flights /\ IsFiniteSet(flights)
        /\ ArrivedOK /\ FlightsOK
    BY ResidentFacts DEF IInv, TypeOK
  <1> DEFINE mine == {f \in flights : f.key \in K /\ f.live}
  <1>1. PICK late \in SUBSET mine :
          /\ flights' = (flights \ mine) \cup {[f EXCEPT !.live = FALSE] : f \in late}
          /\ Cardinality({f \in flights' : ~f.live}) <= MaxLate
    BY DEF Withdraw
  <1> DEFINE O == {[f EXCEPT !.live = FALSE] : f \in late}
  <1>2. /\ active' = active - Cardinality({k \in K : entry[k].busy})
        /\ arrived' = Omit(arrived, K)
    BY DEF Withdraw, Credits
  <1>3. active' \in Nat /\ ActiveOK'
    <2>1. Busy' = Busy \ K /\ {k \in K : entry[k].busy} = Busy \cap K
      BY <1>0 DEF Busy
    <2>2. active' = active - Cardinality(Busy \cap K)
      BY <1>2, <2>1
    <2>3. /\ Cardinality(Busy \ K) \in Nat /\ Cardinality(Busy \ K) <= MaxConcurrent
          /\ Cardinality(Busy \ K) = active - Cardinality(Busy \cap K)
      BY BusyWithout
    <2> QED BY <2>1, <2>2, <2>3 DEF ActiveOK
  <1>4. arrived' \in Seq(Keys) /\ ArrivedOK'
    <2>1. /\ arrived' \in Seq(Keys) /\ ToSet(arrived') = ToSet(arrived) \ K
          /\ IsInjective(arrived')
      BY <1>0, <1>2, OmitFacts DEF ArrivedOK
    <2>2. ToSet(arrived) = {k \in Keys : entry[k].result # "none"}
      BY <1>0 DEF ArrivedOK
    <2>3. ToSet(arrived') = {k \in Keys : entry'[k].result # "none"}
      BY <1>0, <2>1, <2>2
    <2> QED BY <2>1, <2>3 DEF ArrivedOK
  <1>5. /\ mine \in SUBSET flights /\ late \in SUBSET Flights /\ IsFiniteSet(late)
        /\ flights \ mine \in SUBSET flights /\ IsFiniteSet(flights \ mine)
    BY <1>0, FS_Subset
  <1>6. O \in SUBSET Flights /\ IsFiniteSet(O) /\ \A g \in O : ~g.live /\ \E f \in late : g.key = f.key
    BY <1>5, Outlives
  <1>7. \A g \in O : ~g.live /\ g.key \in K
    BY <1>6
  <1> HIDE DEF O
  <1>8. flights' = (flights \ mine) \cup O
    BY <1>1 DEF O
  <1>9. flights' \in SUBSET Flights /\ IsFiniteSet(flights')
    BY <1>0, <1>5, <1>6, <1>8, FS_Union
  <1>10. \A k \in K : ~Waits(k)'
    BY DEF Waits
  <1>11. \A k \in Keys \ K : Waits(k)' <=> Waits(k)
    BY DEF Waits
  <1>12. \A f \in flights : f.key \in Keys
    BY <1>0 DEF Flights
  <1>13. FlightsOK'
    <2>1. \A f \in flights' : f.live => f \in flights /\ f.key \notin K
      BY <1>7, <1>8
    <2>2. \A f \in flights' : f.live => Waits(f.key)' /\ entry'[f.key].generation = f.generation
      BY <1>0, <1>11, <1>12, <2>1 DEF FlightsOK
    <2>3. \A f \in flights' : ~f.live => ~(Waits(f.key)' /\ entry'[f.key].generation = f.generation)
      <3>1. \A f \in flights' : f.key \in K => ~Waits(f.key)'
        BY <1>10
      <3>2. \A f \in flights' : f.key \notin K => f \in flights
        BY <1>7, <1>8
      <3> QED BY <1>0, <1>11, <1>12, <3>1, <3>2 DEF FlightsOK
    <2>4. \A f, g \in flights' : f.live /\ g.live /\ f.key = g.key => f = g
      BY <1>0, <2>1 DEF FlightsOK
    <2>5. \A k \in Keys : Waits(k)' => \E f \in flights' : f.live /\ f.key = k
      BY <1>0, <1>8, <1>10, <1>11 DEF FlightsOK
    <2> QED BY <1>1, <2>2, <2>3, <2>4, <2>5 DEF FlightsOK
  <1> QED BY <1>3, <1>4, <1>9, <1>13
-----------------------------------------------------------------------------
(* The calls of a controller that withdraw loads.                           *)

LEMMA HaltedFacts ==
  ASSUME NEW e \in Entries, e.busy <=> e.charged, e.charged => e.attempts - 1 \in Nat
  PROVE  /\ Halted(e) \in Entries
         /\ ~Halted(e).busy /\ ~Halted(e).charged /\ Halted(e).result = "none"
         /\ Halted(e).attempts = IF e.charged THEN e.attempts - 1 ELSE e.attempts
         /\ Halted(e).desired = e.desired /\ Halted(e).state = e.state /\ Halted(e).value = e.value
  <1>1. Halted(e).attempts = IF e.busy /\ e.charged THEN e.attempts - 1 ELSE e.attempts
    BY DEF Halted, Entries
  <1>2. Halted(e) \in Entries
    <2>1. (IF e.busy /\ e.charged THEN e.attempts - 1 ELSE e.attempts) \in Nat
      BY DEF Entries
    <2> QED BY <2>1 DEF Halted, Entries
  <1>3. /\ ~Halted(e).busy /\ ~Halted(e).charged /\ Halted(e).result = "none"
        /\ Halted(e).desired = e.desired /\ Halted(e).state = e.state /\ Halted(e).value = e.value
    BY DEF Halted, Entries
  <1> QED BY <1>1, <1>2, <1>3

(* The counts of a cache whose residents and costs do not change. *)
LEMMA CostSteady ==
  ASSUME CostOK, residents' = residents, cost' = cost
  PROVE  CostOK'
  <1>1. \A c : Resident(c)' = Resident(c)
    BY DEF Resident
  <1> QED BY <1>1 DEF CostOK

LEMMA ResidentsSteady ==
  ASSUME IInv, residents' = residents, dead' = dead,
         \A k \in Keys \ ToSet(residents) : entry'[k] = entry[k],
         \A d \in ToSet(todo') : pc' = "admit" /\ HomeOf[d.key] \notin dead'
  PROVE  ResidentsOK'
  BY DEF IInv, ResidentsOK

(* Halting the entries of K keeps the invariant, if it keeps what is said   *)
(* of each entry.                                                           *)
LEMMA HaltKeeps ==
  ASSUME IInv, NEW K \in SUBSET ToSet(residents), Withdraw(K),
         entry' \in [Keys -> Entries], alive' \in [Keys -> SUBSET Nat], failures' \in [Keys -> Nat],
         \A k \in K : ~entry'[k].busy /\ entry'[k].result = "none",
         \A k \in Keys \ K : /\ entry'[k].busy = entry[k].busy
                             /\ entry'[k].generation = entry[k].generation
                             /\ entry'[k].result = entry[k].result,
         \A k \in Keys \ ToSet(residents) : entry'[k] = entry[k],
         \A k \in Keys : EntryOK(k)',
         residents' = residents, cost' = cost, dead' = dead, intruded' = intruded,
         todo' \in Seq(Demands), \A d \in ToSet(todo') : pc' = "admit" /\ HomeOf[d.key] \notin dead'
  PROVE  IInv'
  <1>1. /\ active' \in Nat /\ ActiveOK' /\ arrived' \in Seq(Keys) /\ ArrivedOK'
        /\ flights' \in SUBSET Flights /\ IsFiniteSet(flights') /\ FlightsOK'
    BY WithdrawKeeps
  <1>2. CostOK'
    BY BusyFacts, CostSteady
  <1>3. ResidentsOK'
    BY ResidentsSteady
  <1>4. BudgetsHold'
    BY <1>1, <1>2 DEF BudgetsHold, ActiveOK, CostOK, Busy
  <1>5. TypeOK'
    BY <1>1 DEF IInv, TypeOK
  <1> QED BY <1>1, <1>3, <1>4, <1>5 DEF IInv, NoIntruder

(* Dropping entries keeps the invariant: their costs, credits and values    *)
(* are given back.                                                          *)
LEMMA DropKeeps ==
  ASSUME IInv, NEW K \in SUBSET ToSet(residents), Drop(K),
         dead' \in SUBSET Caches, \A k \in ToSet(residents) \ K : HomeOf[k] \notin dead',
         todo' = todo, pc' = pc, intruded' = intruded,
         \A d \in ToSet(todo) : HomeOf[d.key] \notin dead'
  PROVE  IInv'
  <1>0. /\ Withdraw(K) /\ residents' = Omit(residents, K)
        /\ cost' = [c \in Caches |-> cost[c] - TotalCost(K \cap Resident(c))]
        /\ entry' = [k \in Keys |-> IF k \in K THEN Blank ELSE entry[k]]
        /\ alive' = [k \in Keys |-> IF k \in K THEN alive[k] \ {entry[k].value} ELSE alive[k]]
        /\ failures' = [k \in Keys |-> IF k \in K THEN 0 ELSE failures[k]]
    BY DEF Drop, Disposed
  <1>1. TypeOK /\ K \in SUBSET Keys
    BY ResidentFacts DEF IInv
  <1>2. residents' \in Seq(Keys) /\ ToSet(residents') = ToSet(residents) \ K
    BY <1>0, <1>1, OmitFacts DEF TypeOK
  <1>3. /\ \A k \in K : entry'[k] = Blank /\ alive'[k] = alive[k] \ {entry[k].value} /\ failures'[k] = 0
        /\ \A k \in Keys \ K : entry'[k] = entry[k] /\ alive'[k] = alive[k] /\ failures'[k] = failures[k]
    BY <1>0, <1>1
  <1>4. Blank \in Entries
    BY DEF Blank, Entries
  <1>5. entry' \in [Keys -> Entries] /\ alive' \in [Keys -> SUBSET Nat] /\ failures' \in [Keys -> Nat]
    BY <1>0, <1>1, <1>4 DEF TypeOK
  <1>6. \A k \in K : ~entry'[k].busy /\ entry'[k].result = "none"
    BY <1>3 DEF Blank
  <1>7. /\ active' \in Nat /\ ActiveOK' /\ arrived' \in Seq(Keys) /\ ArrivedOK'
        /\ flights' \in SUBSET Flights /\ IsFiniteSet(flights') /\ FlightsOK'
    BY <1>0, <1>3, <1>6, WithdrawKeeps
  <1>8. ASSUME NEW c \in Caches
        PROVE  /\ cost'[c] \in Nat /\ cost'[c] = TotalCost(Resident(c)') /\ cost'[c] <= MaxCost
               /\ Cardinality(Resident(c)') <= MaxEntries
    <2> DEFINE R == Resident(c)
               P == K \cap R
    <2>1. R \in SUBSET Keys /\ IsFiniteSet(R)
      BY ResidentFacts
    <2>2. cost[c] = TotalCost(R) /\ cost[c] <= MaxCost /\ Cardinality(R) <= MaxEntries
      BY BusyFacts DEF CostOK
    <2>3. Resident(c)' = R \ P
      BY <1>2 DEF Resident
    <2>4. cost'[c] = cost[c] - TotalCost(P)
      BY <1>0
    <2> HIDE DEF R
    <2>5. P \in SUBSET R /\ P \in SUBSET Keys /\ IsFiniteSet(P) /\ R \ P \in SUBSET R
          /\ R \ P \in SUBSET Keys
      BY <2>1, FS_Subset
    <2> HIDE DEF P
    <2>6. TotalCost(R \ P) = TotalCost(R) - TotalCost(P)
      BY <2>1, <2>5, CostRemove
    <2>7. IsFiniteSet(R \ P) /\ Cardinality(R \ P) <= Cardinality(R)
      BY <2>1, <2>5, FS_Subset
    <2>8. TotalCost(R) \in Nat /\ TotalCost(P) \in Nat /\ TotalCost(R \ P) \in Nat
      BY <2>1, <2>5, <2>7, CostStep
    <2>9. Cardinality(R \ P) \in Nat /\ Cardinality(R) \in Nat
      BY <2>1, <2>7, FS_CardinalityType
    <2>10. MaxCost \in Nat /\ MaxEntries \in Nat
      BY CacheAssumption
    <2>11. cost'[c] \in Nat /\ cost'[c] = TotalCost(R \ P) /\ cost'[c] <= MaxCost
      BY <2>2, <2>4, <2>6, <2>8, <2>10
    <2>12. Cardinality(R \ P) <= MaxEntries
      BY <2>2, <2>7, <2>9, <2>10
    <2> QED BY <2>3, <2>11, <2>12
  <1>9. CostOK' /\ cost' \in [Caches -> Nat]
    <2>1. CostOK'
      BY <1>8 DEF CostOK
    <2>2. cost' = [c \in Caches |-> cost'[c]]
      BY <1>0
    <2> QED BY <1>8, <2>1, <2>2
  <1>10. BudgetsHold'
    BY <1>7, <1>9 DEF BudgetsHold, ActiveOK, CostOK, Busy
  <1>11. TypeOK'
    BY <1>1, <1>2, <1>5, <1>7, <1>9 DEF IInv, TypeOK
  <1>12. ResidentsOK'
    BY <1>1, <1>2, <1>3 DEF IInv, ResidentsOK
  <1>13. ASSUME NEW k \in Keys PROVE EntryOK(k)'
    <2>1. CASE k \in K
      <3>1. alive[k] \subseteq {entry[k].value}
        BY EntryFacts
      <3>2. alive'[k] = {}
        BY <1>3, <2>1, <3>1
      <3> QED BY <1>3, <2>1, <3>2 DEF EntryOK, Blank
    <2>2. CASE k \notin K
      BY ZenonT(60), <1>3, <2>2 DEF IInv, EntryOK
    <2> QED BY <2>1, <2>2
  <1> QED BY <1>7, <1>10, <1>11, <1>12, <1>13 DEF IInv, NoIntruder

LEMMA ClearKeeps ==
  ASSUME IInv, NEW c \in Caches, Clear(c)
  PROVE  IInv'
  <1>1. Resident(c) \in SUBSET ToSet(residents)
    BY ResidentFacts
  <1>2. Drop(Resident(c)) /\ todo' = todo /\ pc' = pc /\ dead' = dead /\ intruded' = intruded
    BY DEF Clear, place
  <1>3. /\ dead \in SUBSET Caches /\ \A k \in ToSet(residents) : HomeOf[k] \notin dead
        /\ \A d \in ToSet(todo) : HomeOf[d.key] \notin dead
    BY DEF IInv, TypeOK, ResidentsOK
  <1> QED BY <1>1, <1>2, <1>3, DropKeeps

LEMMA EvictKeeps ==
  ASSUME IInv, Evict
  PROVE  IInv'
  <1>1. PICK victim \in Evictable(Head(todo)) : Drop({victim})
    BY DEF Evict
  <1>2. {victim} \in SUBSET ToSet(residents)
    BY <1>1, ResidentFacts DEF Evictable
  <1>3. todo' = todo /\ pc' = pc /\ dead' = dead /\ intruded' = intruded
    BY DEF Evict, place
  <1>4. /\ dead \in SUBSET Caches /\ \A k \in ToSet(residents) : HomeOf[k] \notin dead
        /\ \A d \in ToSet(todo) : HomeOf[d.key] \notin dead
    BY DEF IInv, TypeOK, ResidentsOK
  <1> QED BY <1>1, <1>2, <1>3, <1>4, DropKeeps

LEMMA DisposeKeeps ==
  ASSUME IInv, NEW C \in SUBSET Caches, Dispose(C)
  PROVE  IInv'
  <1> DEFINE K == UNION {Resident(c) : c \in C}
  <1>1. K = {k \in ToSet(residents) : HomeOf[k] \in C}
    BY DEF Resident
  <1>2. pc = "idle" /\ dead' = dead \cup C /\ Drop(K) /\ todo' = todo /\ pc' = pc /\ intruded' = intruded
    BY DEF Dispose, place
  <1>3. /\ dead \in SUBSET Caches /\ \A k \in ToSet(residents) : HomeOf[k] \notin dead
        /\ \A d \in ToSet(todo) : pc = "admit"
    BY DEF IInv, TypeOK, ResidentsOK
  <1>4. K \in SUBSET ToSet(residents) /\ \A k \in ToSet(residents) \ K : HomeOf[k] \notin C
    BY <1>1
  <1>5. /\ dead' \in SUBSET Caches /\ \A k \in ToSet(residents) \ K : HomeOf[k] \notin dead'
        /\ \A d \in ToSet(todo) : HomeOf[d.key] \notin dead'
    BY <1>2, <1>3, <1>4
  <1> HIDE DEF K
  <1> QED BY <1>2, <1>4, <1>5, DropKeeps
LEMMA CancelKeeps ==
  ASSUME IInv, NEW C, Cancel(C)
  PROVE  IInv'
  <1> DEFINE K == {k \in ToSet(residents) : HomeOf[k] \in C /\ entry[k].busy}
  <1>1. /\ Withdraw(K) /\ residents' = residents /\ cost' = cost /\ dead' = dead
        /\ entry' = [k \in Keys |-> IF k \in K THEN Halted(entry[k]) ELSE entry[k]]
        /\ todo' = todo /\ pc' = pc /\ alive' = alive /\ failures' = failures /\ intruded' = intruded
    BY DEF Cancel, place
  <1>2. K \in SUBSET ToSet(residents) /\ ToSet(residents) \in SUBSET Keys
    BY ResidentFacts
  <1> HIDE DEF K
  <1>3. ASSUME NEW k \in Keys
        PROVE  /\ entry'[k] \in Entries /\ EntryOK(k)'
               /\ k \in K => ~entry'[k].busy /\ entry'[k].result = "none"
               /\ k \notin K => entry'[k] = entry[k]
    <2>1. CASE k \in K
      <3>1. entry'[k] = Halted(entry[k])
        BY <1>1, <2>1
      <3>2. entry[k] \in Entries /\ (entry[k].busy <=> entry[k].charged)
            /\ (entry[k].charged => entry[k].attempts - 1 \in Nat)
        BY EntryFacts
      <3>3. /\ Halted(entry[k]) \in Entries
            /\ ~Halted(entry[k]).busy /\ ~Halted(entry[k]).charged /\ Halted(entry[k]).result = "none"
            /\ Halted(entry[k]).attempts = failures[k]
            /\ Halted(entry[k]).state = entry[k].state /\ Halted(entry[k]).value = entry[k].value
        BY <3>2, HaltedFacts, EntryFacts
      <3>4. failures[k] \in Nat /\ alive[k] = IF entry[k].state = "ready" THEN {entry[k].value} ELSE {}
        BY EntryFacts
      <3>5. alive'[k] = alive[k] /\ failures'[k] = failures[k]
        BY <1>1
      <3> DEFINE h == Halted(entry[k])
      <3> HIDE DEF h
      <3>6. /\ entry'[k] = h /\ h \in Entries /\ ~h.busy /\ ~h.charged /\ h.result = "none"
            /\ h.attempts = failures[k] /\ h.state = entry[k].state /\ h.value = entry[k].value
        BY <3>1, <3>3 DEF h
      <3>7. EntryOK(k)'
        BY <3>4, <3>5, <3>6 DEF EntryOK
      <3> QED BY <2>1, <3>6, <3>7
    <2>2. CASE k \notin K
      BY <1>1, <2>2 DEF IInv, TypeOK, EntryOK
    <2> QED BY <2>1, <2>2
  <1>4. entry' \in [Keys -> Entries]
    <2>1. entry' = [k \in Keys |-> entry'[k]]
      BY <1>1
    <2> QED BY <1>3, <2>1
  <1>5. /\ alive' \in [Keys -> SUBSET Nat] /\ failures' \in [Keys -> Nat]
        /\ todo' \in Seq(Demands) /\ \A d \in ToSet(todo') : pc' = "admit" /\ HomeOf[d.key] \notin dead'
    BY <1>1 DEF IInv, TypeOK, ResidentsOK
  <1> QED BY <1>1, <1>2, <1>3, <1>4, <1>5, HaltKeeps

(* Invalidation halts, and starts the count of failures anew. *)
LEMMA InvalidatedFacts ==
  ASSUME NEW e \in Entries, e.busy <=> e.charged, e.charged => e.attempts - 1 \in Nat,
         NEW dropValue \in BOOLEAN
  PROVE  LET i == Invalidated(e, dropValue)
         IN  /\ i \in Entries /\ ~i.busy /\ ~i.charged /\ i.result = "none" /\ i.attempts = 0
             /\ dropValue => i.state # "ready"
             /\ ~dropValue => i.value = e.value /\ (i.state = "ready" <=> e.state = "ready")
  <1> DEFINE h == Halted(e)
  <1>1. /\ h \in Entries /\ ~h.busy /\ ~h.charged /\ h.result = "none"
        /\ h.state = e.state /\ h.value = e.value
    BY HaltedFacts
  <1>2. Invalidated(e, dropValue) =
          [h EXCEPT !.stale = TRUE, !.attempts = 0, !.backoff = 0, !.error = FALSE,
                    !.state = IF dropValue \/ h.state = "error" THEN "pending" ELSE h.state,
                    !.value = IF dropValue THEN 0 ELSE h.value]
    BY DEF Invalidated
  <1> HIDE DEF h
  <1> DEFINE i == Invalidated(e, dropValue)
  <1>3. i \in Entries
    <2>1. /\ (IF dropValue \/ h.state = "error" THEN "pending" ELSE h.state)
                \in {"pending", "ready", "error"}
          /\ (IF dropValue THEN 0 ELSE h.value) \in Nat
      BY <1>1 DEF Entries
    <2> DEFINE st == IF dropValue \/ h.state = "error" THEN "pending" ELSE h.state
               v == IF dropValue THEN 0 ELSE h.value
    <2>2. \A state \in {"pending", "ready", "error"}, value \in Nat :
            [h EXCEPT !.stale = TRUE, !.attempts = 0, !.backoff = 0, !.error = FALSE,
                      !.state = state, !.value = value] \in Entries
      BY <1>1 DEF Entries
    <2>3. i = [h EXCEPT !.stale = TRUE, !.attempts = 0, !.backoff = 0, !.error = FALSE,
                        !.state = st, !.value = v]
      BY <1>2
    <2>4. st \in {"pending", "ready", "error"} /\ v \in Nat
      BY <2>1
    <2> HIDE DEF st, v, i
    <2> QED BY <2>2, <2>3, <2>4
  <1>4. /\ i.busy = h.busy /\ i.charged = h.charged /\ i.result = h.result /\ i.attempts = 0
        /\ i.state = IF dropValue \/ h.state = "error" THEN "pending" ELSE h.state
        /\ i.value = IF dropValue THEN 0 ELSE h.value
    BY <1>1, <1>2 DEF Entries
  <1> HIDE DEF i
  <1> SUFFICES /\ i \in Entries /\ ~i.busy /\ ~i.charged /\ i.result = "none" /\ i.attempts = 0
               /\ dropValue => i.state # "ready"
               /\ ~dropValue => i.value = e.value /\ (i.state = "ready" <=> e.state = "ready")
    BY DEF i
  <1> QED BY <1>1, <1>3, <1>4

LEMMA InvalidateEntriesKeeps ==
  ASSUME IInv, NEW K \in SUBSET ToSet(residents), NEW dropValue \in BOOLEAN,
         InvalidateEntries(K, dropValue)
  PROVE  IInv'
  <1>1. /\ Withdraw(K) /\ residents' = residents /\ cost' = cost /\ dead' = dead
        /\ entry' = [k \in Keys |-> IF k \in K THEN Invalidated(entry[k], dropValue) ELSE entry[k]]
        /\ alive' = [k \in Keys |-> IF k \in (IF dropValue THEN K ELSE {})
                                    THEN alive[k] \ {entry[k].value} ELSE alive[k]]
        /\ failures' = [k \in Keys |-> IF k \in K THEN 0 ELSE failures[k]]
        /\ todo' = todo /\ pc' = pc /\ intruded' = intruded
    BY DEF InvalidateEntries, Disposed, place
  <1>2. ToSet(residents) \in SUBSET Keys
    BY ResidentFacts
  <1>3. ASSUME NEW k \in Keys
        PROVE  /\ entry'[k] \in Entries /\ EntryOK(k)' /\ alive'[k] \in SUBSET Nat /\ failures'[k] \in Nat
               /\ k \in K => ~entry'[k].busy /\ entry'[k].result = "none"
               /\ k \notin K => entry'[k] = entry[k]
    <2>1. CASE k \in K
      <3> DEFINE i == Invalidated(entry[k], dropValue)
      <3>1. entry'[k] = i /\ failures'[k] = 0
            /\ alive'[k] = IF dropValue THEN alive[k] \ {entry[k].value} ELSE alive[k]
        BY <1>1, <2>1
      <3>2. entry[k] \in Entries /\ (entry[k].busy <=> entry[k].charged)
            /\ (entry[k].charged => entry[k].attempts - 1 \in Nat)
            /\ alive[k] \in SUBSET Nat
            /\ alive[k] = IF entry[k].state = "ready" THEN {entry[k].value} ELSE {}
        BY EntryFacts
      <3>3. /\ i \in Entries /\ ~i.busy /\ ~i.charged /\ i.result = "none" /\ i.attempts = 0
            /\ dropValue => i.state # "ready"
            /\ ~dropValue => i.value = entry[k].value /\ (i.state = "ready" <=> entry[k].state = "ready")
        BY <3>2, InvalidatedFacts
      <3> HIDE DEF i
      <3>4. alive'[k] \in SUBSET Nat /\ alive'[k] = IF i.state = "ready" THEN {i.value} ELSE {}
        BY <3>1, <3>2, <3>3
      <3> QED BY <2>1, <3>1, <3>3, <3>4 DEF EntryOK
    <2>2. CASE k \notin K
      BY <1>1, <2>2 DEF IInv, TypeOK, EntryOK
    <2> QED BY <2>1, <2>2
  <1>4. entry' \in [Keys -> Entries] /\ alive' \in [Keys -> SUBSET Nat] /\ failures' \in [Keys -> Nat]
    <2>1. entry' = [k \in Keys |-> entry'[k]] /\ alive' = [k \in Keys |-> alive'[k]]
          /\ failures' = [k \in Keys |-> failures'[k]]
      BY <1>1
    <2> QED BY <1>3, <2>1
  <1>5. todo' \in Seq(Demands) /\ \A d \in ToSet(todo') : pc' = "admit" /\ HomeOf[d.key] \notin dead'
    BY <1>1 DEF IInv, TypeOK, ResidentsOK
  <1> QED BY <1>1, <1>2, <1>3, <1>4, <1>5, HaltKeeps

LEMMA InvalidateKeeps ==
  ASSUME IInv, NEW c \in Caches, Invalidate(c) \/ RetryFailed(c)
  PROVE  IInv'
  <1>1. PICK K \in SUBSET Resident(c), dropValue \in BOOLEAN : InvalidateEntries(K, dropValue)
    BY DEF Invalidate, RetryFailed
  <1>2. K \in SUBSET ToSet(residents)
    BY ResidentFacts
  <1> QED BY <1>1, <1>2, InvalidateEntriesKeeps

(* Preemption halts one entry. *)
LEMMA PreemptKeeps ==
  ASSUME IInv, Preempt
  PROVE  IInv'
  <1>1. PICK worst \in Speculative : Withdraw({worst}) /\ entry' = [entry EXCEPT ![worst] = Halted(@)]
    BY DEF Preempt
  <1>2. /\ residents' = residents /\ cost' = cost /\ dead' = dead /\ todo' = todo /\ pc' = pc
        /\ alive' = alive /\ failures' = failures /\ intruded' = intruded
    BY DEF Preempt, place
  <1>3. worst \in ToSet(residents) /\ worst \in Keys
    BY ResidentFacts DEF Speculative
  <1>4. entry \in [Keys -> Entries]
    BY DEF IInv, TypeOK
  <1>5. entry'[worst] = Halted(entry[worst]) /\ \A k \in Keys \ {worst} : entry'[k] = entry[k]
    BY <1>1, <1>3, <1>4
  <1>6. /\ Halted(entry[worst]) \in Entries
        /\ ~Halted(entry[worst]).busy /\ ~Halted(entry[worst]).charged
        /\ Halted(entry[worst]).result = "none" /\ Halted(entry[worst]).attempts = failures[worst]
        /\ Halted(entry[worst]).state = entry[worst].state
        /\ Halted(entry[worst]).value = entry[worst].value
    BY <1>3, HaltedFacts, EntryFacts
  <1>7. entry' \in [Keys -> Entries]
    BY <1>1, <1>4, <1>6
  <1>8. ASSUME NEW k \in Keys PROVE EntryOK(k)'
    <2>1. CASE k = worst
      <3>1. failures[k] \in Nat /\ alive[k] = IF entry[k].state = "ready" THEN {entry[k].value} ELSE {}
        BY EntryFacts
      <3> DEFINE h == Halted(entry[k])
      <3> HIDE DEF h
      <3>2. /\ entry'[k] = h /\ ~h.busy /\ ~h.charged /\ h.result = "none"
            /\ h.attempts = failures[k] /\ h.state = entry[k].state /\ h.value = entry[k].value
        BY <1>5, <1>6, <2>1 DEF h
      <3> QED BY <1>2, <3>1, <3>2 DEF EntryOK
    <2>2. CASE k # worst
      <3>1. entry'[k] = entry[k]
        BY <1>5, <2>2
      <3> QED BY <1>2, <3>1 DEF IInv, EntryOK
    <2> QED BY <2>1, <2>2
  <1>9. /\ alive' \in [Keys -> SUBSET Nat] /\ failures' \in [Keys -> Nat]
        /\ todo' \in Seq(Demands) /\ \A d \in ToSet(todo') : pc' = "admit" /\ HomeOf[d.key] \notin dead'
    BY <1>2 DEF IInv, TypeOK, ResidentsOK
  <1>10. \A k \in {worst} : ~entry'[k].busy /\ entry'[k].result = "none"
    BY <1>5, <1>6
  <1>11. \A k \in Keys \ ToSet(residents) : entry'[k] = entry[k]
    BY <1>3, <1>5
  <1>12. {worst} \in SUBSET ToSet(residents)
    BY <1>3
  <1> QED BY <1>1, <1>2, <1>5, <1>7, <1>8, <1>9, <1>10, <1>11, <1>12, HaltKeeps

-----------------------------------------------------------------------------
(* Reconcile, and what it admits.                                           *)

LEMMA MarkedFacts ==
  ASSUME IInv, NEW k \in Keys, NEW demands \in SUBSET Demands
  PROVE  LET m == Marked(k, demands)
             e == entry[k]
         IN  /\ m \in Entries /\ m.state = e.state /\ m.value = e.value
             /\ (\E d \in demands : d.key = k) =>
                  /\ m.desired /\ m.busy = e.busy /\ m.charged = e.charged
                  /\ m.attempts = e.attempts /\ m.generation = e.generation /\ m.result = e.result
             /\ ~(\E d \in demands : d.key = k) =>
                  ~m.busy /\ ~m.charged /\ m.result = "none" /\ m.attempts = failures[k]
                  /\ (~e.busy => m.generation = e.generation)
  <1> DEFINE e == entry[k]
  <1>1. /\ e \in Entries /\ failures[k] \in Nat
        /\ e.charged => e.attempts - 1 \in Nat
        /\ e.charged => e.attempts - 1 = failures[k]
        /\ ~e.charged => e.attempts = failures[k]
        /\ e.busy <=> e.charged
        /\ e.result # "none" => e.busy
    BY EntryFacts
  <1>2. CASE \E d \in demands : d.key = k
    <2> DEFINE d == CHOOSE d \in demands : d.key = k
    <2>1. d \in demands
      BY <1>2
    <2>2. Marked(k, demands) =
            [e EXCEPT !.desired = TRUE, !.pin = d.pin, !.priority = d.priority, !.touched = 0]
      BY <1>2 DEF Marked
    <2> HIDE DEF d, e
    <2>3. d.pin \in BOOLEAN /\ d.priority \in Nat
      BY <2>1 DEF Demands
    <2>4. Marked(k, demands) \in Entries
      <3>1. \A pin \in BOOLEAN, priority \in Nat :
              [e EXCEPT !.desired = TRUE, !.pin = pin, !.priority = priority, !.touched = 0] \in Entries
        BY <1>1 DEF Entries
      <3> QED BY <2>2, <2>3, <3>1
    <2>5. /\ Marked(k, demands).state = e.state
          /\ Marked(k, demands).value = e.value
          /\ Marked(k, demands).desired /\ Marked(k, demands).busy = e.busy
          /\ Marked(k, demands).charged = e.charged
          /\ Marked(k, demands).attempts = e.attempts /\ Marked(k, demands).generation = e.generation
          /\ Marked(k, demands).result = e.result
      BY <1>1, <2>2, <2>3 DEF Entries
    <2> QED BY <1>2, <2>4, <2>5 DEF e
  <1>3. CASE ~\E d \in demands : d.key = k
    <2> DEFINE u == [e EXCEPT !.desired = FALSE, !.pin = FALSE]
    <2>1. Marked(k, demands) = IF u.busy THEN Halted(u) ELSE u
      BY <1>3 DEF Marked
    <2> HIDE DEF e
    <2>2. u \in Entries
      BY <1>1 DEF Entries
    <2>5. /\ u.busy = e.busy /\ u.charged = e.charged /\ u.attempts = e.attempts
          /\ u.result = e.result /\ u.state = e.state /\ u.value = e.value
          /\ u.generation = e.generation
      BY <1>1 DEF Entries
    <2> HIDE DEF u
    <2>3. CASE u.busy
      <3>1. /\ Halted(u) \in Entries
            /\ ~Halted(u).busy /\ ~Halted(u).charged /\ Halted(u).result = "none"
            /\ Halted(u).attempts = IF u.charged THEN u.attempts - 1 ELSE u.attempts
            /\ Halted(u).state = u.state /\ Halted(u).value = u.value
        <4>1. (u.busy <=> u.charged) /\ (u.charged => u.attempts - 1 \in Nat)
          BY <1>1, <2>5
        <4> QED BY <2>2, <4>1, HaltedFacts
      <3> QED BY <1>1, <1>3, <2>1, <2>2, <2>3, <2>5, <3>1 DEF e
    <2>4. CASE ~u.busy
      BY <1>1, <1>3, <2>1, <2>2, <2>4, <2>5 DEF e
    <2> QED BY <2>3, <2>4
  <1> QED BY <1>2, <1>3
LEMMA ReconcileKeeps ==
  ASSUME IInv, NEW c \in Caches, NEW plan \in Seq(Demands), Reconcile(c, plan)
  PROVE  IInv'
  <1> DEFINE demands == ToSet(Merged(plan))
             K == Obsolete(c, demands)
  <1>1. /\ c \notin dead /\ \A d \in demands : HomeOf[d.key] = c
        /\ Withdraw(K)
        /\ entry' = [k \in Keys |-> IF k \in Resident(c) THEN Marked(k, demands) ELSE entry[k]]
        /\ pc' = "admit" /\ todo' = Merged(plan)
        /\ residents' = residents /\ cost' = cost /\ dead' = dead
        /\ alive' = alive /\ failures' = failures /\ intruded' = intruded
    BY DEF Reconcile
  <1>2. Merged(plan) \in Seq(Demands)
    BY MergedFacts
  <1>3. demands \in SUBSET Demands
    BY <1>2, MembersFinite
  <1>4. K = {k \in Resident(c) : entry[k].busy /\ \A d \in demands : d.key # k}
    BY DEF Obsolete
  <1>5. Resident(c) \in SUBSET ToSet(residents) /\ Resident(c) \in SUBSET Keys
        /\ ToSet(residents) \in SUBSET Keys
    BY ResidentFacts
  <1> HIDE DEF demands, K
  <1>6. ASSUME NEW k \in Keys
        PROVE  /\ entry'[k] \in Entries /\ EntryOK(k)'
               /\ k \in K => ~entry'[k].busy /\ entry'[k].result = "none"
               /\ k \notin K => /\ entry'[k].busy = entry[k].busy
                                /\ entry'[k].generation = entry[k].generation
                                /\ entry'[k].result = entry[k].result
               /\ k \notin ToSet(residents) => entry'[k] = entry[k]
    <2>1. CASE k \in Resident(c)
      <3> DEFINE m == Marked(k, demands)
                 e == entry[k]
      <3>1. /\ e \in Entries /\ m \in Entries /\ m.state = e.state /\ m.value = e.value
            /\ (\E d \in demands : d.key = k) =>
                 /\ m.desired /\ m.busy = e.busy /\ m.charged = e.charged
                 /\ m.attempts = e.attempts /\ m.generation = e.generation /\ m.result = e.result
            /\ ~(\E d \in demands : d.key = k) =>
                 ~m.busy /\ ~m.charged /\ m.result = "none" /\ m.attempts = failures[k]
                 /\ (~e.busy => m.generation = e.generation)
        <4>1. e \in Entries
          BY EntryFacts
        <4> QED BY <1>3, <4>1, MarkedFacts
      <3>2. /\ failures[k] \in Nat
            /\ e.charged => e.attempts - 1 \in Nat /\ e.attempts - 1 = failures[k]
            /\ ~e.charged => e.attempts = failures[k]
            /\ e.busy <=> e.charged
            /\ e.result # "none" => e.busy
            /\ alive[k] = IF e.state = "ready" THEN {e.value} ELSE {}
        BY EntryFacts
      <3>3. entry'[k] = m
        BY <1>1, <2>1
      <3>4. k \in K <=> e.busy /\ ~(\E d \in demands : d.key = k)
        BY <1>4, <2>1
      <3>5. e.attempts \in Nat /\ e.busy \in BOOLEAN /\ m.busy \in BOOLEAN
        BY <3>1 DEF Entries
      <3> HIDE DEF m, e
      <3>6. /\ m.busy <=> m.charged
            /\ m.result # "none" => m.busy
            /\ m.busy => m.desired
            /\ m.attempts = failures[k] + IF m.charged THEN 1 ELSE 0
            /\ alive[k] = IF m.state = "ready" THEN {m.value} ELSE {}
        <4>1. CASE \E d \in demands : d.key = k
          BY <3>1, <3>2, <3>5, <4>1
        <4>2. CASE ~\E d \in demands : d.key = k
          BY <3>1, <3>2, <3>5, <4>2
        <4> QED BY <4>1, <4>2
      <3>7. EntryOK(k)'
        BY <1>1, <3>3, <3>6 DEF EntryOK
      <3>8. k \in K => ~entry'[k].busy /\ entry'[k].result = "none"
        BY <3>1, <3>3, <3>4
      <3>9. k \notin K => /\ entry'[k].busy = e.busy /\ entry'[k].generation = e.generation
                          /\ entry'[k].result = e.result
        <4>1. CASE \E d \in demands : d.key = k
          BY <3>1, <3>3, <4>1
        <4>2. CASE ~\E d \in demands : d.key = k
          BY <3>1, <3>2, <3>3, <3>4, <3>5, <4>2
        <4> QED BY <4>1, <4>2
      <3> QED BY <1>5, <2>1, <3>1, <3>3, <3>7, <3>8, <3>9 DEF e
    <2>2. CASE k \notin Resident(c)
      BY <1>1, <1>4, <2>2 DEF IInv, TypeOK, EntryOK
    <2> QED BY <2>1, <2>2
  <1>7. entry' \in [Keys -> Entries]
    <2>1. entry' = [k \in Keys |-> entry'[k]]
      BY <1>1
    <2> QED BY <1>6, <2>1
  <1>8. alive' \in [Keys -> SUBSET Nat] /\ failures' \in [Keys -> Nat]
    BY <1>1 DEF IInv, TypeOK
  <1>9. todo' \in Seq(Demands) /\ \A d \in ToSet(todo') : pc' = "admit" /\ HomeOf[d.key] \notin dead'
    BY <1>1, <1>2 DEF demands
  <1>10. K \in SUBSET ToSet(residents) /\ K \in SUBSET Keys
    BY <1>4, <1>5
  <1> QED BY <1>1, <1>5, <1>6, <1>7, <1>8, <1>9, <1>10, HaltKeeps

(* A step that leaves entries, loads and accounts alone. *)
LEMMA QuietKeeps ==
  ASSUME IInv, residents' = residents, entry' = entry, cost' = cost, active' = active,
         arrived' = arrived, flights' = flights, alive' = alive, failures' = failures,
         intruded' = intruded, dead' \in SUBSET dead, todo' \in Seq(Demands),
         \A d \in ToSet(todo') : pc' = "admit" /\ HomeOf[d.key] \notin dead'
  PROVE  IInv'
  <1>1. TypeOK'
    BY DEF IInv, TypeOK
  <1>2. ResidentsOK'
    BY DEF IInv, ResidentsOK
  <1>3. BudgetsHold'
    <2>1. \A c : Resident(c)' = Resident(c)
      BY DEF Resident
    <2> QED BY <2>1 DEF IInv, BudgetsHold
  <1>4. FlightsOK'
    <2>1. \A k : Waits(k)' <=> Waits(k)
      BY DEF Waits
    <2> QED BY <2>1 DEF IInv, FlightsOK
  <1>5. ArrivedOK'
    BY DEF IInv, ArrivedOK
  <1>6. \A k \in Keys : EntryOK(k)'
    BY DEF IInv, EntryOK
  <1> QED BY <1>1, <1>2, <1>3, <1>4, <1>5, <1>6 DEF IInv, NoIntruder

(* The rest of a sequence. *)
LEMMA TailFacts ==
  ASSUME NEW S, NEW s \in Seq(S), s # <<>>
  PROVE  Head(s) \in ToSet(s) /\ Head(s) \in S /\ Tail(s) \in Seq(S) /\ ToSet(Tail(s)) \in SUBSET ToSet(s)
  <1>1. Len(s) \in Nat /\ Len(s) # 0 /\ Head(s) = s[1] /\ 1 \in DOMAIN s /\ Tail(s) \in Seq(S)
    OBVIOUS
  <1>2. \A i \in DOMAIN Tail(s) : i + 1 \in DOMAIN s /\ Tail(s)[i] = s[i + 1]
    OBVIOUS
  <1> QED BY <1>1, <1>2 DEF ToSet

LEMMA PlainStepsKeep ==
  ASSUME IInv,
         PassOver \/ ReconcileEnd \/ CompletionsEnd \/ StepEnd \/ (\E c \in Caches : CreateCache(c))
  PROVE  IInv'
  <1>1. /\ residents' = residents /\ entry' = entry /\ cost' = cost /\ active' = active
        /\ arrived' = arrived /\ flights' = flights /\ alive' = alive /\ failures' = failures
        /\ intruded' = intruded /\ dead' \in SUBSET dead
    BY DEF PassOver, Passed, ReconcileEnd, CompletionsEnd, StepEnd, CreateCache, caches, loads, place
  <1>2. todo \in Seq(Demands) /\ \A d \in ToSet(todo) : pc = "admit" /\ HomeOf[d.key] \notin dead
    BY DEF IInv, TypeOK, ResidentsOK
  <1>3. todo' \in Seq(Demands) /\ \A d \in ToSet(todo') : pc' = "admit" /\ HomeOf[d.key] \notin dead'
    <2>1. CASE PassOver
      <3>1. todo # <<>> /\ todo' = Tail(todo) /\ pc' = pc /\ dead' = dead
        BY <2>1 DEF PassOver, Passed, Admitting
      <3>2. todo' \in Seq(Demands) /\ ToSet(todo') \in SUBSET ToSet(todo)
        BY <1>2, <3>1, TailFacts
      <3> QED BY <1>2, <3>1, <3>2
    <2>2. CASE ReconcileEnd
      <3>1. todo' = <<>> /\ ToSet(<<>>) = {}
        BY <2>2 DEF ReconcileEnd, ToSet
      <3> QED BY <1>2, <3>1
    <2>3. CASE CompletionsEnd \/ StepEnd \/ (\E c \in Caches : CreateCache(c))
      <3>1. todo' = todo /\ pc # "admit"
        BY <2>3 DEF CompletionsEnd, StepEnd, CreateCache, place
      <3> QED BY <1>2, <3>1
    <2> QED BY <2>1, <2>2, <2>3
  <1> QED BY <1>1, <1>3, QuietKeeps

(* Admission reserves the cost of the demand, which fits. *)
LEMMA AdmitKeeps ==
  ASSUME IInv, Admit
  PROVE  IInv'
  <1> DEFINE d == Head(todo)
             k == d.key
             e == [Blank EXCEPT !.desired = TRUE, !.pin = d.pin, !.priority = d.priority]
  <1>1. /\ pc = "admit" /\ todo # <<>> /\ todo' = Tail(todo) /\ pc' = pc /\ dead' = dead
        /\ intruded' = intruded /\ k \notin ToSet(residents) /\ Fits(d)
        /\ residents' = Append(residents, k)
        /\ cost' = [cost EXCEPT ![HomeOf[k]] = cost[HomeOf[k]] + Cost[k]]
        /\ entry' = [entry EXCEPT ![k] = e]
        /\ active' = active /\ arrived' = arrived /\ flights' = flights
        /\ alive' = alive /\ failures' = failures
    BY DEF Admit, Admitting, Passed, loads
  <1>2. TypeOK /\ residents \in Seq(Keys) /\ todo \in Seq(Demands) /\ entry \in [Keys -> Entries]
        /\ cost \in [Caches -> Nat]
    BY DEF IInv, TypeOK
  <1>3. d \in Demands /\ d \in ToSet(todo) /\ todo' \in Seq(Demands) /\ ToSet(todo') \in SUBSET ToSet(todo)
    BY <1>1, <1>2, TailFacts
  <1>4. k \in Keys /\ d.pin \in BOOLEAN /\ d.priority \in Nat
    BY <1>3 DEF Demands
  <1>5. HomeOf[k] \in Caches /\ HomeOf[k] \notin dead /\ Cost[k] \in Nat
    BY <1>3, <1>4, CacheAssumption DEF IInv, ResidentsOK
  <1>6. /\ e \in Entries /\ ~e.busy /\ ~e.charged /\ e.result = "none" /\ e.attempts = 0
        /\ e.state = "pending" /\ e.generation = 0
    <2>1. \A pin \in BOOLEAN, priority \in Nat :
            [Blank EXCEPT !.desired = TRUE, !.pin = pin, !.priority = priority] \in Entries
      BY DEF Blank, Entries
    <2>2. e \in Entries
      BY <1>4, <2>1
    <2> QED BY <2>2 DEF Blank
  <1>7. entry[k] = Blank
    BY <1>1, <1>4 DEF IInv, ResidentsOK
  <1> HIDE DEF e, k
  <1>8. entry' \in [Keys -> Entries] /\ entry'[k] = e /\ \A j \in Keys \ {k} : entry'[j] = entry[j]
    BY <1>1, <1>2, <1>4, <1>6
  <1>9. residents' \in Seq(Keys) /\ ToSet(residents') = ToSet(residents) \cup {k}
    BY <1>1, <1>2, <1>4, MembersAppend
  <1>10. CostOK' /\ cost' \in [Caches -> Nat]
    <2>1. ASSUME NEW c \in Caches
          PROVE  /\ cost'[c] \in Nat /\ cost'[c] = TotalCost(Resident(c)') /\ cost'[c] <= MaxCost
                 /\ Cardinality(Resident(c)') <= MaxEntries
      <3>1. Resident(c) \in SUBSET Keys /\ IsFiniteSet(Resident(c)) /\ k \notin Resident(c)
        BY <1>1, ResidentFacts
      <3>2. cost[c] = TotalCost(Resident(c)) /\ cost[c] <= MaxCost /\ Cardinality(Resident(c)) <= MaxEntries
        BY BusyFacts DEF CostOK
      <3>3. CASE c = HomeOf[k]
        <4>1. Resident(c)' = Resident(c) \cup {k}
          BY <1>9, <3>3 DEF Resident
        <4>2. cost'[c] = cost[c] + Cost[k]
          BY <1>1, <1>2, <3>3
        <4>3. TotalCost(Resident(c) \cup {k}) = TotalCost(Resident(c)) + Cost[k]
          BY <1>4, <3>1, CostInsert
        <4>4. Cardinality(Resident(c) \cup {k}) = Cardinality(Resident(c)) + 1
          BY <3>1, FS_AddElement
        <4>5. Cardinality(Resident(c)) < MaxEntries /\ cost[c] + Cost[k] <= MaxCost
          BY <1>1, <3>3 DEF Fits, k
        <4>6. cost[c] \in Nat /\ Cardinality(Resident(c)) \in Nat /\ MaxEntries \in Nat
          BY <1>2, <3>1, FS_CardinalityType, CacheAssumption
        <4> QED BY <1>5, <3>2, <4>1, <4>2, <4>3, <4>4, <4>5, <4>6
      <3>4. CASE c # HomeOf[k]
        <4>1. Resident(c)' = Resident(c)
          BY <1>9, <3>4 DEF Resident
        <4>2. cost'[c] = cost[c] /\ cost[c] \in Nat
          BY <1>1, <1>2, <3>4
        <4> QED BY <3>2, <4>1, <4>2
      <3> QED BY <3>3, <3>4
    <2>2. cost' = [c \in Caches |-> cost'[c]]
      BY <1>1, <1>2
    <2> QED BY <2>1, <2>2 DEF CostOK
  <1>11. Busy' = Busy
    BY <1>6, <1>7, <1>8 DEF Busy, Blank
  <1>12. BudgetsHold'
    <2>1. ActiveOK'
      BY <1>1, <1>11, BusyFacts DEF ActiveOK
    <2> QED BY <1>10, <2>1 DEF BudgetsHold, ActiveOK, CostOK, Busy
  <1>13. TypeOK'
    BY <1>1, <1>2, <1>3, <1>8, <1>9, <1>10 DEF TypeOK
  <1>14. ResidentsOK'
    <2>1. /\ \A j \in Keys \ ToSet(residents) : entry[j] = Blank
          /\ \A j \in ToSet(residents) : HomeOf[j] \notin dead
          /\ \A x \in ToSet(todo) : pc = "admit" /\ HomeOf[x.key] \notin dead
      BY DEF IInv, ResidentsOK
    <2> QED BY <1>1, <1>3, <1>5, <1>8, <1>9, <2>1 DEF ResidentsOK
  <1>15. \A j \in Keys : /\ Waits(j)' <=> Waits(j)
                         /\ Waits(j) => entry'[j].generation = entry[j].generation
    BY <1>6, <1>7, <1>8 DEF Waits, Blank
  <1>16. FlightsOK'
    <2>1. \A f \in flights : f.key \in Keys
      BY <1>2 DEF TypeOK, Flights
    <2> QED BY <1>1, <1>15, <2>1 DEF IInv, FlightsOK
  <1>17. ArrivedOK'
    <2>1. {j \in Keys : entry'[j].result # "none"} = {j \in Keys : entry[j].result # "none"}
      BY <1>6, <1>7, <1>8 DEF Blank
    <2> QED BY <1>1, <2>1 DEF IInv, ArrivedOK
  <1>18. ASSUME NEW j \in Keys PROVE EntryOK(j)'
    <2>1. CASE j = k
      <3>1. alive[k] = {} /\ failures[k] = 0
        <4>1. entry[k].state = "pending" /\ ~entry[k].charged /\ entry[k].attempts = 0
          BY <1>7 DEF Blank
        <4> QED BY <1>4, <4>1, EntryFacts
      <3> QED BY <1>1, <1>6, <1>8, <2>1, <3>1 DEF EntryOK
    <2>2. CASE j # k
      BY <1>1, <1>8, <2>2 DEF IInv, EntryOK
    <2> QED BY <2>1, <2>2
  <1> QED BY <1>1, <1>12, <1>13, <1>14, <1>16, <1>17, <1>18 DEF IInv, NoIntruder
-----------------------------------------------------------------------------
(* The steps of a frame.                                                    *)

(* The doublings of the retry delay are numbers. *)
LEMMA Doublings ==
  ASSUME NEW m \in 0 .. 20
  PROVE  2 ^ m \in Nat
  <1>1. /\ 2 ^ 0 \in Nat /\ 2 ^ 1 \in Nat /\ 2 ^ 2 \in Nat /\ 2 ^ 3 \in Nat /\ 2 ^ 4 \in Nat /\ 2 ^ 5 \in Nat
        /\ 2 ^ 6 \in Nat /\ 2 ^ 7 \in Nat /\ 2 ^ 8 \in Nat /\ 2 ^ 9 \in Nat /\ 2 ^ 10 \in Nat /\ 2 ^ 11 \in Nat
        /\ 2 ^ 12 \in Nat /\ 2 ^ 13 \in Nat /\ 2 ^ 14 \in Nat /\ 2 ^ 15 \in Nat /\ 2 ^ 16 \in Nat /\ 2 ^ 17 \in Nat
        /\ 2 ^ 18 \in Nat /\ 2 ^ 19 \in Nat /\ 2 ^ 20 \in Nat
    OBVIOUS
  <1>2. \/ m = 0 \/ m = 1 \/ m = 2 \/ m = 3 \/ m = 4 \/ m = 5
        \/ m = 6 \/ m = 7 \/ m = 8 \/ m = 9 \/ m = 10 \/ m = 11
        \/ m = 12 \/ m = 13 \/ m = 14 \/ m = 15 \/ m = 16 \/ m = 17
        \/ m = 18 \/ m = 19 \/ m = 20
    OBVIOUS
  <1> QED BY <1>1, <1>2

LEMMA AgedFacts ==
  ASSUME IInv, NEW k \in Keys
  PROVE  /\ Aged(k) \in Entries
         /\ \A field \in {"desired", "busy", "generation", "result", "charged", "attempts", "state", "value"} :
              Aged(k)[field] = entry[k][field]
  <1> DEFINE young == {entry[j].touched : j \in ToSet(residents)} \cap 0 .. entry[k].touched - 1
             backoff == IF entry[k].backoff > 0 THEN entry[k].backoff - 1 ELSE 0
             age == IF entry[k].age < MaxAge THEN entry[k].age + 1 ELSE entry[k].age
             touched == 1 + Cardinality(young)
  <1>1. entry[k] \in Entries
    BY EntryFacts
  <1>2. Aged(k) = [entry[k] EXCEPT !.backoff = backoff, !.age = age, !.declined = FALSE, !.touched = touched]
    BY DEF Aged
  <1>3. backoff \in Nat /\ age \in Nat
    BY <1>1 DEF Entries
  <1>4. touched \in Nat
    <2>1. young \in SUBSET (0 .. entry[k].touched - 1) /\ entry[k].touched - 1 \in Int
      BY <1>1 DEF Entries
    <2> HIDE DEF young
    <2>2. IsFiniteSet(young)
      <3>1. IsFiniteSet(0 .. entry[k].touched - 1)
        BY <2>1, FS_Interval
      <3> QED BY <2>1, <3>1, FS_Subset
    <2>3. Cardinality(young) \in Nat
      BY <2>2, FS_CardinalityType
    <2> QED BY <2>3
  <1> HIDE DEF backoff, age, touched
  <1>5. Aged(k) \in Entries
    BY <1>1, <1>2, <1>3, <1>4 DEF Entries
  <1> QED BY <1>1, <1>2, <1>5 DEF Entries

LEMMA StepKeeps ==
  ASSUME IInv, Step
  PROVE  IInv'
  <1> DEFINE Nearer(f) == [f EXCEPT !.left = IF f.left > 0 THEN f.left - 1 ELSE 0]
  <1>1. /\ pc = "idle" /\ residents' = residents /\ cost' = cost /\ dead' = dead /\ active' = active
        /\ arrived' = arrived /\ todo' = todo /\ alive' = alive /\ failures' = failures
        /\ intruded' = intruded
        /\ entry' = [k \in Keys |-> IF k \in ToSet(residents) THEN Aged(k) ELSE entry[k]]
        /\ flights' = {Nearer(f) : f \in flights}
    BY DEF Step
  <1>2. TypeOK /\ flights \in SUBSET Flights /\ IsFiniteSet(flights)
    BY DEF IInv, TypeOK
  <1>3. ASSUME NEW k \in Keys
        PROVE  /\ entry'[k] \in Entries
               /\ k \notin ToSet(residents) => entry'[k] = entry[k]
               /\ entry'[k].desired = entry[k].desired /\ entry'[k].busy = entry[k].busy
               /\ entry'[k].generation = entry[k].generation /\ entry'[k].result = entry[k].result
               /\ entry'[k].charged = entry[k].charged /\ entry'[k].attempts = entry[k].attempts
               /\ entry'[k].state = entry[k].state /\ entry'[k].value = entry[k].value
    <2>1. CASE k \in ToSet(residents)
      <3>1. entry'[k] = Aged(k)
        BY <1>1, <2>1
      <3> QED BY <2>1, <3>1, AgedFacts
    <2>2. CASE k \notin ToSet(residents)
      <3>1. entry'[k] = entry[k]
        BY <1>1, <2>2
      <3> QED BY <3>1, EntryFacts
    <2> QED BY <2>1, <2>2
  <1>4. \A f \in flights : /\ Nearer(f) \in Flights /\ Nearer(f).key = f.key
                           /\ Nearer(f).generation = f.generation /\ Nearer(f).live = f.live
    BY <1>2 DEF Flights
  <1> HIDE DEF Nearer
  <1>5. flights' \in SUBSET Flights /\ IsFiniteSet(flights')
    <2>1. [f \in flights |-> Nearer(f)] \in Surjection(flights, flights')
      BY <1>1 DEF Surjection
    <2>2. IsFiniteSet(flights')
      BY <1>2, <2>1, FS_Surjection
    <2> QED BY <1>1, <1>4, <2>2
  <1>6. TypeOK'
    <2>1. entry' = [k \in Keys |-> entry'[k]]
      BY <1>1
    <2>2. entry' \in [Keys -> Entries]
      BY <1>3, <2>1
    <2> QED BY <1>1, <1>2, <1>5, <2>2 DEF TypeOK
  <1>7. ResidentsOK'
    BY <1>1, <1>3 DEF IInv, ResidentsOK
  <1>8. BudgetsHold'
    <2>1. Busy' = Busy
      BY <1>3 DEF Busy
    <2>2. CostOK'
      BY <1>1, BusyFacts, CostSteady
    <2>3. ActiveOK'
      BY <1>1, <2>1, BusyFacts DEF ActiveOK
    <2> QED BY <2>2, <2>3 DEF BudgetsHold, ActiveOK, CostOK, Busy
  <1>9. FlightsOK'
    <2>1. \A k \in Keys : (Waits(k)' <=> Waits(k)) /\ entry'[k].generation = entry[k].generation
      BY <1>3 DEF Waits
    <2>2. \A g \in flights' : \E f \in flights : g = Nearer(f)
      BY <1>1
    <2>3. \A f \in flights : Nearer(f) \in flights' /\ f.key \in Keys
      BY <1>1, <1>2 DEF Flights
    <2>4. FlightsOK
      BY DEF IInv
    <2>5. \A g \in flights' : g.live => Waits(g.key)' /\ entry'[g.key].generation = g.generation
      BY <1>4, <2>1, <2>2, <2>3, <2>4 DEF FlightsOK
    <2>6. \A g \in flights' : ~g.live => ~(Waits(g.key)' /\ entry'[g.key].generation = g.generation)
      BY <1>4, <2>1, <2>2, <2>3, <2>4 DEF FlightsOK
    <2>7. \A g, h \in flights' : g.live /\ h.live /\ g.key = h.key => g = h
      BY <1>4, <2>2, <2>4 DEF FlightsOK
    <2>8. \A k \in Keys : Waits(k)' => \E f \in flights' : f.live /\ f.key = k
      BY <1>4, <2>1, <2>3, <2>4 DEF FlightsOK
    <2>9. Cardinality({g \in flights' : ~g.live}) <= MaxLate
      <3> DEFINE L == {f \in flights : ~f.live}
                 M == {g \in flights' : ~g.live}
      <3>1. [f \in L |-> Nearer(f)] \in Surjection(L, M)
        BY <1>1, <1>4 DEF Surjection
      <3>2. IsFiniteSet(L) /\ Cardinality(L) \in Nat /\ Cardinality(L) <= MaxLate
        <4>1. IsFiniteSet(L)
          BY <1>2, FS_Subset
        <4>2. Cardinality(L) <= MaxLate
          BY <2>4 DEF FlightsOK
        <4> HIDE DEF L
        <4> QED BY <4>1, <4>2, FS_CardinalityType
      <3> HIDE DEF L, M
      <3>3. IsFiniteSet(M) /\ Cardinality(M) <= Cardinality(L)
        BY <3>1, <3>2, FS_Surjection
      <3>4. Cardinality(M) \in Nat /\ MaxLate \in Nat
        BY <3>3, FS_CardinalityType, CacheAssumption
      <3>5. Cardinality(M) <= MaxLate
        BY <3>2, <3>3, <3>4
      <3> QED BY <3>5 DEF M
    <2> QED BY <2>5, <2>6, <2>7, <2>8, <2>9 DEF FlightsOK
  <1>10. ArrivedOK'
    <2>1. {k \in Keys : entry'[k].result # "none"} = {k \in Keys : entry[k].result # "none"}
      BY <1>3
    <2> QED BY <1>1, <2>1 DEF IInv, ArrivedOK
  <1>11. ASSUME NEW k \in Keys PROVE EntryOK(k)'
    <2>1. EntryOK(k)
      BY DEF IInv
    <2> QED BY <1>1, <1>3, <2>1 DEF EntryOK
  <1> QED BY <1>1, <1>6, <1>7, <1>8, <1>9, <1>10, <1>11 DEF IInv, NoIntruder

(* A step that changes the entry of one key that neither waits for a load   *)
(* before nor afterwards leaves the flights right.                          *)
LEMMA FlightsSteady ==
  ASSUME IInv, flights' = flights,
         \A k \in Keys : /\ Waits(k)' <=> Waits(k)
                         /\ Waits(k) => entry'[k].generation = entry[k].generation
  PROVE  FlightsOK'
  <1>1. FlightsOK /\ \A f \in flights : f.key \in Keys
    BY DEF IInv, TypeOK, Flights
  <1> QED BY <1>1 DEF FlightsOK
(* What completing the oldest result does to its entry. *)
LEMMA CompletedFacts ==
  ASSUME IInv, Complete, NEW k \in Keys, k = NextResult
  PROVE  /\ k \in ToSet(arrived)
         /\ entry'[k] \in Entries /\ alive'[k] \in SUBSET Nat /\ failures'[k] \in Nat
         /\ ~entry'[k].busy /\ entry'[k].result = "none" /\ EntryOK(k)'
         /\ \A j \in Keys \ {k} :
              entry'[j] = entry[j] /\ alive'[j] = alive[j] /\ failures'[j] = failures[j]
         /\ entry' = [j \in Keys |-> entry'[j]] /\ alive' = [j \in Keys |-> alive'[j]]
         /\ failures' = [j \in Keys |-> failures'[j]]
  <1> DEFINE e == entry[k]
             unused == Min(1 .. Cardinality(alive[k]) + 1 \ alive[k])
             Free == 1 .. Cardinality(alive[k]) + 1 \ alive[k]
  <1>1. k \in ToSet(arrived) /\ k \in Keys
    <2>1. arrived # <<>> /\ arrived \in Seq(Keys)
      BY DEF Complete, IInv, TypeOK
    <2> QED BY <2>1, TailFacts DEF NextResult
  <1>2. /\ e \in Entries /\ alive[k] \in SUBSET Nat /\ failures[k] \in Nat
        /\ alive[k] = IF e.state = "ready" THEN {e.value} ELSE {}
        /\ e.charged => e.attempts - 1 \in Nat /\ e.attempts - 1 = failures[k]
        /\ e.busy <=> e.charged
    BY <1>1, EntryFacts
  <1>3. e.charged
    <2>1. e.result # "none"
      BY <1>1 DEF IInv, ArrivedOK
    <2> QED BY <1>1, <2>1, EntryFacts
  <1>4. \/ \E value \in {unused} \cup {v \in {e.value} : v # 0} : Materialized(k, value)
        \/ Failed(k)
    BY DEF Complete
  <1>5. entry \in [Keys -> Entries] /\ alive \in [Keys -> SUBSET Nat] /\ failures \in [Keys -> Nat]
    BY DEF IInv, TypeOK
  <1>6. e.value \in Nat /\ e.attempts \in Nat
    BY <1>2 DEF Entries
  <1>7. unused \in Nat
    <2>1. Free \in SUBSET Nat /\ Free # {}
      <3>1. CASE e.state = "ready"
        <4>1. alive[k] = {e.value} /\ Cardinality(alive[k]) = 1
          BY ZenonT(60), <1>2, <3>1, FS_Singleton
        <4> HIDE DEF e
        <4>2. Free = 1 .. 2 \ {e.value}
          BY <4>1
        <4>3. 1 \in 1 .. 2 /\ 2 \in 1 .. 2 /\ 1 # 2 /\ 1 .. 2 \in SUBSET Nat
          OBVIOUS
        <4> QED BY <4>2, <4>3
      <3>2. CASE e.state # "ready"
        <4>1. alive[k] = {} /\ Cardinality(alive[k]) = 0
          BY <1>2, <3>2, FS_EmptySet
        <4>2. Free = 1 .. 1 /\ 1 \in 1 .. 1
          BY <4>1
        <4> QED BY <4>2
      <3> QED BY <3>1, <3>2
    <2> HIDE DEF Free
    <2>2. Min(Free) \in Free
      BY <2>1, MinIn
    <2> QED BY <2>1, <2>2 DEF Free
  <1> HIDE DEF unused
  <1>8. CASE \E value \in {unused} \cup {v \in {e.value} : v # 0} : Materialized(k, value)
    <2>1. PICK value \in Nat : Materialized(k, value)
      BY <1>6, <1>7, <1>8
    <2> DEFINE m == [Taken(e) EXCEPT !.state = "ready", !.value = value, !.stale = FALSE,
                                     !.error = FALSE, !.attempts = 0, !.age = 0]
    <2>2. /\ entry' = [entry EXCEPT ![k] = m]
          /\ alive' = [alive EXCEPT ![k] = (alive[k] \ {e.value}) \cup {value}]
          /\ failures' = [failures EXCEPT ![k] = 0]
      BY <2>1 DEF Materialized, Replaced
    <2>3. /\ m \in Entries /\ ~m.busy /\ m.result = "none" /\ ~m.charged /\ m.state = "ready"
          /\ m.value = value /\ m.attempts = 0
      BY ZenonT(60), <1>2 DEF Taken, Entries
    <2> HIDE DEF m, e
    <2>4. entry'[k] = m /\ alive'[k] = (alive[k] \ {e.value}) \cup {value} /\ failures'[k] = 0
      BY <1>1, <1>5, <2>2
    <2>5. alive'[k] = {value}
      BY <1>2, <2>4
    <2>6. EntryOK(k)'
      BY <2>3, <2>4, <2>5 DEF EntryOK
    <2>7. \A j \in Keys \ {k} :
            entry'[j] = entry[j] /\ alive'[j] = alive[j] /\ failures'[j] = failures[j]
      BY <1>1, <1>5, <2>2
    <2>8. /\ entry' = [j \in Keys |-> entry'[j]] /\ alive' = [j \in Keys |-> alive'[j]]
          /\ failures' = [j \in Keys |-> failures'[j]]
      BY <1>5, <2>2
    <2> QED BY <1>1, <2>3, <2>4, <2>5, <2>6, <2>7, <2>8
  <1>9. CASE Failed(k)
    <2> DEFINE backoff == Min({MaxDelay, Delay * 2 ^ Min({20, e.attempts - 1})})
    <2>1. PICK error \in BOOLEAN :
            entry' = [entry EXCEPT ![k] =
              [Taken(entry[k]) EXCEPT !.error = error, !.stale = TRUE,
                 !.backoff = Min({MaxDelay, Delay * 2 ^ Min({20, entry[k].attempts - 1})}),
                 !.state = IF @ = "ready" THEN @ ELSE "error"]]
      BY <1>9 DEF Failed
    <2> DEFINE m == [Taken(e) EXCEPT !.error = error, !.stale = TRUE, !.backoff = backoff,
                                     !.state = IF @ = "ready" THEN @ ELSE "error"]
    <2>7. entry' = [entry EXCEPT ![k] = m]
      BY <2>1
    <2>2. failures' = [failures EXCEPT ![k] = failures[k] + 1] /\ alive' = alive
      BY <1>9 DEF Failed
    <2>3. backoff \in Nat
      <3>1. MaxDelay \in Nat /\ Delay \in Nat
        BY CacheAssumption
      <3>2. Min({20, e.attempts - 1}) \in 0 .. 20
        <4>1. {20, e.attempts - 1} \in SUBSET Nat /\ {20, e.attempts - 1} # {}
          BY <1>2, <1>3
        <4>2. Min({20, e.attempts - 1}) \in Nat /\ Min({20, e.attempts - 1}) <= 20
          BY <4>1, MinIn
        <4> QED BY <4>2
      <3>3. 2 ^ Min({20, e.attempts - 1}) \in Nat
        BY <3>2, Doublings
      <3>4. \A power \in Nat : Delay * power \in Nat
        BY <3>1
      <3>5. {MaxDelay, Delay * 2 ^ Min({20, e.attempts - 1})} \in SUBSET Nat
        BY <3>1, <3>3, <3>4
      <3> QED BY <3>5, MinIn
    <2> HIDE DEF backoff
    <2>4. /\ Taken(e) \in Entries /\ ~Taken(e).busy /\ Taken(e).result = "none" /\ ~Taken(e).charged
          /\ Taken(e).attempts = e.attempts /\ Taken(e).value = e.value /\ Taken(e).state = e.state
      BY <1>2 DEF Taken, Entries
    <2>5. /\ ~m.busy /\ m.result = "none" /\ ~m.charged
          /\ m.state = (IF e.state = "ready" THEN e.state ELSE "error")
          /\ m.value = e.value /\ m.attempts = e.attempts
      BY <2>4 DEF Entries
    <2>6. m \in Entries
      <3>1. CASE e.state = "ready"
        BY ZenonT(60), <2>3, <2>4, <3>1 DEF Entries
      <3>2. CASE e.state # "ready"
        BY ZenonT(60), <2>3, <2>4, <3>2 DEF Entries
      <3> QED BY <3>1, <3>2
    <2> HIDE DEF m, e
    <2>8. entry'[k] = m /\ alive'[k] = alive[k] /\ failures'[k] = failures[k] + 1
      BY <1>1, <1>5, <2>2, <2>7
    <2>9. alive[k] = IF m.state = "ready" THEN {m.value} ELSE {}
      BY <1>2, <2>5
    <2>10. m.attempts = failures[k] + 1
      BY <1>2, <1>3, <1>6, <2>5
    <2>11. EntryOK(k)'
      BY <1>2, <2>5, <2>8, <2>9, <2>10 DEF EntryOK
    <2>12. \A j \in Keys \ {k} :
            entry'[j] = entry[j] /\ alive'[j] = alive[j] /\ failures'[j] = failures[j]
      BY <1>1, <1>5, <2>2, <2>7
    <2>13. /\ entry' = [j \in Keys |-> entry'[j]] /\ alive' = [j \in Keys |-> alive'[j]]
           /\ failures' = [j \in Keys |-> failures'[j]]
      BY <1>5, <2>2, <2>7
    <2>14. alive'[k] \in SUBSET Nat /\ failures'[k] \in Nat
      BY <1>2, <2>8
    <2> QED BY <1>1, <2>5, <2>6, <2>8, <2>11, <2>12, <2>13, <2>14
  <1> QED BY <1>4, <1>8, <1>9

LEMMA CompleteKeeps ==
  ASSUME IInv, Complete
  PROVE  IInv'
  <1>0. PICK k \in Keys : k = NextResult
    <2>1. arrived # <<>> /\ arrived \in Seq(Keys)
      BY DEF Complete, IInv, TypeOK
    <2> QED BY <2>1, TailFacts DEF NextResult
  <1>1. /\ active' = active - 1 /\ arrived' = Omit(arrived, {k}) /\ pc = "complete"
        /\ residents' = residents /\ cost' = cost /\ dead' = dead /\ flights' = flights
        /\ pc' = pc /\ todo' = todo /\ intruded' = intruded
    BY <1>0 DEF Complete
  <1>2. /\ k \in ToSet(arrived) /\ k \in Keys
        /\ entry'[k] \in Entries /\ alive'[k] \in SUBSET Nat /\ failures'[k] \in Nat
        /\ ~entry'[k].busy /\ entry'[k].result = "none" /\ EntryOK(k)'
    BY <1>0, CompletedFacts
  <1>3. /\ \A j \in Keys \ {k} :
             entry'[j] = entry[j] /\ alive'[j] = alive[j] /\ failures'[j] = failures[j]
        /\ entry' = [j \in Keys |-> entry'[j]] /\ alive' = [j \in Keys |-> alive'[j]]
        /\ failures' = [j \in Keys |-> failures'[j]]
    BY <1>0, CompletedFacts
  <1>4. entry[k].result # "none" /\ entry[k].busy /\ k \in ToSet(residents)
    <2>1. entry[k].result # "none"
      BY <1>2 DEF IInv, ArrivedOK
    <2> QED BY <1>2, <2>1, EntryFacts
  <1>5. \A j \in Keys : EntryOK(j)'
    <2>1. \A j \in Keys \ {k} : EntryOK(j)'
      BY <1>3 DEF IInv, EntryOK
    <2> QED BY <1>2, <2>1
  <1>6. active' \in Nat /\ ActiveOK'
    <2>1. Busy' = Busy \ {k}
      BY <1>2, <1>3 DEF Busy
    <2>2. k \in Busy
      BY <1>2, <1>4 DEF Busy
    <2>3. Cardinality(Busy \ {k}) = active - 1 /\ active \in Nat
      BY <2>2, BusyFacts, FS_RemoveElement
    <2>4. Cardinality(Busy \ {k}) \in Nat /\ Cardinality(Busy \ {k}) <= MaxConcurrent
      BY BusyWithout
    <2> QED BY <1>1, <2>1, <2>3, <2>4 DEF ActiveOK
  <1>7. BudgetsHold'
    <2>1. CostOK'
      BY <1>1, BusyFacts, CostSteady
    <2> QED BY <1>6, <2>1 DEF BudgetsHold, ActiveOK, CostOK, Busy
  <1>8. arrived' \in Seq(Keys) /\ ArrivedOK'
    <2>1. arrived \in Seq(Keys) /\ IsInjective(arrived)
          /\ ToSet(arrived) = {j \in Keys : entry[j].result # "none"}
      BY DEF IInv, TypeOK, ArrivedOK
    <2>2. /\ arrived' \in Seq(Keys) /\ ToSet(arrived') = ToSet(arrived) \ {k}
          /\ IsInjective(arrived')
      BY <1>1, <2>1, OmitFacts
    <2>3. ToSet(arrived') = {j \in Keys : entry'[j].result # "none"}
      BY <1>2, <1>3, <2>1, <2>2
    <2> QED BY <2>2, <2>3 DEF ArrivedOK
  <1>9. FlightsOK'
    <2>1. \A j \in Keys : /\ Waits(j)' <=> Waits(j)
                          /\ Waits(j) => entry'[j].generation = entry[j].generation
      BY <1>2, <1>3, <1>4 DEF Waits
    <2> QED BY <1>1, <2>1, FlightsSteady
  <1>10. TypeOK'
    <2>1. entry' \in [Keys -> Entries]
      BY <1>2, <1>3 DEF IInv, TypeOK
    <2>2. alive' \in [Keys -> SUBSET Nat]
      BY <1>2, <1>3 DEF IInv, TypeOK
    <2>3. failures' \in [Keys -> Nat]
      BY <1>2, <1>3 DEF IInv, TypeOK
    <2> QED BY <1>1, <1>6, <1>8, <2>1, <2>2, <2>3 DEF IInv, TypeOK
  <1>11. ResidentsOK'
    <2>1. \A j \in Keys \ ToSet(residents) : entry'[j] = entry[j]
      BY <1>3, <1>4
    <2>2. \A d \in ToSet(todo') : pc' = "admit" /\ HomeOf[d.key] \notin dead'
      BY <1>1 DEF IInv, ResidentsOK
    <2> QED BY <1>1, <2>1, <2>2, ResidentsSteady
  <1> QED BY <1>1, <1>5, <1>7, <1>8, <1>9, <1>10, <1>11 DEF IInv, NoIntruder
(* The generation of a new load is not that of a completion still out: the  *)
(* bound on those leaves one free.                                          *)
LEMMA UnusedFresh ==
  ASSUME IInv, NEW k \in Keys, ~Waits(k)
  PROVE  /\ Unused(k) \in Nat
         /\ \A f \in flights : f.key = k => ~f.live /\ f.generation # Unused(k)
  <1> DEFINE Mine == {g \in flights : g.key = k}
             Out == {f.generation : f \in Mine}
             Free == 1 .. MaxLate + 1 \ Out
  <1>1. flights \in SUBSET Flights /\ IsFiniteSet(flights) /\ FlightsOK /\ MaxLate \in Nat
    BY CacheAssumption DEF IInv, TypeOK
  <1>2. \A f \in flights : f.key = k => ~f.live
    BY <1>1 DEF FlightsOK
  <1>3. Mine \in SUBSET Late /\ IsFiniteSet(Late) /\ Cardinality(Late) <= MaxLate
    <2>1. Mine \in SUBSET Late
      BY <1>2 DEF Late
    <2>2. IsFiniteSet(Late)
      BY <1>1, FS_Subset DEF Late
    <2>3. Cardinality(Late) <= MaxLate
      BY <1>1 DEF FlightsOK, Late
    <2> QED BY <2>1, <2>2, <2>3
  <1>4. IsFiniteSet(Out) /\ Cardinality(Out) <= MaxLate /\ Cardinality(Out) \in Nat
    <2>1. [f \in Mine |-> f.generation] \in Surjection(Mine, Out)
      BY DEF Surjection
    <2> HIDE DEF Mine, Out
    <2>2. IsFiniteSet(Mine) /\ Cardinality(Mine) <= Cardinality(Late)
      BY <1>3, FS_Subset
    <2>3. IsFiniteSet(Out) /\ Cardinality(Out) <= Cardinality(Mine)
      BY <2>1, <2>2, FS_Surjection
    <2>4. Cardinality(Out) \in Nat /\ Cardinality(Mine) \in Nat /\ Cardinality(Late) \in Nat
      BY <1>3, <2>2, <2>3, FS_CardinalityType
    <2> QED BY <1>1, <1>3, <2>2, <2>3, <2>4
  <1> HIDE DEF Out
  <1>5. Free # {}
    <2> SUFFICES ASSUME Free = {} PROVE FALSE
      OBVIOUS
    <2>1. 1 .. MaxLate + 1 \in SUBSET Out
      OBVIOUS
    <2>2. Cardinality(1 .. MaxLate + 1) <= Cardinality(Out)
      BY <1>4, <2>1, FS_Subset
    <2>3. Cardinality(1 .. MaxLate + 1) = MaxLate + 1
      BY <1>1, FS_Interval
    <2> QED BY <1>1, <1>4, <2>2, <2>3
  <1>6. Unused(k) = Min(Free)
    BY DEF Unused, Out
  <1>7. Free \in SUBSET Nat
    BY <1>1
  <1>8. Unused(k) \in Free
    BY <1>5, <1>6, <1>7, MinIn
  <1>9. Unused(k) \in Nat /\ Unused(k) \notin Out
    BY <1>7, <1>8
  <1> QED BY <1>2, <1>9 DEF Out

(* An entry that may start has nothing under way. *)
LEMMA StartableFacts ==
  ASSUME IInv, NEW k \in Candidates
  PROVE  /\ k \in Keys /\ k \in ToSet(residents) /\ entry[k] \in Entries
         /\ entry[k].desired /\ ~entry[k].busy /\ ~entry[k].charged /\ entry[k].result = "none"
         /\ entry[k].attempts = failures[k] /\ failures[k] \in Nat
         /\ alive[k] = IF entry[k].state = "ready" THEN {entry[k].value} ELSE {}
         /\ ~Waits(k) /\ k \notin ToSet(arrived)
  <1>1. k \in ToSet(residents) /\ entry[k].desired /\ ~entry[k].busy
    BY DEF Candidates, Startable
  <1>2. k \in Keys
    BY <1>1, ResidentFacts
  <1>3. entry[k].result = "none"
    BY <1>1, <1>2, EntryFacts
  <1>4. k \notin ToSet(arrived)
    BY <1>3 DEF IInv, ArrivedOK
  <1> QED BY <1>1, <1>2, <1>3, <1>4, EntryFacts DEF Waits

LEMMA StartedFacts ==
  ASSUME IInv, NEW k \in Candidates, NEW result \in {"none", "ok", "failed"}
  PROVE  LET e == Started(k, result)
         IN  /\ e \in Entries /\ e.busy /\ e.charged /\ e.desired /\ e.result = result
             /\ e.generation = Unused(k) /\ e.attempts = failures[k] + 1
             /\ e.state = entry[k].state /\ e.value = entry[k].value
  <1> DEFINE e == Started(k, result)
  <1>1. entry[k] \in Entries /\ entry[k].desired /\ entry[k].attempts = failures[k]
    BY StartableFacts
  <1>2. Unused(k) \in Nat
    BY StartableFacts, UnusedFresh
  <1>3. e \in Entries
    <2>1. entry[k].attempts + 1 \in Nat
      BY <1>1 DEF Entries
    <2>2. \A attempts, generation \in Nat :
            [entry[k] EXCEPT !.busy = TRUE, !.stale = TRUE, !.generation = generation, !.result = result,
                             !.attempts = attempts, !.charged = TRUE] \in Entries
      BY <1>1 DEF Entries
    <2> QED BY <1>2, <2>1, <2>2 DEF Started
  <1>4. /\ e.busy /\ e.charged /\ e.desired /\ e.result = result /\ e.generation = Unused(k)
        /\ e.attempts = failures[k] + 1 /\ e.state = entry[k].state /\ e.value = entry[k].value
    BY <1>1 DEF Started, Entries
  <1> QED BY <1>3, <1>4

(* Starting charges the load to the scheduler, however it answers. *)
LEMMA StartedKeeps ==
  ASSUME IInv, Start, NEW k \in Candidates, NEW result \in {"none", "ok", "failed"},
         entry' = [entry EXCEPT ![k] = Started(k, result)], active' = active + 1,
         arrived' \in Seq(Keys), ArrivedOK', flights' \in SUBSET Flights, IsFiniteSet(flights'),
         FlightsOK'
  PROVE  IInv'
  <1>1. /\ active < MaxConcurrent \/ ~(active >= MaxConcurrent)
        /\ residents' = residents /\ cost' = cost /\ dead' = dead /\ pc' = pc /\ todo' = todo
        /\ alive' = alive /\ failures' = failures /\ intruded' = intruded
    BY DEF Start, Full
  <1>2. /\ k \in Keys /\ k \in ToSet(residents) /\ ~entry[k].busy /\ failures[k] \in Nat
        /\ alive[k] = IF entry[k].state = "ready" THEN {entry[k].value} ELSE {}
    BY StartableFacts
  <1> DEFINE e == Started(k, result)
  <1>3. /\ e \in Entries /\ e.busy /\ e.charged /\ e.desired /\ e.attempts = failures[k] + 1
        /\ e.state = entry[k].state /\ e.value = entry[k].value
    BY StartedFacts
  <1> HIDE DEF e
  <1>4. entry \in [Keys -> Entries]
    BY DEF IInv, TypeOK
  <1>5. entry' = [entry EXCEPT ![k] = e]
    BY DEF e
  <1>6. entry' \in [Keys -> Entries] /\ entry'[k] = e /\ \A j \in Keys \ {k} : entry'[j] = entry[j]
    BY <1>2, <1>3, <1>4, <1>5
  <1>7. active' \in Nat /\ ActiveOK'
    <2>1. Busy' = Busy \cup {k}
      BY <1>2, <1>3, <1>6 DEF Busy
    <2>2. k \notin Busy
      BY <1>2 DEF Busy
    <2>3. IsFiniteSet(Busy) /\ active = Cardinality(Busy) /\ Cardinality(Busy) \in Nat
      BY BusyFacts
    <2>4. Cardinality(Busy \cup {k}) = active + 1
      BY <2>2, <2>3, FS_AddElement
    <2>5. active + 1 <= MaxConcurrent
      BY <1>1, <2>3, CacheAssumption
    <2> QED BY <2>1, <2>3, <2>4, <2>5 DEF ActiveOK
  <1>8. BudgetsHold'
    <2>1. CostOK'
      BY <1>1, BusyFacts, CostSteady
    <2> QED BY <1>7, <2>1 DEF BudgetsHold, ActiveOK, CostOK, Busy
  <1>9. TypeOK'
    BY <1>1, <1>6, <1>7 DEF IInv, TypeOK
  <1>10. ResidentsOK'
    <2>1. \A j \in Keys \ ToSet(residents) : entry'[j] = entry[j]
      BY <1>2, <1>6
    <2>2. \A d \in ToSet(todo') : pc' = "admit" /\ HomeOf[d.key] \notin dead'
      BY <1>1 DEF IInv, ResidentsOK
    <2> QED BY <1>1, <2>1, <2>2, ResidentsSteady
  <1>11. ASSUME NEW j \in Keys PROVE EntryOK(j)'
    <2>1. CASE j = k
      BY <1>1, <1>2, <1>3, <1>6, <2>1 DEF EntryOK
    <2>2. CASE j # k
      BY <1>1, <1>6, <2>2 DEF IInv, EntryOK
    <2> QED BY <2>1, <2>2
  <1> QED BY <1>1, <1>8, <1>9, <1>10, <1>11 DEF IInv, NoIntruder

LEMMA StartLaterKeeps ==
  ASSUME IInv, Start, NEW k \in Candidates, StartLater(k)
  PROVE  IInv'
  <1> DEFINE u == Unused(k)
             g == [key |-> k, generation |-> u, left |-> Latency, live |-> TRUE]
  <1>1. /\ entry' = [entry EXCEPT ![k] = Started(k, "none")] /\ flights' = flights \cup {g}
        /\ active' = active + 1 /\ arrived' = arrived
    BY DEF StartLater
  <1>2. k \in Keys /\ ~Waits(k) /\ entry[k].result = "none"
    BY StartableFacts
  <1>3. u \in Nat /\ \A f \in flights : f.key = k => ~f.live /\ f.generation # u
    BY <1>2, UnusedFresh
  <1>4. Started(k, "none").busy /\ Started(k, "none").generation = u /\ Started(k, "none").result = "none"
    BY StartedFacts
  <1> HIDE DEF u
  <1>5. entry \in [Keys -> Entries] /\ flights \in SUBSET Flights /\ IsFiniteSet(flights) /\ FlightsOK
    BY DEF IInv, TypeOK
  <1>6. /\ entry'[k].busy /\ entry'[k].generation = u /\ entry'[k].result = "none"
        /\ \A j \in Keys \ {k} : entry'[j] = entry[j]
    BY <1>1, <1>2, <1>4, <1>5
  <1>7. g \in Flights
    BY <1>2, <1>3, CacheAssumption DEF Flights
  <1>8. flights' \in SUBSET Flights /\ IsFiniteSet(flights')
    BY <1>1, <1>5, <1>7, FS_AddElement
  <1>9. g.key = k /\ g.generation = u /\ g.live
    OBVIOUS
  <1> HIDE DEF g
  <1>10. /\ Waits(k)'
         /\ \A j \in Keys \ {k} : /\ Waits(j)' <=> Waits(j)
                                  /\ entry'[j].generation = entry[j].generation
    BY <1>2, <1>6 DEF Waits
  <1>11. FlightsOK'
    <2>1. \A f \in flights : f.key \in Keys
      BY <1>5 DEF Flights
    <2>2. \A f \in flights' : f.live => Waits(f.key)' /\ entry'[f.key].generation = f.generation
      BY <1>1, <1>3, <1>5, <1>6, <1>9, <1>10, <2>1 DEF FlightsOK
    <2>3. \A f \in flights' : ~f.live => ~(Waits(f.key)' /\ entry'[f.key].generation = f.generation)
      BY <1>1, <1>3, <1>5, <1>6, <1>9, <1>10, <2>1 DEF FlightsOK
    <2>4. \A f, h \in flights' : f.live /\ h.live /\ f.key = h.key => f = h
      BY <1>1, <1>3, <1>5, <1>9 DEF FlightsOK
    <2>5. \A j \in Keys : Waits(j)' => \E f \in flights' : f.live /\ f.key = j
      BY <1>1, <1>5, <1>9, <1>10 DEF FlightsOK
    <2>6. {f \in flights' : ~f.live} = {f \in flights : ~f.live}
      BY <1>1, <1>9
    <2>7. Cardinality({f \in flights' : ~f.live}) <= MaxLate
      BY <1>5, <2>6 DEF FlightsOK
    <2> QED BY <2>2, <2>3, <2>4, <2>5, <2>7 DEF FlightsOK
  <1>12. arrived' \in Seq(Keys) /\ ArrivedOK'
    <2>1. {j \in Keys : entry'[j].result # "none"} = {j \in Keys : entry[j].result # "none"}
      BY <1>2, <1>6
    <2> QED BY <1>1, <2>1 DEF IInv, TypeOK, ArrivedOK
  <1> QED BY <1>1, <1>8, <1>11, <1>12, StartedKeeps

LEMMA StartNowKeeps ==
  ASSUME IInv, Start, NEW k \in Candidates, StartNow(k)
  PROVE  IInv'
  <1>1. PICK result \in {"ok", "failed"} : entry' = [entry EXCEPT ![k] = Started(k, result)]
    BY DEF StartNow
  <1>2. arrived' = Append(arrived, k) /\ active' = active + 1 /\ flights' = flights
    BY DEF StartNow
  <1>3. k \in Keys /\ ~Waits(k) /\ k \notin ToSet(arrived)
    BY StartableFacts
  <1>4. Started(k, result).result = result
    BY StartedFacts
  <1>5. entry \in [Keys -> Entries] /\ arrived \in Seq(Keys)
    BY DEF IInv, TypeOK
  <1>6. entry'[k].result = result /\ \A j \in Keys \ {k} : entry'[j] = entry[j]
    BY <1>1, <1>3, <1>4, <1>5
  <1>7. flights' \in SUBSET Flights /\ IsFiniteSet(flights')
    BY <1>2 DEF IInv, TypeOK
  <1>8. FlightsOK'
    <2>1. \A j \in Keys : /\ Waits(j)' <=> Waits(j)
                          /\ Waits(j) => entry'[j].generation = entry[j].generation
      BY <1>3, <1>6 DEF Waits
    <2> QED BY <1>2, <2>1, FlightsSteady
  <1>9. arrived' \in Seq(Keys) /\ ArrivedOK'
    <2>1. /\ arrived' \in Seq(Keys) /\ ToSet(arrived') = ToSet(arrived) \cup {k}
          /\ IsInjective(arrived) => IsInjective(arrived')
      BY <1>2, <1>3, <1>5, MembersAppend
    <2>2. IsInjective(arrived) /\ ToSet(arrived) = {j \in Keys : entry[j].result # "none"}
      BY DEF IInv, ArrivedOK
    <2>3. ToSet(arrived') = {j \in Keys : entry'[j].result # "none"}
      BY <1>3, <1>6, <2>1, <2>2
    <2> QED BY <2>1, <2>2, <2>3 DEF ArrivedOK
  <1> QED BY <1>1, <1>2, <1>7, <1>8, <1>9, StartedKeeps

(* A refusal leaves the entry as idle as it was. *)
LEMMA DeclineKeeps ==
  ASSUME IInv, Start, NEW k \in Candidates, Decline(k)
  PROVE  IInv'
  <1> DEFINE e == [Halted(entry[k]) EXCEPT !.stale = TRUE, !.declined = TRUE]
  <1>1. /\ entry' = [entry EXCEPT ![k] = e] /\ active' = active /\ arrived' = arrived
        /\ flights' = flights /\ residents' = residents /\ cost' = cost /\ dead' = dead /\ pc' = pc
        /\ todo' = todo /\ alive' = alive /\ failures' = failures /\ intruded' = intruded
    BY DEF Decline, Start, loads
  <1>2. /\ k \in Keys /\ k \in ToSet(residents) /\ entry[k] \in Entries
        /\ ~entry[k].busy /\ ~entry[k].charged /\ entry[k].result = "none" /\ ~Waits(k)
        /\ entry[k].attempts = failures[k] /\ failures[k] \in Nat
        /\ alive[k] = IF entry[k].state = "ready" THEN {entry[k].value} ELSE {}
    BY StartableFacts
  <1>3. /\ Halted(entry[k]) \in Entries /\ ~Halted(entry[k]).busy /\ ~Halted(entry[k]).charged
        /\ Halted(entry[k]).result = "none" /\ Halted(entry[k]).attempts = failures[k]
        /\ Halted(entry[k]).state = entry[k].state /\ Halted(entry[k]).value = entry[k].value
    BY <1>2, HaltedFacts
  <1>4. /\ e \in Entries /\ ~e.busy /\ ~e.charged /\ e.result = "none" /\ e.attempts = failures[k]
        /\ e.state = entry[k].state /\ e.value = entry[k].value
    BY <1>3 DEF Entries
  <1> HIDE DEF e
  <1>5. entry \in [Keys -> Entries]
    BY DEF IInv, TypeOK
  <1>6. entry' \in [Keys -> Entries] /\ entry'[k] = e /\ \A j \in Keys \ {k} : entry'[j] = entry[j]
    BY <1>1, <1>2, <1>4, <1>5
  <1>7. BudgetsHold'
    <2>1. Busy' = Busy
      BY <1>2, <1>4, <1>6 DEF Busy
    <2>2. ActiveOK' /\ CostOK'
      BY <1>1, <2>1, BusyFacts, CostSteady DEF ActiveOK
    <2> QED BY <2>2 DEF BudgetsHold, ActiveOK, CostOK, Busy
  <1>8. TypeOK'
    BY <1>1, <1>6 DEF IInv, TypeOK
  <1>9. ResidentsOK'
    <2>1. \A j \in Keys \ ToSet(residents) : entry'[j] = entry[j]
      BY <1>2, <1>6
    <2>2. \A d \in ToSet(todo') : pc' = "admit" /\ HomeOf[d.key] \notin dead'
      BY <1>1 DEF IInv, ResidentsOK
    <2> QED BY <1>1, <2>1, <2>2, ResidentsSteady
  <1>10. FlightsOK'
    <2>1. \A j \in Keys : /\ Waits(j)' <=> Waits(j)
                          /\ Waits(j) => entry'[j].generation = entry[j].generation
      BY <1>2, <1>4, <1>6 DEF Waits
    <2> QED BY <1>1, <2>1, FlightsSteady
  <1>11. ArrivedOK'
    <2>1. {j \in Keys : entry'[j].result # "none"} = {j \in Keys : entry[j].result # "none"}
      BY <1>2, <1>4, <1>6
    <2> QED BY <1>1, <2>1 DEF IInv, ArrivedOK
  <1>12. ASSUME NEW j \in Keys PROVE EntryOK(j)'
    <2>1. CASE j = k
      <3>1. entry'[j] = e /\ alive'[j] = alive[k] /\ failures'[j] = failures[k]
        BY <1>1, <1>6, <2>1
      <3>2. failures[k] \in Nat /\ alive[k] = IF e.state = "ready" THEN {e.value} ELSE {}
        BY <1>2, <1>4
      <3> QED BY <1>4, <3>1, <3>2 DEF EntryOK
    <2>2. CASE j # k
      BY <1>1, <1>6, <2>2 DEF IInv, EntryOK
    <2> QED BY <2>1, <2>2
  <1> QED BY <1>1, <1>7, <1>8, <1>9, <1>10, <1>11, <1>12 DEF IInv, NoIntruder

LEMMA StartKeeps ==
  ASSUME IInv, Start
  PROVE  IInv'
  <1>1. PICK k \in Candidates : Decline(k) \/ StartLater(k) \/ StartNow(k)
    BY DEF Start
  <1> QED BY <1>1, DeclineKeeps, StartLaterKeeps, StartNowKeeps

(* An answer is accepted exactly when its load is still wanted. *)
LEMMA AnswerKeeps ==
  ASSUME IInv, NEW f \in flights, Answer(f)
  PROVE  IInv'
  <1> DEFINE k == f.key
             again == [f EXCEPT !.live = FALSE]
  <1>1. /\ residents' = residents /\ cost' = cost /\ dead' = dead /\ active' = active /\ pc' = pc
        /\ todo' = todo /\ alive' = alive /\ failures' = failures /\ pc = "idle"
    BY DEF Answer, place
  <1>2. PICK more \in SUBSET {again} :
          /\ flights' = (flights \ {f}) \cup more
          /\ Cardinality({g \in flights' : ~g.live}) <= MaxLate
    BY DEF Answer
  <1>3. /\ flights \in SUBSET Flights /\ IsFiniteSet(flights) /\ FlightsOK
        /\ entry \in [Keys -> Entries] /\ arrived \in Seq(Keys) /\ ~intruded
    BY DEF IInv, TypeOK, NoIntruder
  <1>4. /\ f \in Flights /\ k \in Keys /\ again \in Flights /\ again.key = k
        /\ again.generation = f.generation /\ ~again.live
    BY <1>3 DEF Flights
  <1> HIDE DEF again
  <1>5. flights' \in SUBSET Flights /\ IsFiniteSet(flights')
    <2>1. flights' \in SUBSET (flights \cup {again})
      BY <1>2
    <2>2. IsFiniteSet(flights \cup {again})
      BY <1>3, FS_AddElement
    <2> QED BY <1>3, <1>4, <2>1, <2>2, FS_Subset
  <1>6. \A g \in flights' : g.live => g \in flights /\ g # f
    BY <1>2, <1>4
  <1>7. f.live => Accepts(f)
    <2>1. f.live => Waits(k) /\ entry[k].generation = f.generation
      BY <1>3 DEF FlightsOK
    <2>2. Waits(k) => HomeOf[k] \notin dead
      <3>1. Waits(k) => k \in ToSet(residents)
        BY <1>4, EntryFacts DEF Waits
      <3> QED BY <3>1 DEF IInv, ResidentsOK
    <2> QED BY <2>1, <2>2 DEF Accepts, Waits
  <1>8. Accepts(f) => f.live /\ Waits(k)
    <2>1. Accepts(f) => Waits(k) /\ entry[k].generation = f.generation
      BY DEF Accepts, Waits
    <2> QED BY <1>3, <2>1 DEF FlightsOK
  <1>9. CASE Accepts(f)
    <2>1. PICK result \in {"ok", "failed"} : entry' = [entry EXCEPT ![k].result = result]
      BY <1>9 DEF Answer
    <2>2. arrived' = Append(arrived, k) /\ intruded' = (intruded \/ ~f.live)
      BY <1>9 DEF Answer
    <2>3. f.live /\ Waits(k) /\ entry[k].busy /\ entry[k].result = "none" /\ k \in ToSet(residents)
      BY <1>4, <1>8, <1>9, EntryFacts DEF Waits
    <2>4. ASSUME NEW j \in Keys
          PROVE  /\ entry'[j] \in Entries
                 /\ j # k => entry'[j] = entry[j]
                 /\ entry'[j].desired = entry[j].desired /\ entry'[j].busy = entry[j].busy
                 /\ entry'[j].generation = entry[j].generation
                 /\ entry'[j].charged = entry[j].charged /\ entry'[j].attempts = entry[j].attempts
                 /\ entry'[j].state = entry[j].state /\ entry'[j].value = entry[j].value
      <3>1. entry[j] \in Entries
        BY <1>3
      <3>2. entry'[j] = IF j = k THEN [entry[k] EXCEPT !.result = result] ELSE entry[j]
        BY <1>3, <1>4, <2>1
      <3>3. CASE j = k
        BY <3>1, <3>2, <3>3 DEF Entries
      <3>4. CASE j # k
        BY <3>1, <3>2, <3>4
      <3> QED BY <3>3, <3>4
    <2>5. entry'[k].result = result
      <3>1. entry'[k] = [entry[k] EXCEPT !.result = result] /\ entry[k] \in Entries
        BY <1>3, <1>4, <2>1
      <3> QED BY <3>1 DEF Entries
    <2>6. entry' \in [Keys -> Entries]
      <3>1. entry' = [j \in Keys |-> entry'[j]]
        BY <1>3, <2>1
      <3> QED BY <2>4, <3>1
    <2> HIDE DEF k
    <2>7. arrived' \in Seq(Keys) /\ ArrivedOK'
      <3>1. IsInjective(arrived) /\ ToSet(arrived) = {j \in Keys : entry[j].result # "none"}
        BY DEF IInv, ArrivedOK
      <3>2. k \notin ToSet(arrived)
        BY <2>3, <3>1
      <3>3. /\ arrived' \in Seq(Keys) /\ ToSet(arrived') = ToSet(arrived) \cup {k}
            /\ IsInjective(arrived')
        BY <1>3, <1>4, <2>2, <3>1, <3>2, MembersAppend
      <3>4. ToSet(arrived') = {j \in Keys : entry'[j].result # "none"}
        BY <1>4, <2>4, <2>5, <3>1, <3>3
      <3> QED BY <3>3, <3>4 DEF ArrivedOK
    <2>8. ~Waits(k)' /\ \A j \in Keys \ {k} : Waits(j)' <=> Waits(j)
      BY <2>4, <2>5 DEF Waits
    <2>9. FlightsOK'
      <3>1. \A g \in flights : g.key \in Keys
        BY <1>3 DEF Flights
      <3>2. \A g \in flights' : g.key \in Keys /\ (g.key # k => g \in flights)
        BY <1>2, <1>4, <3>1
      <3>3. \A g \in flights' : g.live => g.key # k
        BY <1>3, <1>6, <2>3 DEF FlightsOK, k
      <3>4. \A g \in flights' : g.live => Waits(g.key)' /\ entry'[g.key].generation = g.generation
        BY <1>3, <2>4, <2>8, <3>2, <3>3 DEF FlightsOK
      <3>5. \A g \in flights' : ~g.live => ~(Waits(g.key)' /\ entry'[g.key].generation = g.generation)
        BY <1>3, <2>4, <2>8, <3>2 DEF FlightsOK
      <3>6. \A g, h \in flights' : g.live /\ h.live /\ g.key = h.key => g = h
        BY <1>3, <1>6 DEF FlightsOK
      <3>7. \A j \in Keys : Waits(j)' => \E g \in flights' : g.live /\ g.key = j
        BY <1>2, <1>3, <2>8 DEF FlightsOK, k
      <3> QED BY <1>2, <3>4, <3>5, <3>6, <3>7 DEF FlightsOK
    <2>10. TypeOK' /\ NoIntruder'
      BY <1>1, <1>3, <1>5, <2>2, <2>3, <2>6, <2>7 DEF IInv, TypeOK, NoIntruder
    <2>11. ResidentsOK'
      <3>1. \A j \in Keys \ ToSet(residents) : entry'[j] = entry[j]
        BY <2>3, <2>4
      <3>2. \A d \in ToSet(todo') : pc' = "admit" /\ HomeOf[d.key] \notin dead'
        BY <1>1 DEF IInv, ResidentsOK
      <3> QED BY <1>1, <3>1, <3>2, ResidentsSteady
    <2>12. BudgetsHold'
      <3>1. Busy' = Busy
        BY <2>4 DEF Busy
      <3>2. ActiveOK' /\ CostOK'
        BY <1>1, <3>1, BusyFacts, CostSteady DEF ActiveOK
      <3> QED BY <3>2 DEF BudgetsHold, ActiveOK, CostOK, Busy
    <2>13. ASSUME NEW j \in Keys PROVE EntryOK(j)'
      <3>1. EntryOK(j)
        BY DEF IInv
      <3>2. entry'[j].result # "none" => entry'[j].busy
        <4>1. CASE j = k
          BY <2>3, <2>4, <4>1
        <4>2. CASE j # k
          BY <2>4, <3>1, <4>2 DEF EntryOK
        <4> QED BY <4>1, <4>2
      <3> QED BY <1>1, <2>4, <3>1, <3>2 DEF EntryOK
    <2> QED BY <2>7, <2>9, <2>10, <2>11, <2>12, <2>13 DEF IInv
  <1>10. CASE ~Accepts(f)
    <2>1. entry' = entry /\ arrived' = arrived /\ intruded' = intruded
      BY <1>10 DEF Answer
    <2>2. ~f.live
      BY <1>7, <1>10
    <2>3. again = f
      BY <1>4, <2>2 DEF again, Flights
    <2>4. flights' \in SUBSET flights /\ \A g \in flights : g.live => g \in flights'
      BY <1>2, <2>2, <2>3
    <2>5. \A j : Waits(j)' <=> Waits(j)
      BY <2>1 DEF Waits
    <2>6. FlightsOK'
      BY <1>2, <1>3, <2>1, <2>4, <2>5 DEF FlightsOK
    <2>7. BudgetsHold'
      <3>1. \A c : Resident(c)' = Resident(c)
        BY <1>1 DEF Resident
      <3> QED BY <1>1, <2>1, <3>1 DEF IInv, BudgetsHold
    <2>8. TypeOK' /\ ResidentsOK' /\ ArrivedOK' /\ NoIntruder'
      BY <1>1, <1>5, <2>1 DEF IInv, TypeOK, ResidentsOK, ArrivedOK, NoIntruder
    <2>9. \A j \in Keys : EntryOK(j)'
      BY <1>1, <2>1 DEF IInv, EntryOK
    <2> QED BY <2>6, <2>7, <2>8, <2>9 DEF IInv
  <1> QED BY <1>9, <1>10
-----------------------------------------------------------------------------
(* The theorems.                                                            *)

LEMMA StutterKeeps ==
  ASSUME IInv, UNCHANGED vars
  PROVE  IInv'
  <1>1. /\ residents' = residents /\ entry' = entry /\ cost' = cost /\ active' = active
        /\ arrived' = arrived /\ flights' = flights /\ alive' = alive /\ failures' = failures
        /\ intruded' = intruded /\ dead' \in SUBSET dead /\ todo' = todo /\ pc' = pc /\ dead' = dead
    BY DEF vars, caches, loads, place
  <1>2. todo' \in Seq(Demands) /\ \A d \in ToSet(todo') : pc' = "admit" /\ HomeOf[d.key] \notin dead'
    BY <1>1 DEF IInv, TypeOK, ResidentsOK
  <1> QED BY <1>1, <1>2, QuietKeeps

LEMMA NextKeeps ==
  ASSUME IInv, [Next]_vars
  PROVE  IInv'
  <1>1. CASE UNCHANGED vars
    BY <1>1, StutterKeeps
  <1>2. CASE Controller
    <2>1. CASE \E c \in Caches : \E plan \in Plans : Reconcile(c, plan)
      BY <2>1, ReconcileKeeps, CacheAssumption
    <2>2. ASSUME NEW c \in Caches,
                 CreateCache(c) \/ Clear(c) \/ Dispose({c}) \/ Cancel({c}) \/ Invalidate(c) \/ RetryFailed(c)
          PROVE  IInv'
      <3>1. {c} \in SUBSET Caches
        OBVIOUS
      <3>2. CASE CreateCache(c)
        BY <3>2, PlainStepsKeep
      <3>3. CASE Clear(c)
        BY <3>3, ClearKeeps
      <3>4. CASE Dispose({c})
        BY <3>1, <3>4, DisposeKeeps
      <3>5. CASE Cancel({c})
        BY <3>5, CancelKeeps
      <3>6. CASE Invalidate(c) \/ RetryFailed(c)
        BY <3>6, InvalidateKeeps
      <3> QED BY <2>2, <3>2, <3>3, <3>4, <3>5, <3>6
    <2>3. CASE Dispose(Caches)
      <3>1. Caches \in SUBSET Caches
        OBVIOUS
      <3> QED BY <2>3, <3>1, DisposeKeeps
    <2>4. CASE Cancel(Caches)
      BY <2>4, CancelKeeps
    <2> QED BY <1>2, <2>1, <2>2, <2>3, <2>4 DEF Controller
  <1>3. CASE Admission
    <2>1. CASE Evict
      BY <2>1, EvictKeeps
    <2>2. CASE Admit
      BY <2>2, AdmitKeeps
    <2>3. CASE PassOver \/ ReconcileEnd
      BY <2>3, PlainStepsKeep
    <2> QED BY <1>3, <2>1, <2>2, <2>3 DEF Admission
  <1>4. CASE Frame
    <2>1. CASE Step
      BY <2>1, StepKeeps
    <2>2. CASE Complete
      BY <2>2, CompleteKeeps
    <2>3. CASE CompletionsEnd \/ StepEnd
      BY <2>3, PlainStepsKeep
    <2>4. CASE Preempt
      BY <2>4, PreemptKeeps
    <2>5. CASE Start
      BY <2>5, StartKeeps
    <2> QED BY <1>4, <2>1, <2>2, <2>3, <2>4, <2>5 DEF Frame
  <1>5. CASE \E f \in flights : Answer(f)
    BY <1>5, AnswerKeeps
  <1> QED BY <1>1, <1>2, <1>3, <1>4, <1>5 DEF Next

(* Every state of the scheduler satisfies the inductive invariant: accounts *)
(* add up, entries are worked on only while they are desired and resident,  *)
(* and a load under way has the one completion that can answer it.          *)
THEOREM Inductive == Spec => []IInv
  <1>1. Init => IInv
    BY InitHolds
  <1>2. IInv /\ [Next]_vars => IInv'
    BY NextKeeps
  <1> QED BY <1>1, <1>2, PTL DEF Spec

(* The counters of reconcile, stop and step are what the entries add up to, *)
(* and never over the budgets.                                              *)
THEOREM Budgets == Spec => []BudgetsHold
  <1>1. IInv => BudgetsHold
    BY DEF IInv
  <1> QED BY <1>1, Inductive, PTL

(* No completion of a load that was withdrawn by cancel, reconcile,         *)
(* preemption or dispose is ever taken for that of a later load.            *)
THEOREM LateIsIgnored == Spec => []NoIntruder
  <1>1. IInv => NoIntruder
    BY DEF IInv
  <1> QED BY <1>1, Inductive, PTL

(* The attempts of an entry are its failures and the load under way:        *)
(* refusals, cancellations and preemptions give theirs back.                *)
THEOREM AttemptsAreFailures == Spec => []BudgetIsFailures
  <1>1. IInv => BudgetIsFailures
    BY DEF IInv, EntryOK, BudgetIsFailures
  <1> QED BY <1>1, Inductive, PTL

(* A materialized value belongs to the ready entry that shows it: none is   *)
(* leaked by replace, evict, drop or dispose, none is shown afterwards.     *)
THEOREM ValuesAreOwned == Spec => []ValuesOwned
  <1>1. IInv => ValuesOwned
    BY DEF IInv, EntryOK, ValuesOwned
  <1> QED BY <1>1, Inductive, PTL

(* Between calls exactly the desired residents are worked on, each with one *)
(* load under way or one result queued.                                     *)
THEOREM WorkIsWanted == Spec => []WorkFollowsDemand
  <1>1. ASSUME IInv PROVE WorkFollowsDemand
    <2>1. \A k \in Keys : entry[k].busy => k \in ToSet(residents) /\ entry[k].desired
      BY <1>1, EntryFacts
    <2>2. \A k \in Keys : (\E f \in flights : f.key = k /\ f.live)
                            <=> (entry[k].busy /\ entry[k].result = "none")
      BY <1>1 DEF IInv, FlightsOK, Waits
    <2>3. (\A k \in Keys : k \in ToSet(arrived) <=> entry[k].result # "none") /\ IsInjective(arrived)
      BY <1>1 DEF IInv, ArrivedOK
    <2> QED BY <2>1, <2>2, <2>3 DEF WorkFollowsDemand
  <1> QED BY <1>1, Inductive, PTL

-----------------------------------------------------------------------------
(* Admission.  The demands before the one at work were looked at.  Those    *)
(* that got no place cannot displace what is protected from them, and those *)
(* with a place keep it: the demands come in order of importance.           *)

Unfit(d) ==
  \/ Cardinality(Protected(d)) >= MaxEntries
  \/ TotalCost(Protected(d)) + Cost[d.key] > MaxCost

Seen == 1 .. Len(wanted) - Len(todo)

WantedOK ==
  /\ wanted \in Seq(Demands) /\ Len(todo) <= Len(wanted)
  /\ \A i \in 1 .. Len(todo) : todo[i] = wanted[Len(wanted) - Len(todo) + i]
  /\ \A i, j \in 1 .. Len(wanted) : i < j =>
       wanted[i].priority <= wanted[j].priority /\ wanted[i].key # wanted[j].key
  /\ \A i, j \in 1 .. Len(wanted) : HomeOf[wanted[i].key] = HomeOf[wanted[j].key]

PlacesOK ==
  /\ \A i \in 1 .. Len(wanted) : LET k == wanted[i].key IN
       k \in ToSet(residents) => entry[k].desired /\ entry[k].priority = wanted[i].priority
  /\ \A i \in Seen : wanted[i].key \notin ToSet(residents) => Unfit(wanted[i])

AdmissionOK == pc = "admit" => WantedOK /\ PlacesOK

LEMMA CostMonotone ==
  ASSUME NEW S \in SUBSET Keys, IsFiniteSet(S), NEW T \in SUBSET S
  PROVE  /\ TotalCost(T) \in Nat /\ TotalCost(S) \in Nat /\ TotalCost(T) <= TotalCost(S)
         /\ Cardinality(T) \in Nat /\ Cardinality(S) \in Nat /\ Cardinality(T) <= Cardinality(S)
  <1>1. IsFiniteSet(T) /\ IsFiniteSet(S \ T) /\ S \ T \in SUBSET Keys /\ T \in SUBSET Keys
    BY FS_Subset
  <1>2. TotalCost(T) \in Nat /\ TotalCost(S) \in Nat /\ TotalCost(S \ T) \in Nat
    BY <1>1, CostStep
  <1>3. TotalCost(S \ T) = TotalCost(S) - TotalCost(T)
    BY CostRemove
  <1>4. Cardinality(T) \in Nat /\ Cardinality(S) \in Nat /\ Cardinality(T) <= Cardinality(S)
    BY <1>1, FS_CardinalityType, FS_Subset
  <1> QED BY <1>2, <1>3, <1>4

(* What more is protected from a demand leaves it without a place.          *)
LEMMA UnfitGrows ==
  ASSUME IInv, IInv', NEW d \in Demands, Unfit(d), Protected(d) \in SUBSET Protected(d)'
  PROVE  Unfit(d)'
  <1> DEFINE P == Protected(d)
             Q == Protected(d)'
  <1>1. Resident(HomeOf[d.key])' \in SUBSET Keys /\ IsFiniteSet(Resident(HomeOf[d.key])')
    <2>1. residents' \in Seq(Keys)
      BY DEF IInv, TypeOK
    <2>2. ToSet(residents') \in SUBSET Keys /\ IsFiniteSet(ToSet(residents'))
      BY <2>1, MembersFinite
    <2>3. Resident(HomeOf[d.key])' \in SUBSET ToSet(residents')
      BY DEF Resident
    <2> QED BY <2>2, <2>3, FS_Subset
  <1>2. Q \in SUBSET Resident(HomeOf[d.key])'
    BY DEF Protected
  <1>3. Q \in SUBSET Keys /\ IsFiniteSet(Q)
    BY <1>1, <1>2, FS_Subset
  <1>4. P \in SUBSET Q
    OBVIOUS
  <1>5. Cardinality(P) >= MaxEntries \/ TotalCost(P) + Cost[d.key] > MaxCost
    BY DEF Unfit
  <1>6. Cost[d.key] \in Nat /\ MaxEntries \in Nat /\ MaxCost \in Nat
    BY CacheAssumption DEF Demands
  <1>7. SUFFICES Cardinality(Q) >= MaxEntries \/ TotalCost(Q) + Cost[d.key] > MaxCost
    BY DEF Unfit
  <1> HIDE DEF P, Q
  <1> QED BY <1>3, <1>4, <1>5, <1>6, CostMonotone

(* Demands a controller passes come in order of importance.                 *)
LEMMA PlanSorted ==
  ASSUME NEW plan \in Plans
  PROVE  \A i, j \in 1 .. Len(plan) : i <= j => plan[i].priority <= plan[j].priority
  <1>1. /\ plan \in Seq(Demands) /\ Len(plan) \in Nat
        /\ \A i \in 1 .. Len(plan) : i > 1 => plan[i - 1].priority <= plan[i].priority
        /\ \A i \in 1 .. Len(plan) : plan[i] \in Demands /\ plan[i].priority \in Nat
    <2>1. plan \in Seq(Demands)
      BY CacheAssumption
    <2>2. Len(plan) \in Nat /\ \A i \in 1 .. Len(plan) : plan[i] \in Demands
      BY <2>1
    <2>3. \A i \in 1 .. Len(plan) : plan[i].priority \in Nat
      BY <2>2 DEF Demands
    <2>4. \A i \in 1 .. Len(plan) : i > 1 => plan[i - 1].priority <= plan[i].priority
      BY CacheAssumption
    <2> QED BY <2>1, <2>2, <2>3, <2>4
  <1>2. SUFFICES ASSUME NEW i \in 1 .. Len(plan)
                 PROVE  \A j \in 1 .. Len(plan) : i <= j => plan[i].priority <= plan[j].priority
    OBVIOUS
  <1> DEFINE Bad == {j \in 1 .. Len(plan) : i <= j /\ ~(plan[i].priority <= plan[j].priority)}
  <1>3. SUFFICES ASSUME Bad # {} PROVE FALSE
    OBVIOUS
  <1>4. PICK j \in Bad : \A b \in Bad : j <= b
    <2>1. Bad \in SUBSET Nat
      OBVIOUS
    <2> HIDE DEF Bad
    <2> QED BY <1>3, <2>1, LeastNumber
  <1>5. j \in 1 .. Len(plan) /\ i <= j /\ ~(plan[i].priority <= plan[j].priority)
    OBVIOUS
  <1>6. j # i
    BY <1>1, <1>5
  <1>7. j - 1 \in 1 .. Len(plan) /\ i <= j - 1 /\ j > 1 /\ j - 1 \notin Bad
    <2>1. j - 1 \in 1 .. Len(plan) /\ i <= j - 1 /\ j > 1
      BY <1>1, <1>5, <1>6
    <2>2. ~(j <= j - 1)
      BY <1>5
    <2> HIDE DEF Bad
    <2>3. j - 1 \notin Bad
      BY <1>4, <2>2
    <2> QED BY <2>1, <2>3
  <1>8. plan[i].priority <= plan[j - 1].priority
    BY <1>7
  <1> QED BY <1>1, <1>5, <1>7, <1>8

LEMMA MergedSorted ==
  ASSUME NEW plan \in Plans
  PROVE  \A i, j \in 1 .. Len(Merged(plan)) : i < j =>
           /\ Merged(plan)[i].priority <= Merged(plan)[j].priority
           /\ Merged(plan)[i].key # Merged(plan)[j].key
  <1>1. plan \in Seq(Demands) /\ Len(plan) \in Nat
        /\ \A i \in 1 .. Len(plan) : plan[i] \in Demands /\ plan[i].priority \in Nat
    <2>1. plan \in Seq(Demands)
      BY CacheAssumption
    <2>2. Len(plan) \in Nat /\ \A i \in 1 .. Len(plan) : plan[i] \in Demands
      BY <2>1
    <2> QED BY <2>1, <2>2 DEF Demands
  <1> DEFINE m == Merged(plan)
  <1>2. PICK keys : /\ Gathered(plan, Len(plan), keys) /\ DOMAIN m = DOMAIN keys
                    /\ \A i \in DOMAIN keys :
                         /\ m[i].key = keys[i]
                         /\ \E q \in 1 .. Len(plan) :
                              plan[q].key = keys[i] /\ plan[q].priority = m[i].priority
                         /\ \A r \in 1 .. Len(plan) :
                              plan[r].key = keys[i] => m[i].priority <= plan[r].priority
    BY <1>1, MergedFacts
  <1>3. m \in Seq(Demands)
    BY <1>1, MergedFacts
  <1> HIDE DEF m
  <1>4. DOMAIN m = 1 .. Len(m) /\ \A i \in 1 .. Len(m) : m[i].priority \in Nat
    <2>1. DOMAIN m = 1 .. Len(m) /\ \A i \in 1 .. Len(m) : m[i] \in Demands
      BY <1>3
    <2> QED BY <2>1 DEF Demands
  <1>5. SUFFICES ASSUME NEW i \in DOMAIN keys, NEW j \in DOMAIN keys, i < j
                 PROVE  m[i].priority <= m[j].priority /\ m[i].key # m[j].key
    BY <1>2, <1>4 DEF m
  <1>6. keys[i] # keys[j]
    BY <1>2, <1>5 DEF Gathered
  <1>7. PICK q \in 1 .. Len(plan) :
          plan[q].key = keys[i] /\ \A r \in 1 .. Len(plan) : plan[r].key = keys[j] => q < r
    BY <1>2, <1>5 DEF Gathered
  <1>8. PICK r \in 1 .. Len(plan) : plan[r].key = keys[j] /\ plan[r].priority = m[j].priority
    BY <1>2
  <1>9. q <= r
    BY <1>7, <1>8
  <1>10. m[i].priority <= plan[q].priority /\ plan[q].priority <= plan[r].priority
    BY <1>2, <1>7, <1>9, PlanSorted
  <1>11. m[i].priority \in Nat /\ plan[q].priority \in Nat /\ plan[r].priority \in Nat
    BY <1>1, <1>2, <1>4
  <1> QED BY <1>2, <1>6, <1>8, <1>10, <1>11

LEMMA ReconcileAdmits ==
  ASSUME IInv, NEW c \in Caches, NEW plan \in Plans, Reconcile(c, plan)
  PROVE  AdmissionOK'
  <1> DEFINE m == Merged(plan)
  <1>1. /\ wanted' = m /\ todo' = m /\ residents' = residents
        /\ entry' = [k \in Keys |-> IF k \in Resident(c) THEN Marked(k, ToSet(m)) ELSE entry[k]]
        /\ \A d \in ToSet(m) : HomeOf[d.key] = c
    BY DEF Reconcile
  <1>2. m \in Seq(Demands)
    BY MergedFacts, CacheAssumption
  <1>3. \A i, j \in 1 .. Len(m) : i < j => m[i].priority <= m[j].priority /\ m[i].key # m[j].key
    BY MergedSorted
  <1> HIDE DEF m
  <1>4. /\ Len(m) \in Nat /\ \A i \in 1 .. Len(m) : m[i] \in Demands /\ m[i] \in ToSet(m)
        /\ \A d \in ToSet(m) : \E i \in 1 .. Len(m) : d = m[i]
    BY <1>2 DEF ToSet
  <1>5. \A i, j \in 1 .. Len(m) : i # j => m[i].key # m[j].key
    <2> TAKE i, j \in 1 .. Len(m)
    <2>1. i < j \/ j < i \/ i = j
      BY <1>4
    <2> QED BY <1>3, <2>1
  <1>6. WantedOK'
    BY <1>1, <1>2, <1>3, <1>4 DEF WantedOK
  <1>7. ASSUME NEW i \in 1 .. Len(m), m[i].key \in ToSet(residents)
        PROVE  entry'[m[i].key].desired /\ entry'[m[i].key].priority = m[i].priority
    <2> DEFINE k == m[i].key
    <2>1. k \in Keys /\ k \in Resident(c) /\ entry[k] \in Entries
      <3>1. k \in Keys
        BY <1>4 DEF Demands
      <3> QED BY <1>1, <1>4, <1>7, <3>1, EntryFacts DEF Resident
    <2>2. entry'[k] = Marked(k, ToSet(m))
      BY <1>1, <2>1
    <2>3. m[i] \in ToSet(m) /\ \A d \in ToSet(m) : d.key = k => d = m[i]
      BY <1>4, <1>5
    <2>4. (\E d \in ToSet(m) : d.key = k) /\ (CHOOSE d \in ToSet(m) : d.key = k) = m[i]
      BY <2>3
    <2>5. entry'[k] = [entry[k] EXCEPT !.desired = TRUE, !.pin = m[i].pin,
                                       !.priority = m[i].priority, !.touched = 0]
      BY <2>2, <2>4 DEF Marked
    <2> QED BY <2>1, <2>5 DEF Entries
  <1>8. Len(wanted)' - Len(todo)' = 0
    BY <1>1, <1>4
  <1>9. PlacesOK'
    BY <1>1, <1>7, <1>8 DEF PlacesOK, Seen
  <1> QED BY <1>6, <1>9 DEF AdmissionOK

(* The demand at work is the next of those wanted.                          *)
LEMMA AtWork ==
  ASSUME IInv, WantedOK, todo # <<>>
  PROVE  LET m == Len(wanted) - Len(todo)
         IN  /\ m \in Nat /\ m + 1 \in 1 .. Len(wanted) /\ Len(wanted) \in Nat
             /\ Seen = 1 .. m /\ Seen \in SUBSET (1 .. Len(wanted))
             /\ Head(todo) = wanted[m + 1]
             /\ \A i \in 1 .. Len(wanted) : wanted[i] \in Demands /\ wanted[i].key \in Keys /\ wanted[i].priority \in Nat
             /\ \A i \in 1 .. Len(wanted) : i # m + 1 => wanted[i].key # wanted[m + 1].key
             /\ \A i \in 1 .. m : wanted[i].priority <= wanted[m + 1].priority
             /\ \A i \in 1 .. Len(wanted) : HomeOf[wanted[i].key] = HomeOf[wanted[m + 1].key]
  <1>1. /\ todo \in Seq(Demands) /\ Len(todo) \in Nat /\ Len(todo) # 0 /\ Head(todo) = todo[1]
        /\ wanted \in Seq(Demands) /\ Len(wanted) \in Nat /\ Len(todo) <= Len(wanted)
    BY DEF IInv, TypeOK, WantedOK
  <1> DEFINE m == Len(wanted) - Len(todo)
  <1>2. m \in Nat /\ m + 1 \in 1 .. Len(wanted) /\ 1 .. m \in SUBSET (1 .. Len(wanted)) /\ 1 \in 1 .. Len(todo)
    BY <1>1
  <1>3. Head(todo) = wanted[m + 1]
    BY <1>1, <1>2 DEF WantedOK
  <1>4. \A i \in 1 .. Len(wanted) : wanted[i] \in Demands /\ wanted[i].key \in Keys /\ wanted[i].priority \in Nat
    <2>1. \A i \in 1 .. Len(wanted) : wanted[i] \in Demands
      BY <1>1
    <2> QED BY <2>1 DEF Demands
  <1>5. Seen = 1 .. m
    BY DEF Seen
  <1> HIDE DEF m
  <1>6. \A i \in 1 .. Len(wanted) : i < m + 1 \/ m + 1 < i \/ i = m + 1
    BY <1>1, <1>2
  <1>7. \A i \in 1 .. Len(wanted) : i # m + 1 => wanted[i].key # wanted[m + 1].key
    BY <1>2, <1>6 DEF WantedOK
  <1>8. \A i \in 1 .. m : i < m + 1 /\ i \in 1 .. Len(wanted)
    BY <1>2
  <1>9. \A i \in 1 .. m : wanted[i].priority <= wanted[m + 1].priority
    BY <1>2, <1>8 DEF WantedOK
  <1>10. \A i \in 1 .. Len(wanted) : HomeOf[wanted[i].key] = HomeOf[wanted[m + 1].key]
    BY <1>2 DEF WantedOK
  <1> QED BY <1>1, <1>2, <1>3, <1>4, <1>5, <1>7, <1>9, <1>10 DEF m

(* Passing on leaves one more demand behind.                                *)
LEMMA PassingOn ==
  ASSUME IInv, WantedOK, todo # <<>>, Passed
  PROVE  LET m == Len(wanted) - Len(todo)
         IN  WantedOK' /\ wanted' = wanted /\ pc' = pc /\ Seen' = 1 .. m + 1
  <1>1. /\ todo \in Seq(Demands) /\ Len(todo) \in Nat /\ Len(todo) # 0
        /\ wanted \in Seq(Demands) /\ Len(wanted) \in Nat /\ Len(todo) <= Len(wanted)
        /\ \A i \in 1 .. Len(todo) : todo[i] = wanted[Len(wanted) - Len(todo) + i]
    BY DEF IInv, TypeOK, WantedOK
  <1>2. todo' = Tail(todo) /\ wanted' = wanted /\ pc' = pc
    BY DEF Passed
  <1>3. /\ Len(todo') = Len(todo) - 1
        /\ \A i \in 1 .. Len(todo) - 1 : todo'[i] = todo[i + 1]
    BY <1>1, <1>2
  <1>4. /\ Len(todo') <= Len(wanted)
        /\ \A i \in 1 .. Len(todo') : todo'[i] = wanted[Len(wanted) - Len(todo') + i]
    <2>1. ASSUME NEW i \in 1 .. Len(todo') PROVE todo'[i] = wanted[Len(wanted) - Len(todo') + i]
      <3>1. i + 1 \in 1 .. Len(todo) /\ todo'[i] = todo[i + 1]
        BY <1>1, <1>3
      <3>2. Len(wanted) - Len(todo) + (i + 1) = Len(wanted) - Len(todo') + i
        BY <1>1, <1>3
      <3> QED BY <1>1, <3>1, <3>2
    <2> QED BY <1>1, <1>3, <2>1
  <1>5. WantedOK'
    BY <1>2, <1>4 DEF WantedOK
  <1>6. Seen' = 1 .. Len(wanted) - Len(todo) + 1
    <2>1. Len(wanted) - Len(todo') = Len(wanted) - Len(todo) + 1
      BY <1>1, <1>3
    <2> QED BY <1>2, <2>1 DEF Seen
  <1> QED BY <1>2, <1>5, <1>6

(* What is evicted is not protected from a demand that was looked at.       *)
LEMMA EvictAdmits ==
  ASSUME IInv, IInv', WantedOK, PlacesOK, Evict
  PROVE  WantedOK' /\ PlacesOK'
  <1> DEFINE m == Len(wanted) - Len(todo)
             d == Head(todo)
  <1>1. /\ pc = "admit" /\ todo # <<>> /\ wanted' = wanted /\ todo' = todo
    BY DEF Evict, Admitting, place
  <1>2. PICK victim \in Evictable(d) : Drop({victim})
    BY DEF Evict
  <1>3. /\ residents' = Omit(residents, {victim})
        /\ entry' = [k \in Keys |-> IF k \in {victim} THEN Blank ELSE entry[k]]
    BY <1>2 DEF Drop
  <1>4. /\ ToSet(residents') = ToSet(residents) \ {victim} /\ ToSet(residents) \in SUBSET Keys
        /\ \A k \in Keys : k # victim => entry'[k] = entry[k]
    <2>1. residents \in Seq(Keys)
      BY DEF IInv, TypeOK
    <2> QED BY <1>3, <2>1, OmitFacts, MembersFinite
  <1>5. /\ m \in Nat /\ m + 1 \in 1 .. Len(wanted) /\ Len(wanted) \in Nat
        /\ Seen = 1 .. m /\ Seen \in SUBSET (1 .. Len(wanted)) /\ d = wanted[m + 1]
        /\ \A i \in 1 .. Len(wanted) : wanted[i] \in Demands /\ wanted[i].key \in Keys /\ wanted[i].priority \in Nat
        /\ \A i \in 1 .. m : wanted[i].priority <= wanted[m + 1].priority
        /\ \A i \in 1 .. Len(wanted) : HomeOf[wanted[i].key] = HomeOf[wanted[m + 1].key]
    BY <1>1, AtWork
  <1> HIDE DEF m, d
  <1>6. WantedOK' /\ Seen' = Seen
    BY <1>1 DEF WantedOK, Seen
  <1>7. /\ victim \in ToSet(residents) /\ victim \in Keys /\ ~entry[victim].pin
        /\ ~(entry[victim].desired /\ entry[victim].priority <= d.priority)
        /\ entry[victim].priority \in Nat
    <2>1. victim \in ToSet(residents) /\ ~entry[victim].pin
          /\ ~(entry[victim].desired /\ entry[victim].priority <= d.priority)
      BY DEF Evictable, Resident
    <2> QED BY <1>4, <2>1, EntryFacts DEF Entries
  <1>8. ASSUME NEW i \in 1 .. m
        PROVE  ~(entry[victim].desired /\ entry[victim].priority <= wanted[i].priority)
    <2>1. wanted[i].priority \in Nat /\ d.priority \in Nat /\ wanted[i].priority <= d.priority
      BY <1>5
    <2> QED BY <1>7, <2>1
  <1>9. ASSUME NEW i \in 1 .. Len(wanted), wanted[i].key \in ToSet(residents')
        PROVE  entry'[wanted[i].key].desired /\ entry'[wanted[i].key].priority = wanted[i].priority
    BY <1>4, <1>5, <1>9 DEF PlacesOK
  <1>10. ASSUME NEW i \in 1 .. m, wanted[i].key \notin ToSet(residents')
         PROVE  Unfit(wanted[i])'
    <2>1. i \in 1 .. Len(wanted) /\ wanted[i] \in Demands /\ wanted[i].priority <= wanted[i].priority
      BY <1>5
    <2>2. wanted[i].key # victim \/ wanted[i].key \notin ToSet(residents)
      BY <1>8, <2>1 DEF PlacesOK
    <2>3. wanted[i].key \notin ToSet(residents)
      BY <1>4, <1>7, <1>10, <2>2
    <2>4. Unfit(wanted[i])
      BY <1>5, <2>3 DEF PlacesOK
    <2>5. PICK e : e = wanted[i]
      OBVIOUS
    <2>6. Protected(e) \in SUBSET Protected(e)'
      BY <1>4, <1>7, <1>8, <2>5 DEF Protected, Resident
    <2>7. Unfit(e)'
      BY <2>1, <2>4, <2>5, <2>6, UnfitGrows
    <2> QED BY <1>1, <2>5, <2>7
  <1>11. PlacesOK'
    BY <1>1, <1>5, <1>6, <1>9, <1>10 DEF PlacesOK
  <1> QED BY <1>6, <1>11

(* Nothing is evictable for a demand passed over: all that is resident is   *)
(* protected from it.                                                       *)
LEMMA PassOverAdmits ==
  ASSUME IInv, IInv', WantedOK, PlacesOK, PassOver
  PROVE  WantedOK' /\ PlacesOK'
  <1> DEFINE m == Len(wanted) - Len(todo)
             d == Head(todo)
  <1>1. /\ todo # <<>> /\ Passed /\ residents' = residents /\ entry' = entry
        /\ \/ d.key \in ToSet(residents) \/ Cost[d.key] > MaxCost
           \/ ~Fits(d) /\ Evictable(d) = {}
    BY DEF PassOver, Admitting
  <1>2. /\ m \in Nat /\ m + 1 \in 1 .. Len(wanted) /\ Seen = 1 .. m /\ d = wanted[m + 1]
        /\ \A i \in 1 .. Len(wanted) : wanted[i] \in Demands /\ wanted[i].key \in Keys
    BY <1>1, AtWork
  <1>3. WantedOK' /\ wanted' = wanted /\ Seen' = 1 .. m + 1
    BY <1>1, PassingOn
  <1> HIDE DEF m, d
  <1>4. d \in Demands /\ d.key \in Keys /\ Cost[d.key] \in Nat /\ MaxCost \in Nat /\ MaxEntries \in Nat
        /\ HomeOf[d.key] \in Caches
    BY <1>2, CacheAssumption
  <1>5. ASSUME d.key \notin ToSet(residents) PROVE Unfit(d)
    <2>1. /\ Resident(HomeOf[d.key]) \in SUBSET Keys /\ IsFiniteSet(Resident(HomeOf[d.key]))
          /\ cost[HomeOf[d.key]] = TotalCost(Resident(HomeOf[d.key]))
      BY <1>4, ResidentFacts DEF IInv, BudgetsHold
    <2>2. Protected(d) \in SUBSET Resident(HomeOf[d.key])
      BY DEF Protected
    <2>3. /\ TotalCost(Protected(d)) \in Nat /\ Cardinality(Resident(HomeOf[d.key])) \in Nat
          /\ TotalCost(Resident(HomeOf[d.key])) \in Nat
      BY <2>1, <2>2, CostMonotone
    <2>4. CASE Cost[d.key] > MaxCost
      BY <1>4, <2>3, <2>4 DEF Unfit
    <2>5. CASE ~Fits(d) /\ Evictable(d) = {}
      <3>1. Protected(d) = Resident(HomeOf[d.key])
        BY <2>5 DEF Protected, Evictable
      <3>2. ~(Cardinality(Resident(HomeOf[d.key])) < MaxEntries) \/ ~(cost[HomeOf[d.key]] + Cost[d.key] <= MaxCost)
        BY <2>5 DEF Fits
      <3> QED BY <1>4, <2>1, <2>3, <3>1, <3>2 DEF Unfit
    <2> QED BY <1>1, <1>5, <2>4, <2>5
  <1>6. \A e : Unfit(e)' <=> Unfit(e)
    BY <1>1 DEF Unfit, Protected, Resident
  <1>7. \A i \in 1 .. m + 1 : wanted[i].key \notin ToSet(residents) => Unfit(wanted[i])
    <2>1. \A i \in 1 .. m + 1 : i \in 1 .. m \/ i = m + 1
      BY <1>2
    <2> QED BY <1>2, <1>5, <2>1 DEF PlacesOK
  <1>8. \A i \in 1 .. m + 1 : wanted[i].key \notin ToSet(residents) => Unfit(wanted[i])'
    <2> TAKE i \in 1 .. m + 1
    <2>1. PICK e : e = wanted[i]
      OBVIOUS
    <2>2. Unfit(e)' => Unfit(wanted[i])'
      BY <1>3, <2>1
    <2> QED BY <1>6, <1>7, <2>1, <2>2
  <1>9. \A i \in 1 .. Len(wanted) : LET k == wanted[i].key IN
          k \in ToSet(residents) => entry[k].desired /\ entry[k].priority = wanted[i].priority
    BY DEF PlacesOK
  <1>10. PlacesOK'
    BY <1>1, <1>3, <1>8, <1>9 DEF PlacesOK
  <1> QED BY <1>3, <1>10

(* What is admitted is protected from later demands, and takes nothing from *)
(* the earlier ones.                                                        *)
LEMMA AdmitAdmits ==
  ASSUME IInv, IInv', WantedOK, PlacesOK, Admit
  PROVE  WantedOK' /\ PlacesOK'
  <1> DEFINE m == Len(wanted) - Len(todo)
             d == Head(todo)
             k == d.key
             e == [Blank EXCEPT !.desired = TRUE, !.pin = d.pin, !.priority = d.priority]
  <1>1. /\ todo # <<>> /\ Passed /\ k \notin ToSet(residents)
        /\ residents' = Append(residents, k) /\ entry' = [entry EXCEPT ![k] = e]
    BY DEF Admit, Admitting
  <1>2. /\ m \in Nat /\ m + 1 \in 1 .. Len(wanted) /\ Seen = 1 .. m /\ d = wanted[m + 1]
        /\ Seen \in SUBSET (1 .. Len(wanted))
        /\ \A i \in 1 .. Len(wanted) : wanted[i] \in Demands /\ wanted[i].key \in Keys
        /\ \A i \in 1 .. Len(wanted) : i # m + 1 => wanted[i].key # wanted[m + 1].key
    BY <1>1, AtWork
  <1>3. WantedOK' /\ wanted' = wanted /\ Seen' = 1 .. m + 1
    BY <1>1, PassingOn
  <1>4. e.desired /\ e.priority = d.priority
    BY DEF Blank
  <1> HIDE DEF m, d, e
  <1>5. k \in Keys
    BY <1>2
  <1>6. /\ ToSet(residents') = ToSet(residents) \cup {k} /\ ToSet(residents) \in SUBSET Keys
        /\ entry'[k] = e /\ \A j \in Keys : j # k => entry'[j] = entry[j]
    <2>1. residents \in Seq(Keys) /\ entry \in [Keys -> Entries]
      BY DEF IInv, TypeOK
    <2> HIDE DEF k
    <2> QED BY <1>1, <1>5, <2>1, MembersAppend, MembersFinite
  <1>7. ASSUME NEW i \in 1 .. Len(wanted), wanted[i].key \in ToSet(residents')
        PROVE  entry'[wanted[i].key].desired /\ entry'[wanted[i].key].priority = wanted[i].priority
    <2>1. CASE i = m + 1
      BY <1>2, <1>4, <1>6, <2>1
    <2>2. CASE i # m + 1
      <3>1. wanted[i].key # k /\ wanted[i].key \in Keys
        BY <1>2, <2>2
      <3>2. wanted[i].key \in ToSet(residents)
        BY <1>6, <1>7, <3>1
      <3> QED BY <1>6, <3>1, <3>2 DEF PlacesOK
    <2> QED BY <2>1, <2>2
  <1>8. ASSUME NEW i \in 1 .. m + 1, wanted[i].key \notin ToSet(residents')
        PROVE  Unfit(wanted[i])'
    <2>1. i \in 1 .. m
      BY <1>2, <1>6, <1>8
    <2>2. wanted[i] \in Demands /\ wanted[i].key \notin ToSet(residents) /\ Unfit(wanted[i])
      BY <1>2, <1>6, <1>8, <2>1 DEF PlacesOK
    <2>3. PICK f : f = wanted[i]
      OBVIOUS
    <2>4. Protected(f) \in SUBSET Protected(f)'
      BY <1>1, <1>6 DEF Protected, Resident
    <2>5. Unfit(f)'
      BY <2>2, <2>3, <2>4, UnfitGrows
    <2> QED BY <1>3, <2>3, <2>5
  <1>9. PlacesOK'
    BY <1>3, <1>7, <1>8 DEF PlacesOK
  <1> QED BY <1>3, <1>9

LEMMA AdmissionKeeps ==
  ASSUME IInv, IInv', AdmissionOK, [Next]_vars
  PROVE  AdmissionOK'
  <1>1. CASE \E c \in Caches : \E plan \in Plans : Reconcile(c, plan)
    BY <1>1, ReconcileAdmits
  <1>2. CASE Evict \/ PassOver \/ Admit
    <2>1. pc = "admit" /\ (Evict \/ PassOver \/ Admit)
      BY <1>2 DEF Evict, PassOver, Admit, Admitting
    <2> QED BY <2>1, EvictAdmits, PassOverAdmits, AdmitAdmits DEF AdmissionOK
  <1>3. CASE UNCHANGED vars
    <2>1. UNCHANGED <<wanted, todo, residents, entry, pc>>
      BY <1>3 DEF vars, caches, place
    <2> QED BY <2>1 DEF AdmissionOK, WantedOK, PlacesOK, Seen, Unfit, Protected, Resident
  <1>4. CASE \E c \in Caches : \/ CreateCache(c) \/ Clear(c) \/ Dispose({c}) \/ Cancel({c})
                               \/ Invalidate(c) \/ RetryFailed(c)
    <2>1. pc' # "admit"
      BY <1>4 DEF CreateCache, Clear, Dispose, Cancel, Invalidate, RetryFailed, InvalidateEntries, place
    <2> QED BY <2>1 DEF AdmissionOK
  <1>5. CASE Dispose(Caches) \/ Cancel(Caches) \/ (\E f \in flights : Answer(f)) \/ ReconcileEnd
    <2>1. pc' # "admit"
      BY <1>5 DEF Dispose, Cancel, Answer, ReconcileEnd, place
    <2> QED BY <2>1 DEF AdmissionOK
  <1>6. CASE Frame
    <2>1. pc' # "admit"
      BY <1>6 DEF Frame, Step, Complete, CompletionsEnd, Preempt, Start, StepEnd, Starting, place
    <2> QED BY <2>1 DEF AdmissionOK
  <1> QED BY <1>1, <1>2, <1>3, <1>4, <1>5, <1>6 DEF Next, Controller, Admission

(* A demand that reconcile leaves out could only have been admitted by      *)
(* evicting what is pinned or no less important, whatever was demanded      *)
(* before and evicted for it meanwhile.                                     *)
THEOREM ImportantFirst == Spec => AdmissionByPriority
  <1> DEFINE Looked == pc = "admit" /\ todo = <<>> =>
               \A d \in ToSet(wanted) : d.key \notin ToSet(residents) => Unfit(d)
  <1>1. AdmissionByPriority <=> [][Looked]_vars
    BY DEF AdmissionByPriority, Unfit
  <1>2. Init => AdmissionOK
    BY DEF Init, AdmissionOK
  <1>3. IInv /\ IInv' /\ AdmissionOK /\ [Next]_vars => AdmissionOK'
    BY AdmissionKeeps
  <1>4. AdmissionOK => Looked
    <2> SUFFICES ASSUME WantedOK, PlacesOK, todo = <<>>, NEW d \in ToSet(wanted), d.key \notin ToSet(residents)
                 PROVE  Unfit(d)
      BY DEF AdmissionOK
    <2>1. Len(todo) = 0 /\ wanted \in Seq(Demands) /\ Len(wanted) \in Nat
      BY DEF WantedOK
    <2>2. Seen = 1 .. Len(wanted)
      BY <2>1 DEF Seen
    <2>3. PICK i \in 1 .. Len(wanted) : d = wanted[i]
      BY <2>1 DEF ToSet
    <2> QED BY <2>2, <2>3 DEF PlacesOK
  <1>5. Spec => []IInv
    BY Inductive
  <1> HIDE DEF Looked
  <1>6. Spec => [][Looked]_vars
    BY <1>2, <1>3, <1>4, <1>5, PTL DEF Spec
  <1> QED BY <1>1, <1>6
=============================================================================
