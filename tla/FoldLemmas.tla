----------------------------- MODULE FoldLemmas -----------------------------
(***************************************************************************)
(* Folds exist: the recursive functions behind the sums and sequences of   *)
(* the models have the values their equations give them.  Induction is by  *)
(* least elements of well-founded orders.                                  *)
(***************************************************************************)
EXTENDS Integers, FiniteSets, SequencesExt, Lists, FiniteSetTheorems, WellFoundedInduction, TLAPS

(* A set of numbers that is not empty has a least element. *)
LEMMA LeastNumber ==
  ASSUME NEW S \in SUBSET Nat, S # {}
  PROVE  \E x \in S : \A y \in S : x <= y
  <1>1. PICK x \in S : \A y \in S : ~(<<y, x>> \in OpToRel(<, Nat))
    BY WFMin, NatLessThanWellFounded, Zenon
  <1>2. \A y \in S : ~(y < x)
    BY <1>1 DEF OpToRel
  <1> QED BY <1>2

(* A family of finite sets that is not empty has one without smaller ones. *)
LEMMA LeastSet ==
  ASSUME NEW S, IsFiniteSet(S), NEW F \in SUBSET SUBSET S, F # {}
  PROVE  \E T \in F : \A U \in F : U \subseteq T => U = T
  <1>1. F \subseteq FiniteSubsetsOf(S)
    BY FS_FiniteSubsetsOfFinite
  <1>2. PICK T \in F : \A U \in F : ~(<<U, T>> \in StrictSubsetOrdering(S))
    BY <1>1, WFMin, FS_StrictSubsetOrderingWellFounded, Zenon
  <1>3. ASSUME NEW U \in F, U \subseteq T PROVE U = T
    <2>1. <<U, T>> \in (SUBSET S) \X (SUBSET S)
      OBVIOUS
    <2> QED BY <1>2, <1>3, <2>1 DEF StrictSubsetOrdering
  <1> QED BY <1>3

(* The folds of 1 .. n by step, from the first index to the last. *)
IndexFolds(n, V, base, step) ==
  {h \in [0 .. n -> V] : h[0] = base /\ \A i \in 1 .. n : h[i] = step[i][h[i - 1]]}

(* There is one, whatever n. *)
LEMMA IndexFold ==
  ASSUME NEW n \in Nat, NEW V, NEW base \in V, NEW step \in [1 .. n -> [V -> V]]
  PROVE  IndexFolds(n, V, base, step) # {}
  <1> DEFINE Folds(m) == IndexFolds(m, V, base, step)
             Bad == {m \in 0 .. n : Folds(m) = {}}
  <1> HIDE DEF Folds
  <1>1. SUFFICES ASSUME Bad # {} PROVE FALSE
    BY DEF Folds
  <1>2. PICK m \in Bad : \A k \in Bad : m <= k
    <2>1. Bad \in SUBSET Nat
      OBVIOUS
    <2> HIDE DEF Bad
    <2> QED BY <1>1, <2>1, LeastNumber
  <1>3. m # 0
    <2>1. [i \in 0 .. 0 |-> base] \in Folds(0)
      BY DEF Folds, IndexFolds
    <2> QED BY <2>1
  <1>4. m \in 1 .. n /\ m - 1 \in 0 .. n /\ m - 1 \notin Bad
    <2>1. m \in 0 .. n
      OBVIOUS
    <2> QED BY <1>2, <1>3, <2>1
  <1>5. PICK h : h \in Folds(m - 1)
    BY <1>4
  <1>6. h \in [0 .. m - 1 -> V] /\ h[0] = base /\ \A i \in 1 .. m - 1 : h[i] = step[i][h[i - 1]]
    BY <1>5 DEF Folds, IndexFolds
  <1> DEFINE g == [i \in 0 .. m |-> IF i = m THEN step[m][h[m - 1]] ELSE h[i]]
  <1>7. g \in [0 .. m -> V]
    <2>1. h[m - 1] \in V
      BY <1>4, <1>6
    <2>2. step[m][h[m - 1]] \in V
      BY <1>4, <2>1
    <2> QED BY <1>4, <2>2, <1>6
  <1>8. g[0] = base /\ \A i \in 1 .. m : g[i] = step[i][g[i - 1]]
    BY <1>4, <1>6
  <1>9. g \in Folds(m)
    <2> HIDE DEF g
    <2> QED BY <1>7, <1>8 DEF Folds, IndexFolds
  <1> QED BY <1>9

(* The folds of T by step, in the order in which pick takes its elements. *)
SetFolds(T, V, base, pick, step) ==
  {h \in [SUBSET T -> V] : \A U \in SUBSET T :
     h[U] = IF U = {} THEN base ELSE step[pick[U]][h[U \ {pick[U]}]]}

(* There is one over every finite set. *)
LEMMA SetFold ==
  ASSUME NEW S, IsFiniteSet(S), NEW V, NEW base \in V, NEW pick,
         \A T \in SUBSET S : T # {} => pick[T] \in T,
         NEW step \in [S -> [V -> V]]
  PROVE  SetFolds(S, V, base, pick, step) # {}
  <1> DEFINE Folds(T) == SetFolds(T, V, base, pick, step)
             Bad == {T \in SUBSET S : Folds(T) = {}}
  <1> HIDE DEF Folds
  <1>1. ASSUME NEW T \in SUBSET S, NEW g \in Folds(T), NEW h \in Folds(T) PROVE g = h
    <2> DEFINE F == {U \in SUBSET T : g[U] # h[U]}
    <2>1. g \in [SUBSET T -> V] /\ h \in [SUBSET T -> V]
      BY <1>1 DEF Folds, SetFolds
    <2>2. SUFFICES ASSUME F # {} PROVE FALSE
      <3>1. F = {} => \A U \in SUBSET T : g[U] = h[U]
        OBVIOUS
      <3> HIDE DEF F
      <3> QED BY <2>1, <3>1
    <2>3. PICK U \in F : \A W \in F : W \subseteq U => W = U
      <3>1. IsFiniteSet(T) /\ F \in SUBSET SUBSET T
        BY FS_Subset
      <3> HIDE DEF F
      <3> QED BY <2>2, <3>1, LeastSet
    <2>4. U \in SUBSET T /\ U # {}
      BY <1>1 DEF Folds, SetFolds
    <2>5. pick[U] \in U /\ U \ {pick[U]} \in SUBSET T /\ U \ {pick[U]} # U
      BY <2>4
    <2>6. g[U \ {pick[U]}] = h[U \ {pick[U]}]
      BY <2>3, <2>5
    <2>7. g[U] = h[U]
      BY <1>1, <2>4, <2>6 DEF Folds, SetFolds
    <2> QED BY <2>7
  <1>2. ASSUME NEW T \in SUBSET S, NEW h \in Folds(T), NEW U \in SUBSET T
        PROVE  [W \in SUBSET U |-> h[W]] \in Folds(U)
    <2>1. \A W \in SUBSET U : W \in SUBSET T /\ W \ {pick[W]} \in SUBSET U
      OBVIOUS
    <2> QED BY <1>2, <2>1 DEF Folds, SetFolds
  <1>3. ASSUME NEW T \in SUBSET S, NEW h \in Folds(T), NEW U \in SUBSET T, NEW g \in Folds(U)
        PROVE  h[U] = g[U]
    <2> DEFINE r == [W \in SUBSET U |-> h[W]]
    <2>1. r[U] = h[U]
      OBVIOUS
    <2>2. r \in Folds(U) /\ U \in SUBSET S
      BY <1>2
    <2> HIDE DEF r
    <2>3. r = g
      BY <1>1, <2>2
    <2> QED BY <2>1, <2>3
  <1>4. SUFFICES ASSUME Bad # {} PROVE FALSE
    <2>1. S \in SUBSET S
      OBVIOUS
    <2> QED BY <2>1 DEF Folds
  <1>5. PICK T \in Bad : \A U \in Bad : U \subseteq T => U = T
    <2>1. Bad \in SUBSET SUBSET S
      OBVIOUS
    <2> HIDE DEF Bad
    <2> QED BY <1>4, <2>1, LeastSet
  <1>6. T \in SUBSET S /\ Folds(T) = {} /\ \A U \in SUBSET T : U # T => Folds(U) # {}
    BY <1>5
  <1> HIDE DEF Bad
  <1> DEFINE Fold(U) == CHOOSE h : h \in Folds(U)
             Final == step[pick[T]][Fold(T \ {pick[T]})[T \ {pick[T]}]]
             h == [U \in SUBSET T |-> IF U = {} THEN base ELSE IF U = T THEN Final ELSE Fold(U)[U]]
  <1>7. \A U \in SUBSET T : U # T => Fold(U) \in Folds(U)
    BY <1>6
  <1> HIDE DEF Fold, Final
  <1>8. \A U \in SUBSET T : U # T => Fold(U)[U] \in V
    <2> SUFFICES ASSUME NEW U \in SUBSET T, U # T PROVE Fold(U)[U] \in V
      OBVIOUS
    <2>1. Fold(U) \in [SUBSET U -> V]
      BY <1>7 DEF Folds, SetFolds
    <2> QED BY <2>1
  <1>9. \A U \in SUBSET T : U # {} =>
          /\ pick[U] \in U /\ pick[U] \in S
          /\ U \ {pick[U]} \in SUBSET U /\ U \ {pick[U]} \in SUBSET T
          /\ U \ {pick[U]} # U /\ U \ {pick[U]} # T
    BY <1>6
  <1>10. T # {} => Final \in V
    <2> SUFFICES ASSUME T # {} PROVE Final \in V
      OBVIOUS
    <2>1. pick[T] \in S /\ T \ {pick[T]} \in SUBSET T /\ T \ {pick[T]} # T
      BY <1>9
    <2>2. Fold(T \ {pick[T]})[T \ {pick[T]}] \in V
      BY <1>8, <2>1
    <2> QED BY <2>1, <2>2 DEF Final
  <1>11. h \in [SUBSET T -> V]
    <2>1. \A U \in SUBSET T : U # {} /\ U = T => T # {}
      OBVIOUS
    <2> QED BY <1>8, <1>10, <2>1
  <1>12. ASSUME NEW U \in SUBSET T, U # {}
         PROVE  h[U] = step[pick[U]][h[U \ {pick[U]}]]
    <2> DEFINE R == U \ {pick[U]}
    <2>1. R \in SUBSET U /\ R \in SUBSET T /\ R # U /\ R # T
      BY <1>9, <1>12
    <2> HIDE DEF R
    <2>2. h[R] = Fold(R)[R]
      <3>1. R = {} => Fold(R)[R] = base
        BY <1>7, <2>1 DEF Folds, SetFolds
      <3> QED BY <2>1, <3>1
    <2>3. CASE U = T
      <3>1. h[U] = step[pick[U]][Fold(R)[R]]
        BY <1>12, <2>3 DEF Final, R
      <3> QED BY <3>1, <2>2 DEF R
    <2>4. CASE U # T
      <3>1. Fold(U) \in Folds(U) /\ Fold(R) \in Folds(R)
        BY <1>7, <2>1, <2>4
      <3>2. Fold(U)[U] = step[pick[U]][Fold(U)[R]]
        BY <3>1, <1>12 DEF Folds, SetFolds, R
      <3>3. Fold(U)[R] = Fold(R)[R]
        <4>1. U \in SUBSET S
          BY <1>6
        <4> HIDE DEF h
        <4> QED BY <3>1, <2>1, <4>1, <1>3
      <3>4. h[U] = Fold(U)[U]
        BY <2>4, <1>12
      <3>5. h[U] = step[pick[U]][h[R]]
        BY <3>2, <3>3, <3>4, <2>2
      <3> QED BY <3>5 DEF R
    <2> QED BY <2>3, <2>4
  <1>13. h[{}] = base
    OBVIOUS
  <1>14. h \in Folds(T)
    <2> HIDE DEF h
    <2> QED BY <1>11, <1>12, <1>13 DEF Folds, SetFolds
  <1> QED BY <1>6, <1>14

-----------------------------------------------------------------------------
(* Sequences and their members. *)

(* The members of a sequence are finitely many. *)
LEMMA MembersFinite ==
  ASSUME NEW S, NEW s \in Seq(S)
  PROVE  ToSet(s) \in SUBSET S /\ IsFiniteSet(ToSet(s))
  <1>1. [i \in 1 .. Len(s) |-> s[i]] \in Surjection(1 .. Len(s), ToSet(s))
    BY DEF Surjection, ToSet
  <1>2. IsFiniteSet(1 .. Len(s))
    BY FS_Interval
  <1> QED BY <1>1, <1>2, FS_Surjection DEF ToSet

(* The members of a sequence one longer. *)
LEMMA MembersAppend ==
  ASSUME NEW S, NEW s \in Seq(S), NEW x \in S
  PROVE  /\ Append(s, x) \in Seq(S) /\ ToSet(Append(s, x)) = ToSet(s) \cup {x}
         /\ IsInjective(s) /\ x \notin ToSet(s) => IsInjective(Append(s, x))
  BY SMTT(30) DEF ToSet, IsInjective

(* The equation Omit recurs by, and that it has a solution. *)
Keeps(s, K, h) ==
  h = [i \in 0 .. Len(s) |->
         IF i = 0 THEN <<>> ELSE IF s[i] \in K THEN h[i - 1] ELSE Append(h[i - 1], s[i])]

LEMMA KeepsEquation ==
  ASSUME NEW S, NEW s \in Seq(S), NEW K, NEW h
  PROVE  Keeps(s, K, h) <=>
           /\ h = [i \in 0 .. Len(s) |-> h[i]] /\ h[0] = <<>>
           /\ \A i \in 1 .. Len(s) :
                h[i] = IF s[i] \in K THEN h[i - 1] ELSE Append(h[i - 1], s[i])
  <1> DEFINE At(i) == IF i = 0 THEN <<>> ELSE IF s[i] \in K THEN h[i - 1] ELSE Append(h[i - 1], s[i])
  <1>1. At(0) = <<>> /\ \A i \in 1 .. Len(s) :
          At(i) = IF s[i] \in K THEN h[i - 1] ELSE Append(h[i - 1], s[i])
    OBVIOUS
  <1>2. Keeps(s, K, h) <=> h = [i \in 0 .. Len(s) |-> At(i)]
    BY DEF Keeps
  <1>3. \A i \in 0 .. Len(s) : i = 0 \/ i \in 1 .. Len(s)
    OBVIOUS
  <1>4. 0 \in 0 .. Len(s) /\ \A i \in 1 .. Len(s) : i \in 0 .. Len(s)
    OBVIOUS
  <1> HIDE DEF At
  <1> QED BY <1>1, <1>2, <1>3, <1>4

LEMMA KeepsExists ==
  ASSUME NEW S, NEW s \in Seq(S), NEW K
  PROVE  \E h : Keeps(s, K, h)
  <1> DEFINE len == Len(s)
             V == Seq(S)
             step == [i \in 1 .. len |-> [v \in V |-> IF s[i] \in K THEN v ELSE Append(v, s[i])]]
  <1>1. len \in Nat /\ <<>> \in V
    OBVIOUS
  <1>2. \A i \in 1 .. len : \A v \in V : (IF s[i] \in K THEN v ELSE Append(v, s[i])) \in V
    OBVIOUS
  <1>3. step \in [1 .. len -> [V -> V]]
    <2> HIDE DEF V
    <2> QED BY <1>2
  <1>4. PICK h : h \in IndexFolds(len, V, <<>>, step)
    <2> HIDE DEF len, V, step
    <2> QED BY <1>1, <1>3, IndexFold
  <1>5. h \in [0 .. len -> V] /\ h[0] = <<>> /\ \A i \in 1 .. len : h[i] = step[i][h[i - 1]]
    <2> HIDE DEF step, V, len
    <2> QED BY <1>4 DEF IndexFolds
  <1>6. ASSUME NEW i \in 1 .. len
        PROVE  h[i] = IF s[i] \in K THEN h[i - 1] ELSE Append(h[i - 1], s[i])
    <2>1. i - 1 \in 0 .. len
      OBVIOUS
    <2> HIDE DEF V
    <2> QED BY <1>5, <2>1
  <1>7. h = [i \in 0 .. Len(s) |-> h[i]]
    BY <1>5
  <1> QED BY <1>5, <1>6, <1>7, KeepsEquation

(* What Omit keeps: its recursion meets every index once. *)
LEMMA OmitFacts ==
  ASSUME NEW S, NEW s \in Seq(S), NEW K
  PROVE  /\ Omit(s, K) \in Seq(S) /\ ToSet(Omit(s, K)) = ToSet(s) \ K
         /\ IsInjective(s) => IsInjective(Omit(s, K))
  <1>1. PICK kept : Omit(s, K) = kept[Len(s)] /\ Keeps(s, K, kept)
    <2>1. Omit(s, K) = (CHOOSE h : Keeps(s, K, h))[Len(s)]
      BY DEF Omit, Keeps
    <2> QED BY <2>1, KeepsExists
  <1>2. /\ kept[0] = <<>>
        /\ \A i \in 1 .. Len(s) : kept[i] = IF s[i] \in K THEN kept[i - 1] ELSE Append(kept[i - 1], s[i])
    BY <1>1, KeepsEquation
  <1> DEFINE Upto(i) == {s[j] : j \in 1 .. i}
             Right(i) == /\ kept[i] \in Seq(S) /\ ToSet(kept[i]) = Upto(i) \ K
                         /\ IsInjective(s) => IsInjective(kept[i])
             Wrong == {i \in 0 .. Len(s) : ~Right(i)}
  <1>3. Right(0)
    BY <1>2 DEF ToSet, IsInjective
  <1>4. ASSUME NEW m \in 1 .. Len(s), Right(m - 1) PROVE Right(m)
    <2>1. s[m] \in S /\ Upto(m) = Upto(m - 1) \cup {s[m]}
      OBVIOUS
    <2>2. IsInjective(s) => s[m] \notin Upto(m - 1)
      BY DEF IsInjective
    <2> HIDE DEF Upto
    <2>3. CASE s[m] \in K
      BY <1>2, <1>4, <2>1, <2>3
    <2>4. CASE s[m] \notin K
      <3>1. kept[m] = Append(kept[m - 1], s[m])
        BY <1>2, <2>4
      <3>2. kept[m] \in Seq(S) /\ ToSet(kept[m]) = ToSet(kept[m - 1]) \cup {s[m]}
        BY <1>4, <2>1, <3>1, MembersAppend
      <3>3. IsInjective(s) => IsInjective(kept[m])
        BY <1>4, <2>1, <2>2, <3>1, MembersAppend
      <3> QED BY <1>4, <2>1, <2>4, <3>2, <3>3
    <2> QED BY <2>3, <2>4
  <1>5. Right(Len(s))
    <2>1. SUFFICES ASSUME Wrong # {} PROVE FALSE
      <3>1. Len(s) \in 0 .. Len(s)
        OBVIOUS
      <3> HIDE DEF Right
      <3> QED BY <3>1
    <2>2. PICK m \in Wrong : \A i \in Wrong : m <= i
      <3>1. Wrong \in SUBSET Nat
        OBVIOUS
      <3> HIDE DEF Wrong
      <3> QED BY <2>1, <3>1, LeastNumber
    <2> HIDE DEF Right
    <2>3. m \in 1 .. Len(s) /\ m - 1 \in 0 .. Len(s) /\ m - 1 \notin Wrong
      <3>1. m # 0
        BY <1>3, <2>2
      <3>2. m \in 0 .. Len(s)
        OBVIOUS
      <3> HIDE DEF Wrong
      <3> QED BY <2>2, <3>1, <3>2
    <2> QED BY <1>4, <2>2, <2>3
  <1>6. Upto(Len(s)) = ToSet(s)
    BY DEF ToSet
  <1> QED BY <1>1, <1>5, <1>6

(* Lists put one after the other: the equation FlattenSeq recurs by.        *)
Flattens(s, h) == h = [i \in 1 .. Len(s) |-> IF i = 1 THEN s[i] ELSE h[i - 1] \o s[i]]

(* The equation, place by place. *)
LEMMA FlattensEquation ==
  ASSUME NEW S, NEW s \in Seq(Seq(S)), NEW h
  PROVE  Flattens(s, h) <=>
           /\ h = [i \in 1 .. Len(s) |-> h[i]]
           /\ \A i \in 1 .. Len(s) : h[i] = IF i = 1 THEN s[i] ELSE h[i - 1] \o s[i]
  <1> DEFINE At(i) == IF i = 1 THEN s[i] ELSE h[i - 1] \o s[i]
  <1>1. Flattens(s, h) <=> h = [i \in 1 .. Len(s) |-> At(i)]
    BY DEF Flattens
  <1>2. \A i \in 1 .. Len(s) : At(i) = IF i = 1 THEN s[i] ELSE h[i - 1] \o s[i]
    OBVIOUS
  <1> HIDE DEF At
  <1> QED BY <1>1, <1>2

(* There is a function that satisfies it. *)
LEMMA FlattensExists ==
  ASSUME NEW S, NEW s \in Seq(Seq(S))
  PROVE  \E h : Flattens(s, h)
  <1> DEFINE len == Len(s)
             V == Seq(S)
             step == [i \in 1 .. len |-> [v \in V |-> v \o s[i]]]
  <1>1. len \in Nat /\ <<>> \in V /\ \A i \in 1 .. len : s[i] \in V
    OBVIOUS
  <1>2. \A i \in 1 .. len : \A v \in V : v \o s[i] \in V
    BY <1>1
  <1>3. step \in [1 .. len -> [V -> V]]
    <2> HIDE DEF V
    <2> QED BY <1>2
  <1>4. PICK h : h \in IndexFolds(len, V, <<>>, step)
    <2> HIDE DEF len, V, step
    <2> QED BY <1>1, <1>3, IndexFold
  <1>5. h \in [0 .. len -> V] /\ h[0] = <<>> /\ \A i \in 1 .. len : h[i] = step[i][h[i - 1]]
    <2> HIDE DEF step, V, len
    <2> QED BY <1>4 DEF IndexFolds
  <1>6. \A i \in 1 .. len : i - 1 \in 0 .. len
    BY <1>1
  <1>7. \A i \in 1 .. len : h[i] = h[i - 1] \o s[i]
    <2> HIDE DEF V, len
    <2> QED BY <1>5, <1>6
  <1>8. \A i \in 1 .. len : h[i] = IF i = 1 THEN s[i] ELSE h[i - 1] \o s[i]
    <2> TAKE i \in 1 .. len
    <2>1. CASE i = 1
      <3>1. <<>> \o s[1] = s[1]
        BY <1>1, <2>1
      <3>2. i - 1 = 0
        BY <2>1
      <3>3. h[i] = h[0] \o s[i]
        BY <1>7, <3>2
      <3> QED BY <1>5, <2>1, <3>1, <3>3
    <2>2. CASE i # 1
      BY <1>7, <2>2
    <2> QED BY <2>1, <2>2
  <1> DEFINE g == [i \in 1 .. len |-> h[i]]
  <1>9. \A i \in 1 .. len : g[i] = IF i = 1 THEN s[i] ELSE g[i - 1] \o s[i]
    <2> TAKE i \in 1 .. len
    <2>1. i # 1 => i - 1 \in 1 .. len
      BY <1>1
    <2> QED BY <1>8, <2>1
  <1>10. g = [i \in 1 .. Len(s) |-> g[i]]
    OBVIOUS
  <1> HIDE DEF g
  <1>11. Flattens(s, g)
    BY <1>9, <1>10, FlattensEquation
  <1> QED BY <1>11

(* The lists lose nothing and gain nothing. *)
LEMMA FlatFacts ==
  ASSUME NEW S, NEW s \in Seq(Seq(S))
  PROVE  /\ FlattenSeq(s) \in Seq(S)
         /\ \A x : x \in ToSet(FlattenSeq(s)) <=> \E i \in DOMAIN s : x \in ToSet(s[i])
  <1>1. Len(s) \in Nat /\ DOMAIN s = 1 .. Len(s) /\ \A i \in 1 .. Len(s) : s[i] \in Seq(S)
    OBVIOUS
  <1>2. CASE Len(s) = 0
    <2>1. s = <<>> /\ FlattenSeq(s) = <<>> /\ DOMAIN s = {} /\ ToSet(<<>>) = {} /\ <<>> \in Seq(S)
      BY <1>2 DEF FlattenSeq, ToSet
    <2> QED BY <2>1
  <1>3. CASE Len(s) # 0
    <2>1. PICK h : Flattens(s, h) /\ FlattenSeq(s) = h[Len(s)]
      <3>1. FlattenSeq(s) = (CHOOSE h : Flattens(s, h))[Len(s)]
        BY <1>3 DEF FlattenSeq, Flattens
      <3> QED BY <3>1, FlattensExists
    <2>2. \A i \in 1 .. Len(s) : h[i] = IF i = 1 THEN s[i] ELSE h[i - 1] \o s[i]
      BY <2>1, FlattensEquation
    <2> DEFINE Good(m) == h[m] \in Seq(S) /\ \A x : x \in ToSet(h[m]) <=> \E i \in 1 .. m : x \in ToSet(s[i])
               Bad == {m \in 1 .. Len(s) : ~Good(m)}
    <2>3. Good(1)
      <3>1. h[1] = s[1] /\ s[1] \in Seq(S) /\ 1 .. 1 = {1}
        BY <1>1, <1>3, <2>2
      <3> QED BY <3>1
    <2>4. ASSUME NEW m \in 1 .. Len(s), m # 1, Good(m - 1) PROVE Good(m)
      <3>1. h[m] = h[m - 1] \o s[m] /\ s[m] \in Seq(S) /\ h[m - 1] \in Seq(S)
        BY <1>1, <2>2, <2>4
      <3>2. ToSet(h[m]) = ToSet(h[m - 1]) \cup ToSet(s[m]) /\ h[m] \in Seq(S)
        <4>1. \A a, b \in Seq(S) : ToSet(a \o b) = ToSet(a) \cup ToSet(b) /\ a \o b \in Seq(S)
          <5> SUFFICES ASSUME NEW a \in Seq(S), NEW b \in Seq(S)
                       PROVE  ToSet(a \o b) = ToSet(a) \cup ToSet(b) /\ a \o b \in Seq(S)
            OBVIOUS
          <5> DEFINE c == a \o b
          <5>1. /\ c \in Seq(S) /\ DOMAIN a = 1 .. Len(a) /\ DOMAIN b = 1 .. Len(b)
                /\ DOMAIN c = 1 .. Len(a) + Len(b) /\ Len(a) \in Nat /\ Len(b) \in Nat
                /\ \A i \in 1 .. Len(a) : c[i] = a[i]
                /\ \A i \in 1 .. Len(b) : c[Len(a) + i] = b[i]
            OBVIOUS
          <5> HIDE DEF c
          <5>2. \A i \in DOMAIN a : i \in DOMAIN c /\ c[i] = a[i]
            BY <5>1
          <5>3. \A i \in DOMAIN b : Len(a) + i \in DOMAIN c /\ c[Len(a) + i] = b[i]
            BY <5>1
          <5>4. \A i \in DOMAIN c : i \in DOMAIN a \/ (i - Len(a) \in DOMAIN b /\ c[i] = b[i - Len(a)])
            <6> TAKE i \in DOMAIN c
            <6>1. i \in 1 .. Len(a) \/ (i - Len(a) \in 1 .. Len(b) /\ i = Len(a) + (i - Len(a)))
              BY <5>1
            <6> QED BY <5>1, <6>1
          <5>5. (\A x \in ToSet(a) : x \in ToSet(c)) /\ (\A x \in ToSet(b) : x \in ToSet(c))
            BY <5>2, <5>3 DEF ToSet
          <5>6. \A x \in ToSet(c) : x \in ToSet(a) \/ x \in ToSet(b)
            BY <5>2, <5>4 DEF ToSet
          <5> QED BY <5>1, <5>5, <5>6 DEF c
        <4> QED BY <3>1, <4>1
      <3>3. 1 .. m = (1 .. m - 1) \cup {m}
        BY <1>1
      <3> QED BY <2>4, <3>2, <3>3
    <2>5. Good(Len(s))
      <3>1. SUFFICES ASSUME Bad # {} PROVE FALSE
        <4>1. Len(s) \in 1 .. Len(s)
          BY <1>1, <1>3
        <4> HIDE DEF Good
        <4> QED BY <4>1
      <3>2. PICK m \in Bad : \A i \in Bad : m <= i
        <4>1. Bad \in SUBSET Nat
          OBVIOUS
        <4> HIDE DEF Bad
        <4> QED BY <3>1, <4>1, LeastNumber
      <3> HIDE DEF Good
      <3>3. m \in 1 .. Len(s) /\ ~Good(m) /\ m # 1
        BY <2>3
      <3>4. m - 1 \in 1 .. Len(s) /\ ~(m <= m - 1)
        BY <1>1, <3>3
      <3>5. Good(m - 1)
        BY <3>2, <3>4
      <3> QED BY <2>4, <3>3, <3>5
    <2> QED BY <1>1, <2>1, <2>5
  <1> QED BY <1>2, <1>3
=============================================================================
