------------------------------ MODULE FoldLemmas ------------------------------
(***************************************************************************)
(* Facts about the folds of the community modules that the proofs about    *)
(* sums of cents need.  A fold is a recursive function over the subsets of *)
(* a finite set, which takes one element out of the set at a time: the     *)
(* first part shows that such a function exists and how to reason about    *)
(* it by induction, the second what SumFunctionOnSet computes, the third   *)
(* in which order FoldLeft takes the elements of a sequence.               *)
(*                                                                         *)
(* The induction is stated with a set Good of the cases that hold, so that *)
(* it can be used for any property: Good is then the comprehension of it.  *)
(***************************************************************************)
EXTENDS Integers, FiniteSets, Functions, FiniteSetsExt,
        FiniteSetTheorems, WellFoundedInduction, TLAPS

\* pick[s] names the element taken out of each nonempty subset s of S.
Picks(pick, S) == \A s \in SUBSET S : s # {} => pick[s] \in s

\* g is the fold over the subsets of S that takes out pick[s] first.
FoldsBy(g, S, base, step, pick) ==
  \A s \in SUBSET S : g[s] = IF s = {} THEN base ELSE step[s][g[s \ {pick[s]}]]

\* Two functions start alike, and from alike values go on to alike values.
StepAlike(g, h, S, pick) ==
  /\ g[{}] = h[{}]
  /\ \A s \in SUBSET S : s # {} /\ g[s \ {pick[s]}] = h[s \ {pick[s]}] => g[s] = h[s]

-----------------------------------------------------------------------------
(* Induction, and the existence of a fold *)

\* Induction over the natural numbers: a set that holds 0 and with each number
\* the next holds all of them, since it can miss no smallest number.
LEMMA InductionOverNat ==
  ASSUME NEW Good, 0 \in Good, \A n \in Nat : n \in Good => n + 1 \in Good
  PROVE  Nat \subseteq Good
<1>1. SUFFICES ASSUME Nat \ Good # {} PROVE FALSE
  OBVIOUS
<1>2. PICK m \in Nat \ Good : \A k \in Nat \ Good : ~(<<k, m>> \in OpToRel(<, Nat))
  BY <1>1, WFMin, NatLessThanWellFounded
<1>3. \A k \in Nat \ Good : ~(k < m)
  BY <1>2 DEF OpToRel
<1>4. m \in Nat /\ m # 0
  BY <1>2
<1>5. m - 1 \in Nat /\ m - 1 < m /\ m = (m - 1) + 1
  BY <1>4
<1>6. m - 1 \in Good
  BY <1>3, <1>5
<1>7. m \in Good
  BY <1>5, <1>6
<1>8. QED
  BY <1>2, <1>7

\* A subset of a finite set loses exactly one element when one is taken out.
LEMMA PickedOut ==
  ASSUME NEW S, IsFiniteSet(S), NEW pick, Picks(pick, S)
  PROVE  \A s \in SUBSET S : s # {} =>
           /\ s \ {pick[s]} \in SUBSET S
           /\ Cardinality(s) \in Nat
           /\ Cardinality(s \ {pick[s]}) = Cardinality(s) - 1
<1> SUFFICES ASSUME NEW s \in SUBSET S, s # {}
             PROVE  /\ Cardinality(s) \in Nat
                    /\ Cardinality(s \ {pick[s]}) = Cardinality(s) - 1
  OBVIOUS
<1>1. IsFiniteSet(s) /\ Cardinality(s) \in Nat
  BY FS_Subset, FS_CardinalityType
<1>2. pick[s] \in s
  BY DEF Picks
<1>3. QED
  BY <1>1, <1>2, FS_RemoveElement

\* Induction over the subsets of a finite set: a property that a set has
\* whenever all its proper subsets have it holds of every subset.
LEMMA InductionOverSubsets ==
  ASSUME NEW S, IsFiniteSet(S), NEW Good,
         \A s \in SUBSET S : (\A t \in SUBSET s : t # s => t \in Good) => s \in Good
  PROVE  SUBSET S \subseteq Good
<1> DEFINE Sizes == {n \in Nat : \A s \in SUBSET S : Cardinality(s) < n => s \in Good}
<1>1. \A s \in SUBSET S : IsFiniteSet(s) /\ Cardinality(s) \in Nat
  BY FS_Subset, FS_CardinalityType
<1>2. 0 \in Sizes
  BY <1>1
<1>3. ASSUME NEW n \in Nat, n \in Sizes PROVE n + 1 \in Sizes
  <2>1. ASSUME NEW s \in SUBSET S, Cardinality(s) < n + 1 PROVE s \in Good
    <3>1. ASSUME NEW t \in SUBSET s, t # s PROVE t \in Good
      <4>1. IsFiniteSet(s) /\ Cardinality(s) \in Nat /\ Cardinality(t) \in Nat
        BY <1>1
      <4>2. Cardinality(t) <= Cardinality(s) /\ Cardinality(t) # Cardinality(s)
        BY <3>1, <4>1, FS_Subset
      <4>3. Cardinality(t) < n
        BY <2>1, <4>1, <4>2
      <4>4. QED
        BY <1>3, <4>3
    <3>2. QED
      BY <3>1
  <2>2. QED
    BY <2>1
<1> HIDE DEF Sizes
<1>4. Nat \subseteq Sizes
  BY <1>2, <1>3, InductionOverNat
<1>5. ASSUME NEW s \in SUBSET S PROVE s \in Good
  <2>1. Cardinality(s) \in Nat
    BY <1>1
  <2>2. Cardinality(s) + 1 \in Sizes /\ Cardinality(s) < Cardinality(s) + 1
    BY <1>4, <2>1
  <2>3. QED
    BY <2>2 DEF Sizes
<1>6. QED
  BY <1>5

\* The same, when it is enough to know the property of the set without the
\* element that the fold takes out.
LEMMA InductionByPicking ==
  ASSUME NEW S, IsFiniteSet(S), NEW pick, Picks(pick, S), NEW Good, {} \in Good,
         \A s \in SUBSET S : s # {} /\ s \ {pick[s]} \in Good => s \in Good
  PROVE  SUBSET S \subseteq Good
<1>1. ASSUME NEW s \in SUBSET S, \A t \in SUBSET s : t # s => t \in Good PROVE s \in Good
  <2>1. s # {} => s \ {pick[s]} \in SUBSET s /\ s \ {pick[s]} # s
    BY DEF Picks
  <2>2. QED
    BY <1>1, <2>1
<1>2. QED
  BY <1>1, InductionOverSubsets

\* Two folds that take each step alike agree on every subset.
LEMMA FoldsAgree ==
  ASSUME NEW S, IsFiniteSet(S), NEW pick, Picks(pick, S), NEW g, NEW h,
         StepAlike(g, h, S, pick)
  PROVE  \A s \in SUBSET S : g[s] = h[s]
<1> DEFINE Good == {s \in SUBSET S : g[s] = h[s]}
<1>1. {} \in Good
  BY DEF StepAlike
<1>2. \A s \in SUBSET S : s # {} /\ s \ {pick[s]} \in Good => s \in Good
  BY DEF StepAlike
<1> HIDE DEF Good
<1>3. SUBSET S \subseteq Good
  BY <1>1, <1>2, InductionByPicking
<1>4. QED
  BY <1>3 DEF Good

\* A fold over a finite set exists, whatever is folded.
LEMMA FoldExists ==
  ASSUME NEW S, IsFiniteSet(S), NEW V, NEW base \in V,
         NEW step \in [SUBSET S -> [V -> V]], NEW pick, Picks(pick, S)
  PROVE  \E g \in [SUBSET S -> V] : FoldsBy(g, S, base, step, pick)
<1> DEFINE
      FoldsUpTo(g, n) ==
        \A s \in SUBSET S : Cardinality(s) <= n =>
          g[s] = IF s = {} THEN base ELSE step[s][g[s \ {pick[s]}]]
      Sizes == {n \in Nat : \E g \in [SUBSET S -> V] : FoldsUpTo(g, n)}
<1>1. \A s \in SUBSET S : /\ IsFiniteSet(s) /\ Cardinality(s) \in Nat
                          /\ Cardinality(s) <= Cardinality(S)
  BY FS_Subset, FS_CardinalityType
<1>2. \A s \in SUBSET S : s # {} =>
        /\ s \ {pick[s]} \in SUBSET S
        /\ Cardinality(s) \in Nat
        /\ Cardinality(s \ {pick[s]}) = Cardinality(s) - 1
  BY PickedOut, Zenon
<1>3. 0 \in Sizes
  <2>1. \A s \in SUBSET S : Cardinality(s) <= 0 => s = {}
    BY <1>1, FS_EmptySet
  <2>2. /\ [s \in SUBSET S |-> base] \in [SUBSET S -> V]
        /\ FoldsUpTo([s \in SUBSET S |-> base], 0)
    BY <2>1
  <2>3. QED
    BY <2>2
<1>4. ASSUME NEW n \in Nat, n \in Sizes PROVE n + 1 \in Sizes
  <2>1. PICK g \in [SUBSET S -> V] : FoldsUpTo(g, n)
    BY <1>4
  <2> DEFINE h == [s \in SUBSET S |-> IF s = {} THEN base ELSE step[s][g[s \ {pick[s]}]]]
  <2>2. h \in [SUBSET S -> V]
    OBVIOUS
  <2>3. \A s \in SUBSET S : Cardinality(s) <= n => h[s] = g[s]
    BY <2>1
  <2>4. ASSUME NEW s \in SUBSET S, Cardinality(s) <= n + 1, s # {}
        PROVE  h[s] = step[s][h[s \ {pick[s]}]]
    <3>1. s \ {pick[s]} \in SUBSET S /\ Cardinality(s \ {pick[s]}) <= n
      BY <1>2, <2>4
    <3>2. h[s \ {pick[s]}] = g[s \ {pick[s]}]
      BY <2>3, <3>1
    <3>3. QED
      BY <2>4, <3>2
  <2>5. FoldsUpTo(h, n + 1)
    BY <2>4
  <2> HIDE DEF FoldsUpTo, h
  <2>6. n + 1 \in Nat /\ \E k \in [SUBSET S -> V] : FoldsUpTo(k, n + 1)
    BY <2>2, <2>5
  <2>7. QED
    BY <2>6
<1> HIDE DEF Sizes
<1>5. Cardinality(S) \in Sizes
  BY <1>1, <1>3, <1>4, InductionOverNat
<1>6. QED
  BY <1>1, <1>5 DEF Sizes, FoldsBy

-----------------------------------------------------------------------------
(* Sums over a finite set *)

\* the element that a fold over a set takes out first
Pick(s) == CHOOSE x \in s : TRUE

\* g[s] is the sum of f over s, for every subset s of S.
SumsOver(g, f, S) ==
  \A s \in SUBSET S :
    /\ g[s] \in Int
    /\ g[s] = IF s = {} THEN 0 ELSE f[Pick(s)] + g[s \ {Pick(s)}]

\* SumFunctionOnSet is the value of such a function of the sums.
LEMMA SumIsFold ==
  ASSUME NEW S, IsFiniteSet(S), NEW f, \A x \in S : f[x] \in Int
  PROVE  \E g : SumsOver(g, f, S) /\ SumFunctionOnSet(f, S) = g[S]
<1> DEFINE
      pick == [s \in SUBSET S |-> Pick(s)]
      step == [s \in SUBSET S |-> [v \in Int |-> IF s = {} THEN 0 ELSE f[pick[s]] + v]]
      Recurs(g) == g = [s \in SUBSET S |->
                          IF s = {} THEN 0
                          ELSE f[CHOOSE x \in s : TRUE] + g[s \ {CHOOSE x \in s : TRUE}]]
      sums == CHOOSE g : Recurs(g)
<1>1. Picks(pick, S)
  BY DEF Picks, Pick
<1>2. step \in [SUBSET S -> [Int -> Int]]
  <2> HIDE DEF pick
  <2>1. \A s \in SUBSET S : s # {} => f[pick[s]] \in Int
    BY <1>1 DEF Picks
  <2>2. QED
    BY <2>1
<1>3. \E g \in [SUBSET S -> Int] : FoldsBy(g, S, 0, step, pick)
  <2> HIDE DEF step, pick
  <2>1. 0 \in Int
    OBVIOUS
  <2>2. QED
    BY <1>1, <1>2, <2>1, FoldExists, Zenon
<1>4. PICK h \in [SUBSET S -> Int] : FoldsBy(h, S, 0, step, pick)
  BY <1>3
<1>5. Recurs(h)
  BY <1>4 DEF FoldsBy, Pick
<1>6. Recurs(sums)
  BY <1>5
<1>7. SumFunctionOnSet(f, S) = sums[S]
  BY DEF SumFunctionOnSet, FoldFunctionOnSet, MapThenFoldSet
<1> HIDE DEF sums
<1>8. \A s \in SUBSET S : sums[s] = IF s = {} THEN 0 ELSE f[Pick(s)] + sums[s \ {Pick(s)}]
  BY <1>6 DEF Pick
<1>9. SUBSET S \subseteq {s \in SUBSET S : sums[s] \in Int}
  <2> DEFINE Good == {s \in SUBSET S : sums[s] \in Int}
  <2>1. {} \in Good
    <3>1. sums[{}] = 0
      BY <1>8
    <3>2. QED
      BY <3>1
  <2>2. ASSUME NEW s \in SUBSET S, s # {}, s \ {pick[s]} \in Good PROVE s \in Good
    <3>1. pick[s] = Pick(s) /\ f[Pick(s)] \in Int
      BY <1>1, <2>2 DEF Picks
    <3>2. sums[s] = f[Pick(s)] + sums[s \ {Pick(s)}]
      BY <1>8, <2>2
    <3>3. sums[s \ {Pick(s)}] \in Int
      BY <2>2, <3>1
    <3>4. QED
      BY <3>1, <3>2, <3>3
  <2> HIDE DEF Good, pick
  <2>3. SUBSET S \subseteq Good
    BY <1>1, <2>1, <2>2, InductionByPicking
  <2>4. QED
    BY <2>3 DEF Good
<1>10. QED
  BY <1>7, <1>8, <1>9 DEF SumsOver

\* The empty sum is 0, and a sum is the picked summand and the sum of the rest.
LEMMA SumEquation ==
  ASSUME NEW S, IsFiniteSet(S), NEW f, \A x \in S : f[x] \in Int
  PROVE  /\ SumFunctionOnSet(f, S) \in Int
         /\ S = {} => SumFunctionOnSet(f, S) = 0
         /\ S # {} => SumFunctionOnSet(f, S) = f[Pick(S)] + SumFunctionOnSet(f, S \ {Pick(S)})
<1>1. PICK g : SumsOver(g, f, S) /\ SumFunctionOnSet(f, S) = g[S]
  BY SumIsFold
<1>2. ASSUME S # {}
      PROVE  SumFunctionOnSet(f, S) = f[Pick(S)] + SumFunctionOnSet(f, S \ {Pick(S)})
  <2> DEFINE R == S \ {Pick(S)}
             pick == [s \in SUBSET R |-> Pick(s)]
  <2>1. IsFiniteSet(R) /\ \A x \in R : f[x] \in Int
    BY FS_RemoveElement
  <2>2. PICK h : SumsOver(h, f, R) /\ SumFunctionOnSet(f, R) = h[R]
    BY <2>1, SumIsFold
  <2>3. Picks(pick, R)
    BY DEF Picks, Pick
  <2>4. g[{}] = h[{}]
    BY <1>1, <2>2 DEF SumsOver
  <2>5. ASSUME NEW s \in SUBSET R, s # {}, g[s \ {pick[s]}] = h[s \ {pick[s]}]
        PROVE  g[s] = h[s]
    <3>1. s \in SUBSET S /\ pick[s] = Pick(s)
      OBVIOUS
    <3>2. QED
      BY <1>1, <2>2, <2>5, <3>1 DEF SumsOver
  <2> HIDE DEF pick
  <2>6. \A s \in SUBSET R : g[s] = h[s]
    <3>1. StepAlike(g, h, R, pick)
      BY <2>4, <2>5 DEF StepAlike
    <3>2. QED
      BY <2>1, <2>3, <3>1, FoldsAgree
  <2>7. g[R] = h[R]
    BY <2>6
  <2>8. QED
    BY <1>1, <1>2, <2>2, <2>7 DEF SumsOver
<1>3. QED
  BY <1>1, <1>2 DEF SumsOver

\* Any summand can be taken out of a sum first.
LEMMA SumTakeOut ==
  ASSUME NEW S, IsFiniteSet(S), NEW f, \A x \in S : f[x] \in Int, NEW x \in S
  PROVE  SumFunctionOnSet(f, S) = f[x] + SumFunctionOnSet(f, S \ {x})
<1> DEFINE Sum(s) == SumFunctionOnSet(f, s)
           Good == {s \in SUBSET S : \A y \in s : Sum(s) = f[y] + Sum(s \ {y})}
<1>1. ASSUME NEW s \in SUBSET S
      PROVE  Sum(s) \in Int /\ (s # {} => Sum(s) = f[Pick(s)] + Sum(s \ {Pick(s)}))
  BY FS_Subset, SumEquation
<1> HIDE DEF Sum
<1>2. ASSUME NEW s \in SUBSET S, \A t \in SUBSET s : t # s => t \in Good PROVE s \in Good
  <2>1. ASSUME NEW y \in s PROVE Sum(s) = f[y] + Sum(s \ {y})
    <3> DEFINE p == Pick(s)
    <3>1. p \in s
      BY DEF Pick
    <3>2. Sum(s) = f[p] + Sum(s \ {p})
      BY <1>1
    <3> HIDE DEF p
    <3>3. CASE y # p
      <4>1. Sum(s \ {p}) = f[y] + Sum((s \ {p}) \ {y})
        BY <1>2, <3>1, <3>3
      <4>2. Sum(s \ {y}) = f[p] + Sum((s \ {y}) \ {p})
        BY <1>2, <3>1, <3>3
      <4>3. (s \ {y}) \ {p} = (s \ {p}) \ {y}
        OBVIOUS
      <4>4. f[y] \in Int /\ f[p] \in Int /\ Sum((s \ {p}) \ {y}) \in Int
        BY <1>1, <3>1
      <4>5. \A a, b, c \in Int : a + (b + c) = b + (a + c)
        OBVIOUS
      <4>6. Sum(s) = f[p] + (f[y] + Sum((s \ {p}) \ {y}))
        BY <3>2, <4>1
      <4>7. Sum(s) = f[y] + (f[p] + Sum((s \ {p}) \ {y}))
        BY <4>4, <4>5, <4>6
      <4>8. QED
        BY <4>2, <4>3, <4>7
    <3>4. QED
      BY <3>2, <3>3
  <2>2. QED
    BY <2>1
<1> HIDE DEF Good
<1>3. SUBSET S \subseteq Good
  BY <1>2, InductionOverSubsets
<1>4. QED
  BY <1>3 DEF Good, Sum

\* A sum is a number, and not a negative one when no summand is.
LEMMA SumType ==
  ASSUME NEW S, IsFiniteSet(S), NEW f, \A x \in S : f[x] \in Int
  PROVE  /\ SumFunctionOnSet(f, S) \in Int
         /\ (\A x \in S : f[x] >= 0) => SumFunctionOnSet(f, S) >= 0
<1> DEFINE Sum(s) == SumFunctionOnSet(f, s)
           Good == {s \in SUBSET S : Sum(s) >= 0}
<1>1. ASSUME NEW s \in SUBSET S
      PROVE  /\ Sum(s) \in Int
             /\ s = {} => Sum(s) = 0
             /\ s # {} => Sum(s) = f[Pick(s)] + Sum(s \ {Pick(s)}) /\ Pick(s) \in s
  BY FS_Subset, SumEquation DEF Pick
<1> HIDE DEF Sum
<1>2. ASSUME \A x \in S : f[x] >= 0 PROVE Sum(S) >= 0
  <2>1. ASSUME NEW s \in SUBSET S, \A t \in SUBSET s : t # s => t \in Good PROVE s \in Good
    <3>1. CASE s = {}
      <4>1. Sum(s) = 0
        BY <1>1, <3>1, Zenon
      <4>2. QED
        BY <4>1
    <3>2. CASE s # {}
      <4>1. Pick(s) \in s /\ Sum(s) = f[Pick(s)] + Sum(s \ {Pick(s)})
        BY <1>1, <3>2
      <4>2. Sum(s \ {Pick(s)}) >= 0
        BY <2>1, <4>1
      <4>3. f[Pick(s)] \in Int /\ f[Pick(s)] >= 0 /\ Sum(s \ {Pick(s)}) \in Int
        BY <1>1, <1>2, <4>1
      <4>4. QED
        BY <4>1, <4>2, <4>3
    <3>3. QED
      BY <3>1, <3>2
  <2> HIDE DEF Good
  <2>2. SUBSET S \subseteq Good
    BY <2>1, InductionOverSubsets
  <2>3. QED
    BY <2>2 DEF Good
<1>3. QED
  BY <1>1, <1>2 DEF Sum

\* Only the summands matter: functions that agree on the set have one sum.
LEMMA SumOfEqual ==
  ASSUME NEW S, IsFiniteSet(S), NEW f, NEW g,
         \A x \in S : f[x] \in Int /\ g[x] = f[x]
  PROVE  SumFunctionOnSet(g, S) = SumFunctionOnSet(f, S)
<1> DEFINE F(s) == SumFunctionOnSet(f, s)
           G(s) == SumFunctionOnSet(g, s)
           Good == {s \in SUBSET S : G(s) = F(s)}
<1>1. ASSUME NEW s \in SUBSET S
      PROVE  /\ s = {} => F(s) = 0
             /\ s # {} => F(s) = f[Pick(s)] + F(s \ {Pick(s)}) /\ Pick(s) \in s
  BY FS_Subset, SumEquation DEF Pick
<1>2. ASSUME NEW s \in SUBSET S
      PROVE  /\ s = {} => G(s) = 0
             /\ s # {} => G(s) = g[Pick(s)] + G(s \ {Pick(s)}) /\ Pick(s) \in s
  BY FS_Subset, SumEquation DEF Pick
<1> HIDE DEF F, G
<1>3. ASSUME NEW s \in SUBSET S, \A t \in SUBSET s : t # s => t \in Good PROVE s \in Good
  <2>1. CASE s = {}
    BY <1>1, <1>2, <2>1
  <2>2. CASE s # {}
    <3>1. Pick(s) \in s
      BY <1>1, <2>2
    <3>2. G(s \ {Pick(s)}) = F(s \ {Pick(s)})
      BY <1>3, <3>1
    <3>3. QED
      BY <1>1, <1>2, <2>2, <3>1, <3>2
  <2>3. QED
    BY <2>1, <2>2
<1> HIDE DEF Good
<1>4. SUBSET S \subseteq Good
  BY <1>3, InductionOverSubsets
<1>5. QED
  BY <1>4 DEF Good, F, G

\* g has the summands of f with the opposite sign.
Negated(f, g, S) == \A x \in S : f[x] \in Int /\ g[x] = -f[x]

\* The sum of the negated summands is the negated sum.
LEMMA SumNegated ==
  ASSUME NEW S, IsFiniteSet(S), NEW f, NEW g, Negated(f, g, S)
  PROVE  SumFunctionOnSet(g, S) = -SumFunctionOnSet(f, S)
<1> DEFINE F(s) == SumFunctionOnSet(f, s)
           G(s) == SumFunctionOnSet(g, s)
           Good == {s \in SUBSET S : G(s) + F(s) = 0}
<1>1. \A x \in S : f[x] \in Int /\ g[x] \in Int /\ g[x] + f[x] = 0
  BY DEF Negated
<1>2. ASSUME NEW s \in SUBSET S
      PROVE  /\ F(s) \in Int
             /\ s = {} => F(s) = 0
             /\ s # {} => F(s) = f[Pick(s)] + F(s \ {Pick(s)}) /\ Pick(s) \in s
  BY <1>1, FS_Subset, SumEquation DEF Pick
<1>3. ASSUME NEW s \in SUBSET S
      PROVE  /\ G(s) \in Int
             /\ s = {} => G(s) = 0
             /\ s # {} => G(s) = g[Pick(s)] + G(s \ {Pick(s)}) /\ Pick(s) \in s
  BY <1>1, FS_Subset, SumEquation DEF Pick
<1> HIDE DEF F, G
<1>4. ASSUME NEW s \in SUBSET S, \A t \in SUBSET s : t # s => t \in Good PROVE s \in Good
  <2>1. CASE s = {}
    <3>1. G(s) = 0 /\ F(s) = 0
      BY <1>2, <1>3, <2>1, Zenon
    <3>2. 0 + 0 = 0
      OBVIOUS
    <3>3. G(s) + F(s) = 0
      BY <3>1, <3>2, Zenon
    <3>4. QED
      BY <3>3
  <2>2. CASE s # {}
    <3>1. Pick(s) \in s
      BY <1>2, <2>2
    <3>2. G(s \ {Pick(s)}) + F(s \ {Pick(s)}) = 0 /\ g[Pick(s)] + f[Pick(s)] = 0
      BY <1>1, <1>4, <3>1
    <3>3. \A a, b, c, e \in Int : a + b = 0 /\ c + e = 0 => (a + c) + (b + e) = 0
      OBVIOUS
    <3>4. /\ f[Pick(s)] \in Int /\ F(s \ {Pick(s)}) \in Int
          /\ g[Pick(s)] \in Int /\ G(s \ {Pick(s)}) \in Int
      BY <1>1, <1>2, <1>3, <3>1
    <3>5. (g[Pick(s)] + G(s \ {Pick(s)})) + (f[Pick(s)] + F(s \ {Pick(s)})) = 0
      BY <3>2, <3>3, <3>4
    <3>6. G(s) + F(s) = 0
      BY <1>2, <1>3, <2>2, <3>5, Zenon
    <3>7. QED
      BY <3>6
  <2>3. QED
    BY <2>1, <2>2
<1> HIDE DEF Good
<1>5. SUBSET S \subseteq Good
  BY <1>4, InductionOverSubsets
<1>6. G(S) + F(S) = 0 /\ G(S) \in Int /\ F(S) \in Int
  BY <1>2, <1>3, <1>5 DEF Good
<1>7. G(S) = -F(S)
  BY <1>6
<1>8. QED
  BY <1>7 DEF F, G

\* The sum over two sets with no element in common is the sum of both sums.
LEMMA SumOverUnion ==
  ASSUME NEW S, IsFiniteSet(S), NEW R, IsFiniteSet(R), S \cap R = {},
         NEW f, \A x \in S \cup R : f[x] \in Int
  PROVE  SumFunctionOnSet(f, S \cup R) = SumFunctionOnSet(f, S) + SumFunctionOnSet(f, R)
<1> DEFINE Sum(s) == SumFunctionOnSet(f, s)
           Good == {s \in SUBSET R : Sum(S \cup s) = Sum(S) + Sum(s)}
<1>1. IsFiniteSet(S \cup R)
  BY FS_Union
<1>2. ASSUME NEW s \in SUBSET (S \cup R)
      PROVE  /\ Sum(s) \in Int
             /\ s = {} => Sum(s) = 0
             /\ \A x \in s : f[x] \in Int /\ Sum(s) = f[x] + Sum(s \ {x})
  BY <1>1, FS_Subset, SumEquation, SumTakeOut
<1> HIDE DEF Sum
<1>3. ASSUME NEW s \in SUBSET R, \A t \in SUBSET s : t # s => t \in Good PROVE s \in Good
  <2>1. CASE s = {}
    <3>1. Sum(s) = 0 /\ S \cup s = S /\ Sum(S) \in Int
      BY <1>2, <2>1
    <3>2. Sum(S \cup s) = Sum(S)
      BY <3>1, Zenon
    <3>3. \A a \in Int : a = a + 0
      OBVIOUS
    <3>4. Sum(S \cup s) = Sum(S) + Sum(s)
      BY <3>1, <3>2, <3>3, Zenon
    <3>5. QED
      BY <3>4
  <2>2. CASE s # {}
    <3>1. PICK x \in s : TRUE
      BY <2>2
    <3>2. Sum(S \cup (s \ {x})) = Sum(S) + Sum(s \ {x})
      BY <1>3
    <3>3. (S \cup s) \ {x} = S \cup (s \ {x})
      BY <3>1
    <3>4. Sum(S \cup s) = f[x] + Sum((S \cup s) \ {x}) /\ f[x] \in Int
      BY <1>2, <3>1
    <3>5. Sum(s) = f[x] + Sum(s \ {x})
      BY <1>2, <3>1
    <3>6. Sum(S) \in Int /\ Sum(s \ {x}) \in Int
      BY <1>2
    <3>7. \A a, b, c \in Int : a + (b + c) = b + (a + c)
      OBVIOUS
    <3>8. Sum(S \cup s) = f[x] + (Sum(S) + Sum(s \ {x}))
      BY <3>2, <3>3, <3>4
    <3>9. Sum(S \cup s) = Sum(S) + Sum(s)
      BY <3>4, <3>5, <3>6, <3>7, <3>8
    <3>10. QED
      BY <3>9
  <2>3. QED
    BY <2>1, <2>2
<1> HIDE DEF Good
<1>4. SUBSET R \subseteq Good
  BY <1>3, InductionOverSubsets
<1>5. QED
  BY <1>4 DEF Good, Sum

\* From f to g an amount is moved from the summand c to the summand d.
Transferred(f, g, S, c, d, amount) ==
  /\ c \in S /\ d \in S /\ c # d /\ amount \in Int
  /\ \A x \in S : f[x] \in Int /\ g[x] \in Int
  /\ \A x \in S \ {c, d} : g[x] = f[x]
  /\ g[c] = f[c] - amount /\ g[d] = f[d] + amount

\* Moving an amount from one summand to another keeps the sum.
LEMMA SumKeptByTransfer ==
  ASSUME NEW S, IsFiniteSet(S), NEW f, NEW g, NEW c, NEW d, NEW amount,
         Transferred(f, g, S, c, d, amount)
  PROVE  SumFunctionOnSet(g, S) = SumFunctionOnSet(f, S)
<1> USE DEF Transferred
<1> DEFINE R == S \ {c}
           Q == R \ {d}
<1>1. IsFiniteSet(R) /\ IsFiniteSet(Q) /\ d \in R
  BY FS_RemoveElement
<1>2. SumFunctionOnSet(f, S) = f[c] + SumFunctionOnSet(f, R)
  BY SumTakeOut
<1>3. SumFunctionOnSet(g, S) = g[c] + SumFunctionOnSet(g, R)
  BY SumTakeOut
<1>4. SumFunctionOnSet(f, R) = f[d] + SumFunctionOnSet(f, Q)
  BY <1>1, SumTakeOut
<1>5. SumFunctionOnSet(g, R) = g[d] + SumFunctionOnSet(g, Q)
  BY <1>1, SumTakeOut
<1>6. SumFunctionOnSet(g, Q) = SumFunctionOnSet(f, Q)
  BY <1>1, SumOfEqual
<1>7. SumFunctionOnSet(f, Q) \in Int
  BY <1>1, SumType
<1> HIDE DEF R, Q
<1>8. f[c] \in Int /\ f[d] \in Int
  OBVIOUS
<1>9. QED
  BY <1>2, <1>3, <1>4, <1>5, <1>6, <1>7, <1>8

\* A sum without negative summands grows with the set it is over.
LEMMA SumGrows ==
  ASSUME NEW S, IsFiniteSet(S), NEW f, \A x \in S : f[x] \in Int /\ f[x] >= 0,
         NEW R \in SUBSET S
  PROVE  SumFunctionOnSet(f, R) <= SumFunctionOnSet(f, S)
<1>1. IsFiniteSet(R) /\ IsFiniteSet(S \ R)
  BY FS_Subset
<1>2. S = R \cup (S \ R) /\ R \cap (S \ R) = {}
  OBVIOUS
<1>3. SumFunctionOnSet(f, R \cup (S \ R)) = SumFunctionOnSet(f, R) + SumFunctionOnSet(f, S \ R)
  BY <1>1, <1>2, SumOverUnion
<1>4. SumFunctionOnSet(f, R) \in Int /\ SumFunctionOnSet(f, S \ R) \in Int
  BY <1>1, SumType
<1>5. SumFunctionOnSet(f, S \ R) >= 0
  BY <1>1, SumType
<1>6. SumFunctionOnSet(f, S) = SumFunctionOnSet(f, R) + SumFunctionOnSet(f, S \ R)
  BY <1>2, <1>3
<1>7. QED
  BY <1>4, <1>5, <1>6

-----------------------------------------------------------------------------
(* The order in which a sequence is folded *)

\* p[j] is what f[1], ..., f[j] add up to.
PrefixSums(p, f, n) ==
  /\ p[0] = 0
  /\ \A j \in 1..n : f[j] \in Int /\ p[j] = p[j - 1] + f[j]

\* The sum over 1..n is the last of the sums that a loop from 1 to n adds up.
LEMMA SumByPrefixes ==
  ASSUME NEW n \in Nat, NEW f, NEW p, PrefixSums(p, f, n)
  PROVE  SumFunctionOnSet(f, 1..n) = p[n]
<1> DEFINE Sum(s) == SumFunctionOnSet(f, s)
           Good == {m \in Nat : m <= n => Sum(1..m) = p[m] /\ p[m] \in Int}
<1>1. \A m \in Nat : IsFiniteSet(1..m)
  BY FS_Interval
<1>2. 0 \in Good
  <2>1. IsFiniteSet({}) /\ \A x \in {} : f[x] \in Int
    BY FS_EmptySet
  <2>2. Sum({}) = 0
    BY <2>1, SumEquation
  <2>3. 1..0 = {}
    OBVIOUS
  <2>4. QED
    BY <2>2, <2>3 DEF PrefixSums
<1>3. ASSUME NEW m \in Nat, m \in Good PROVE m + 1 \in Good
  <2>1. SUFFICES ASSUME m + 1 <= n
                 PROVE  Sum(1..(m + 1)) = p[m + 1] /\ p[m + 1] \in Int
    OBVIOUS
  <2>2. m <= n /\ m + 1 \in 1..n /\ (m + 1) - 1 = m
    BY <2>1
  <2>3. f[m + 1] \in Int /\ p[m + 1] = p[m] + f[m + 1]
    BY <2>2 DEF PrefixSums
  <2>4. Sum(1..m) = p[m] /\ p[m] \in Int
    BY <1>3, <2>2
  <2>5. IsFiniteSet(1..(m + 1)) /\ (\A x \in 1..(m + 1) : f[x] \in Int) /\ m + 1 \in 1..(m + 1)
    BY <1>1, <2>1 DEF PrefixSums
  <2>6. Sum(1..(m + 1)) = f[m + 1] + Sum((1..(m + 1)) \ {m + 1})
    BY <2>5, SumTakeOut
  <2>7. (1..(m + 1)) \ {m + 1} = 1..m
    OBVIOUS
  <2>8. Sum(1..(m + 1)) = f[m + 1] + p[m]
    BY <2>4, <2>6, <2>7
  <2> HIDE DEF Sum
  <2>9. QED
    BY <2>3, <2>4, <2>8
<1> HIDE DEF Good
<1>4. Nat \subseteq Good
  BY <1>2, <1>3, InductionOverNat
<1>5. QED
  BY <1>4 DEF Good

\* The sum does not depend on the order a loop takes the summands in.
LEMMA SumInOrder ==
  ASSUME NEW n \in Nat, NEW S, NEW order \in Bijection(1..n, S), NEW f, NEW p,
         PrefixSums(p, [k \in 1..n |-> f[order[k]]], n)
  PROVE  SumFunctionOnSet(f, S) = p[n]
<1> DEFINE Sum(s) == SumFunctionOnSet(f, s)
           Seen(m) == {order[k] : k \in 1..m}
           Good == {m \in Nat : m <= n => Sum(Seen(m)) = p[m] /\ p[m] \in Int}
<1>1. /\ order \in [1..n -> S]
      /\ \A j, k \in 1..n : order[j] = order[k] => j = k
      /\ \A x \in S : \E k \in 1..n : order[k] = x
  BY DEF Bijection, Injection, Surjection, IsInjective
<1>2. /\ p[0] = 0
      /\ \A k \in 1..n : f[order[k]] \in Int /\ p[k] = p[k - 1] + f[order[k]]
  BY DEF PrefixSums
<1>3. \A m \in Nat : IsFiniteSet(Seen(m))
  <2>1. SUFFICES ASSUME NEW m \in Nat PROVE IsFiniteSet(Seen(m))
    OBVIOUS
  <2>2. IsFiniteSet(1..m)
    BY FS_Interval
  <2> DEFINE first == [k \in 1..m |-> order[k]]
  <2>3. first \in Surjection(1..m, Seen(m))
    BY DEF Surjection
  <2> HIDE DEF first, Seen
  <2>4. QED
    BY <2>2, <2>3, FS_Surjection
<1>4. 0 \in Good
  <2>1. IsFiniteSet({}) /\ \A x \in {} : f[x] \in Int
    BY FS_EmptySet
  <2>2. Sum({}) = 0
    BY <2>1, SumEquation
  <2>3. Seen(0) = {}
    <3>1. 1..0 = {}
      OBVIOUS
    <3>2. QED
      BY <3>1
  <2> HIDE DEF Sum, Seen
  <2>4. Sum(Seen(0)) = 0
    BY <2>2, <2>3, Zenon
  <2>5. QED
    BY <1>2, <2>4
<1>5. ASSUME NEW m \in Nat, m \in Good PROVE m + 1 \in Good
  <2>1. SUFFICES ASSUME m + 1 <= n
                 PROVE  Sum(Seen(m + 1)) = p[m + 1] /\ p[m + 1] \in Int
    OBVIOUS
  <2>2. m <= n /\ m + 1 \in 1..n /\ (m + 1) - 1 = m
    BY <2>1
  <2>3. f[order[m + 1]] \in Int /\ p[m + 1] = p[m] + f[order[m + 1]]
    BY <1>2, <2>2
  <2>4. Sum(Seen(m)) = p[m] /\ p[m] \in Int
    BY <1>5, <2>2
  <2>5. \A k \in 1..(m + 1) : k \in 1..n
    BY <2>1
  <2>6. /\ \A x \in Seen(m + 1) : f[x] \in Int
        /\ order[m + 1] \in Seen(m + 1)
    BY <1>2, <2>2, <2>5
  <2>7. Sum(Seen(m + 1)) = f[order[m + 1]] + Sum(Seen(m + 1) \ {order[m + 1]})
    <3>1. IsFiniteSet(Seen(m + 1))
      BY <1>3
    <3> HIDE DEF Seen
    <3>2. QED
      BY <2>6, <3>1, SumTakeOut
  <2>8. Seen(m + 1) \ {order[m + 1]} = Seen(m)
    <3>1. \A k \in 1..(m + 1) : k = m + 1 \/ k \in 1..m
      OBVIOUS
    <3>2. \A k \in 1..m : k \in 1..(m + 1) /\ k # m + 1
      OBVIOUS
    <3>3. \A k \in 1..m : order[k] # order[m + 1]
      BY <1>1, <2>2, <2>5, <3>2
    <3>4. ASSUME NEW x \in Seen(m + 1), x # order[m + 1] PROVE x \in Seen(m)
      BY <3>1, <3>4
    <3>5. ASSUME NEW x \in Seen(m) PROVE x \in Seen(m + 1) /\ x # order[m + 1]
      BY <3>2, <3>3
    <3>6. \A x : x \in Seen(m + 1) /\ x # order[m + 1] <=> x \in Seen(m)
      BY <3>4, <3>5
    <3> HIDE DEF Seen
    <3>7. QED
      BY <3>6
  <2> HIDE DEF Sum, Seen
  <2>9. Sum(Seen(m + 1)) = f[order[m + 1]] + Sum(Seen(m))
    BY <2>7, <2>8, Zenon
  <2>10. QED
    BY <2>3, <2>4, <2>9
<1> HIDE DEF Good
<1>6. Nat \subseteq Good
  BY <1>4, <1>5, InductionOverNat
<1>7. Sum(Seen(n)) = p[n]
  BY <1>6 DEF Good
<1>8. Seen(n) = S
  BY <1>1
<1>9. QED
  BY <1>7, <1>8

\* A finite nonempty set of numbers has a maximum, and Max returns it.
LEMMA MaxOfNumbers ==
  ASSUME NEW S, IsFiniteSet(S), S \subseteq Int, S # {}
  PROVE  Max(S) \in S /\ \A y \in S : y <= Max(S)
<1> DEFINE Good == {s \in SUBSET S : s # {} => \E m \in s : \A y \in s : y <= m}
<1>1. ASSUME NEW s \in SUBSET S, \A t \in SUBSET s : t # s => t \in Good PROVE s \in Good
  <2>1. SUFFICES ASSUME s # {} PROVE \E m \in s : \A y \in s : y <= m
    OBVIOUS
  <2>2. PICK x \in s : TRUE
    BY <2>1
  <2>3. CASE s \ {x} = {}
    <3>1. \A y \in s : y = x
      BY <2>3
    <3>2. x \in Int /\ x <= x
      BY <2>2
    <3>3. QED
      BY <2>2, <3>1, <3>2
  <2>4. CASE s \ {x} # {}
    <3>0. s \ {x} \in Good
      BY <1>1, <2>2
    <3>1. PICK m \in s \ {x} : \A y \in s \ {x} : y <= m
      BY <2>4, <3>0
    <3>2. m \in Int /\ x \in Int /\ (x <= m \/ m <= x)
      OBVIOUS
    <3>3. \A y \in s : y \in Int /\ (y = x \/ y <= m)
      BY <3>1
    <3>4. CASE x <= m
      BY <3>1, <3>3, <3>4
    <3>5. CASE m <= x
      <4>1. \A y \in s : y <= x
        BY <3>2, <3>3, <3>5
      <4>2. QED
        BY <2>2, <4>1
    <3>6. QED
      BY <3>2, <3>4, <3>5
  <2>5. QED
    BY <2>3, <2>4
<1> HIDE DEF Good
<1>2. SUBSET S \subseteq Good
  BY <1>1, InductionOverSubsets
<1>3. \E m \in S : \A y \in S : y <= m
  BY <1>2 DEF Good
<1>4. \E m \in S : \A y \in S : m >= y
  BY <1>3
<1>5. QED
  BY <1>4 DEF Max

\* the element that a fold over a sequence takes out first: the last index
Largest(S) == [s \in SUBSET S |-> Max(s)]

\* Folding a sequence takes an index of the sequence out at each step.
LEMMA MaxPicks ==
  ASSUME NEW S, IsFiniteSet(S), S \subseteq Int
  PROVE  Picks(Largest(S), S)
<1>1. ASSUME NEW s \in SUBSET S, s # {} PROVE Max(s) \in s
  <2>1. IsFiniteSet(s) /\ s \subseteq Int
    BY FS_Subset
  <2>2. QED
    BY <1>1, <2>1, MaxOfNumbers
<1>2. QED
  BY <1>1 DEF Picks, Largest
=============================================================================
