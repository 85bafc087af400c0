----------------------------- MODULE Sums_proofs -----------------------------
(* Sums over lists and over finite sets, and what the award loop of a tick     *)
(* hands out of them for any bids.  The sums are recursive functions; that     *)
(* they exist and how they change is proved by looking at the least place, or  *)
(* the smallest set, at which the claim would fail.                            *)
EXTENDS BidAllocation, FiniteSetsExt, FiniteSetTheorems, WellFoundedInduction, TLAPS

-----------------------------------------------------------------------------
(* Smallest sets.                                                             *)

\* Every nonempty set of naturals has a least element.
LEMMA LeastOf ==
  ASSUME NEW S \in SUBSET Nat, S # {}
  PROVE  \E x \in S : \A y \in S : x =< y
<1> DEFINE R == {ss \in Nat \X Nat : ss[1] < ss[2]}
<1>1. IsWellFoundedOn(R, Nat)
  BY NatLessThanWellFounded, Zenon DEF OpToRel
<1>2. \A m, n \in Nat : m < n => <<m, n>> \in R
  OBVIOUS
<1> HIDE DEF R
<1>3. PICK x \in S : \A y \in S : <<y, x>> \notin R
  BY <1>1, WFMin
<1>4. \A y \in S : x =< y
  <2>1. SUFFICES ASSUME NEW y \in S, ~(x =< y) PROVE FALSE
    OBVIOUS
  <2>2. x \in Nat /\ y \in Nat
    OBVIOUS
  <2>3. y < x
    BY <2>1, <2>2
  <2>4. <<y, x>> \in R
    BY <1>2, <2>2, <2>3
  <2> QED
    BY <1>3, <2>4
<1> QED
  BY <1>4

\* The greatest of numbers that are bounded.
LEMMA GreatestOf ==
  ASSUME NEW S \in SUBSET Nat, S # {}, NEW bound \in Nat, \A x \in S : x <= bound
  PROVE  Max(S) \in S /\ \A x \in S : x <= Max(S)
<1> DEFINE U == {u \in Nat : \A x \in S : x <= u}
<1>1. PICK u \in U : \A v \in U : u <= v
  <2>1. U \in SUBSET Nat /\ bound \in U
    OBVIOUS
  <2> QED BY <2>1, LeastOf
<1>2. u \in Nat /\ \A x \in S : x <= u
  OBVIOUS
<1>3. u \in S
  <2>1. SUFFICES ASSUME u \notin S PROVE FALSE
    OBVIOUS
  <2>2. \A x \in S : x \in Nat /\ x <= u - 1
    BY <1>2, <2>1
  <2>3. PICK x \in S : TRUE
    OBVIOUS
  <2>4. u - 1 \in Nat
    BY <1>2, <2>2, <2>3
  <2>5. u - 1 \in U
    BY <2>2, <2>4
  <2> QED BY <1>1, <1>2, <2>5
<1>4. \E m \in S : \A y \in S : m >= y
  BY <1>2, <1>3
<1>5. Max(S) \in S /\ \A y \in S : Max(S) >= y
  BY <1>4 DEF Max
<1> QED BY <1>5

\* The least of numbers.
LEMMA LeastNumber ==
  ASSUME NEW S \in SUBSET Nat, S # {}
  PROVE  Min(S) \in S /\ \A x \in S : Min(S) <= x
<1>1. \E x \in S : \A y \in S : x =< y
  BY LeastOf
<1> QED BY <1>1 DEF Min

\* The smaller of two numbers.
LEMMA SmallerOf ==
  ASSUME NEW x \in Nat, NEW y \in Nat
  PROVE  Min({x, y}) = IF x < y THEN x ELSE y
<1> DEFINE m == IF x < y THEN x ELSE y
<1>1. m \in {x, y} /\ \A z \in {x, y} : m =< z
  OBVIOUS
<1>2. \A z \in {x, y} : (\A u \in {x, y} : z =< u) => z = m
  OBVIOUS
<1> HIDE DEF m
<1>3. (CHOOSE z \in {x, y} : \A u \in {x, y} : z =< u) = m
  BY <1>1, <1>2
<1> QED BY <1>3 DEF Min, m

\* Among subsets of a finite set there is one that has no smaller one in it.
LEMMA SmallestOf ==
  ASSUME NEW S, IsFiniteSet(S), NEW B \in SUBSET (SUBSET S), B # {}
  PROVE  \E T \in B : \A x \in T : T \ {x} \notin B
<1> DEFINE sizes == {Cardinality(T) : T \in B}
<1>1. \A T \in SUBSET S : IsFiniteSet(T) /\ Cardinality(T) \in Nat
  BY FS_Subset, FS_CardinalityType
<1>2. sizes \in SUBSET Nat /\ sizes # {}
  BY <1>1
<1>3. PICK n \in sizes : \A k \in sizes : n =< k
  <2> HIDE DEF sizes
  <2> QED BY <1>2, LeastOf
<1>4. PICK T \in B : Cardinality(T) = n
  BY <1>3
<1>5. ASSUME NEW x \in T, T \ {x} \in B PROVE FALSE
  <2>1. IsFiniteSet(T) /\ Cardinality(T) \in Nat
    BY <1>1
  <2>2. Cardinality(T \ {x}) = Cardinality(T) - 1
    BY <2>1, FS_RemoveElement
  <2>3. Cardinality(T) =< Cardinality(T \ {x})
    BY <1>3, <1>4, <1>5
  <2> QED BY <2>1, <2>2, <2>3
<1> QED BY <1>5

-----------------------------------------------------------------------------
(* Sums over a set.                                                           *)

Pick(s) == CHOOSE x \in s : TRUE

\* Something can be summed, debts too.
Numbered(f, S) == IsFiniteSet(S) /\ \A x \in S : f[x] \in Int

\* There are no debts in it.
Summable(f, S) == IsFiniteSet(S) /\ \A x \in S : f[x] \in Nat

\* h has the sums of f over the subsets of S.
SetSums(h, S, f) ==
  h = [s \in SUBSET S |-> IF s = {} THEN 0 ELSE f[Pick(s)] + h[s \ {Pick(s)}]]

\* The sum of f over S.
Total(f, S) == MapThenSumSet(LAMBDA x : f[x], S)

LEMMA Picked == ASSUME NEW s, s # {} PROVE Pick(s) \in s
BY DEF Pick

\* A recursion that takes one element after another out of a finite set, in an
\* order that c says, comes to an end.
Folds(h, S, b, c, F) ==
  \A s \in SUBSET S : h[s] = IF s = {} THEN b ELSE F[<<c[s], h[s \ {c[s]}]>>]

LEMMA FoldsExist ==
  ASSUME NEW S, IsFiniteSet(S), NEW V, NEW b \in V, NEW F \in [S \X V -> V],
         NEW c, \A s \in SUBSET S : s # {} => c[s] \in s
  PROVE  \E h \in [SUBSET S -> V] : Folds(h, S, b, c, F)
<1> DEFINE Step(h, s) == IF s = {} THEN b ELSE F[<<c[s], h[s \ {c[s]}]>>]
           P(n) == \E h \in [SUBSET S -> V] :
                     \A s \in SUBSET S : Cardinality(s) =< n => h[s] = Step(h, s)
<1>1. \A s \in SUBSET S : IsFiniteSet(s) /\ Cardinality(s) \in Nat
  BY FS_Subset, FS_CardinalityType
<1>2. ASSUME NEW s \in SUBSET S, s # {}
      PROVE  /\ c[s] \in S /\ s \ {c[s]} \in SUBSET S
             /\ Cardinality(s \ {c[s]}) = Cardinality(s) - 1
  BY <1>1, <1>2, FS_RemoveElement
<1>3. \A s \in SUBSET S : Cardinality(s) =< 0 => s = {}
  BY <1>1, FS_EmptySet
<1>4. ASSUME NEW h \in [SUBSET S -> V], NEW s \in SUBSET S PROVE Step(h, s) \in V
  <2>1. CASE s = {}
    BY <2>1
  <2>2. CASE s # {}
    <3>1. c[s] \in S /\ h[s \ {c[s]}] \in V
      BY <1>2, <2>2
    <3> QED BY <2>2, <3>1
  <2> QED BY <2>1, <2>2
<1>5. P(0)
  <2> DEFINE h == [s \in SUBSET S |-> b]
  <2>1. h \in [SUBSET S -> V]
    OBVIOUS
  <2>2. \A s \in SUBSET S : Cardinality(s) =< 0 => h[s] = Step(h, s)
    BY <1>3
  <2> QED BY <2>1, <2>2
<1>6. ASSUME NEW n \in Nat, P(n) PROVE P(n + 1)
  <2>1. PICK h \in [SUBSET S -> V] :
          \A s \in SUBSET S : Cardinality(s) =< n => h[s] = Step(h, s)
    BY <1>6
  <2> DEFINE g == [s \in SUBSET S |-> Step(h, s)]
  <2>2. g \in [SUBSET S -> V]
    BY <1>4
  <2>3. ASSUME NEW s \in SUBSET S, Cardinality(s) =< n + 1 PROVE g[s] = Step(g, s)
    <3>1. CASE s = {}
      BY <3>1
    <3>2. CASE s # {}
      <4> DEFINE r == s \ {c[s]}
      <4>1. r \in SUBSET S /\ Cardinality(r) =< n
        <5>1. r \in SUBSET S /\ Cardinality(r) = Cardinality(s) - 1
          BY <1>2, <3>2
        <5> HIDE DEF r
        <5> QED BY <1>1, <2>3, <5>1
      <4>2. g[r] = h[r]
        BY <2>1, <4>1
      <4> QED BY <3>2, <4>2
    <3> QED BY <3>1, <3>2
  <2> QED BY <2>2, <2>3
<1>7. P(Cardinality(S))
  <2> HIDE DEF P
  <2> DEFINE bad == {n \in Nat : ~P(n)}
  <2>1. bad = {}
    <3>1. SUFFICES ASSUME bad # {} PROVE FALSE
      OBVIOUS
    <3>2. PICK n \in bad : \A k \in bad : n =< k
      <4>1. bad \in SUBSET Nat
        OBVIOUS
      <4> QED BY <3>1, <4>1, LeastOf
    <3>3. n \in Nat /\ ~P(n)
      OBVIOUS
    <3>4. n # 0
      BY <1>5, <3>3
    <3>5. n - 1 \in Nat /\ n - 1 \notin bad
      <4>1. n - 1 \in Nat /\ ~(n =< n - 1)
        BY <3>3, <3>4
      <4> QED BY <3>2, <4>1
    <3>6. P(n - 1)
      BY <3>5
    <3>7. P((n - 1) + 1)
      BY <1>6, <3>5, <3>6
    <3>8. (n - 1) + 1 = n
      BY <3>3
    <3> QED BY <3>3, <3>7, <3>8
  <2> QED BY <1>1, <2>1
<1>8. PICK h \in [SUBSET S -> V] :
        \A s \in SUBSET S : Cardinality(s) =< Cardinality(S) => h[s] = Step(h, s)
  BY <1>7
<1>9. \A s \in SUBSET S : h[s] = Step(h, s)
  BY <1>1, <1>8, FS_Subset
<1> QED BY <1>8, <1>9 DEF Folds

LEMMA SetSumsExist ==
  ASSUME NEW S, NEW f, Numbered(f, S)
  PROVE  \E h : SetSums(h, S, f)
<1> DEFINE c == [s \in SUBSET S |-> Pick(s)]
           F == [p \in S \X Int |-> f[p[1]] + p[2]]
<1>1. /\ F \in [S \X Int -> Int]
      /\ \A x \in S, n \in Int : F[<<x, n>>] = f[x] + n
      /\ \A s \in SUBSET S : s # {} => c[s] \in s /\ c[s] = Pick(s)
  BY Picked DEF Numbered
<1> HIDE DEF c, F
<1>2. PICK h \in [SUBSET S -> Int] : Folds(h, S, 0, c, F)
  <2>1. IsFiniteSet(S) /\ 0 \in Int /\ F \in [S \X Int -> Int]
    BY <1>1 DEF Numbered
  <2>2. \A s \in SUBSET S : s # {} => c[s] \in s
    BY <1>1
  <2> QED BY <2>1, <2>2, FoldsExist
<1>3. ASSUME NEW s \in SUBSET S
      PROVE  h[s] = IF s = {} THEN 0 ELSE f[Pick(s)] + h[s \ {Pick(s)}]
  <2>1. s # {} => Pick(s) \in S /\ h[s \ {Pick(s)}] \in Int /\ c[s] = Pick(s)
    BY <1>1
  <2>2. h[s] = IF s = {} THEN 0 ELSE F[<<c[s], h[s \ {c[s]}]>>]
    BY <1>2 DEF Folds
  <2> QED BY <1>1, <2>1, <2>2
<1> QED BY <1>3 DEF SetSums

\* Any element may be taken out first.
Unfolds(h, S, f) ==
  /\ h \in [SUBSET S -> Int]
  /\ h[{}] = 0
  /\ \A T \in SUBSET S : \A x \in T : h[T] = f[x] + h[T \ {x}]

LEMMA SetSumsUnfold ==
  ASSUME NEW S, NEW f, Numbered(f, S), NEW h, SetSums(h, S, f)
  PROVE  Unfolds(h, S, f)
<1> USE DEF Numbered
<1>1. /\ \A s \in SUBSET S : s # {} => h[s] = f[Pick(s)] + h[s \ {Pick(s)}]
      /\ h[{}] = 0
  <2>1. \A s \in SUBSET S : h[s] = IF s = {} THEN 0 ELSE f[Pick(s)] + h[s \ {Pick(s)}]
    BY DEF SetSums
  <2> QED BY <2>1
<1>9. h = [s \in SUBSET S |-> h[s]]
  <2> DEFINE v(s) == IF s = {} THEN 0 ELSE f[Pick(s)] + h[s \ {Pick(s)}]
  <2>1. h = [s \in SUBSET S |-> v(s)]
    BY DEF SetSums
  <2> HIDE DEF v
  <2> QED BY <2>1
<1>2. \A s \in SUBSET S : h[s] \in Int
  <2> DEFINE B == {s \in SUBSET S : h[s] \notin Int}
  <2>1. SUFFICES ASSUME B # {} PROVE FALSE
    OBVIOUS
  <2>2. B \in SUBSET (SUBSET S)
    OBVIOUS
  <2>3. PICK T \in B : \A x \in T : T \ {x} \notin B
    <3> HIDE DEF B
    <3> QED BY <2>1, <2>2, SmallestOf
  <2>4. T \in SUBSET S /\ h[T] \notin Int
    OBVIOUS
  <2>5. T # {}
    <3>1. h[{}] \in Int
      BY <1>1
    <3> QED BY <2>4, <3>1
  <2>6. Pick(T) \in T /\ h[T \ {Pick(T)}] \in Int
    BY <2>3, <2>4, <2>5, Picked
  <2>7. f[Pick(T)] \in Int /\ h[T] = f[Pick(T)] + h[T \ {Pick(T)}]
    BY <1>1, <2>4, <2>5, <2>6
  <2> QED BY <2>4, <2>6, <2>7
<1>3. \A T \in SUBSET S : \A x \in T : h[T] = f[x] + h[T \ {x}]
  <2> DEFINE B == {T \in SUBSET S : ~ \A x \in T : h[T] = f[x] + h[T \ {x}]}
  <2>1. SUFFICES ASSUME B # {} PROVE FALSE
    OBVIOUS
  <2>2. B \in SUBSET (SUBSET S)
    OBVIOUS
  <2>3. PICK T \in B : \A x \in T : T \ {x} \notin B
    <3> HIDE DEF B
    <3> QED BY <2>1, <2>2, SmallestOf
  <2>4. PICK x \in T : h[T] # f[x] + h[T \ {x}]
    OBVIOUS
  <2>5. T \in SUBSET S /\ T # {} /\ Pick(T) \in T
    BY Picked
  <2> DEFINE c == Pick(T)
  <2>6. h[T] = f[c] + h[T \ {c}]
    BY <1>1, <2>5
  <2>7. c # x
    BY <2>4, <2>6
  <2>8. \A y \in T \ {c} : h[T \ {c}] = f[y] + h[(T \ {c}) \ {y}]
    BY <2>3, <2>5
  <2>9. \A y \in T \ {x} : h[T \ {x}] = f[y] + h[(T \ {x}) \ {y}]
    BY <2>3, <2>4, <2>5
  <2> DEFINE R == (T \ {c}) \ {x}
  <2>10. (T \ {x}) \ {c} = R
    OBVIOUS
  <2>11. h[T \ {c}] = f[x] + h[R]
    BY <2>4, <2>7, <2>8
  <2>12. h[T \ {x}] = f[c] + h[R]
    BY <2>5, <2>7, <2>9, <2>10
  <2>13. f[x] \in Int /\ f[c] \in Int /\ h[R] \in Int
    BY <1>2, <2>4, <2>5
  <2> HIDE DEF c, R
  <2> QED BY <2>4, <2>6, <2>11, <2>12, <2>13
<1> QED BY <1>1, <1>2, <1>3, <1>9 DEF Unfolds

\* The sum depends on the values in the set, and on nothing else.
LEMMA SetSumsAgree ==
  ASSUME NEW S, NEW f, Numbered(f, S), NEW h, SetSums(h, S, f),
         NEW R, NEW g, Numbered(g, R), NEW k, SetSums(k, R, g),
         NEW T, T \subseteq S, T \subseteq R, \A x \in T : f[x] = g[x]
  PROVE  h[T] = k[T]
<1>0. Unfolds(h, S, f) /\ Unfolds(k, R, g)
  BY SetSumsUnfold
<1>1. /\ h[{}] = 0 /\ k[{}] = 0
      /\ \A U \in SUBSET S : \A x \in U : h[U] = f[x] + h[U \ {x}]
      /\ \A U \in SUBSET R : \A x \in U : k[U] = g[x] + k[U \ {x}]
  BY <1>0 DEF Unfolds
<1> DEFINE B == {U \in SUBSET T : h[U] # k[U]}
<1>2. SUFFICES ASSUME B # {} PROVE FALSE
  OBVIOUS
<1>3. B \in SUBSET (SUBSET S)
  OBVIOUS
<1>4. PICK U \in B : \A x \in U : U \ {x} \notin B
  <2> HIDE DEF B
  <2> QED BY <1>2, <1>3, SmallestOf DEF Numbered
<1>5. U \in SUBSET T /\ h[U] # k[U]
  OBVIOUS
<1>6. PICK x \in U : TRUE
  BY <1>1, <1>5
<1>7. h[U \ {x}] = k[U \ {x}]
  BY <1>4, <1>5, <1>6
<1>8. h[U] = f[x] + h[U \ {x}] /\ k[U] = g[x] + k[U \ {x}] /\ f[x] = g[x]
  BY <1>1, <1>5, <1>6
<1> QED BY <1>5, <1>7, <1>8

\* Total is such a sum.
LEMMA TotalIsSum ==
  ASSUME NEW S, NEW f, Numbered(f, S)
  PROVE  \E h : SetSums(h, S, f) /\ Total(f, S) = h[S]
<1> DEFINE F(h) == SetSums(h, S, f)
<1>1. \E h : F(h)
  BY SetSumsExist
<1>2. F(CHOOSE h : F(h))
  <2> HIDE DEF F
  <2> QED BY <1>1
<1>3. Total(f, S) = (CHOOSE h : F(h))[S]
  BY DEF Total, MapThenSumSet, MapThenFoldSet, SetSums, Pick
<1> QED BY <1>2, <1>3

\* It is the same sum, whatever larger set is summed over.
LEMMA TotalFits ==
  ASSUME NEW S, NEW f, Numbered(f, S), NEW h, SetSums(h, S, f), NEW T \in SUBSET S
  PROVE  Total(f, T) = h[T]
<1>1. Numbered(f, T)
  BY FS_Subset DEF Numbered
<1>2. PICK k : SetSums(k, T, f) /\ Total(f, T) = k[T]
  BY <1>1, TotalIsSum
<1>3. h[T] = k[T]
  <2>1. T \subseteq S /\ T \subseteq T /\ \A x \in T : f[x] = f[x]
    OBVIOUS
  <2> QED BY <1>1, <1>2, <2>1, SetSumsAgree
<1> QED BY <1>2, <1>3

LEMMA NumberedSubset ==
  ASSUME NEW S, NEW f, Numbered(f, S), NEW T \in SUBSET S
  PROVE  Numbered(f, T)
BY FS_Subset DEF Numbered

LEMMA NumberFacts ==
  ASSUME NEW S, NEW f, Numbered(f, S)
  PROVE  /\ Total(f, S) \in Int
         /\ S = {} => Total(f, S) = 0
         /\ \A x \in S : Total(f, S) = f[x] + Total(f, S \ {x})
<1>1. PICK h : SetSums(h, S, f)
  BY SetSumsExist
<1>2. Unfolds(h, S, f)
  BY <1>1, SetSumsUnfold
<1>3. \A T \in SUBSET S : Total(f, T) = h[T]
  BY <1>1, TotalFits
<1>4. Total(f, S) = h[S] /\ S \in SUBSET S
  BY <1>3
<1>5. Total(f, S) \in Int
  BY <1>2, <1>4 DEF Unfolds
<1>6. S = {} => Total(f, S) = 0
  BY <1>2, <1>4 DEF Unfolds
<1>7. ASSUME NEW x \in S PROVE Total(f, S) = f[x] + Total(f, S \ {x})
  <2>1. h[S] = f[x] + h[S \ {x}]
    BY <1>2, <1>4 DEF Unfolds
  <2>2. Total(f, S \ {x}) = h[S \ {x}]
    BY <1>3
  <2> QED BY <1>4, <2>1, <2>2
<1> QED BY <1>5, <1>6, <1>7

\* The sum over two sets that have nothing in common.
LEMMA NumberSplits ==
  ASSUME NEW S, NEW f, Numbered(f, S), NEW R \in SUBSET S
  PROVE  Total(f, S) = Total(f, R) + Total(f, S \ R)
<1> DEFINE B == {T \in SUBSET S : Total(f, T) # Total(f, T \cap R) + Total(f, T \ R)}
<1>1. B = {}
  <2>1. SUFFICES ASSUME B # {} PROVE FALSE
    OBVIOUS
  <2>2. PICK T \in B : \A x \in T : T \ {x} \notin B
    <3>1. B \in SUBSET (SUBSET S)
      OBVIOUS
    <3> HIDE DEF B
    <3> QED BY <2>1, <3>1, SmallestOf DEF Numbered
  <2>3. T \in SUBSET S /\ Total(f, T) # Total(f, T \cap R) + Total(f, T \ R)
    OBVIOUS
  <2>4. Numbered(f, T) /\ Numbered(f, T \cap R) /\ Numbered(f, T \ R)
    BY <2>3, NumberedSubset
  <2>5. T # {}
    <3>1. SUFFICES ASSUME T = {} PROVE FALSE
      OBVIOUS
    <3>2. T \cap R = {} /\ T \ R = {}
      BY <3>1
    <3>3. Total(f, T) = 0 /\ Total(f, T \cap R) = 0 /\ Total(f, T \ R) = 0
      BY <2>4, <3>1, <3>2, NumberFacts
    <3> QED BY <2>3, <3>3
  <2>6. PICK x \in T : TRUE
    BY <2>5
  <2> DEFINE U == T \ {x}
  <2>7. U \in SUBSET S /\ Numbered(f, U \cap R) /\ Numbered(f, U \ R)
    BY <2>3, NumberedSubset
  <2>8. Total(f, U) = Total(f, U \cap R) + Total(f, U \ R)
    BY <2>2, <2>6, <2>7
  <2>9. Total(f, T) = f[x] + Total(f, U)
    BY <2>4, <2>6, NumberFacts
  <2>10. Total(f, U \cap R) \in Int /\ Total(f, U \ R) \in Int /\ f[x] \in Int
    BY <2>3, <2>6, <2>7, NumberFacts DEF Numbered
  <2>11. CASE x \in R
    <3>1. (T \cap R) \ {x} = U \cap R /\ T \ R = U \ R /\ x \in T \cap R
      BY <2>6, <2>11
    <3>2. Total(f, T \cap R) = f[x] + Total(f, U \cap R)
      <4>1. Total(f, T \cap R) = f[x] + Total(f, (T \cap R) \ {x})
        BY <2>4, <3>1, NumberFacts
      <4> QED BY <3>1, <4>1
    <3>3. Total(f, T \ R) = Total(f, U \ R)
      BY <3>1
    <3> HIDE DEF U, B
    <3>4. Total(f, T) = Total(f, T \cap R) + Total(f, T \ R)
      BY <2>8, <2>9, <2>10, <3>2, <3>3
    <3> QED BY <2>3, <3>4
  <2>12. CASE x \notin R
    <3>1. T \cap R = U \cap R /\ (T \ R) \ {x} = U \ R /\ x \in T \ R
      BY <2>6, <2>12
    <3>2. Total(f, T \ R) = f[x] + Total(f, U \ R)
      <4>1. Total(f, T \ R) = f[x] + Total(f, (T \ R) \ {x})
        BY <2>4, <3>1, NumberFacts
      <4> QED BY <3>1, <4>1
    <3>3. Total(f, T \cap R) = Total(f, U \cap R)
      BY <3>1
    <3> HIDE DEF U, B
    <3>4. Total(f, T) = Total(f, T \cap R) + Total(f, T \ R)
      BY <2>8, <2>9, <2>10, <3>2, <3>3
    <3> QED BY <2>3, <3>4
  <2> QED BY <2>11, <2>12
<1>2. S \in SUBSET S /\ S \notin B /\ S \cap R = R
  BY <1>1
<1>3. Total(f, S) = Total(f, S \cap R) + Total(f, S \ R)
  BY <1>2
<1> QED BY <1>2, <1>3

LEMMA NumberSame ==
  ASSUME NEW S, NEW f, Numbered(f, S), NEW g, \A x \in S : f[x] = g[x]
  PROVE  Numbered(g, S) /\ Total(f, S) = Total(g, S)
<1>1. Numbered(g, S)
  BY DEF Numbered
<1>2. PICK h : SetSums(h, S, f) /\ Total(f, S) = h[S]
  BY TotalIsSum
<1>3. PICK k : SetSums(k, S, g) /\ Total(g, S) = k[S]
  BY <1>1, TotalIsSum
<1>4. h[S] = k[S]
  <2>1. S \subseteq S
    OBVIOUS
  <2> QED BY <1>1, <1>2, <1>3, <2>1, SetSumsAgree
<1> QED BY <1>1, <1>2, <1>3, <1>4

LEMMA NumberOfOne ==
  ASSUME NEW x, NEW f, f[x] \in Int
  PROVE  Numbered(f, {x}) /\ Total(f, {x}) = f[x]
<1>1. Numbered(f, {x}) /\ Numbered(f, {x} \ {x}) /\ x \in {x} /\ {x} \ {x} = {}
  BY FS_Singleton, FS_EmptySet DEF Numbered
<1>2. Total(f, {x} \ {x}) = 0
  BY <1>1, NumberFacts
<1>3. Total(f, {x}) = f[x] + Total(f, {x} \ {x})
  BY <1>1, NumberFacts
<1> QED BY <1>1, <1>2, <1>3

\* Two sums that differ at one place of the set.
LEMMA NumberChange ==
  ASSUME NEW S, NEW f, Numbered(f, S), NEW g, Numbered(g, S), NEW x \in S,
         \A y \in S \ {x} : f[y] = g[y]
  PROVE  Total(g, S) = Total(f, S) - f[x] + g[x]
<1>1. Numbered(f, S \ {x}) /\ Numbered(g, S \ {x})
  BY NumberedSubset
<1>2. Total(f, S \ {x}) = Total(g, S \ {x})
  BY <1>1, NumberSame
<1>3. Total(f, S) = f[x] + Total(f, S \ {x}) /\ Total(g, S) = g[x] + Total(g, S \ {x})
  BY NumberFacts
<1>4. Total(f, S \ {x}) \in Int /\ Total(g, S \ {x}) \in Int /\ f[x] \in Int /\ g[x] \in Int
  BY <1>1, NumberFacts DEF Numbered
<1> QED BY <1>2, <1>3, <1>4

\* One place of the sum gets another value, or is added.
LEMMA NumberPut ==
  ASSUME NEW S, NEW f, Numbered(f, S), NEW x, NEW g, g[x] \in Int, \A y \in S \ {x} : f[y] = g[y]
  PROVE  /\ Numbered(g, S \cup {x})
         /\ Total(g, S \cup {x}) = Total(f, S) - (IF x \in S THEN f[x] ELSE 0) + g[x]
<1> DEFINE R == S \ {x}
           T == S \cup {x}
<1>1. Numbered(f, R) /\ Total(f, R) \in Int /\ Total(f, S) \in Int
  BY NumberedSubset, NumberFacts
<1>2. Numbered(g, R) /\ Total(f, R) = Total(g, R)
  BY <1>1, NumberSame
<1>3. Numbered(g, T)
  <2>1. IsFiniteSet(T)
    BY FS_AddElement DEF Numbered
  <2> QED BY <2>1 DEF Numbered
<1>4. Total(g, T) = g[x] + Total(g, R)
  <2>1. x \in T /\ T \ {x} = R
    OBVIOUS
  <2> HIDE DEF T, R
  <2>2. Total(g, T) = g[x] + Total(g, T \ {x})
    BY <1>3, <2>1, NumberFacts
  <2> QED BY <2>1, <2>2
<1>5. Total(f, R) = Total(f, S) - (IF x \in S THEN f[x] ELSE 0)
  <2>1. CASE x \in S
    <3>1. Total(f, S) = f[x] + Total(f, R) /\ f[x] \in Int
      BY <2>1, NumberFacts DEF Numbered
    <3> HIDE DEF R
    <3> QED BY <1>1, <2>1, <3>1
  <2>2. CASE x \notin S
    <3>1. R = S
      BY <2>2
    <3> HIDE DEF R
    <3> QED BY <1>1, <2>2, <3>1
  <2> QED BY <2>1, <2>2
<1> HIDE DEF R, T
<1>6. Total(g, T) = Total(f, S) - (IF x \in S THEN f[x] ELSE 0) + g[x]
  <2> DEFINE old == IF x \in S THEN f[x] ELSE 0
  <2>1. old \in Int
    BY DEF Numbered
  <2>2. Total(f, R) = Total(f, S) - old
    BY <1>5
  <2> HIDE DEF old
  <2>3. Total(g, T) = Total(f, S) - old + g[x]
    BY <1>1, <1>2, <1>4, <2>1, <2>2
  <2> QED BY <2>3 DEF old
<1> QED BY <1>3, <1>6 DEF T

\* Without debts the sum is none either.
\* Nothing adds up to nothing.
LEMMA NumberOfNone ==
  ASSUME NEW S, NEW f, IsFiniteSet(S), \A x \in S : f[x] = 0
  PROVE  Numbered(f, S) /\ Total(f, S) = 0
<1>1. Numbered(f, S)
  BY DEF Numbered
<1> DEFINE B == {T \in SUBSET S : Total(f, T) # 0}
<1>2. B = {}
  <2>1. SUFFICES ASSUME B # {} PROVE FALSE
    OBVIOUS
  <2>2. B \in SUBSET (SUBSET S)
    OBVIOUS
  <2>3. PICK T \in B : \A x \in T : T \ {x} \notin B
    <3> HIDE DEF B
    <3> QED BY <2>1, <2>2, SmallestOf
  <2>4. T \in SUBSET S /\ Total(f, T) # 0
    OBVIOUS
  <2>5. Numbered(f, T)
    BY <1>1, <2>4, NumberedSubset
  <2>6. T # {}
    BY <2>4, <2>5, NumberFacts
  <2>7. PICK x \in T : TRUE
    BY <2>6
  <2>8. Total(f, T) = f[x] + Total(f, T \ {x}) /\ f[x] = 0
    BY <2>4, <2>5, NumberFacts
  <2>9. Total(f, T \ {x}) = 0
    BY <2>3, <2>4
  <2> QED BY <2>4, <2>8, <2>9
<1> QED BY <1>1, <1>2

\* A list of numbers of which the first n are dropped.
LEMMA NumberDropped ==
  ASSUME NEW L \in Nat, NEW n \in 0..L, NEW f, Numbered(f, 1..L),
         NEW g, \A i \in 1..L : g[i] = IF i <= n THEN 0 ELSE f[i]
  PROVE  /\ Numbered(g, 1..L)
         /\ Total(f, 1..n) \in Int
         /\ Total(g, 1..L) = Total(f, 1..L) - Total(f, 1..n)
<1> DEFINE S == 1..L
           R == 1..n
<1>1. Numbered(f, S)
  OBVIOUS
<1>2. R \in SUBSET S /\ S \ R \in SUBSET S
  OBVIOUS
<1>3. /\ \A i \in R : g[i] = 0
      /\ \A i \in S \ R : f[i] = g[i]
      /\ \A i \in S : i \in R \/ i \in S \ R
  OBVIOUS
<1> HIDE DEF S, R
<1>4. Numbered(f, R) /\ Numbered(f, S \ R) /\ IsFiniteSet(R)
  BY <1>1, <1>2, NumberedSubset DEF Numbered
<1>5. Numbered(g, S)
  <2>1. \A i \in S : g[i] \in Int
    BY <1>1, <1>2, <1>3 DEF Numbered
  <2> QED BY <1>1, <2>1 DEF Numbered
<1>6. Total(g, R) = 0
  BY <1>3, <1>4, NumberOfNone
<1>7. Total(f, S \ R) = Total(g, S \ R)
  BY <1>3, <1>4, NumberSame
<1>8. Total(f, S) = Total(f, R) + Total(f, S \ R) /\ Total(g, S) = Total(g, R) + Total(g, S \ R)
  BY <1>1, <1>2, <1>5, NumberSplits
<1>9. Total(f, R) \in Int /\ Total(f, S \ R) \in Int
  BY <1>4, NumberFacts
<1>10. Total(g, S) = Total(f, S) - Total(f, R)
  BY <1>6, <1>7, <1>8, <1>9
<1> QED BY <1>5, <1>9, <1>10 DEF S, R

LEMMA SummableNumbers == ASSUME NEW S, NEW f, Summable(f, S) PROVE Numbered(f, S)
BY DEF Summable, Numbered

LEMMA SummableSubset ==
  ASSUME NEW S, NEW f, Summable(f, S), NEW T \in SUBSET S
  PROVE  Summable(f, T)
BY FS_Subset DEF Summable

LEMMA TotalFacts ==
  ASSUME NEW S, NEW f, Summable(f, S)
  PROVE  /\ Total(f, S) \in Nat
         /\ S = {} => Total(f, S) = 0
         /\ \A x \in S : Total(f, S) = f[x] + Total(f, S \ {x})
<1> DEFINE B == {T \in SUBSET S : Total(f, T) \notin Nat}
<1>1. \A T \in SUBSET S : Numbered(f, T)
  BY SummableNumbers, NumberedSubset
<1>2. B = {}
  <2>1. SUFFICES ASSUME B # {} PROVE FALSE
    OBVIOUS
  <2>2. B \in SUBSET (SUBSET S)
    OBVIOUS
  <2>3. PICK T \in B : \A x \in T : T \ {x} \notin B
    <3> HIDE DEF B
    <3> QED BY <2>1, <2>2, SmallestOf DEF Summable
  <2>4. T \in SUBSET S /\ Total(f, T) \notin Nat
    OBVIOUS
  <2>5. T # {}
    BY <1>1, <2>4, NumberFacts
  <2>6. PICK x \in T : TRUE
    BY <2>5
  <2>7. Total(f, T \ {x}) \in Nat /\ f[x] \in Nat
    BY <2>3, <2>4, <2>6 DEF Summable
  <2>8. Total(f, T) = f[x] + Total(f, T \ {x})
    BY <1>1, <2>4, <2>6, NumberFacts
  <2> QED BY <2>4, <2>7, <2>8
<1>3. Total(f, S) \in Nat
  <2>1. S \in SUBSET S /\ S \notin B
    BY <1>2
  <2> QED BY <2>1
<1> QED BY <1>1, <1>3, NumberFacts

\* The sum grows with the values.
LEMMA TotalGrows ==
  ASSUME NEW S, NEW f, Summable(f, S), NEW g, Summable(g, S), \A x \in S : f[x] =< g[x]
  PROVE  Total(f, S) =< Total(g, S)
<1> DEFINE B == {T \in SUBSET S : ~(Total(f, T) =< Total(g, T))}
<1>1. SUFFICES ASSUME B # {} PROVE FALSE
  OBVIOUS
<1>2. PICK T \in B : \A x \in T : T \ {x} \notin B
  <2>1. B \in SUBSET (SUBSET S)
    OBVIOUS
  <2> HIDE DEF B
  <2> QED BY <1>1, <2>1, SmallestOf DEF Summable
<1>3. T \in SUBSET S /\ ~(Total(f, T) =< Total(g, T))
  OBVIOUS
<1>4. Summable(f, T) /\ Summable(g, T)
  BY <1>3, SummableSubset
<1>5. T # {}
  <2>1. T = {} => Total(f, T) = 0 /\ Total(g, T) = 0
    BY <1>4, TotalFacts
  <2> QED BY <1>3, <2>1
<1>6. PICK x \in T : TRUE
  BY <1>5
<1>7. Summable(f, T \ {x}) /\ Summable(g, T \ {x}) /\ T \ {x} \in SUBSET S
  BY <1>3, SummableSubset
<1>8. Total(f, T \ {x}) =< Total(g, T \ {x})
  BY <1>2, <1>6, <1>7
<1>9. /\ Total(f, T) = f[x] + Total(f, T \ {x})
      /\ Total(g, T) = g[x] + Total(g, T \ {x})
  BY <1>4, <1>6, TotalFacts
<1>10. Total(f, T \ {x}) \in Nat /\ Total(g, T \ {x}) \in Nat
  BY <1>7, TotalFacts
<1>11. f[x] \in Nat /\ g[x] \in Nat /\ f[x] =< g[x]
  BY <1>3, <1>6 DEF Summable
<1> HIDE DEF B
<1> QED BY <1>3, <1>8, <1>9, <1>10, <1>11

LEMMA TotalSame ==
  ASSUME NEW S, NEW f, Summable(f, S), NEW g, \A x \in S : f[x] = g[x]
  PROVE  Summable(g, S) /\ Total(f, S) = Total(g, S)
<1>1. Summable(g, S)
  BY DEF Summable
<1>2. \A x \in S : f[x] =< g[x] /\ g[x] =< f[x]
  BY DEF Summable
<1>3. Total(f, S) =< Total(g, S) /\ Total(g, S) =< Total(f, S)
  BY <1>1, <1>2, TotalGrows
<1>4. Total(f, S) \in Nat /\ Total(g, S) \in Nat
  BY <1>1, TotalFacts
<1> QED BY <1>1, <1>3, <1>4

LEMMA TotalSplits ==
  ASSUME NEW S, NEW f, Summable(f, S), NEW R \in SUBSET S
  PROVE  Total(f, S) = Total(f, R) + Total(f, S \ R)
BY SummableNumbers, NumberSplits

LEMMA TotalOfPart ==
  ASSUME NEW S, NEW f, Summable(f, S), NEW R \in SUBSET S
  PROVE  Total(f, R) =< Total(f, S)
<1>1. Summable(f, R) /\ Summable(f, S \ R)
  BY SummableSubset
<1>2. Total(f, R) \in Nat /\ Total(f, S \ R) \in Nat
  BY <1>1, TotalFacts
<1> QED BY <1>2, TotalSplits

LEMMA TotalOfOne ==
  ASSUME NEW x, NEW f, f[x] \in Nat
  PROVE  Summable(f, {x}) /\ Total(f, {x}) = f[x]
<1>1. Summable(f, {x}) /\ Summable(f, {x} \ {x}) /\ x \in {x} /\ {x} \ {x} = {}
  BY FS_Singleton, FS_EmptySet DEF Summable
<1>2. Total(f, {x} \ {x}) = 0
  BY <1>1, TotalFacts
<1>3. Total(f, {x}) = f[x] + Total(f, {x} \ {x})
  BY <1>1, TotalFacts
<1> QED BY <1>1, <1>2, <1>3

-----------------------------------------------------------------------------
(* Sums over a list.                                                          *)

\* The places of a list are finitely many.
LEMMA CountUpTo ==
  ASSUME NEW k \in Nat
  PROVE  IsFiniteSet(1..k) /\ Cardinality(1..k) = k
<1>1. 1 \in Int /\ k \in Int
  OBVIOUS
<1>2. Cardinality(1..k) = IF 1 > k THEN 0 ELSE k - 1 + 1
  BY <1>1, FS_Interval, Zenon
<1>3. IsFiniteSet(1..k)
  BY <1>1, FS_Interval, Zenon
<1>4. (IF 1 > k THEN 0 ELSE k - 1 + 1) = k
  OBVIOUS
<1> QED BY <1>2, <1>3, <1>4

\* g has the sums of the first 0, 1, ..., L elements of a.
Sums(g, L, a) == /\ g \in [0..L -> Nat]
                 /\ g[0] = 0
                 /\ \A k \in 1..L : g[k] = g[k - 1] + a[k]

LEMMA SumsExist ==
  ASSUME NEW L \in Nat, NEW a \in [1..L -> Nat]
  PROVE  \E g : Sums(g, L, a)
<1> DEFINE P(n) == \E g \in [0..n -> Nat] : g[0] = 0 /\ \A k \in 1..n : g[k] = g[k - 1] + a[k]
           T == {n \in 0..L : ~P(n)}
<1>1. T = {}
  <2>1. SUFFICES ASSUME T # {} PROVE FALSE
    OBVIOUS
  <2>2. T \in SUBSET Nat
    OBVIOUS
  <2> HIDE DEF P
  <2>3. PICK n \in T : \A y \in T : n =< y
    BY <2>1, <2>2, LeastOf
  <2>4. n \in 0..L /\ ~P(n)
    OBVIOUS
  <2>5. P(0)
    <3> DEFINE g == [k \in 0..0 |-> 0]
    <3>1. g \in [0..0 -> Nat] /\ g[0] = 0 /\ \A k \in 1..0 : g[k] = g[k - 1] + a[k]
      OBVIOUS
    <3> QED BY <3>1 DEF P
  <2>6. n # 0
    BY <2>4, <2>5
  <2>7. n - 1 \in 0..L /\ n - 1 \notin T
    <3>1. n - 1 \in 0..L /\ ~(n =< n - 1)
      BY <2>4, <2>6
    <3> QED BY <3>1, <2>3
  <2>8. P(n - 1)
    BY <2>7
  <2>9. PICK g \in [0..(n - 1) -> Nat] : g[0] = 0 /\ \A k \in 1..(n - 1) : g[k] = g[k - 1] + a[k]
    BY <2>8 DEF P
  <2> DEFINE h == [k \in 0..n |-> IF k = n THEN g[n - 1] + a[n] ELSE g[k]]
  <2>10. h \in [0..n -> Nat]
    BY <2>4, <2>6, <2>9
  <2>11. h[0] = 0
    BY <2>4, <2>6, <2>9
  <2>12. ASSUME NEW k \in 1..n PROVE h[k] = h[k - 1] + a[k]
    <3>0. n \in Nat /\ k \in Nat /\ k - 1 \in 0..n /\ k - 1 # n
      BY <2>4
    <3>1. CASE k = n
      BY <3>0, <3>1
    <3>2. CASE k # n
      <4>1. k \in 1..(n - 1)
        BY <3>0, <3>2
      <4>2. h[k] = g[k] /\ h[k - 1] = g[k - 1]
        BY <3>0, <3>2
      <4> QED BY <2>9, <4>1, <4>2
    <3> QED BY <3>1, <3>2
  <2>13. P(n)
    BY <2>10, <2>11, <2>12 DEF P
  <2> QED BY <2>4, <2>13
<1>2. P(L)
  <2> HIDE DEF P
  <2> QED BY <1>1
<1> QED
  BY <1>2 DEF Sums

\* Sums of what is not zero grow.
LEMMA SumsGrow ==
  ASSUME NEW L \in Nat, NEW a \in [1..L -> Nat \ {0}], NEW g, Sums(g, L, a),
         NEW i \in 0..L, NEW j \in 0..L, i < j
  PROVE  g[i] < g[j]
<1> DEFINE T == {n \in (i + 1)..L : ~(g[i] < g[n])}
<1>1. SUFFICES ASSUME j \in T PROVE FALSE
  OBVIOUS
<1>2. PICK n \in T : \A y \in T : n =< y
  <2>1. T \in SUBSET Nat /\ T # {}
    BY <1>1
  <2> HIDE DEF T
  <2> QED BY <2>1, LeastOf
<1>3. n \in 1..L /\ n - 1 \in i..L /\ ~(n =< n - 1)
  OBVIOUS
<1>4. g[n] = g[n - 1] + a[n] /\ g[n] \in Nat /\ g[n - 1] \in Nat /\ a[n] \in Nat \ {0} /\ g[i] \in Nat
  BY <1>3 DEF Sums
<1>5. CASE n - 1 = i
  BY <1>4, <1>5
<1>6. CASE n - 1 # i
  <2>1. n - 1 \in (i + 1)..L /\ n - 1 \notin T
    BY <1>2, <1>3, <1>6
  <2> QED BY <1>4, <2>1
<1> QED BY <1>5, <1>6

\* The first place, of L, at which the sums g reach an amount, or the last place.
Reaches(k, L, g, amount) ==
  /\ k \in 0..L
  /\ k = L \/ g[k] >= amount
  /\ \A n \in 0..L : n < k => g[n] < amount

\* The first k numbers of a, the last one cut to what is left of an amount.
CutList(k, a, g, amount) ==
  [n \in 1..k |-> IF a[n] < amount - g[n - 1] THEN a[n] ELSE amount - g[n - 1]]

\* A list r of k numbers, none above that of a, that adds up to the amount or to
\* all of the L numbers there are.
Fits(r, k, L, a, g, amount) ==
  /\ \A n \in 1..k : r[n] \in 1..a[n] /\ (n < k => r[n] = a[n])
  /\ \E h : Sums(h, k, r) /\ h[k] = IF g[L] < amount THEN g[L] ELSE amount

\* Where the sums of positive numbers reach an amount.
LEMMA FirstPlaces ==
  ASSUME NEW L \in Nat, NEW a \in [1..L -> Nat \ {0}], NEW g, Sums(g, L, a), NEW amount \in Nat \ {0}
  PROVE  \E k \in 0..L :
           /\ {n \in 1..L : g[n - 1] < amount} = 1..k
           /\ Cardinality({n \in 1..L : g[n - 1] < amount}) = k
           /\ Reaches(k, L, g, amount)
           /\ L > 0 => k > 0
<1> DEFINE T == {n \in 0..L : n = L \/ g[n] >= amount}
           F == {n \in 1..L : g[n - 1] < amount}
<1>1. PICK k \in T : \A y \in T : k =< y
  <2>1. T \in SUBSET Nat /\ L \in T
    OBVIOUS
  <2> HIDE DEF T
  <2> QED BY <2>1, LeastOf
<1>2. k \in 0..L /\ (k = L \/ g[k] >= amount)
  OBVIOUS
<1>3. g \in [0..L -> Nat] /\ g[0] = 0
  BY DEF Sums
<1>4. ASSUME NEW n \in 0..L, n < k PROVE g[n] < amount
  <2>1. n \notin T
    BY <1>1, <1>2, <1>4
  <2> QED BY <1>3, <2>1
<1>5. ASSUME NEW n \in 1..L, ~(n =< k) PROVE ~(g[n - 1] < amount)
  <2>1. k # L /\ n - 1 \in 0..L /\ g[k] >= amount /\ (k = n - 1 \/ k < n - 1)
    BY <1>2, <1>5
  <2>2. g[k] =< g[n - 1]
    <3>1. CASE k = n - 1
      BY <1>2, <1>3, <3>1
    <3>2. CASE k < n - 1
      <4>1. g[k] < g[n - 1]
        BY <1>2, <2>1, <3>2, SumsGrow
      <4> QED BY <1>2, <1>3, <2>1, <4>1
    <3> QED BY <2>1, <3>1, <3>2
  <2> QED BY <1>2, <1>3, <2>1, <2>2
<1>6. F = 1..k
  <2>1. ASSUME NEW n \in 1..L PROVE g[n - 1] < amount <=> n =< k
    <3>1. CASE n =< k
      <4>1. n - 1 \in 0..L /\ n - 1 < k
        BY <1>2, <3>1
      <4> QED BY <1>4, <3>1, <4>1
    <3> QED BY <1>5, <3>1
  <2> QED BY <1>2, <2>1
<1>7. Cardinality(1..k) = k
  BY <1>2, CountUpTo
<1>8. L > 0 => k > 0
  BY <1>2, <1>3
<1> QED BY <1>2, <1>4, <1>6, <1>7, <1>8 DEF Reaches

\* The numbers up to that place, the last one cut to what is left, add up to the
\* amount or to all there is.
LEMMA CutToFit ==
  ASSUME NEW L \in Nat, NEW a \in [1..L -> Nat \ {0}], NEW g, Sums(g, L, a),
         NEW amount \in Nat \ {0}, NEW k, Reaches(k, L, g, amount),
         NEW r, r = CutList(k, a, g, amount)
  PROVE  Fits(r, k, L, a, g, amount)
<1>1. g \in [0..L -> Nat] /\ g[0] = 0 /\ \A n \in 1..L : g[n] = g[n - 1] + a[n]
  BY DEF Sums
<1>0. /\ k \in 0..L /\ (k = L \/ g[k] >= amount) /\ \A n \in 0..L : n < k => g[n] < amount
      /\ r = [n \in 1..k |-> IF a[n] < amount - g[n - 1] THEN a[n] ELSE amount - g[n - 1]]
  BY DEF Reaches, CutList
<1> DEFINE all == IF g[k] < amount THEN g[k] ELSE amount
<1>2. ASSUME NEW n \in 1..k
      PROVE  /\ n \in 1..L /\ n - 1 \in 0..L /\ n - 1 < k /\ n \in 0..L /\ g[n - 1] \in Nat
             /\ g[n] = g[n - 1] + a[n] /\ g[n - 1] < amount
             /\ r[n] \in 1..a[n]
             /\ n < k => r[n] = a[n]
             /\ n = k => g[n - 1] + r[n] = all
  <2>1. n \in 1..L /\ n - 1 \in 0..L /\ n - 1 < k /\ n \in 0..L
    BY <1>0
  <2>2. g[n - 1] \in Nat /\ g[n] = g[n - 1] + a[n] /\ g[n - 1] < amount /\ a[n] \in Nat \ {0}
    BY <1>0, <1>1, <2>1
  <2>3. r[n] = IF a[n] < amount - g[n - 1] THEN a[n] ELSE amount - g[n - 1]
    BY <1>0
  <2>4. n < k => g[n] < amount
    BY <1>0, <2>1
  <2>5. r[n] \in 1..a[n] /\ (n < k => r[n] = a[n])
    BY <2>2, <2>3, <2>4
  <2>6. n = k => g[n - 1] + r[n] = all
    BY <2>2, <2>3
  <2> QED BY <2>1, <2>2, <2>5, <2>6
<1>3. all = IF g[L] < amount THEN g[L] ELSE amount
  <2>1. CASE k = L
    BY <2>1
  <2>2. CASE k # L
    <3>1. k < L /\ k \in 0..L /\ L \in 0..L /\ g[k] >= amount
      BY <1>0, <2>2
    <3>2. g[k] < g[L]
      BY <3>1, SumsGrow
    <3> QED BY <1>1, <3>1, <3>2
  <2> QED BY <2>1, <2>2
<1> DEFINE h == [n \in 0..k |-> IF n = k THEN all ELSE g[n]]
<1>4. h \in [0..k -> Nat] /\ h[k] = all /\ \A n \in 0..k : n < k => h[n] = g[n]
  <2>1. all \in Nat
    BY <1>0, <1>1
  <2>2. \A n \in 0..k : g[n] \in Nat
    BY <1>0, <1>1
  <2>3. k \in Nat
    BY <1>0
  <2> HIDE DEF all
  <2> QED BY <2>1, <2>2, <2>3
<1>5. h[0] = 0
  BY <1>0, <1>1, <1>4
<1> HIDE DEF h, all
<1>6. ASSUME NEW n \in 1..k PROVE h[n] = h[n - 1] + r[n]
  <2>1. n - 1 \in 0..k /\ n - 1 < k /\ h[n - 1] = g[n - 1]
    BY <1>0, <1>4
  <2>2. CASE n = k
    BY <1>2, <1>4, <2>1, <2>2
  <2>3. CASE n # k
    <3>1. n < k /\ n \in 0..k
      BY <1>0, <2>3
    <3>2. h[n] = g[n] /\ r[n] = a[n] /\ g[n] = g[n - 1] + a[n]
      BY <1>2, <1>4, <3>1
    <3> QED BY <2>1, <3>2
  <2> QED BY <2>2, <2>3
<1>7. Sums(h, k, r)
  BY <1>4, <1>5, <1>6 DEF Sums
<1> QED BY <1>2, <1>3, <1>4, <1>7 DEF Fits

\* Summing a list without repetitions is summing over the set of its elements.
LEMMA ListTotal ==
  ASSUME NEW n \in Nat, NEW S, NEW f, Summable(f, S), NEW q \in [1..n -> S],
         \A i, j \in 1..n : i # j => q[i] # q[j],
         NEW g, Sums(g, n, [i \in 1..n |-> f[q[i]]])
  PROVE  Total(f, {q[i] : i \in 1..n}) = g[n]
<1> DEFINE R(k) == {q[i] : i \in 1..k}
           B == {k \in 0..n : Total(f, R(k)) # g[k]}
<1>1. SUFFICES ASSUME B # {} PROVE FALSE
  <2>1. n \in 0..n
    OBVIOUS
  <2> QED BY <2>1
<1>2. PICK k \in B : \A y \in B : k =< y
  <2>1. B \in SUBSET Nat
    OBVIOUS
  <2> HIDE DEF B
  <2> QED BY <1>1, <2>1, LeastOf
<1>3. k \in 0..n /\ Total(f, R(k)) # g[k]
  OBVIOUS
<1>4. \A m \in 0..n : R(m) \in SUBSET S
  OBVIOUS
<1>5. k # 0
  <2>1. R(0) = {}
    OBVIOUS
  <2>2. Summable(f, R(0))
    BY <2>1, FS_EmptySet DEF Summable
  <2>3. Total(f, R(0)) = 0 /\ g[0] = 0
    <3> HIDE DEF R
    <3> QED BY <2>1, <2>2, TotalFacts DEF Sums
  <2> QED BY <1>3, <2>3
<1>6. k \in 1..n /\ k - 1 \in 0..n /\ ~(k =< k - 1)
  BY <1>3, <1>5
<1>7. k - 1 \notin B
  <2> HIDE DEF B
  <2> QED BY <1>2, <1>6
<1>8. Total(f, R(k - 1)) = g[k - 1]
  BY <1>6, <1>7
<1>9. q[k] \in R(k) /\ R(k) \ {q[k]} = R(k - 1)
  <2>1. \A i \in 1..k : i \in 1..n /\ (i # k => i \in 1..(k - 1))
    BY <1>6
  <2>2. \A i \in 1..(k - 1) : i \in 1..k /\ i \in 1..n /\ i # k
    BY <1>6
  <2>3. k \in 1..k
    BY <1>6
  <2> QED BY <1>6, <2>1, <2>2, <2>3
<1>10. Summable(f, R(k))
  <2> HIDE DEF R
  <2> QED BY <1>3, <1>4, SummableSubset
<1>11. Total(f, R(k)) = f[q[k]] + Total(f, R(k - 1))
  <2> HIDE DEF R
  <2>1. Total(f, R(k)) = f[q[k]] + Total(f, R(k) \ {q[k]})
    BY <1>9, <1>10, TotalFacts
  <2> QED BY <1>9, <2>1
<1>12. g[k] = g[k - 1] + f[q[k]] /\ g[k - 1] \in Nat /\ f[q[k]] \in Nat
  BY <1>6 DEF Sums, Summable
<1> HIDE DEF R, B
<1> QED BY <1>3, <1>8, <1>11, <1>12

-----------------------------------------------------------------------------
(* The two sums the market takes over the records of a world state.           *)

\* What the keys S of a state hold.
AmountSum(s, S) == MapThenSumSet(LAMBDA b : s[b].amount, S)

LEMMA AmountTotal ==
  ASSUME NEW s, NEW S, Summable([b \in S |-> s[b].amount], S)
  PROVE  AmountSum(s, S) = Total([b \in S |-> s[b].amount], S)
<1> DEFINE f == [b \in S |-> s[b].amount]
           F(h) == SetSums(h, S, f)
           G(h) == h = [t \in SUBSET S |->
                          IF t = {} THEN 0 ELSE s[Pick(t)].amount + h[t \ {Pick(t)}]]
<1>1. \A t \in SUBSET S : t # {} => f[Pick(t)] = s[Pick(t)].amount
  BY Picked
<1>2. PICK k : F(k)
  BY SetSumsExist, SummableNumbers
<1>3. \A h : F(h) <=> G(h)
  <2> HIDE DEF f
  <2> QED BY <1>1 DEF SetSums
<1>4. G(CHOOSE h : G(h))
  <2> HIDE DEF F, G
  <2> QED BY <1>2, <1>3
<1>5. AmountSum(s, S) = (CHOOSE h : G(h))[S]
  BY DEF AmountSum, MapThenSumSet, MapThenFoldSet, Pick
<1>6. F(CHOOSE h : G(h))
  <2> HIDE DEF F, G
  <2> QED BY <1>3, <1>4
<1> QED BY <1>5, <1>6, SummableNumbers, TotalFits

\* What the bids S of a state ask for.
BidAmountSum(s, S) == MapThenSumSet(LAMBDA b : s[b].bidAmount, S)

LEMMA BidAmountTotal ==
  ASSUME NEW s, NEW S, Summable([b \in S |-> s[b].bidAmount], S)
  PROVE  BidAmountSum(s, S) = Total([b \in S |-> s[b].bidAmount], S)
<1> DEFINE f == [b \in S |-> s[b].bidAmount]
           F(h) == SetSums(h, S, f)
           G(h) == h = [t \in SUBSET S |->
                          IF t = {} THEN 0 ELSE s[Pick(t)].bidAmount + h[t \ {Pick(t)}]]
<1>1. \A t \in SUBSET S : t # {} => f[Pick(t)] = s[Pick(t)].bidAmount
  BY Picked
<1>2. PICK k : F(k)
  BY SetSumsExist, SummableNumbers
<1>3. \A h : F(h) <=> G(h)
  <2> HIDE DEF f
  <2> QED BY <1>1 DEF SetSums
<1>4. G(CHOOSE h : G(h))
  <2> HIDE DEF F, G
  <2> QED BY <1>2, <1>3
<1>5. BidAmountSum(s, S) = (CHOOSE h : G(h))[S]
  BY DEF BidAmountSum, MapThenSumSet, MapThenFoldSet, Pick
<1>6. F(CHOOSE h : G(h))
  <2> HIDE DEF F, G
  <2> QED BY <1>3, <1>4
<1> QED BY <1>5, <1>6, SummableNumbers, TotalFits

\* A list q of n places names nothing twice; the sum of f over what it names is g[n].
EachOnce(q, n) == \A i, j \in 1..n : i # j => q[i] # q[j]

ListAdds(f, q, n, g) == Total(f, {q[i] : i \in 1..n}) = g[n]

LEMMA ListAddsUp ==
  ASSUME NEW n \in Nat, NEW S, NEW f, Summable(f, S), NEW q \in [1..n -> S], EachOnce(q, n),
         NEW g, NEW a, a = [i \in 1..n |-> f[q[i]]], Sums(g, n, a)
  PROVE  ListAdds(f, q, n, g)
<1>1. \A i, j \in 1..n : i # j => q[i] # q[j]
  BY DEF EachOnce
<1>2. Sums(g, n, [i \in 1..n |-> f[q[i]]])
  OBVIOUS
<1>3. Total(f, {q[i] : i \in 1..n}) = g[n]
  BY <1>1, <1>2, ListTotal
<1> QED BY <1>3 DEF ListAdds

\* The first numbers of a list add up to what the sums say.
LEMMA FirstOnesAddUp ==
  ASSUME NEW L \in Nat, NEW a \in [1..L -> Nat], NEW g, Sums(g, L, a), NEW i \in 0..L
  PROVE  Total(a, 1..i) = g[i]
<1> DEFINE q == [k \in 1..i |-> k]
           h == [n \in 0..i |-> g[n]]
           b == [k \in 1..i |-> a[q[k]]]
<1>1. g \in [0..L -> Nat] /\ g[0] = 0 /\ \A k \in 1..L : g[k] = g[k - 1] + a[k]
  BY DEF Sums
<1>2. Sums(h, i, b)
  <2>1. h \in [0..i -> Nat] /\ h[0] = 0 /\ h[i] = g[i]
    BY <1>1
  <2>2. ASSUME NEW k \in 1..i PROVE h[k] = h[k - 1] + b[k]
    <3>1. k \in 1..L /\ k \in 0..i /\ k - 1 \in 0..i
      OBVIOUS
    <3>2. h[k] = g[k] /\ h[k - 1] = g[k - 1] /\ b[k] = a[k]
      BY <3>1
    <3> QED BY <1>1, <3>1, <3>2
  <2> QED BY <2>1, <2>2 DEF Sums
<1>3. i \in Nat /\ q \in [1..i -> 1..L] /\ EachOnce(q, i) /\ {q[k] : k \in 1..i} = 1..i /\ h[i] = g[i]
  BY DEF EachOnce
<1>4. Summable(a, 1..L)
  BY CountUpTo DEF Summable
<1> HIDE DEF q, h
<1>5. ListAdds(a, q, i, h)
  BY <1>2, <1>3, <1>4, ListAddsUp
<1> QED BY <1>3, <1>5 DEF ListAdds

-----------------------------------------------------------------------------
(* The award loop of a tick for any bids: what it hands out, to whom, and how *)
(* much of it.                                                                *)

LEMMA AskedSums ==
  ASSUME NEW S, NEW L \in Nat, NEW q \in [1..L -> S], NEW bid,
         \A b \in S : bid[b].bidAmount \in Nat
  PROVE  Sums(Asked(q, bid), L, [n \in 1..L |-> bid[q[n]].bidAmount])
<1> DEFINE a == [n \in 1..L |-> bid[q[n]].bidAmount]
<1>1. Len(q) = L
  OBVIOUS
<1>2. a \in [1..L -> Nat]
  OBVIOUS
<1>3. PICK g : Sums(g, L, a)
  BY <1>2, SumsExist
<1> DEFINE Fix(f) == f = [n \in 0..L |-> IF n = 0 THEN 0 ELSE f[n - 1] + bid[q[n]].bidAmount]
<1>4. Fix(g)
  <2>1. ASSUME NEW n \in 0..L PROVE g[n] = IF n = 0 THEN 0 ELSE g[n - 1] + bid[q[n]].bidAmount
    <3>1. CASE n = 0
      BY <1>3, <3>1 DEF Sums
    <3>2. CASE n # 0
      <4>1. n \in 1..L
        BY <3>2
      <4> QED BY <1>3, <3>2, <4>1 DEF Sums
    <3> QED BY <3>1, <3>2
  <2> QED BY <1>3, <2>1 DEF Sums
<1>5. Asked(q, bid) = CHOOSE f : Fix(f)
  BY <1>1 DEF Asked
<1>6. Fix(Asked(q, bid))
  BY <1>4, <1>5
<1> DEFINE A == Asked(q, bid)
           T == {n \in 0..L : A[n] # g[n]}
<1>7. /\ A = [n \in 0..L |-> A[n]]
      /\ A[0] = 0
      /\ \A n \in 1..L : A[n] = A[n - 1] + a[n]
  <2> HIDE DEF A
  <2>1. Fix(A)
    BY <1>6 DEF A
  <2>2. ASSUME NEW n \in 1..L PROVE A[n] = A[n - 1] + a[n]
    <3>1. n \in 0..L /\ n # 0
      OBVIOUS
    <3> QED BY <2>1, <3>1
  <2> QED BY <2>1, <2>2
<1> HIDE DEF A, a
<1>8. T = {}
  <2>1. SUFFICES ASSUME T # {} PROVE FALSE
    OBVIOUS
  <2>2. PICK n \in T : \A y \in T : n =< y
    <3>1. T \in SUBSET Nat
      OBVIOUS
    <3> QED BY <2>1, <3>1, LeastOf
  <2>3. n \in 0..L /\ A[n] # g[n] /\ g[0] = 0
    BY <1>3 DEF Sums
  <2>4. n \in 1..L
    BY <1>7, <2>3
  <2>5. n - 1 \in 0..L /\ n - 1 \notin T
    <3>1. n - 1 \in 0..L /\ ~(n =< n - 1)
      BY <2>4
    <3> QED BY <2>2, <3>1
  <2>6. A[n - 1] = g[n - 1]
    BY <2>5
  <2> QED BY <1>3, <1>7, <2>3, <2>4, <2>6 DEF Sums
<1>9. A = g
  BY <1>3, <1>7, <1>8 DEF Sums
<1> QED
  BY <1>3, <1>9 DEF A, a

-----------------------------------------------------------------------------
(* A ranking of the bids S, none of them for nothing, and an amount to give.  *)

\* The bids served are the first k, where k is the first place at which all is
\* asked for, or the last.
LEMMA ServedFirst ==
  ASSUME NEW S, NEW L \in Nat, NEW q \in [1..L -> S], NEW bid,
         \A b \in S : bid[b].bidAmount \in Nat \ {0},
         NEW amount \in Nat \ {0}
  PROVE  \E k \in 0..L :
           /\ Served(q, bid, amount) = 1..k
           /\ Cardinality(Served(q, bid, amount)) = k
           /\ k = L \/ Asked(q, bid)[k] >= amount
           /\ \A n \in 0..L : n < k => Asked(q, bid)[n] < amount
           /\ L > 0 => k > 0
<1> DEFINE A == Asked(q, bid)
           a == [n \in 1..L |-> bid[q[n]].bidAmount]
           T == {n \in 0..L : n = L \/ A[n] >= amount}
<1>1. Sums(A, L, a) /\ a \in [1..L -> Nat \ {0}]
  BY AskedSums
<1>2. Len(q) = L
  OBVIOUS
<1>3. Served(q, bid, amount) = {n \in 1..L : A[n - 1] < amount}
  BY <1>2 DEF Served
<1> HIDE DEF A, a
<1>4. PICK k \in T : \A y \in T : k =< y
  <2>1. T \in SUBSET Nat /\ L \in T
    OBVIOUS
  <2> HIDE DEF T
  <2> QED BY <2>1, LeastOf
<1>5. k \in 0..L /\ (k = L \/ A[k] >= amount)
  OBVIOUS
<1>6. A \in [0..L -> Nat] /\ A[0] = 0
  BY <1>1 DEF Sums
<1>7. ASSUME NEW n \in 0..L, n < k PROVE A[n] < amount
  <2>1. n \notin T
    BY <1>4, <1>5, <1>7
  <2> QED BY <1>6, <2>1
<1>8. ASSUME NEW n \in 1..L, ~(n =< k) PROVE ~(A[n - 1] < amount)
  <2>1. k # L /\ n - 1 \in 0..L /\ A[k] >= amount /\ (k = n - 1 \/ k < n - 1)
    BY <1>5, <1>8
  <2>2. A[k] =< A[n - 1]
    <3>1. CASE k = n - 1
      BY <1>5, <1>6, <3>1
    <3>2. CASE k < n - 1
      <4>1. A[k] < A[n - 1]
        BY <1>1, <1>5, <2>1, <3>2, SumsGrow
      <4> QED BY <1>5, <1>6, <2>1, <4>1
    <3> QED BY <2>1, <3>1, <3>2
  <2> QED BY <1>5, <1>6, <2>1, <2>2
<1>9. Served(q, bid, amount) = 1..k
  <2>1. ASSUME NEW n \in 1..L PROVE A[n - 1] < amount <=> n =< k
    <3>1. CASE n =< k
      <4>1. n - 1 \in 0..L /\ n - 1 < k
        BY <1>5, <3>1
      <4> QED BY <1>7, <3>1, <4>1
    <3> QED BY <1>8, <3>1
  <2> QED BY <1>3, <1>5, <2>1
<1>10. Cardinality(1..k) = k
  BY <1>5, CountUpTo
<1>11. L > 0 => k > 0
  BY <1>5, <1>6
<1> QED BY <1>5, <1>7, <1>9, <1>10, <1>11 DEF A

\* The awards go to bids of S, each once, in their order; each gets something,
\* at most what it asked for, and all but the last get all they asked for.
OffersInOrder(offer, q, S, bid) ==
  /\ DOMAIN offer = 1..Len(offer) /\ Len(offer) \in 0..Len(q)
  /\ \A i \in 1..Len(offer) :
       /\ offer[i] = [id |-> q[i], amount |-> offer[i].amount]
       /\ offer[i].id \in S
       /\ offer[i].amount \in 1..bid[offer[i].id].bidAmount
       /\ i < Len(offer) => offer[i].amount = bid[offer[i].id].bidAmount

\* A better bid is never passed over (the sorts and the loop of
\* producerAppAuction.go:155-173 and 88-110).
PassesOver(offer, S, bid) ==
  \E b \in S, i \in DOMAIN offer :
    Precedes(bid[b], bid[offer[i].id]) /\ \A j \in DOMAIN offer : offer[j].id # b

\* The awards add up to sold, which is no more than there is.
AddsUp(offer, sold, amount) ==
  /\ sold \in 0..amount
  /\ \E g : Sums(g, Len(offer), [i \in 1..Len(offer) |-> offer[i].amount]) /\ g[Len(offer)] = sold

LEMMA RankingFacts ==
  ASSUME NEW S, IsFiniteSet(S), NEW bid, NEW q \in Rankings(S, bid)
  PROVE  /\ Cardinality(S) \in Nat
         /\ q \in [1..Cardinality(S) -> S]
         /\ Len(q) = Cardinality(S)
         /\ \A i, j \in 1..Cardinality(S) :
              i < j => q[i] # q[j] /\ ~Precedes(bid[q[j]], bid[q[i]])
<1>1. Cardinality(S) \in Nat
  BY FS_CardinalityType
<1> QED BY <1>1 DEF Rankings

\* The loop of auctionEnd on any ranking of any bids.
THEOREM AllocationIsFair ==
  ASSUME NEW S, IsFiniteSet(S), NEW bid, \A b \in S : bid[b].bidAmount \in Nat \ {0},
         NEW q \in Rankings(S, bid), NEW amount \in Nat \ {0}
  PROVE  /\ OffersInOrder(Allocate(q, bid, amount), q, S, bid)
         /\ AddsUp(Allocate(q, bid, amount), Allocated(q, bid, amount), amount)
         /\ S # {} => Allocate(q, bid, amount) # <<>>
<1> DEFINE L == Cardinality(S)
           A == Asked(q, bid)
           a == [n \in 1..L |-> bid[q[n]].bidAmount]
           offer == Allocate(q, bid, amount)
<1>1. /\ L \in Nat /\ q \in [1..L -> S] /\ Len(q) = L
  BY RankingFacts
<1>2. /\ Sums(A, L, a) /\ a \in [1..L -> Nat \ {0}]
  BY <1>1, AskedSums
<1>3. PICK k \in 0..L : /\ Cardinality(Served(q, bid, amount)) = k
                        /\ k = L \/ A[k] >= amount
                        /\ \A n \in 0..L : n < k => A[n] < amount
                        /\ L > 0 => k > 0
  BY <1>1, ServedFirst
<1>4. /\ offer = [n \in 1..k |-> [id |-> q[n], amount |-> MinOf(a[n], amount - A[n - 1])]]
      /\ Len(offer) = k /\ DOMAIN offer = 1..k
  BY <1>1, <1>3 DEF Allocate
<1>5. \A n \in 1..L : a[n] = bid[q[n]].bidAmount
  OBVIOUS
<1>6. Allocated(q, bid, amount) = MinOf(A[L], amount)
  BY <1>1 DEF Allocated
<1>12. S # {} => L > 0
  BY <1>1, FS_EmptySet
<1> HIDE DEF A, a, offer, L
<1>7. A \in [0..L -> Nat] /\ A[0] = 0 /\ \A n \in 1..L : A[n] = A[n - 1] + a[n]
  BY <1>2 DEF Sums
<1>8. ASSUME NEW n \in 1..k
      PROVE  /\ n \in 1..L /\ n - 1 \in 0..L /\ n \in 0..L
             /\ A[n - 1] < amount /\ A[n - 1] \in Nat /\ A[n] \in Nat /\ A[n] = A[n - 1] + a[n]
             /\ a[n] \in Nat \ {0}
             /\ offer[n] = [id |-> q[n], amount |-> MinOf(a[n], amount - A[n - 1])]
             /\ offer[n].amount \in 1..a[n]
             /\ n < k => offer[n].amount = a[n]
             /\ n = k => A[n - 1] + offer[n].amount = MinOf(A[k], amount)
  <2>1. n \in 1..L /\ n - 1 \in 0..L /\ n \in 0..L /\ n - 1 < k
    BY <1>1, <1>3
  <2>2. A[n - 1] < amount /\ A[n - 1] \in Nat /\ A[n] \in Nat /\ A[n] = A[n - 1] + a[n]
    BY <1>3, <1>7, <2>1
  <2>3. a[n] \in Nat \ {0}
    BY <1>2, <2>1
  <2>4. offer[n] = [id |-> q[n], amount |-> MinOf(a[n], amount - A[n - 1])]
    BY <1>4
  <2>5. offer[n].amount \in 1..a[n] /\ (n = k => A[n - 1] + offer[n].amount = MinOf(A[k], amount))
    BY <2>2, <2>3, <2>4 DEF MinOf
  <2>6. n < k => offer[n].amount = a[n]
    <3>1. n < k => A[n] < amount
      BY <1>3, <2>1
    <3> QED BY <2>2, <2>3, <2>4, <3>1 DEF MinOf
  <2> QED BY <2>1, <2>2, <2>3, <2>4, <2>5, <2>6
<1>9. OffersInOrder(offer, q, S, bid)
  <2>1. ASSUME NEW i \in 1..k
        PROVE  /\ offer[i] = [id |-> q[i], amount |-> offer[i].amount]
               /\ offer[i].id \in S
               /\ offer[i].amount \in 1..bid[offer[i].id].bidAmount
               /\ i < k => offer[i].amount = bid[offer[i].id].bidAmount
    <3>0. /\ i \in 1..L
          /\ offer[i] = [id |-> q[i], amount |-> MinOf(a[i], amount - A[i - 1])]
          /\ offer[i].amount \in 1..a[i] /\ (i < k => offer[i].amount = a[i])
      BY <1>8
    <3>1. offer[i].id = q[i] /\ offer[i] = [id |-> q[i], amount |-> offer[i].amount]
      BY <3>0
    <3>2. a[i] = bid[q[i]].bidAmount /\ q[i] \in S
      BY <1>1, <1>5, <3>0
    <3> QED BY <3>0, <3>1, <3>2
  <2>2. k =< L
    BY <1>1, <1>3
  <2> QED BY <1>1, <1>4, <2>1, <2>2 DEF OffersInOrder
<1>10. AddsUp(offer, MinOf(A[L], amount), amount)
  <2>1. A[L] \in Nat /\ A[k] \in Nat
    BY <1>1, <1>3, <1>7
  <2>2. MinOf(A[L], amount) \in 0..amount
    BY <2>1 DEF MinOf
  <2>3. MinOf(A[L], amount) = MinOf(A[k], amount)
    <3>1. CASE k = L
      BY <3>1
    <3>2. CASE k # L
      <4>0. k < L /\ k \in 0..L /\ L \in 0..L
        BY <1>1, <1>3, <3>2
      <4>1. A[k] < A[L] /\ A[k] >= amount
        BY <1>1, <1>2, <1>3, <3>2, <4>0, SumsGrow
      <4> QED BY <2>1, <4>1 DEF MinOf
    <3> QED BY <3>1, <3>2
  <2> DEFINE g == [n \in 0..k |-> IF n = k THEN MinOf(A[k], amount) ELSE A[n]]
             b == [i \in 1..Len(offer) |-> offer[i].amount]
  <2>4. g \in [0..k -> Nat] /\ g[k] = MinOf(A[k], amount) /\ \A n \in 0..k : n < k => g[n] = A[n]
    <3>1. MinOf(A[k], amount) \in Nat
      BY <2>1 DEF MinOf
    <3>2. k \in 0..k /\ \A n \in 0..k : n \in 0..L
      BY <1>1, <1>3
    <3>3. \A n \in 0..k : A[n] \in Nat
      BY <1>7, <3>2
    <3> QED BY <3>1, <3>2, <3>3
  <2>5. g[0] = 0
    BY <1>1, <1>3, <1>7, <2>4 DEF MinOf
  <2> HIDE DEF g
  <2>6. ASSUME NEW n \in 1..k PROVE g[n] = g[n - 1] + b[n]
    <3>1. b[n] = offer[n].amount /\ n - 1 \in 0..k /\ n - 1 < k /\ g[n - 1] = A[n - 1]
      BY <1>4, <2>4
    <3>2. CASE n = k
      BY <1>8, <2>4, <3>1, <3>2
    <3>3. CASE n # k
      <4>1. n < k /\ g[n] = A[n]
        BY <2>4, <3>3
      <4> QED BY <1>8, <3>1, <4>1
    <3> QED BY <3>2, <3>3
  <2>7. Sums(g, Len(offer), b)
    BY <1>4, <2>4, <2>5, <2>6 DEF Sums
  <2> QED BY <1>4, <2>2, <2>3, <2>4, <2>7 DEF AddsUp
<1>11. S # {} => offer # <<>>
  <2>1. k > 0 => Len(offer) # 0
    BY <1>3, <1>4
  <2>2. k > 0 => offer # <<>>
    BY <2>1
  <2> QED BY <1>3, <1>12, <2>2
<1> QED BY <1>6, <1>9, <1>10, <1>11 DEF offer

\* No bid that ranks before one with an award goes without.
THEOREM BestBidsAreServed ==
  ASSUME NEW S, IsFiniteSet(S), NEW bid, \A b \in S : bid[b].bidAmount \in Nat \ {0},
         NEW q \in Rankings(S, bid), NEW amount \in Nat \ {0}
  PROVE  ~PassesOver(Allocate(q, bid, amount), S, bid)
<1> DEFINE L == Cardinality(S)
           offer == Allocate(q, bid, amount)
<1>1. /\ L \in Nat /\ q \in [1..L -> S] /\ Len(q) = L
      /\ \A i, j \in 1..L : i < j => q[i] # q[j] /\ ~Precedes(bid[q[j]], bid[q[i]])
  BY RankingFacts
<1>2. OffersInOrder(offer, q, S, bid)
  BY AllocationIsFair
<1> HIDE DEF L, offer
<1>3. SUFFICES ASSUME NEW b \in S, NEW i \in 1..Len(offer),
                      Precedes(bid[b], bid[offer[i].id]),
                      \A j \in 1..Len(offer) : offer[j].id # b
               PROVE  FALSE
  BY <1>2 DEF PassesOver, OffersInOrder, offer
<1>4. PICK n \in 1..L : q[n] = b
  <2>1. q \in Injection(1..L, S)
    BY <1>1 DEF Injection, IsInjective
  <2>2. IsFiniteSet(1..L) /\ Cardinality(1..L) = Cardinality(S)
    <3>1. IsFiniteSet(1..L) /\ Cardinality(1..L) = L
      BY <1>1, CountUpTo, Zenon
    <3> QED BY <3>1 DEF L
  <2>3. q \in Surjection(1..L, S)
    BY <2>1, <2>2, FS_Injection
  <2> QED BY <2>3 DEF Surjection
<1>5. /\ Len(offer) =< L /\ Len(offer) \in Nat
      /\ \A j \in 1..Len(offer) : offer[j].id = q[j]
  BY <1>1, <1>2 DEF OffersInOrder
<1>6. i \in 1..L /\ i < n
  BY <1>1, <1>3, <1>4, <1>5
<1>7. ~Precedes(bid[q[n]], bid[q[i]])
  BY <1>1, <1>4, <1>6
<1> QED BY <1>3, <1>4, <1>5, <1>7

=============================================================================
