-------------------------- MODULE EvaluationProof --------------------------
(***************************************************************************)
(* Proofs about what an evaluation counts: AbReport, for any tasks, scores *)
(* and number of runs, and Captured, for any calls of tools, task files    *)
(* and drafts.                                                             *)
(***************************************************************************)
EXTENDS AbReport, Audit, FiniteSetTheorems, TLAPS

-----------------------------------------------------------------------------
(* Finite sets: induction, in the form of a smallest counterexample        *)

LEMMA SmallestSubset ==
  ASSUME NEW T, IsFiniteSet(T), NEW bad, bad \subseteq SUBSET T, bad # {}
  PROVE  \E b \in bad : \A s \in bad : s \subseteq b => s = b
<1>1. IsWellFoundedOn(StrictSubsetOrdering(T), SUBSET T)
  BY FS_StrictSubsetOrderingWellFounded, FS_FiniteSubsetsOfFinite
<1>2. PICK b \in bad : \A s \in bad : ~ <<s, b>> \in StrictSubsetOrdering(T)
  BY <1>1, WFMin
<1>3. ASSUME NEW s \in bad, s \subseteq b, s # b PROVE FALSE
  BY <1>2, <1>3 DEF StrictSubsetOrdering
<1> QED  BY <1>3

LEMMA SmallestNumber ==
  ASSUME NEW N, N \subseteq Nat, N # {}
  PROVE  \E k \in N : \A l \in N : k <= l
<1>1. PICK k \in N : \A l \in N : ~ <<l, k>> \in OpToRel(<, Nat)
  BY NatLessThanWellFounded, WFMin
<1>2. ASSUME NEW l \in N PROVE k <= l
  <2>1. k \in Nat /\ l \in Nat  OBVIOUS
  <2>2. ~ l < k  BY <1>1, <2>1 DEF OpToRel
  <2> QED  BY <2>1, <2>2
<1> QED  BY <1>2

LEMMA SubsetInduction ==
  ASSUME NEW T, IsFiniteSet(T), NEW good, {} \in good,
         \A s \in SUBSET T : s # {} /\ (\A x \in s : s \ {x} \in good) => s \in good
  PROVE  \A s \in SUBSET T : s \in good
<1> DEFINE bad == {s \in SUBSET T : s \notin good}
<1>1. ASSUME bad # {} PROVE FALSE
  <2>1. PICK b \in bad : \A s \in bad : s \subseteq b => s = b
    <3>1. bad \subseteq SUBSET T  OBVIOUS
    <3> HIDE DEF bad
    <3> QED  BY <1>1, <3>1, SmallestSubset
  <2>2. \A x \in b : b \ {x} \in good  BY <2>1
  <2>3. b \in SUBSET T /\ b \notin good  BY <2>1 DEF bad
  <2>4. b # {}  BY <2>3
  <2> QED  BY <2>2, <2>3, <2>4
<1> QED  BY <1>1

LEMMA Extremes ==
  ASSUME NEW S, IsFiniteSet(S), S \subseteq Nat, S # {}
  PROVE  /\ Min(S) \in S /\ \A x \in S : Min(S) <= x
         /\ Max(S) \in S /\ \A x \in S : x <= Max(S)
<1> DEFINE Bounded(s) == \E lo, hi \in s : \A x \in s : lo <= x /\ x <= hi
           bad == {s \in SUBSET S : s # {} /\ ~ Bounded(s)}
<1> HIDE DEF Bounded, bad
<1>0. bad \subseteq SUBSET S /\ IsFiniteSet(S)  BY DEF bad
<1>1. CASE bad # {}
  <2>1. PICK b \in bad : \A s \in bad : s \subseteq b => s = b
    BY ONLY <1>0, <1>1, SmallestSubset
  <2>2. b \in SUBSET S /\ b # {} /\ ~ Bounded(b)  BY <2>1 DEF bad
  <2>3. PICK p \in b : p \in Nat  BY <2>2
  <2> DEFINE rest == b \ {p}
  <2>4. rest \subseteq Nat /\ \A x \in b : x = p \/ x \in rest  BY <2>2
  <2>5. CASE rest = {}
    <3>1. \A x \in b : p <= x /\ x <= p  BY <2>3, <2>4, <2>5
    <3> QED  BY <2>2, <2>3, <3>1 DEF Bounded
  <2>6. CASE rest # {}
    <3>1. rest \in SUBSET S /\ rest \notin bad  BY <2>1, <2>2, <2>3
    <3> HIDE DEF rest
    <3>2. Bounded(rest)  BY <2>6, <3>1 DEF bad
    <3>3. PICK lo \in rest, hi \in rest : \A x \in rest : lo <= x /\ x <= hi
      BY <3>2 DEF Bounded
    <3>4. p \in Nat /\ lo \in Nat /\ hi \in Nat  BY <2>3, <2>4, <3>3
    <3>5. PICK l \in {p, lo} : l <= p /\ l <= lo  BY <3>4
    <3>6. PICK u \in {p, hi} : p <= u /\ hi <= u  BY <3>4
    <3>7. l \in b /\ u \in b  BY <2>3, <3>3, <3>5, <3>6 DEF rest
    <3>8. ASSUME NEW x \in rest PROVE l <= x /\ x <= u
      <4>1. x \in Nat /\ lo <= x /\ x <= hi  BY <2>4, <3>3
      <4>2. l \in Nat /\ u \in Nat  BY <3>4, <3>5, <3>6
      <4> QED  BY <3>4, <3>5, <3>6, <4>1, <4>2
    <3>9. \A x \in b : l <= x /\ x <= u  BY <2>4, <3>5, <3>6, <3>8
    <3> QED  BY <2>2, <3>7, <3>9 DEF Bounded
  <2> QED  BY <2>5, <2>6
<1>2. CASE bad = {}
  <2>1. PICK lo \in S, hi \in S : \A x \in S : lo <= x /\ x <= hi
    BY <1>2 DEF bad, Bounded
  <2>2. Min(S) \in S /\ \A x \in S : Min(S) <= x  BY <2>1 DEF Min
  <2>3. \A x \in S : hi >= x  BY <2>1
  <2>4. Max(S) \in S /\ \A x \in S : Max(S) >= x  BY <2>3 DEF Max
  <2> QED  BY <2>2, <2>4
<1> QED  BY <1>1, <1>2

(* The union of some of several disjoint classes, and one more.            *)
Classes(c, T, D) ==
  /\ c \in [T -> SUBSET D] /\ IsFiniteSet(D)
  /\ \A x, y \in T : x # y => c[x] \cap c[y] = {}
All(c, s) == UNION {c[x] : x \in s}

LEMMA OneMoreClass ==
  ASSUME NEW T, NEW D, NEW c, Classes(c, T, D), NEW s \in SUBSET T, NEW x \in s
  PROVE  /\ Cardinality(All(c, s)) = Cardinality(c[x]) + Cardinality(All(c, s \ {x}))
         /\ Cardinality(c[x]) \in Nat /\ Cardinality(All(c, s \ {x})) \in Nat
<1> DEFINE rest == All(c, s \ {x})
<1>1. c[x] \in SUBSET D /\ rest \in SUBSET D /\ IsFiniteSet(D)  BY DEF Classes, All
<1>2. All(c, s) = c[x] \cup rest  BY DEF All
<1>3. c[x] \cap rest = {}  BY DEF Classes, All
<1> HIDE DEF rest
<1>4. IsFiniteSet(c[x]) /\ IsFiniteSet(rest)  BY <1>1, FS_Subset
<1>5. Cardinality(c[x]) \in Nat /\ Cardinality(rest) \in Nat  BY <1>4, FS_CardinalityType
<1>6. Cardinality(c[x] \cap rest) = 0  BY <1>3, FS_EmptySet
<1>7. Cardinality(c[x] \cup rest) = Cardinality(c[x]) + Cardinality(rest) - Cardinality(c[x] \cap rest)
  BY <1>4, FS_Union
<1>8. Cardinality(All(c, s)) = Cardinality(c[x]) + Cardinality(rest)  BY <1>2, <1>5, <1>6, <1>7
<1> QED  BY <1>5, <1>8 DEF rest

(* A sum of sizes is the size of the union: that size meets the equation   *)
(* of the fold, and no other function does.                                *)
LEMMA SumOfClasses ==
  ASSUME NEW T, IsFiniteSet(T), NEW D, NEW c, Classes(c, T, D),
         NEW h, DOMAIN h = T, \A x \in T : h[x] = Cardinality(c[x])
  PROVE  SumFunction(h) = Cardinality(All(c, T))
<1> DEFINE Pick(s) == CHOOSE x \in s : TRUE
           g       == [s \in SUBSET T |-> Cardinality(All(c, s))]
           Sat(f)  == f = [s \in SUBSET T |-> IF s = {} THEN 0 ELSE h[Pick(s)] + f[s \ {Pick(s)}]]
<1>1. ASSUME NEW s \in SUBSET T
      PROVE  g[s] = IF s = {} THEN 0 ELSE h[Pick(s)] + g[s \ {Pick(s)}]
  <2>1. CASE s = {}
    <3>1. All(c, s) = {}  BY <2>1 DEF All
    <3> QED  BY <2>1, <3>1, FS_EmptySet
  <2>2. CASE s # {}
    <3>1. Pick(s) \in s /\ Pick(s) \in T /\ s \ {Pick(s)} \in SUBSET T  BY <2>2
    <3> DEFINE p == Pick(s)
    <3> HIDE DEF Pick
    <3>2. Cardinality(All(c, s)) = Cardinality(c[p]) + Cardinality(All(c, s \ {p}))
      BY <3>1, OneMoreClass
    <3> QED  BY <2>2, <3>1, <3>2
  <2> QED  BY <2>1, <2>2
<1>2. Sat(g)
  <2> DEFINE rhs(s) == IF s = {} THEN 0 ELSE h[Pick(s)] + g[s \ {Pick(s)}]
  <2>1. g = [s \in SUBSET T |-> g[s]]  OBVIOUS
  <2>2. \A s \in SUBSET T : g[s] = rhs(s)  BY <1>1
  <2> HIDE DEF rhs, g
  <2>3. g = [s \in SUBSET T |-> rhs(s)]  BY <2>1, <2>2
  <2> QED  BY <2>3 DEF rhs
<1> DEFINE f == CHOOSE f : Sat(f)
<1>3. Sat(f)  BY <1>2
<1>4. SumFunction(h) = f[T]
  BY DEF SumFunction, SumFunctionOnSet, FoldFunctionOnSet, MapThenFoldSet
<1> HIDE DEF f
<1>5. ASSUME NEW s \in SUBSET T, f[s] # g[s] PROVE FALSE
  <2> DEFINE bad == {x \in SUBSET T : f[x] # g[x]}
  <2>1. PICK b \in bad : \A y \in bad : y \subseteq b => y = b
    <3>1. bad \subseteq SUBSET T /\ bad # {}  BY <1>5
    <3> HIDE DEF bad
    <3> QED  BY <3>1, SmallestSubset
  <2>2. b \in SUBSET T /\ f[b] # g[b]  BY <2>1
  <2>3. f[b] = IF b = {} THEN 0 ELSE h[Pick(b)] + f[b \ {Pick(b)}]
    <3> HIDE DEF Pick, g, bad
    <3> QED  BY <1>3, <2>2
  <2>4. b # {} /\ Pick(b) \in b  BY <1>1, <2>2, <2>3
  <2>5. b \ {Pick(b)} \in SUBSET T /\ b \ {Pick(b)} \subseteq b /\ b \ {Pick(b)} # b  BY <2>2, <2>4
  <2>6. f[b \ {Pick(b)}] = g[b \ {Pick(b)}]  BY <2>1, <2>5
  <2>7. g[b] = h[Pick(b)] + g[b \ {Pick(b)}]  BY <1>1, <2>2, <2>4
  <2> QED  BY <2>2, <2>3, <2>4, <2>6, <2>7
<1>6. f[T] = g[T]  BY <1>5
<1> QED  BY <1>4, <1>6

-----------------------------------------------------------------------------
(* Sums and means of fractions                                             *)

(* The sum of h over T is the last of the sums over the subsets of T, each *)
(* that of a smaller subset and one more fraction.                         *)
Sums(g, h, T) ==
  /\ g[{}] = <<0, 1>>
  /\ \A s \in SUBSET T : s # {} => \E x \in s : g[s] = Plus(h[x], g[s \ {x}])

LEMMA SumUnfolds ==
  ASSUME NEW T, IsFiniteSet(T), NEW h, DOMAIN h = T
  PROVE  \E g : Sums(g, h, T) /\ SumOf(h) = g[T]
<1> DEFINE Pick(s)    == CHOOSE x \in s : TRUE
           OneMore(f, s) == IF s = {} THEN <<0, 1>> ELSE Plus(h[Pick(s)], f[s \ {Pick(s)}])
           Sat(f)     == f = [s \in SUBSET T |-> OneMore(f, s)]
           UpTo(f, k) == \A s \in SUBSET T : Cardinality(s) <= k => f[s] = OneMore(f, s)
           wrong      == {k \in Nat : \A f : ~ UpTo(f, k)}
<1>p. ASSUME NEW s \in SUBSET T, s # {}
      PROVE  /\ Pick(s) \in s /\ s \ {Pick(s)} \in SUBSET T
             /\ Cardinality(s) \in Nat /\ Cardinality(s \ {Pick(s)}) = Cardinality(s) - 1
  <2>1. Pick(s) \in s  BY <1>p
  <2>2. IsFiniteSet(s)  BY FS_Subset
  <2> HIDE DEF Pick
  <2>3. Cardinality(s) \in Nat  BY <2>2, FS_CardinalityType
  <2>4. Cardinality(s \ {Pick(s)}) = Cardinality(s) - 1  BY <2>1, <2>2, FS_RemoveElement
  <2> QED  BY <2>1, <2>3, <2>4
<1> HIDE DEF Pick
<1>1. ASSUME NEW k \in wrong PROVE \E l \in wrong : l < k
  <2>0. k \in Nat /\ \A f : ~ UpTo(f, k)  OBVIOUS
  <2>1. CASE k = 0
    <3> DEFINE f0 == [s \in SUBSET T |-> <<0, 1>>]
    <3>1. ASSUME NEW s \in SUBSET T, Cardinality(s) <= 0 PROVE f0[s] = OneMore(f0, s)
      <4>1. s = {}
        <5>1. IsFiniteSet(s)  BY FS_Subset
        <5>2. Cardinality(s) = 0  BY <3>1, <5>1, FS_CardinalityType
        <5> QED  BY <5>1, <5>2, FS_EmptySet
      <4> QED  BY <4>1
    <3>2. UpTo(f0, 0)  BY <3>1
    <3> HIDE DEF UpTo
    <3> QED  BY <2>0, <2>1, <3>2
  <2>2. CASE k # 0
    <3>1. k - 1 \in Nat /\ k - 1 < k  BY <2>0, <2>2
    <3>2. ASSUME NEW f, UpTo(f, k - 1) PROVE FALSE
      <4> DEFINE f1 == [s \in SUBSET T |-> OneMore(f, s)]
      <4>1. ASSUME NEW s \in SUBSET T, Cardinality(s) <= k PROVE f1[s] = OneMore(f1, s)
        <5>1. CASE s = {}  BY <5>1
        <5>2. CASE s # {}
          <6> DEFINE r == s \ {Pick(s)}
          <6>1. r \in SUBSET T /\ Cardinality(r) <= k - 1  BY <1>p, <2>0, <4>1, <5>2
          <6>2. f[r] = OneMore(f, r)  BY <3>2, <6>1
          <6>3. f1[r] = OneMore(f, r)  BY <6>1
          <6>4. f1[s] = OneMore(f, s)  OBVIOUS
          <6> HIDE DEF f1
          <6> QED  BY <5>2, <6>2, <6>3, <6>4
        <5> QED  BY <5>1, <5>2
      <4>2. UpTo(f1, k)  BY <4>1
      <4> HIDE DEF UpTo, f1
      <4> QED  BY <2>0, <4>2
    <3>3. k - 1 \in wrong  BY <3>1, <3>2
    <3> QED  BY <3>1, <3>3
  <2> QED  BY <2>1, <2>2
<1>2. wrong = {}
  <2>1. ASSUME wrong # {} PROVE FALSE
    <3>1. wrong \subseteq Nat  OBVIOUS
    <3> HIDE DEF wrong
    <3>2. PICK k \in wrong : \A l \in wrong : k <= l  BY <2>1, <3>1, SmallestNumber
    <3>3. PICK l \in wrong : l < k  BY <1>1
    <3>4. k \in Nat /\ l \in Nat /\ k <= l  BY <3>1, <3>2
    <3> QED  BY <3>3, <3>4
  <2> QED  BY <2>1
<1>3. PICK f : UpTo(f, Cardinality(T))
  <2>1. Cardinality(T) \in Nat  BY FS_CardinalityType
  <2> HIDE DEF UpTo
  <2> QED  BY <1>2, <2>1
<1> DEFINE e == [s \in SUBSET T |-> f[s]]
<1>4. Sat(e)
  <2>1. ASSUME NEW s \in SUBSET T PROVE f[s] = OneMore(e, s)
    <3>1. Cardinality(s) <= Cardinality(T)  BY FS_Subset
    <3>2. f[s] = OneMore(f, s)  BY <1>3, <3>1
    <3>3. s # {} => s \ {Pick(s)} \in SUBSET T  OBVIOUS
    <3>4. s # {} => e[s \ {Pick(s)}] = f[s \ {Pick(s)}]  BY <3>3
    <3> HIDE DEF e
    <3> QED  BY <3>2, <3>4
  <2> HIDE DEF OneMore
  <2>2. e = [s \in SUBSET T |-> OneMore(e, s)]
    <3> DEFINE rhs(s) == OneMore(e, s)
    <3>1. \A s \in SUBSET T : f[s] = rhs(s)  BY <2>1
    <3> HIDE DEF rhs
    <3>2. [s \in SUBSET T |-> f[s]] = [s \in SUBSET T |-> rhs(s)]  BY <3>1
    <3> QED  BY <3>2 DEF rhs
  <2> QED  BY <2>2
<1> DEFINE g == CHOOSE g : Sat(g)
<1>5. Sat(g)
  <2> HIDE DEF Sat, e
  <2> QED  BY <1>4
<1>6. SumOf(h) = g[T]
  BY DEF SumOf, FoldFunction, FoldFunctionOnSet, MapThenFoldSet, Pick
<1> HIDE DEF g
<1>7. ASSUME NEW s \in SUBSET T PROVE g[s] = OneMore(g, s)
  <2> DEFINE rhs(s2) == OneMore(g, s2)
  <2>1. g = [s2 \in SUBSET T |-> rhs(s2)]  BY <1>5
  <2> HIDE DEF rhs
  <2>2. g[s] = rhs(s)  BY <2>1
  <2> QED  BY <2>2 DEF rhs
<1>8. Sums(g, h, T)
  <2>1. g[{}] = <<0, 1>>  BY <1>7
  <2>2. ASSUME NEW s \in SUBSET T, s # {} PROVE \E x \in s : g[s] = Plus(h[x], g[s \ {x}])
    BY <1>p, <1>7, <2>2
  <2> QED  BY <2>1, <2>2 DEF Sums
<1> QED  BY <1>6, <1>8

LEMMA PlusType ==
  ASSUME NEW x \in Fractions, NEW y \in Fractions
  PROVE  Plus(x, y) \in Fractions
<1>1. x[1] \in Int /\ x[2] \in Nat \ {0} /\ y[1] \in Int /\ y[2] \in Nat \ {0}  BY DEF Fractions
<1>2. x[1] * y[2] + y[1] * x[2] \in Int  BY <1>1
<1>3. x[2] * y[2] \in Nat \ {0}  BY <1>1
<1> QED  BY <1>2, <1>3 DEF Plus, Fractions

LEMMA SumsType ==
  ASSUME NEW T, IsFiniteSet(T), NEW h \in [T -> Fractions], NEW g, Sums(g, h, T)
  PROVE  \A s \in SUBSET T : g[s] \in Fractions
<1> DEFINE good == {s \in SUBSET T : g[s] \in Fractions}
<1>1. {} \in good
  <2>1. g[{}] = <<0, 1>>  BY DEF Sums
  <2>2. <<0, 1>> \in Fractions  BY DEF Fractions
  <2> QED  BY <2>1, <2>2
<1>2. ASSUME NEW s \in SUBSET T, s # {}, \A x \in s : s \ {x} \in good PROVE s \in good
  <2>1. PICK x \in s : g[s] = Plus(h[x], g[s \ {x}])  BY <1>2 DEF Sums
  <2>2. h[x] \in Fractions /\ g[s \ {x}] \in Fractions  BY <1>2
  <2> QED  BY <2>1, <2>2, PlusType
<1> HIDE DEF good
<1>3. \A s \in SUBSET T : s \in good  BY <1>1, <1>2, SubsetInduction
<1> QED  BY <1>3 DEF good

(* Where R times each fraction is the size of a class, R times the sum is  *)
(* the size of their union.                                                *)
LEMMA SameWeight ==
  ASSUME NEW x \in Fractions, NEW y \in Fractions, NEW R \in Nat,
         NEW m \in Nat, NEW n \in Nat, x[1] * R = m * x[2], y[1] * R = n * y[2]
  PROVE  Plus(x, y)[1] * R = (m + n) * Plus(x, y)[2]
<1>1. ASSUME NEW a \in Int, NEW b \in Int, NEW u \in Int, NEW v \in Int,
             a * R = m * b, u * R = n * v
      PROVE  (a * v + u * b) * R = (m + n) * (b * v)
  <2>1. (a * v + u * b) * R = (a * R) * v + (u * R) * b  OBVIOUS
  <2>2. (m * b) * v + (n * v) * b = (m + n) * (b * v)  OBVIOUS
  <2> QED  BY <1>1, <2>1, <2>2
<1>2. x[1] \in Int /\ x[2] \in Int /\ y[1] \in Int /\ y[2] \in Int  BY DEF Fractions
<1> DEFINE a == x[1]  b == x[2]  u == y[1]  v == y[2]
<1>3. (a * v + u * b) * R = (m + n) * (b * v)
  <2>1. a \in Int /\ b \in Int /\ u \in Int /\ v \in Int /\ a * R = m * b /\ u * R = n * v
    BY <1>2
  <2> HIDE DEF a, b, u, v
  <2> QED  BY <1>1, <2>1
<1> QED  BY <1>3 DEF Plus

LEMMA WeighedSum ==
  ASSUME NEW T, IsFiniteSet(T), NEW D, NEW c, Classes(c, T, D),
         NEW h \in [T -> Fractions], NEW R \in Nat,
         \A x \in T : h[x][1] * R = Cardinality(c[x]) * h[x][2]
  PROVE  SumOf(h)[1] * R = Cardinality(All(c, T)) * SumOf(h)[2]
<1>1. PICK g : Sums(g, h, T) /\ SumOf(h) = g[T]  BY SumUnfolds
<1>2. \A s \in SUBSET T : g[s] \in Fractions  BY <1>1, SumsType
<1> DEFINE good == {s \in SUBSET T : g[s][1] * R = Cardinality(All(c, s)) * g[s][2]}
<1>3. {} \in good
  <2>1. All(c, {}) = {}  BY DEF All
  <2>2. Cardinality({}) = 0  BY FS_EmptySet
  <2>3. g[{}] = <<0, 1>>  BY <1>1 DEF Sums
  <2> QED  BY <2>1, <2>2, <2>3
<1>4. ASSUME NEW s \in SUBSET T, s # {}, \A x \in s : s \ {x} \in good PROVE s \in good
  <2>1. PICK x \in s : g[s] = Plus(h[x], g[s \ {x}])  BY <1>1, <1>4 DEF Sums
  <2> DEFINE r == s \ {x}
  <2>2. /\ Cardinality(All(c, s)) = Cardinality(c[x]) + Cardinality(All(c, r))
        /\ Cardinality(c[x]) \in Nat /\ Cardinality(All(c, r)) \in Nat
    BY OneMoreClass
  <2>3. h[x] \in Fractions /\ g[r] \in Fractions  BY <1>2
  <2>4. h[x][1] * R = Cardinality(c[x]) * h[x][2]  OBVIOUS
  <2>5. g[r][1] * R = Cardinality(All(c, r)) * g[r][2]  BY <1>4
  <2> HIDE DEF r, good
  <2> DEFINE m == Cardinality(c[x])  n == Cardinality(All(c, r))  y == g[r]
  <2>6. /\ m \in Nat /\ n \in Nat /\ Cardinality(All(c, s)) = m + n
        /\ h[x] \in Fractions /\ y \in Fractions
        /\ h[x][1] * R = m * h[x][2] /\ y[1] * R = n * y[2]
    BY <2>2, <2>3, <2>4, <2>5
  <2>8. g[s] = Plus(h[x], y)  BY <2>1 DEF r
  <2> HIDE DEF m, n, y
  <2>7. Plus(h[x], y)[1] * R = (m + n) * Plus(h[x], y)[2]  BY <2>6, SameWeight
  <2>9. g[s][1] * R = Cardinality(All(c, s)) * g[s][2]  BY <2>6, <2>7, <2>8
  <2> QED  BY <2>9 DEF good
<1> HIDE DEF good
<1>5. \A s \in SUBSET T : s \in good  BY <1>3, <1>4, SubsetInduction
<1>6. T \in good  BY <1>5
<1> QED  BY <1>1, <1>6 DEF good

LEMMA MeanType ==
  ASSUME NEW T, IsFiniteSet(T), T # {}, NEW h \in [T -> Fractions]
  PROVE  /\ MeanOf(h) = <<SumOf(h)[1], SumOf(h)[2] * Cardinality(T)>>
         /\ MeanOf(h) \in Fractions /\ SumOf(h) \in Fractions
         /\ Cardinality(T) \in Nat \ {0}
<1>1. PICK g : Sums(g, h, T) /\ SumOf(h) = g[T]  BY SumUnfolds
<1>2. SumOf(h) \in Fractions  BY <1>1, SumsType
<1>3. Cardinality(T) \in Nat \ {0}  BY FS_CardinalityType, FS_EmptySet
<1>4. MeanOf(h) = <<SumOf(h)[1], SumOf(h)[2] * Cardinality(T)>>  BY DEF MeanOf
<1> DEFINE n == SumOf(h)[1]  d == SumOf(h)[2]  k == Cardinality(T)
<1>5. n \in Int /\ d \in Nat \ {0}  BY <1>2 DEF Fractions
<1>6. d * k \in Nat \ {0}
  <2> HIDE DEF d, k
  <2>1. k \in Nat \ {0}  BY <1>3 DEF k
  <2> QED  BY <1>5, <2>1
<1>7. <<n, d * k>> \in Fractions
  <2> HIDE DEF n, d, k
  <2> QED  BY <1>5, <1>6 DEF Fractions
<1> QED  BY <1>2, <1>3, <1>4, <1>7

LEMMA WeighedMean ==
  ASSUME NEW T, IsFiniteSet(T), T # {}, NEW D, NEW c, Classes(c, T, D),
         NEW h \in [T -> Fractions], NEW R \in Nat,
         \A x \in T : h[x][1] * R = Cardinality(c[x]) * h[x][2]
  PROVE  MeanOf(h)[1] * (R * Cardinality(T)) = Cardinality(All(c, T)) * MeanOf(h)[2]
<1> DEFINE n == SumOf(h)[1]  d == SumOf(h)[2]  k == Cardinality(T)  m == Cardinality(All(c, T))
<1>1. MeanOf(h) = <<n, d * k>>  BY MeanType
<1>2. SumOf(h) \in Fractions /\ k \in Nat  BY MeanType
<1>3. n \in Int /\ d \in Nat  BY <1>2 DEF Fractions
<1>4. n * R = m * d  BY WeighedSum
<1>5. m \in Nat
  <2>1. All(c, T) \in SUBSET D /\ IsFiniteSet(D)  BY DEF Classes, All
  <2> QED  BY <2>1, FS_Subset, FS_CardinalityType
<1>6. n * (R * k) = m * (d * k)
  <2> HIDE DEF n, d, k, m
  <2>1. n * (R * k) = (n * R) * k  BY <1>2, <1>3
  <2>2. m * (d * k) = (m * d) * k  BY <1>2, <1>3, <1>5
  <2> QED  BY <1>4, <2>1, <2>2
<1> QED  BY <1>1, <1>6

(* One more fraction, and the bounds hold for one more.                    *)
LEMMA OneMoreBounded ==
  ASSUME NEW a \in Int, NEW b \in Nat, NEW u \in Int, NEW v \in Nat,
         NEW p \in Int, NEW q \in Nat, NEW k \in Nat
  PROVE  /\ p * b <= a * q /\ (p * k) * v <= u * q
              => (p * (k + 1)) * (b * v) <= (a * v + u * b) * q
         /\ a * q <= p * b /\ u * q <= (p * k) * v
              => (a * v + u * b) * q <= (p * (k + 1)) * (b * v)
<1>1. ASSUME NEW x \in Int, NEW y \in Int, NEW z \in Nat, x <= y PROVE x * z <= y * z
  BY <1>1
<1>2. (p * (k + 1)) * (b * v) = (p * b) * v + ((p * k) * v) * b  OBVIOUS
<1>3. (a * v + u * b) * q = (a * q) * v + (u * q) * b  OBVIOUS
<1>4. p * b \in Int /\ a * q \in Int /\ (p * k) * v \in Int /\ u * q \in Int  OBVIOUS
<1> DEFINE pb == p * b  aq == a * q  pkv == (p * k) * v  uq == u * q
<1>5. ASSUME pb <= aq, pkv <= uq PROVE pb * v + pkv * b <= aq * v + uq * b
  <2> HIDE DEF pb, aq, pkv, uq
  <2>1. pb \in Int /\ aq \in Int /\ pkv \in Int /\ uq \in Int  BY <1>4 DEF pb, aq, pkv, uq
  <2>2. pb * v <= aq * v /\ pkv * b <= uq * b  BY <1>1, <1>5, <2>1
  <2>3. pb * v \in Int /\ aq * v \in Int /\ pkv * b \in Int /\ uq * b \in Int  BY <2>1
  <2> QED  BY <2>2, <2>3
<1>6. ASSUME aq <= pb, uq <= pkv PROVE aq * v + uq * b <= pb * v + pkv * b
  <2> HIDE DEF pb, aq, pkv, uq
  <2>1. pb \in Int /\ aq \in Int /\ pkv \in Int /\ uq \in Int  BY <1>4 DEF pb, aq, pkv, uq
  <2>2. aq * v <= pb * v /\ uq * b <= pkv * b  BY <1>1, <1>6, <2>1
  <2>3. pb * v \in Int /\ aq * v \in Int /\ pkv * b \in Int /\ uq * b \in Int  BY <2>1
  <2> QED  BY <2>2, <2>3
<1> QED  BY <1>2, <1>3, <1>5, <1>6

LEMMA MeanBetween ==
  ASSUME NEW T, IsFiniteSet(T), T # {}, NEW h \in [T -> Fractions],
         NEW lo \in Int, NEW hi \in Int, NEW q \in Nat \ {0},
         \A x \in T : Leq(<<lo, q>>, h[x]) /\ Leq(h[x], <<hi, q>>)
  PROVE  /\ MeanOf(h) \in Fractions
         /\ Leq(<<lo, q>>, MeanOf(h)) /\ Leq(MeanOf(h), <<hi, q>>)
<1>1. PICK g : Sums(g, h, T) /\ SumOf(h) = g[T]  BY SumUnfolds
<1>2. \A s \in SUBSET T : g[s] \in Fractions  BY <1>1, SumsType
<1> DEFINE Bounded(s) == /\ (lo * Cardinality(s)) * g[s][2] <= g[s][1] * q
                         /\ g[s][1] * q <= (hi * Cardinality(s)) * g[s][2]
           good == {s \in SUBSET T : Bounded(s)}
<1>3. {} \in good
  <2>1. Cardinality({}) = 0  BY FS_EmptySet
  <2>2. g[{}] = <<0, 1>>  BY <1>1 DEF Sums
  <2> QED  BY <2>1, <2>2
<1>4. ASSUME NEW s \in SUBSET T, s # {}, \A x \in s : s \ {x} \in good PROVE s \in good
  <2>1. PICK x \in s : g[s] = Plus(h[x], g[s \ {x}])  BY <1>1, <1>4 DEF Sums
  <2> DEFINE r == s \ {x}  k == Cardinality(r)  y == g[r]
             a == h[x][1]  b == h[x][2]  u == y[1]  v == y[2]
  <2>2. Cardinality(s) = k + 1 /\ k \in Nat
    <3>1. IsFiniteSet(s) /\ IsFiniteSet(r)  BY FS_Subset
    <3>2. Cardinality(s) \in Nat /\ k \in Nat  BY <3>1, FS_CardinalityType
    <3>3. k = Cardinality(s) - 1  BY <3>1, FS_RemoveElement
    <3> QED  BY <3>2, <3>3
  <2>3. a \in Int /\ b \in Nat \ {0} /\ u \in Int /\ v \in Nat \ {0}
    <3>1. h[x] \in Fractions /\ y \in Fractions  BY <1>2
    <3> QED  BY <3>1 DEF Fractions
  <2>4. lo * b <= a * q /\ a * q <= hi * b  BY DEF Leq
  <2>5. (lo * k) * v <= u * q /\ u * q <= (hi * k) * v
    <3>1. Bounded(r)  BY <1>4
    <3> QED  BY <3>1
  <2>6. g[s] = <<a * v + u * b, b * v>>  BY <2>1 DEF Plus
  <2> HIDE DEF r, k, y, a, b, u, v
  <2>7. (lo * (k + 1)) * (b * v) <= (a * v + u * b) * q  BY <2>2, <2>3, <2>4, <2>5, OneMoreBounded
  <2>8. (a * v + u * b) * q <= (hi * (k + 1)) * (b * v)  BY <2>2, <2>3, <2>4, <2>5, OneMoreBounded
  <2> QED  BY <2>2, <2>6, <2>7, <2>8
<1> HIDE DEF good
<1>5. \A s \in SUBSET T : s \in good  BY <1>3, <1>4, SubsetInduction
<1>6. Bounded(T)  BY <1>5 DEF good
<1> DEFINE n == g[T][1]  d == g[T][2]  k == Cardinality(T)
<1>7. n \in Int /\ d \in Nat \ {0}  BY <1>2 DEF Fractions
<1>8. k \in Nat \ {0}  BY FS_CardinalityType, FS_EmptySet
<1>9. MeanOf(h) = <<n, d * k>>  BY <1>1 DEF MeanOf
<1>10. (lo * k) * d <= n * q /\ n * q <= (hi * k) * d  BY <1>6
<1> HIDE DEF n, d, k
<1>11. d * k \in Nat \ {0}  BY <1>7, <1>8
<1>12. lo * (d * k) = (lo * k) * d /\ hi * (d * k) = (hi * k) * d  BY <1>7, <1>8
<1> QED  BY <1>7, <1>9, <1>10, <1>11, <1>12 DEF Leq, Fractions

-----------------------------------------------------------------------------
(* The tasks and the samples                                               *)

LEMMA TasksFinite ==
  IsFiniteSet(Tasks) /\ Tasks # {} /\ Cardinality(Tasks) \in Nat \ {0}
<1>1. TaskList \in Seq(Tasks) /\ TaskList # <<>>  BY AbReportAssumption
<1>2. DOMAIN TaskList = 1..Len(TaskList) /\ Len(TaskList) \in Nat \ {0}  BY <1>1
<1> DEFINE f == [t \in 1..Len(TaskList) |-> TaskList[t]]
<1>3. f \in Surjection(1..Len(TaskList), Tasks)  BY <1>2 DEF Surjection, Tasks
<1>4. IsFiniteSet(1..Len(TaskList))  BY <1>2, FS_Interval
<1>5. IsFiniteSet(Tasks)  BY <1>3, <1>4, FS_Surjection
<1>6. TaskList[1] \in Tasks  BY <1>2 DEF Tasks
<1> QED  BY <1>5, <1>6, FS_CardinalityType, FS_EmptySet

LEMMA IntervalSize ==
  ASSUME NEW n \in Nat
  PROVE  IsFiniteSet(1..n) /\ Cardinality(1..n) = n
<1>1. 1 \in Int /\ n \in Int  OBVIOUS
<1>2. /\ IsFiniteSet(1..n)
      /\ Cardinality(1..n) = IF 1 > n THEN 0 ELSE n - 1 + 1
  BY <1>1, FS_Interval
<1> QED  BY <1>2

LEMMA SamplesFinite ==
  IsFiniteSet(Samples) /\ Cardinality(Samples) = Runs * Cardinality(Tasks)
<1>1. Runs \in Nat \ {0}  BY AbReportAssumption
<1>2. IsFiniteSet(1..Runs) /\ Cardinality(1..Runs) = Runs  BY <1>1, FS_Interval
<1>3. IsFiniteSet(Tasks)  BY TasksFinite
<1> QED  BY <1>2, <1>3, FS_Product DEF Samples

LEMMA Row ==
  ASSUME NEW N, IsFiniteSet(N), NEW t
  PROVE  Cardinality(N \X {t}) = Cardinality(N) /\ Cardinality(N) \in Nat
<1>1. IsFiniteSet({t}) /\ Cardinality({t}) = 1  BY FS_Singleton
<1>2. Cardinality(N \X {t}) = Cardinality(N) * Cardinality({t})  BY <1>1, FS_Product
<1>3. Cardinality(N) \in Nat  BY FS_CardinalityType
<1> QED  BY <1>1, <1>2, <1>3

-----------------------------------------------------------------------------
(* How the samples are collected                                           *)

Collected ==
  /\ aReports \in Seq(Reports) /\ bReports \in Seq(Reports)
  /\ pc \in {"A", "B", "report", "failed"}
  /\ pc = "A" => Len(aReports) = Len(bReports) /\ Len(bReports) < Runs
  /\ pc = "B" => Len(aReports) = Len(bReports) + 1 /\ Len(aReports) <= Runs
  /\ pc = "report" => Len(aReports) = Runs /\ Len(bReports) = Runs

LEMMA CollectedInit == Init => Collected
<1> SUFFICES ASSUME Init PROVE Collected  OBVIOUS
<1>1. Runs \in Nat \ {0}  BY AbReportAssumption
<1>2. aReports = <<>> /\ bReports = <<>> /\ pc = "A"  BY DEF Init
<1>3. <<>> \in Seq(Reports) /\ Len(<<>>) = 0  OBVIOUS
<1> QED  BY <1>1, <1>2, <1>3 DEF Collected

LEMMA CollectedNext == Collected /\ [Next]_vars => Collected'
<1> SUFFICES ASSUME Collected, [Next]_vars PROVE Collected'  OBVIOUS
<1>1. Runs \in Nat \ {0}  BY AbReportAssumption
<1>2. aReports \in Seq(Reports) /\ bReports \in Seq(Reports)  BY DEF Collected
<1>3. Len(aReports) \in Nat /\ Len(bReports) \in Nat  BY <1>2
<1>4. ASSUME NEW rep \in Reports, PassA(rep) PROVE Collected'
  <2>1. aReports' \in Seq(Reports) /\ Len(aReports') = Len(aReports) + 1
    BY <1>2, <1>4 DEF PassA
  <2>2. bReports' = bReports /\ pc = "A" /\ pc' = "B"  BY <1>4 DEF PassA
  <2>3. Len(aReports) = Len(bReports) /\ Len(bReports) < Runs  BY <2>2 DEF Collected
  <2> QED  BY <1>1, <1>2, <1>3, <2>1, <2>2, <2>3 DEF Collected
<1>5. ASSUME NEW rep \in Reports, PassB(rep) PROVE Collected'
  <2>1. bReports' \in Seq(Reports) /\ Len(bReports') = Len(bReports) + 1
    BY <1>2, <1>5 DEF PassB
  <2>2. /\ aReports' = aReports /\ pc = "B"
        /\ pc' = IF Len(aReports) = Runs THEN "report" ELSE "A"
    BY <1>5 DEF PassB
  <2>3. Len(aReports) = Len(bReports) + 1 /\ Len(aReports) <= Runs  BY <2>2 DEF Collected
  <2> QED  BY <1>1, <1>2, <1>3, <2>1, <2>2, <2>3 DEF Collected
<1>6. CASE PassFails  BY <1>6 DEF PassFails, Collected
<1>7. CASE UNCHANGED vars  BY <1>7 DEF vars, Collected
<1> QED  BY <1>4, <1>5, <1>6, <1>7 DEF Next, Done

LEMMA CollectedAlways == Spec => []Collected
<1> QED  BY CollectedInit, CollectedNext, PTL DEF Spec

-----------------------------------------------------------------------------
(* The gain                                                                *)

PassRate(reps) == MeanOf([t \in Tasks |-> PassRateAcross(reps, t)])

LEMMA PassRateIsShare ==
  ASSUME NEW reps, DOMAIN reps = 1..Runs, Len(reps) = Runs
  PROVE  /\ PassRate(reps) \in Fractions
         /\ Cardinality(Cells(reps)) \in Nat
         /\ PassRate(reps)[1] * (Runs * Cardinality(Tasks))
              = Cardinality(Cells(reps)) * PassRate(reps)[2]
<1> DEFINE N(t) == {n \in DOMAIN reps : Passes(reps[n], t)}
           c == [t \in Tasks |-> N(t) \X {t}]
           h == [t \in Tasks |-> PassRateAcross(reps, t)]
<1>1. Runs \in Nat \ {0} /\ IsFiniteSet(1..Runs)  BY AbReportAssumption, FS_Interval
<1>2. IsFiniteSet(Tasks) /\ Tasks # {}  BY TasksFinite
<1>3. ASSUME NEW t \in Tasks
      PROVE  /\ Cardinality(N(t)) \in Nat /\ Cardinality(c[t]) = Cardinality(N(t))
             /\ h[t] = <<Cardinality(N(t)), Runs>>
  <2>1. N(t) \in SUBSET (1..Runs)  OBVIOUS
  <2>2. IsFiniteSet(N(t))  BY <1>1, <2>1, FS_Subset
  <2>3. h[t] = <<Cardinality(N(t)), Runs>>  BY DEF PassRateAcross
  <2> HIDE DEF N, h
  <2> QED  BY <2>2, <2>3, Row
<1>4. h \in [Tasks -> Fractions]
  <2> HIDE DEF N, c
  <2>1. \A t \in Tasks : h[t] \in Fractions  BY <1>1, <1>3 DEF Fractions
  <2> QED  BY <2>1
<1>5. Classes(c, Tasks, Samples)
  <2>1. c \in [Tasks -> SUBSET Samples]  BY DEF Samples
  <2>2. \A s, t \in Tasks : s # t => c[s] \cap c[t] = {}  OBVIOUS
  <2> HIDE DEF c
  <2> QED  BY <2>1, <2>2, SamplesFinite DEF Classes
<1>6. All(c, Tasks) = Cells(reps)
  <2>1. ASSUME NEW x \in All(c, Tasks) PROVE x \in Cells(reps)
    <3>1. PICK t \in Tasks : x \in N(t) \X {t}  BY DEF All
    <3> QED  BY <3>1 DEF Cells, Samples
  <2>2. ASSUME NEW x \in Cells(reps) PROVE x \in All(c, Tasks)
    <3>1. x[1] \in 1..Runs /\ x[2] \in Tasks /\ x = <<x[1], x[2]>> /\ Passes(reps[x[1]], x[2])
      BY DEF Cells, Samples
    <3>2. x \in c[x[2]]  BY <3>1
    <3> QED  BY <3>1, <3>2 DEF All
  <2> QED  BY <2>1, <2>2
<1>7. \A t \in Tasks : h[t][1] * Runs = Cardinality(c[t]) * h[t][2]
  <2> HIDE DEF N, c, h
  <2> QED  BY <1>1, <1>3
<1>8. Cardinality(Cells(reps)) \in Nat
  <2>1. Cells(reps) \in SUBSET Samples  BY DEF Cells
  <2> QED  BY <2>1, SamplesFinite, FS_Subset, FS_CardinalityType
<1>9. PassRate(reps) = MeanOf(h)  BY DEF PassRate
<1> HIDE DEF N, c, h
<1>10. MeanOf(h) \in Fractions  BY <1>2, <1>4, MeanType
<1>11. MeanOf(h)[1] * (Runs * Cardinality(Tasks)) = Cardinality(All(c, Tasks)) * MeanOf(h)[2]
  BY <1>1, <1>2, <1>4, <1>5, <1>7, WeighedMean
<1> QED  BY <1>6, <1>8, <1>9, <1>10, <1>11

LEMMA SuiteRange ==
  ASSUME NEW reps, DOMAIN reps = 1..Runs
  PROVE  /\ \A n \in 1..Runs : Cardinality(Passed(reps, n)) \in Nat
         /\ \E n \in 1..Runs : Min(SuitePasses(reps)) = Cardinality(Passed(reps, n))
         /\ \E n \in 1..Runs : Max(SuitePasses(reps)) = Cardinality(Passed(reps, n))
         /\ \A n \in 1..Runs : /\ Min(SuitePasses(reps)) <= Cardinality(Passed(reps, n))
                               /\ Cardinality(Passed(reps, n)) <= Max(SuitePasses(reps))
<1> DEFINE S == SuitePasses(reps)
           size == [n \in 1..Runs |-> Cardinality(Passed(reps, n))]
<1>1. Runs \in Nat \ {0} /\ IsFiniteSet(1..Runs)  BY AbReportAssumption, FS_Interval
<1>2. \A n \in 1..Runs : Cardinality(Passed(reps, n)) \in Nat
  <2> TAKE n \in 1..Runs
  <2>1. Passed(reps, n) \in SUBSET Tasks  BY DEF Passed
  <2> QED  BY <2>1, TasksFinite, FS_Subset, FS_CardinalityType
<1>3. S = {Cardinality(Passed(reps, n)) : n \in 1..Runs}  BY DEF SuitePasses, Passed
<1>4. size \in Surjection(1..Runs, S)  BY <1>3 DEF Surjection
<1> HIDE DEF S
<1>5. IsFiniteSet(S)  BY <1>1, <1>4, FS_Surjection
<1>6. S \subseteq Nat /\ S # {}  BY <1>1, <1>2, <1>3
<1>7. /\ Min(S) \in S /\ \A x \in S : Min(S) <= x
      /\ Max(S) \in S /\ \A x \in S : x <= Max(S)
  BY <1>5, <1>6, Extremes
<1> QED  BY <1>2, <1>3, <1>7 DEF S

LEMMA GainCollected == Collected => GainIsReal
<1> SUFFICES ASSUME Collected, pc = "report" PROVE GainIsReal  BY DEF GainIsReal
<1> DEFINE a == aReports  b == bReports  k == Cardinality(Tasks)
           x == PassRate(a)  y == PassRate(b)
           p == Cardinality(Cells(a))  q == Cardinality(Cells(b))
           d == Minus(y, x)
<1>1. /\ DOMAIN a = 1..Runs /\ Len(a) = Runs
      /\ DOMAIN b = 1..Runs /\ Len(b) = Runs
  BY DEF Collected
<1>2. Report.meanDelta = d /\ Report.meets = AtLeast20(x, y) /\ Report.caveat = Overlap(a, b)
  BY DEF Report, BuildABReport, PassRate
<1>3. /\ x \in Fractions /\ p \in Nat /\ x[1] * (Runs * k) = p * x[2]
      /\ y \in Fractions /\ q \in Nat /\ y[1] * (Runs * k) = q * y[2]
  BY <1>1, PassRateIsShare
<1>4. Runs \in Nat \ {0} /\ k \in Nat \ {0}  BY AbReportAssumption, TasksFinite
<1>5. x[1] \in Int /\ x[2] \in Nat \ {0} /\ y[1] \in Int /\ y[2] \in Nat \ {0}
  BY <1>3 DEF Fractions
<1>6. d[1] \in Int /\ d[2] \in Nat \ {0} /\ d[1] * (Runs * k) = (q - p) * d[2]
  <2> DEFINE n == x[1]  m == x[2]  u == y[1]  v == y[2]  R == Runs * k
  <2>1. d[1] = u * m - n * v /\ d[2] = v * m  BY DEF Minus
  <2>2. R \in Nat  BY <1>4
  <2>3. n * R = p * m /\ u * R = q * v  BY <1>3
  <2>4. n \in Int /\ m \in Nat \ {0} /\ u \in Int /\ v \in Nat \ {0}  BY <1>5
  <2>5. p \in Nat /\ q \in Nat  BY <1>3
  <2> HIDE DEF n, m, u, v, R, p, q, d
  <2>6. (u * m - n * v) * R = (u * R) * m - (n * R) * v  BY <2>2, <2>4
  <2>7. (q * v) * m - (p * m) * v = (q - p) * (v * m)  BY <2>4, <2>5
  <2>8. u * m - n * v \in Int /\ v * m \in Nat \ {0}  BY <2>4
  <2>9. d[1] * R = (q - p) * d[2]  BY <2>1, <2>3, <2>6, <2>7
  <2> QED  BY <2>1, <2>8, <2>9 DEF R
<1>7. d[1] * Runs * k = (q - p) * d[2]
  <2> HIDE DEF d, k, p, q
  <2>1. d[1] * Runs * k = d[1] * (Runs * k)  BY <1>4, <1>6
  <2> QED  BY <1>6, <2>1
<1>8. AtLeast20(x, y) => q - p > 0
  <2> SUFFICES ASSUME AtLeast20(x, y) PROVE q - p > 0  OBVIOUS
  <2>1. 1 * d[2] <= d[1] * 5  BY DEF AtLeast20, Leq
  <2> HIDE DEF d, k, p, q
  <2>2. d[1] > 0  BY <1>6, <2>1
  <2>3. Runs * k \in Nat \ {0}  BY <1>4
  <2>4. d[1] * (Runs * k) > 0  BY <1>6, <2>2, <2>3
  <2>5. (q - p) * d[2] > 0  BY <1>6, <2>4
  <2>6. q - p \in Int /\ d[2] \in Nat  BY <1>3, <1>6
  <2> QED  BY <2>5, <2>6
<1>9. ~ Overlap(a, b) <=> \A m, n \in 1..Runs : Cardinality(Passed(a, m)) < Cardinality(Passed(b, n))
  <2> DEFINE A(n) == Cardinality(Passed(a, n))  B(n) == Cardinality(Passed(b, n))
             most == Max(SuitePasses(a))  least == Min(SuitePasses(b))
  <2>1. /\ \A n \in 1..Runs : A(n) \in Nat /\ A(n) <= most
        /\ \E n \in 1..Runs : most = A(n)
    BY <1>1, SuiteRange
  <2>2. /\ \A n \in 1..Runs : B(n) \in Nat /\ least <= B(n)
        /\ \E n \in 1..Runs : least = B(n)
    BY <1>1, SuiteRange
  <2>3. Overlap(a, b) <=> least <= most  BY DEF Overlap
  <2> HIDE DEF A, B, most, least
  <2>4. most \in Nat /\ least \in Nat  BY <2>1, <2>2
  <2>5. ~ least <= most <=> \A m, n \in 1..Runs : A(m) < B(n)
    <3>1. ASSUME ~ least <= most, NEW m \in 1..Runs, NEW n \in 1..Runs PROVE A(m) < B(n)
      <4>1. A(m) \in Nat /\ A(m) <= most /\ B(n) \in Nat /\ least <= B(n)  BY <2>1, <2>2
      <4> QED  BY <2>4, <3>1, <4>1
    <3>2. ASSUME \A m, n \in 1..Runs : A(m) < B(n) PROVE ~ least <= most
      <4>1. PICK m \in 1..Runs : most = A(m)  BY <2>1
      <4>2. PICK n \in 1..Runs : least = B(n)  BY <2>2
      <4>3. most < least  BY <3>2, <4>1, <4>2
      <4> QED  BY <2>4, <4>3
    <3> QED  BY <3>1, <3>2
  <2> QED  BY <2>3, <2>5 DEF A, B
<1> QED
  <2> HIDE DEF d, x, y
  <2> QED  BY <1>2, <1>7, <1>8, <1>9 DEF GainIsReal

(* A report without the caveat is one about samples that do not overlap,   *)
(* and the mean gain is the gain over all runs of all tasks                *)
(* (abreport.go:135).                                                      *)
THEOREM GainReported == Spec => []GainIsReal
<1> QED  BY CollectedAlways, GainCollected, PTL

-----------------------------------------------------------------------------
(* The judge                                                               *)

JudgeMean(reps, t) == JudgeMeanAcross(reps, t, "reasoning_quality")
Judge(reps) == MeanOf([t \in Tasks |-> JudgeMean(reps, t)])
Errors(reps) == SumFunction([t \in Tasks |-> Cardinality(Errored(reps, t, "reasoning_quality"))])

LEMMA ErrorsTold ==
  ASSUME NEW reps, DOMAIN reps = 1..Runs
  PROVE  Errors(reps) = Cardinality(Judged(reps) \ Valued(reps))
<1> DEFINE N(t) == Errored(reps, t, "reasoning_quality")
           c == [t \in Tasks |-> N(t) \X {t}]
           h == [t \in Tasks |-> Cardinality(N(t))]
<1>1. IsFiniteSet(1..Runs)  BY AbReportAssumption, FS_Interval
<1>2. ASSUME NEW t \in Tasks PROVE h[t] = Cardinality(c[t])
  <2>1. N(t) \in SUBSET (1..Runs)  BY DEF Errored
  <2>2. IsFiniteSet(N(t))  BY <1>1, <2>1, FS_Subset
  <2> HIDE DEF N
  <2>3. c[t] = N(t) \X {t} /\ h[t] = Cardinality(N(t))  OBVIOUS
  <2> QED  BY <2>2, <2>3, Row
<1>3. Classes(c, Tasks, Samples)
  <2>1. c \in [Tasks -> SUBSET Samples]  BY DEF Samples, Errored
  <2>2. \A s, t \in Tasks : s # t => c[s] \cap c[t] = {}  OBVIOUS
  <2> HIDE DEF c
  <2> QED  BY <2>1, <2>2, SamplesFinite DEF Classes
<1>4. All(c, Tasks) = Judged(reps) \ Valued(reps)
  <2>1. ASSUME NEW x \in All(c, Tasks) PROVE x \in Judged(reps) \ Valued(reps)
    <3>1. PICK t \in Tasks : x \in N(t) \X {t}  BY DEF All
    <3> QED  BY <3>1 DEF Judged, Valued, Score, Samples, Errored
  <2>2. ASSUME NEW x \in Judged(reps) \ Valued(reps) PROVE x \in All(c, Tasks)
    <3>1. x[1] \in 1..Runs /\ x[2] \in Tasks /\ x = <<x[1], x[2]>>
      BY DEF Judged, Samples
    <3>2. x[1] \in N(x[2])  BY <3>1 DEF Errored, Judged, Valued, Score
    <3>3. x \in c[x[2]]  BY <3>1, <3>2
    <3> QED  BY <3>1, <3>3 DEF All
  <2> QED  BY <2>1, <2>2
<1>5. Errors(reps) = SumFunction(h)  BY DEF Errors
<1>6. DOMAIN h = Tasks  OBVIOUS
<1> HIDE DEF N, c, h
<1>7. SumFunction(h) = Cardinality(All(c, Tasks))
  BY <1>2, <1>3, <1>6, TasksFinite, SumOfClasses
<1> QED  BY <1>4, <1>5, <1>7

LEMMA ScoresTyped ==
  ASSUME NEW reps \in Seq(Reports), Len(reps) = Runs
  PROVE  \A c \in Valued(reps) :
           /\ c[1] \in 1..Runs /\ c[2] \in Tasks /\ c = <<c[1], c[2]>>
           /\ Score(reps, c).value \in Nat
           /\ c[1] \in Scored(reps, c[2], "reasoning_quality")
<1> SUFFICES ASSUME NEW c \in Valued(reps)
             PROVE  /\ c[1] \in 1..Runs /\ c[2] \in Tasks /\ c = <<c[1], c[2]>>
                    /\ Score(reps, c).value \in Nat
                    /\ c[1] \in Scored(reps, c[2], "reasoning_quality")
  OBVIOUS
<1>1. c[1] \in 1..Runs /\ c[2] \in Tasks /\ c = <<c[1], c[2]>>
  BY DEF Valued, Judged, Samples
<1>2. Gave(reps[c[1]], c[2], "reasoning_quality") /\ ~ Score(reps, c).errored
  BY DEF Valued, Judged
<1>3. reps[c[1]] \in Reports /\ DOMAIN reps = 1..Runs  BY <1>1
<1>4. reps[c[1]][c[2]] \in TaskScores(c[2])  BY <1>1, <1>3 DEF Reports
<1>5. Score(reps, c) \in Scores[c[2]]["reasoning_quality"] /\ "reasoning_quality" \in DOMAIN Scores[c[2]]
  BY <1>2, <1>4 DEF TaskScores, Gave, Score
<1>6. Score(reps, c) \in [pass : BOOLEAN, value : Nat, errored : BOOLEAN]
  BY <1>1, <1>5, AbReportAssumption
<1>7. c[1] \in Scored(reps, c[2], "reasoning_quality")  BY <1>1, <1>2, <1>3 DEF Scored, Score
<1> QED  BY <1>1, <1>6, <1>7

LEMMA ScoresOfTask ==
  ASSUME NEW reps, DOMAIN reps = 1..Runs, NEW t \in Tasks,
         NEW n \in Scored(reps, t, "reasoning_quality")
  PROVE  /\ n \in 1..Runs /\ <<n, t>> \in Valued(reps)
         /\ reps[n][t]["reasoning_quality"].value = Score(reps, <<n, t>>).value
<1>1. n \in 1..Runs  BY DEF Scored
<1> QED  BY <1>1 DEF Scored, Valued, Judged, Samples, Score

(* The lowest and the highest of the scores given.                         *)
LEMMA ScoresBounded ==
  ASSUME NEW reps \in Seq(Reports), Len(reps) = Runs, Valued(reps) # {}
  PROVE  \E lo, hi \in Nat :
           /\ \E c \in Valued(reps) : Score(reps, c).value = lo
           /\ \E c \in Valued(reps) : Score(reps, c).value = hi
           /\ \A c \in Valued(reps) : lo <= Score(reps, c).value /\ Score(reps, c).value <= hi
<1> DEFINE S == {Score(reps, c).value : c \in Valued(reps)}
           val == [c \in Valued(reps) |-> Score(reps, c).value]
<1>1. Valued(reps) \in SUBSET Samples  BY DEF Valued, Judged
<1>2. val \in Surjection(Valued(reps), S)  BY DEF Surjection
<1>3. IsFiniteSet(Valued(reps))  BY <1>1, SamplesFinite, FS_Subset
<1>4. \A c \in Valued(reps) : Score(reps, c).value \in Nat  BY ScoresTyped
<1>5. S \subseteq Nat /\ S # {}  BY <1>4
<1>6. IsFiniteSet(S)
  <2> HIDE DEF S
  <2> QED  BY <1>2, <1>3, FS_Surjection
<1>7. /\ Min(S) \in S /\ \A x \in S : Min(S) <= x
      /\ Max(S) \in S /\ \A x \in S : x <= Max(S)
  <2> HIDE DEF S
  <2> QED  BY <1>5, <1>6, Extremes
<1> DEFINE lo == Min(S)  hi == Max(S)
<1>8. lo \in Nat /\ hi \in Nat  BY <1>5, <1>7
<1> HIDE DEF lo, hi
<1>9. \E c \in Valued(reps) : Score(reps, c).value = lo  BY <1>7 DEF lo
<1>10. \E c \in Valued(reps) : Score(reps, c).value = hi  BY <1>7 DEF hi
<1>11. \A c \in Valued(reps) : lo <= Score(reps, c).value /\ Score(reps, c).value <= hi
  BY <1>7 DEF lo, hi
<1> QED  BY <1>8, <1>9, <1>10, <1>11

LEMMA ScoredFinite ==
  ASSUME NEW reps, DOMAIN reps = 1..Runs, NEW t
  PROVE  IsFiniteSet(Scored(reps, t, "reasoning_quality"))
<1>1. IsFiniteSet(1..Runs)  BY AbReportAssumption, FS_Interval
<1>2. Scored(reps, t, "reasoning_quality") \in SUBSET (1..Runs)  BY DEF Scored
<1> QED  BY <1>1, <1>2, FS_Subset

LEMMA JudgeBetween ==
  ASSUME NEW reps \in Seq(Reports), Len(reps) = Runs,
         \A t \in Tasks : \E c \in Valued(reps) : c[2] = t
  PROVE  /\ \E c \in Valued(reps) : Leq(<<Score(reps, c).value, 5>>, Judge(reps))
         /\ \E c \in Valued(reps) : Leq(Judge(reps), <<Score(reps, c).value, 5>>)
<1>1. DOMAIN reps = 1..Runs  OBVIOUS
<1>2. Valued(reps) # {}  BY TasksFinite
<1>3. PICK lo \in Nat, hi \in Nat :
        /\ \E c \in Valued(reps) : Score(reps, c).value = lo
        /\ \E c \in Valued(reps) : Score(reps, c).value = hi
        /\ \A c \in Valued(reps) : lo <= Score(reps, c).value /\ Score(reps, c).value <= hi
  BY <1>2, ScoresBounded
<1>4. ASSUME NEW t \in Tasks
      PROVE  /\ JudgeMean(reps, t) \in Fractions
             /\ Leq(<<lo, 5>>, JudgeMean(reps, t)) /\ Leq(JudgeMean(reps, t), <<hi, 5>>)
  <2> DEFINE N == Scored(reps, t, "reasoning_quality")
             h == [n \in N |-> <<reps[n][t]["reasoning_quality"].value, 5>>]
  <2>1. N # {}
    <3>1. PICK c \in Valued(reps) : c[2] = t  OBVIOUS
    <3> QED  BY <3>1, ScoresTyped
  <2>2. JudgeMean(reps, t) = MeanOf(h)  BY <2>1 DEF JudgeMean, JudgeMeanAcross
  <2>3. IsFiniteSet(N)  BY <1>1, ScoredFinite
  <2>4. ASSUME NEW n \in N
        PROVE  h[n] \in Fractions /\ Leq(<<lo, 5>>, h[n]) /\ Leq(h[n], <<hi, 5>>)
    <3> DEFINE v == Score(reps, <<n, t>>).value
    <3>1. <<n, t>> \in Valued(reps) /\ h[n] = <<v, 5>>  BY <1>1, ScoresOfTask
    <3>2. v \in Nat /\ lo <= v /\ v <= hi  BY <1>3, <3>1, ScoresTyped
    <3> HIDE DEF v, h
    <3>3. lo * 5 <= v * 5 /\ v * 5 <= hi * 5  BY <3>2
    <3> QED  BY <3>1, <3>2, <3>3 DEF Leq, Fractions
  <2>5. h \in [N -> Fractions]
    <3> HIDE DEF N
    <3> QED  BY <2>4
  <2>6. lo \in Int /\ hi \in Int /\ 5 \in Nat \ {0}  OBVIOUS
  <2> HIDE DEF N, h
  <2>7. /\ MeanOf(h) \in Fractions
        /\ Leq(<<lo, 5>>, MeanOf(h)) /\ Leq(MeanOf(h), <<hi, 5>>)
    BY <2>1, <2>3, <2>4, <2>5, <2>6, MeanBetween
  <2> QED  BY <2>2, <2>7
<1> DEFINE h == [t \in Tasks |-> JudgeMean(reps, t)]
<1>5. h \in [Tasks -> Fractions] /\ \A t \in Tasks : Leq(<<lo, 5>>, h[t]) /\ Leq(h[t], <<hi, 5>>)
  BY <1>4
<1>6. lo \in Int /\ hi \in Int /\ 5 \in Nat \ {0}  OBVIOUS
<1>7. Judge(reps) = MeanOf(h)  BY DEF Judge
<1> HIDE DEF h
<1>8. Leq(<<lo, 5>>, MeanOf(h)) /\ Leq(MeanOf(h), <<hi, 5>>)
  BY <1>5, <1>6, TasksFinite, MeanBetween
<1> QED  BY <1>3, <1>7, <1>8

(* Where no judge failed, the mean is that of all scores.                  *)
LEMMA JudgeOfAll ==
  ASSUME NEW reps \in Seq(Reports), Len(reps) = Runs, Valued(reps) = Samples
  PROVE  Judge(reps)[1] * 5 * Cardinality(Samples) = Total(reps) * Judge(reps)[2]
<1> DEFINE v(n, t)  == Score(reps, <<n, t>>).value
           units(x) == {x} \X (1..Score(reps, x).value)
           row(t)   == [n \in 1..Runs |-> units(<<n, t>>)]
           c        == [t \in Tasks |-> All(row(t), 1..Runs)]
           h        == [t \in Tasks |-> JudgeMean(reps, t)]
<1>1. DOMAIN reps = 1..Runs /\ Runs \in Nat \ {0} /\ IsFiniteSet(1..Runs)
  BY AbReportAssumption, FS_Interval
<1>2. \A n \in 1..Runs : \A t \in Tasks : <<n, t>> \in Valued(reps)  BY DEF Samples
<1>3. Valued(reps) # {}
  <2>1. PICK t \in Tasks : TRUE  BY TasksFinite
  <2>2. 1 \in 1..Runs  BY <1>1
  <2>3. <<1, t>> \in Valued(reps)  BY <1>2, <2>2
  <2> QED  BY <2>3
<1>4. PICK hi \in Nat : \A x \in Valued(reps) : Score(reps, x).value <= hi
  BY <1>3, ScoresBounded
<1> DEFINE D == Samples \X (1..hi)
<1>5. IsFiniteSet(D)
  <2>1. IsFiniteSet(1..hi)  BY FS_Interval
  <2> QED  BY <2>1, SamplesFinite, FS_Product
<1>6. ASSUME NEW x \in Samples
      PROVE  /\ Score(reps, x).value \in Nat /\ units(x) \in SUBSET D
             /\ Cardinality(units(x)) = Score(reps, x).value
  <2> DEFINE w == Score(reps, x).value
  <2>1. w \in Nat /\ w <= hi  BY <1>4, ScoresTyped
  <2> HIDE DEF w
  <2>2. 1..w \subseteq 1..hi  BY <2>1
  <2>3. IsFiniteSet({x}) /\ Cardinality({x}) = 1  BY FS_Singleton
  <2>4. IsFiniteSet(1..w) /\ Cardinality(1..w) = w  BY <2>1, IntervalSize
  <2>5. Cardinality({x} \X (1..w)) = 1 * w  BY <2>3, <2>4, FS_Product
  <2>6. Cardinality({x} \X (1..w)) = w  BY <2>1, <2>5
  <2> QED  BY <2>1, <2>2, <2>6 DEF w
<1>7. \A x, y : x # y => units(x) \cap units(y) = {}
  <2> SUFFICES ASSUME NEW x, NEW y, x # y, NEW z \in units(x), z \in units(y) PROVE FALSE
    OBVIOUS
  <2>1. z[1] = x /\ z[1] = y  OBVIOUS
  <2> QED  BY <2>1
<1> HIDE DEF D, units
<1>8. ASSUME NEW t \in Tasks
      PROVE  /\ JudgeMean(reps, t) \in Fractions /\ c[t] \in SUBSET D
             /\ JudgeMean(reps, t)[1] * (5 * Runs) = Cardinality(c[t]) * JudgeMean(reps, t)[2]
  <2> DEFINE N == Scored(reps, t, "reasoning_quality")
             g == [n \in 1..Runs |-> <<v(n, t), 5>>]
  <2>1. N = 1..Runs
    <3>1. \A n \in 1..Runs : n \in N
      <4> TAKE n \in 1..Runs
      <4>1. <<n, t>> \in Valued(reps)  BY <1>2
      <4>2. <<n, t>>[1] = n /\ <<n, t>>[2] = t  OBVIOUS
      <4> QED  BY <4>1, <4>2, ScoresTyped
    <3> QED  BY <1>1, <3>1 DEF Scored
  <2>2. JudgeMean(reps, t) = MeanOf(g)
    <3>1. [n \in N |-> <<reps[n][t]["reasoning_quality"].value, 5>>] = g
      BY <2>1 DEF Score
    <3>2. N # {}  BY <1>1, <2>1
    <3> QED  BY <3>1, <3>2 DEF JudgeMean, JudgeMeanAcross
  <2>3. \A n \in 1..Runs : v(n, t) \in Nat /\ Cardinality(row(t)[n]) = v(n, t)
    <3> TAKE n \in 1..Runs
    <3>1. <<n, t>> \in Samples  BY DEF Samples
    <3>2. row(t)[n] = units(<<n, t>>)  OBVIOUS
    <3> QED  BY <1>6, <3>1, <3>2
  <2>4. g \in [1..Runs -> Fractions]  BY <2>3 DEF Fractions
  <2>5. Classes(row(t), 1..Runs, D)
    <3>1. \A n \in 1..Runs : row(t)[n] \in SUBSET D
      <4> TAKE n \in 1..Runs
      <4>1. <<n, t>> \in Samples  BY DEF Samples
      <4>2. row(t)[n] = units(<<n, t>>)  OBVIOUS
      <4> HIDE DEF row
      <4> QED  BY <1>6, <4>1, <4>2
    <3>2. \A m, n \in 1..Runs : m # n => row(t)[m] \cap row(t)[n] = {}
      <4> TAKE m, n \in 1..Runs
      <4>1. m # n => <<m, t>> # <<n, t>>  OBVIOUS
      <4>2. m # n => units(<<m, t>>) \cap units(<<n, t>>) = {}  BY <1>7, <4>1
      <4> QED  BY <4>2
    <3>3. row(t) \in [1..Runs -> SUBSET D]  BY <3>1
    <3> HIDE DEF row
    <3> QED  BY <1>5, <3>2, <3>3 DEF Classes
  <2>6. \A n \in 1..Runs : g[n][1] * 5 = Cardinality(row(t)[n]) * g[n][2]
    <3> TAKE n \in 1..Runs
    <3>1. g[n][1] = v(n, t) /\ g[n][2] = 5 /\ Cardinality(row(t)[n]) = v(n, t)  BY <2>3
    <3> HIDE DEF g, v, row
    <3> QED  BY <3>1
  <2>7. 1..Runs # {} /\ Cardinality(1..Runs) = Runs  BY <1>1, IntervalSize
  <2>8. c[t] = All(row(t), 1..Runs)  OBVIOUS
  <2>9. c[t] \in SUBSET D
    <3> HIDE DEF row, c
    <3>1. \A n \in 1..Runs : row(t)[n] \subseteq D  BY <2>5 DEF Classes
    <3> QED  BY <2>8, <3>1 DEF All
  <2> HIDE DEF g, row, v, c
  <2>10. MeanOf(g) \in Fractions  BY <1>1, <2>4, <2>7, MeanType
  <2>11. MeanOf(g)[1] * (5 * Cardinality(1..Runs)) = Cardinality(All(row(t), 1..Runs)) * MeanOf(g)[2]
    BY <1>1, <2>4, <2>5, <2>6, <2>7, WeighedMean
  <2> QED  BY <2>2, <2>7, <2>8, <2>9, <2>10, <2>11
<1>9. \A y : \A t \in Tasks : y \in c[t] <=> \E n \in 1..Runs : y \in units(<<n, t>>)
  BY DEF All
<1>10. Classes(c, Tasks, D)
  <2>1. \A s, t \in Tasks : s # t => c[s] \cap c[t] = {}
    <3> SUFFICES ASSUME NEW s \in Tasks, NEW t \in Tasks, s # t, NEW y \in c[s], y \in c[t]
                 PROVE  FALSE
      OBVIOUS
    <3> HIDE DEF c
    <3>1. PICK m \in 1..Runs : y \in units(<<m, s>>)  BY <1>9
    <3>2. PICK n \in 1..Runs : y \in units(<<n, t>>)  BY <1>9
    <3>3. <<m, s>> # <<n, t>>  OBVIOUS
    <3> QED  BY <1>7, <3>1, <3>2, <3>3
  <2>2. c \in [Tasks -> SUBSET D]
    <3>1. \A t \in Tasks : c[t] \in SUBSET D  BY <1>8
    <3> QED  BY <3>1
  <2> HIDE DEF c
  <2> QED  BY <1>5, <2>1, <2>2 DEF Classes
<1>11. h \in [Tasks -> Fractions] /\ \A t \in Tasks : h[t][1] * (5 * Runs) = Cardinality(c[t]) * h[t][2]
  BY <1>8
<1>12. Judge(reps) = MeanOf(h)  BY DEF Judge
<1>13. 5 * Runs \in Nat  BY <1>1
<1>14. MeanOf(h)[1] * ((5 * Runs) * Cardinality(Tasks)) = Cardinality(All(c, Tasks)) * MeanOf(h)[2]
  <2> HIDE DEF c, h
  <2> QED  BY <1>10, <1>11, <1>13, TasksFinite, WeighedMean, SMTT(30)
<1>15. Total(reps) = Cardinality(All(c, Tasks))
  <2> DEFINE e == [x \in Samples |-> units(x)]
             f == [x \in Samples |-> Score(reps, x).value]
  <2>1. Total(reps) = SumFunction(f)  BY DEF Total
  <2>2. Classes(e, Samples, D)
    <3>1. e \in [Samples -> SUBSET D]  BY <1>6
    <3>2. \A x, y \in Samples : x # y => e[x] \cap e[y] = {}  BY <1>7
    <3> HIDE DEF e
    <3> QED  BY <1>5, <3>1, <3>2 DEF Classes
  <2>3. \A x \in Samples : f[x] = Cardinality(e[x])  BY <1>6
  <2>4. DOMAIN f = Samples  OBVIOUS
  <2>5. SumFunction(f) = Cardinality(All(e, Samples))
    <3> HIDE DEF e, f
    <3> QED  BY <2>2, <2>3, <2>4, SamplesFinite, SumOfClasses
  <2>6. All(e, Samples) = All(c, Tasks)
    <3>1. ASSUME NEW y \in All(e, Samples) PROVE y \in All(c, Tasks)
      <4>1. PICK x \in Samples : y \in units(x)  BY DEF All
      <4>2. PICK n \in 1..Runs, t \in Tasks : x = <<n, t>>  BY DEF Samples
      <4>3. y \in c[t]
        <5> HIDE DEF c
        <5> QED  BY <1>9, <4>1, <4>2
      <4> HIDE DEF c
      <4> QED  BY <4>2, <4>3 DEF All
    <3>2. ASSUME NEW y \in All(c, Tasks) PROVE y \in All(e, Samples)
      <4> HIDE DEF c
      <4>1. PICK t \in Tasks : y \in c[t]  BY DEF All
      <4>2. PICK n \in 1..Runs : y \in units(<<n, t>>)  BY <1>9, <4>1
      <4>3. <<n, t>> \in Samples  BY DEF Samples
      <4>4. y \in e[<<n, t>>]  BY <4>2, <4>3
      <4> HIDE DEF e
      <4> QED  BY <4>3, <4>4 DEF All
    <3> QED  BY <3>1, <3>2
  <2> QED  BY <2>1, <2>5, <2>6
<1>16. MeanOf(h) \in Fractions
  <2> HIDE DEF h
  <2> QED  BY <1>11, TasksFinite, MeanType
<1> DEFINE m == MeanOf(h)[1]  d == MeanOf(h)[2]  k == Cardinality(Tasks)
<1>17. m \in Int /\ k \in Nat  BY <1>16, TasksFinite DEF Fractions
<1>18. m * ((5 * Runs) * k) = Total(reps) * d  BY <1>14, <1>15
<1>19. Cardinality(Samples) = Runs * k  BY SamplesFinite
<1> HIDE DEF m, d, k
<1>20. m * 5 * (Runs * k) = m * ((5 * Runs) * k)  BY <1>1, <1>17
<1> QED  BY <1>12, <1>18, <1>19, <1>20 DEF m, d

LEMMA JudgeSound ==
  ASSUME NEW reps \in Seq(Reports), Len(reps) = Runs
  PROVE  Sound(reps, Judge(reps), Errors(reps))
<1>1. DOMAIN reps = 1..Runs  OBVIOUS
<1> QED  BY <1>1, ErrorsTold, JudgeBetween, JudgeOfAll DEF Sound

LEMMA JudgeCollected == Collected => JudgedByScores
<1> SUFFICES ASSUME Collected, pc = "report" PROVE JudgedByScores  BY DEF JudgedByScores
<1>1. /\ aReports \in Seq(Reports) /\ Len(aReports) = Runs
      /\ bReports \in Seq(Reports) /\ Len(bReports) = Runs
  BY DEF Collected
<1>2. /\ Report.judgeA = Judge(aReports) /\ Report.errorsA = Errors(aReports)
      /\ Report.judgeB = Judge(bReports) /\ Report.errorsB = Errors(bReports)
  BY DEF Report, BuildABReport, Judge, JudgeMean, Errors
<1>3. Sound(aReports, Judge(aReports), Errors(aReports))  BY <1>1, JudgeSound
<1>4. Sound(bReports, Judge(bReports), Errors(bReports))  BY <1>1, JudgeSound
<1> QED  BY <1>2, <1>3, <1>4 DEF JudgedByScores

(* A judge that failed is told and counts for nothing: the mean lies       *)
(* between the scores given, and is that of all where no judge failed      *)
(* (abreport.go:152).                                                      *)
THEOREM JudgeReported == Spec => []JudgedByScores
<1> QED  BY CollectedAlways, JudgeCollected, PTL

-----------------------------------------------------------------------------
(* Functions that a definition makes from 0 on, one number at a time       *)

LEMMA StepByStep ==
  ASSUME NEW N \in Nat, NEW good, 0 \in good,
         \A n \in 1..N : n - 1 \in good => n \in good
  PROVE  \A n \in 0..N : n \in good
<1> DEFINE wrong == {n \in 0..N : n \notin good}
<1>1. ASSUME wrong # {} PROVE FALSE
  <2>1. wrong \subseteq Nat  OBVIOUS
  <2>2. PICK k \in wrong : \A l \in wrong : k <= l
    <3> HIDE DEF wrong
    <3> QED  BY <1>1, <2>1, SmallestNumber
  <2>3. k \in 0..N /\ k \notin good  BY <2>2
  <2>4. k \in 1..N  BY <2>3
  <2>5. k - 1 \in 0..N /\ ~ k <= k - 1  BY <2>4
  <2>6. k - 1 \in good  BY <2>2, <2>5
  <2> QED  BY <2>3, <2>4, <2>6
<1> QED  BY <1>1

(* f begins with base, and each step makes the next of it.                 *)
Steps(step, N, S) == step \in [(1..N) \X S -> S]
Iterates(f, N, S, base, step) ==
  /\ f \in [0..N -> S]
  /\ f[0] = base
  /\ \A n \in 1..N : f[n] = step[<<n, f[n - 1]>>]

LEMMA Iteration ==
  ASSUME NEW N \in Nat, NEW S, NEW base \in S, NEW step, Steps(step, N, S)
  PROVE  \E f : Iterates(f, N, S, base, step)
<1> DEFINE Upto(f, k) == f[0] = base /\ \A n \in 1..k : f[n] = step[<<n, f[n - 1]>>]
           good == {k \in 0..N : \E f \in [0..k -> S] : Upto(f, k)}
<1>1. 0 \in good
  <2> DEFINE f == [n \in 0..0 |-> base]
  <2>1. f \in [0..0 -> S] /\ f[0] = base /\ 0 \in 0..N  OBVIOUS
  <2> HIDE DEF f
  <2>2. Upto(f, 0)  BY <2>1
  <2> HIDE DEF Upto
  <2> QED  BY <2>1, <2>2
<1>2. ASSUME NEW k \in 1..N, k - 1 \in good PROVE k \in good
  <2>1. PICK f \in [0..(k - 1) -> S] : Upto(f, k - 1)  BY <1>2
  <2> DEFINE h == [n \in 0..k |-> IF n = k THEN step[<<k, f[k - 1]>>] ELSE f[n]]
  <2>2. f[k - 1] \in S /\ step[<<k, f[k - 1]>>] \in S
    <3>1. f[k - 1] \in S  BY <2>1
    <3> QED  BY <3>1 DEF Steps
  <2>3. h \in [0..k -> S]  BY <2>1, <2>2
  <2>4. \A n \in 0..(k - 1) : h[n] = f[n]  OBVIOUS
  <2>5. h[k] = step[<<k, f[k - 1]>>]  OBVIOUS
  <2> HIDE DEF h
  <2>6. ASSUME NEW n \in 1..k PROVE h[n] = step[<<n, h[n - 1]>>]
    <3>1. n - 1 \in 0..(k - 1) /\ h[n - 1] = f[n - 1]  BY <2>4
    <3>2. CASE n = k  BY <2>5, <3>1, <3>2
    <3>3. CASE n # k
      <4>1. n \in 1..(k - 1) /\ n \in 0..(k - 1)  BY <3>3
      <4> QED  BY <2>1, <2>4, <3>1, <4>1
    <3> QED  BY <3>2, <3>3
  <2>7. h[0] = base  BY <2>1, <2>4
  <2>8. Upto(h, k)  BY <2>6, <2>7
  <2> HIDE DEF Upto
  <2> QED  BY <2>3, <2>8
<1> HIDE DEF good
<1>3. \A k \in 0..N : k \in good  BY <1>1, <1>2, StepByStep
<1>4. N \in good  BY <1>3
<1> QED  BY <1>4 DEF good, Iterates

-----------------------------------------------------------------------------
(* The results that count                                                  *)

(* g[n] is what is kept of the first n elements.                           *)
Keeps(g, s, keep) ==
  /\ g[0] = <<>>
  /\ \A n \in 1..Len(s) : g[n] = IF n \in keep THEN Append(g[n - 1], s[n]) ELSE g[n - 1]

LEMMA FilteredUnfolds ==
  ASSUME NEW T, NEW s \in Seq(T), NEW keep
  PROVE  \E g \in [0..Len(s) -> Seq(T)] : Keeps(g, s, keep) /\ Filtered(s, keep) = g[Len(s)]
<1> DEFINE N == Len(s)
           Sat(f) == f = [n \in 0..N |-> IF n = 0 THEN <<>>
                          ELSE IF n \in keep THEN Append(f[n - 1], s[n]) ELSE f[n - 1]]
           step == [x \in (1..N) \X Seq(T) |->
                      IF x[1] \in keep THEN Append(x[2], s[x[1]]) ELSE x[2]]
<1>0. N \in Nat /\ \A n \in 1..N : s[n] \in T  OBVIOUS
<1>1. step \in [(1..N) \X Seq(T) -> Seq(T)]
  <2>1. ASSUME NEW x \in (1..N) \X Seq(T) PROVE step[x] \in Seq(T)
    <3>1. x[1] \in 1..N /\ x[2] \in Seq(T)  OBVIOUS
    <3>2. Append(x[2], s[x[1]]) \in Seq(T)  BY <1>0, <3>1
    <3> QED  BY <3>1, <3>2
  <2> QED  BY <2>1
<1>2. \A n \in 1..N, r \in Seq(T) : step[<<n, r>>] = IF n \in keep THEN Append(r, s[n]) ELSE r
  OBVIOUS
<1>3. PICK f \in [0..N -> Seq(T)] :
        f[0] = <<>> /\ \A n \in 1..N : f[n] = step[<<n, f[n - 1]>>]
  <2> DEFINE S == Seq(T)  base == <<>>
  <2>1. base \in S  OBVIOUS
  <2>2. Steps(step, N, S)  BY <1>1 DEF Steps
  <2>3. N \in Nat  OBVIOUS
  <2> HIDE DEF step, N, S, base, Sat
  <2>4. \E f : Iterates(f, N, S, base, step)  BY <2>1, <2>2, <2>3, Iteration
  <2> QED  BY <2>4 DEF S, base, Iterates
<1> HIDE DEF step
<1>4. \A n \in 1..N : f[n] = IF n \in keep THEN Append(f[n - 1], s[n]) ELSE f[n - 1]
  <2> SUFFICES ASSUME NEW n \in 1..N
               PROVE  f[n] = IF n \in keep THEN Append(f[n - 1], s[n]) ELSE f[n - 1]
    OBVIOUS
  <2>1. n - 1 \in 0..N  BY <1>0
  <2>2. f[n - 1] \in Seq(T) /\ f[n] = step[<<n, f[n - 1]>>]  BY <1>3, <2>1
  <2> HIDE DEF N, Sat
  <2> QED  BY <1>2, <2>2
<1>5. Sat(f)
  <2> DEFINE rhs(n) == IF n = 0 THEN <<>>
                       ELSE IF n \in keep THEN Append(f[n - 1], s[n]) ELSE f[n - 1]
  <2>1. ASSUME NEW n \in 0..N PROVE f[n] = rhs(n)
    <3>1. n = 0 \/ n \in 1..N  BY <1>0
    <3>2. n \in 1..N => n # 0  BY <1>0
    <3> QED  BY <1>3, <1>4, <3>1, <3>2
  <2> HIDE DEF rhs
  <2>2. f = [n \in 0..N |-> rhs(n)]  BY <1>3, <2>1
  <2> QED  BY <2>2 DEF rhs
<1> DEFINE g == CHOOSE g : Sat(g)
<1>6. Sat(g)
  <2> HIDE DEF Sat
  <2> QED  BY <1>5
<1>7. Filtered(s, keep) = g[N]  BY DEF Filtered
<1> HIDE DEF g
<1>8. Keeps(g, s, keep)
  <2> DEFINE rhs(n) == IF n = 0 THEN <<>>
                       ELSE IF n \in keep THEN Append(g[n - 1], s[n]) ELSE g[n - 1]
  <2>1. g = [n \in 0..N |-> rhs(n)]  BY <1>6
  <2> HIDE DEF rhs
  <2>2. \A n \in 0..N : g[n] = rhs(n)  BY <2>1
  <2> USE DEF rhs
  <2>3. g[0] = <<>>  BY <1>0, <2>2
  <2>4. ASSUME NEW n \in 1..N
        PROVE g[n] = IF n \in keep THEN Append(g[n - 1], s[n]) ELSE g[n - 1]
    BY <1>0, <2>2
  <2> QED  BY <2>3, <2>4 DEF Keeps
<1>9. g \in [0..N -> Seq(T)]
  <2>1. DOMAIN g = 0..N /\ g = [n \in 0..N |-> g[n]]  BY <1>6
  <2> DEFINE good == {n \in 0..N : g[n] = f[n]}
  <2>2. 0 \in good  BY <1>0, <1>3, <1>8 DEF Keeps
  <2>3. ASSUME NEW n \in 1..N, n - 1 \in good PROVE n \in good
    BY <1>4, <1>8, <2>3 DEF Keeps
  <2> HIDE DEF good, N
  <2>4. \A n \in 0..N : n \in good  BY <1>0, <2>2, <2>3, StepByStep
  <2> QED  BY <1>3, <2>1, <2>4 DEF good
<1> QED  BY <1>7, <1>8, <1>9

LEMMA Inserted ==
  ASSUME NEW T, NEW s \in Seq(T), NEW i \in 1..(Len(s) + 1), NEW e \in T
  PROVE  /\ InsertAt(s, i, e) \in Seq(T) /\ Len(InsertAt(s, i, e)) = Len(s) + 1
         /\ \A n \in 1..(i - 1) : InsertAt(s, i, e)[n] = s[n]
         /\ InsertAt(s, i, e)[i] = e
         /\ \A n \in i..Len(s) : InsertAt(s, i, e)[n + 1] = s[n]
<1> DEFINE a == SubSeq(s, 1, i - 1)
           b == SubSeq(s, i, Len(s))
<1>1. Len(s) \in Nat /\ i \in Nat  OBVIOUS
<1>2. a \in Seq(T) /\ Len(a) = i - 1 /\ \A n \in 1..(i - 1) : a[n] = s[n]  OBVIOUS
<1>3. b \in Seq(T) /\ Len(b) = Len(s) - i + 1 /\ \A n \in 1..(Len(s) - i + 1) : b[n] = s[i + n - 1]
  OBVIOUS
<1>4. InsertAt(s, i, e) = (a \o <<e>>) \o b  BY DEF InsertAt
<1> HIDE DEF a, b
<1> DEFINE c == a \o <<e>>
<1>5. c \in Seq(T) /\ Len(c) = i /\ c[i] = e /\ \A n \in 1..(i - 1) : c[n] = s[n]
  BY <1>1, <1>2
<1> HIDE DEF c
<1>6. c \o b \in Seq(T) /\ Len(c \o b) = Len(s) + 1  BY <1>1, <1>3, <1>5
<1>7. \A n \in 1..i : (c \o b)[n] = c[n]  BY <1>1, <1>3, <1>5
<1>8. \A n \in i..Len(s) : (c \o b)[n + 1] = s[n]
  <2>1. ASSUME NEW n \in i..Len(s) PROVE (c \o b)[n + 1] = s[n]
    <3>1. (c \o b)[n + 1] = b[n + 1 - i]  BY <1>1, <1>3, <1>5
    <3>2. n + 1 - i \in 1..(Len(s) - i + 1) /\ i + (n + 1 - i) - 1 = n  BY <1>1
    <3> QED  BY <1>3, <3>1, <3>2
  <2> QED  BY <2>1
<1>9. (c \o b)[i] = e  BY <1>1, <1>5, <1>7
<1>10. \A n \in 1..(i - 1) : (c \o b)[n] = s[n]  BY <1>1, <1>5, <1>7
<1> QED  BY <1>4, <1>6, <1>8, <1>9, <1>10 DEF c

(* An element that is not kept changes nothing, wherever it comes.         *)
LEMMA FilteredInserted ==
  ASSUME NEW T, NEW s \in Seq(T), NEW i \in 1..(Len(s) + 1), NEW e \in T,
         NEW keep, NEW more, i \notin more,
         \A n \in 1..(i - 1) : n \in more <=> n \in keep,
         \A n \in i..Len(s) : n + 1 \in more <=> n \in keep
  PROVE  Filtered(InsertAt(s, i, e), more) = Filtered(s, keep)
<1> DEFINE N == Len(s)
           r == InsertAt(s, i, e)
<1>1. N \in Nat /\ i \in 1..(N + 1)  OBVIOUS
<1>2. /\ r \in Seq(T) /\ Len(r) = N + 1 /\ r[i] = e
      /\ \A n \in 1..(i - 1) : r[n] = s[n]
      /\ \A n \in i..N : r[n + 1] = s[n]
  BY Inserted
<1>3. PICK g \in [0..N -> Seq(T)] : Keeps(g, s, keep) /\ Filtered(s, keep) = g[N]
  BY FilteredUnfolds
<1>r. r \in Seq(T)  BY <1>2
<1> HIDE DEF r
<1>4. PICK h \in [0..Len(r) -> Seq(T)] : Keeps(h, r, more) /\ Filtered(r, more) = h[Len(r)]
  BY ONLY <1>r, FilteredUnfolds
<1>5. h[0] = <<>> /\ g[0] = <<>>  BY <1>3, <1>4 DEF Keeps
<1>6. \A n \in 1..N : g[n] = IF n \in keep THEN Append(g[n - 1], s[n]) ELSE g[n - 1]
  BY <1>3 DEF Keeps
<1>7. \A n \in 1..(N + 1) : h[n] = IF n \in more THEN Append(h[n - 1], r[n]) ELSE h[n - 1]
  BY <1>2, <1>4 DEF Keeps
<1>8. h[i] = h[i - 1]  BY <1>1, <1>7
<1> DEFINE good == {n \in 0..N : /\ n <= i - 1 => h[n] = g[n]
                                 /\ i - 1 <= n => h[n + 1] = g[n]}
<1>9. 0 \in good
  <2>1. i - 1 <= 0 => i = 1  BY <1>1
  <2> QED  BY <1>1, <1>5, <1>8, <2>1
<1>10. ASSUME NEW n \in 1..N, n - 1 \in good PROVE n \in good
  <2>0. n \in Nat /\ i \in Nat  BY <1>1
  <2>1. CASE n <= i - 1
    <3>1. h[n - 1] = g[n - 1]  BY <1>10, <2>0, <2>1
    <3>2. n \in 1..(N + 1) /\ n \in 1..(i - 1)  BY <1>1, <2>0, <2>1
    <3>3. r[n] = s[n] /\ (n \in more <=> n \in keep)  BY <1>2, <3>2
    <3>4. h[n] = g[n]  BY <1>6, <1>7, <3>1, <3>2, <3>3
    <3>5. i - 1 <= n => n = i - 1  BY <2>0, <2>1
    <3>6. i - 1 <= n => n + 1 = i  BY <2>0, <3>5
    <3> QED  BY <1>8, <3>4, <3>5, <3>6
  <2>2. CASE i <= n
    <3>1. i - 1 <= n - 1 /\ (n - 1) + 1 = n /\ ~ n <= i - 1  BY <2>0, <2>2
    <3>2. h[n] = g[n - 1]  BY <1>10, <3>1
    <3>3. n + 1 \in 1..(N + 1) /\ n \in i..N /\ (n + 1) - 1 = n  BY <1>1, <2>0, <2>2
    <3>4. r[n + 1] = s[n] /\ (n + 1 \in more <=> n \in keep)  BY <1>2, <3>3
    <3>5. h[n + 1] = g[n]  BY <1>6, <1>7, <3>2, <3>3, <3>4
    <3> QED  BY <3>1, <3>5
  <2> QED  BY <2>0, <2>1, <2>2
<1>11. \A n \in 0..N : n \in good
  <2> HIDE DEF good, N
  <2> QED  BY <1>1, <1>9, <1>10, StepByStep
<1>12. N \in good /\ i - 1 <= N  BY <1>1, <1>11
<1>13. h[N + 1] = g[N]  BY <1>12
<1> QED  BY <1>2, <1>3, <1>4, <1>13 DEF r

LEMMA FilteredFrom ==
  ASSUME NEW T, NEW s \in Seq(T), NEW keep
  PROVE  /\ Filtered(s, keep) \in Seq(T)
         /\ \A k \in DOMAIN Filtered(s, keep) :
              \E n \in DOMAIN s : n \in keep /\ Filtered(s, keep)[k] = s[n]
<1> DEFINE N == Len(s)
<1>1. N \in Nat  OBVIOUS
<1>2. PICK g \in [0..N -> Seq(T)] : Keeps(g, s, keep) /\ Filtered(s, keep) = g[N]
  BY FilteredUnfolds
<1> DEFINE good == {m \in 0..N : \A k \in DOMAIN g[m] :
                                   \E n \in 1..N : n \in keep /\ g[m][k] = s[n]}
<1>3. 0 \in good  BY <1>1, <1>2 DEF Keeps
<1>4. ASSUME NEW m \in 1..N, m - 1 \in good PROVE m \in good
  <2>1. g[m] = IF m \in keep THEN Append(g[m - 1], s[m]) ELSE g[m - 1]  BY <1>2 DEF Keeps
  <2>2. CASE m \notin keep  BY <1>4, <2>1, <2>2
  <2>3. CASE m \in keep
    <3> DEFINE p == g[m - 1]
    <3>1. p \in Seq(T) /\ g[m] = Append(p, s[m])  BY <1>1, <1>2, <2>1, <2>3
    <3>2. \A k \in DOMAIN p : \E n \in 1..N : n \in keep /\ p[k] = s[n]  BY <1>4
    <3> HIDE DEF p
    <3>3. ASSUME NEW k \in DOMAIN g[m] PROVE \E n \in 1..N : n \in keep /\ g[m][k] = s[n]
      <4>1. k \in 1..(Len(p) + 1)  BY <3>1
      <4>2. CASE k = Len(p) + 1
        <5>1. g[m][k] = s[m]  BY <3>1, <4>2
        <5> QED  BY <2>3, <5>1
      <4>3. CASE k \in 1..Len(p)
        <5>1. g[m][k] = p[k] /\ k \in DOMAIN p  BY <3>1, <4>3
        <5> QED  BY <3>2, <5>1
      <4>4. k = Len(p) + 1 \/ k \in 1..Len(p)
        <5>1. Len(p) \in Nat  BY <3>1
        <5> QED  BY <4>1, <5>1
      <4> QED  BY <4>2, <4>3, <4>4
    <3> QED  BY <3>3
  <2> QED  BY <2>2, <2>3
<1>5. \A m \in 0..N : m \in good
  <2> HIDE DEF good, N
  <2> QED  BY <1>1, <1>3, <1>4, StepByStep
<1>6. N \in good  BY <1>1, <1>5
<1> QED  BY <1>1, <1>2, <1>6

(* The calls of a run are of the tools', and the task is one of the files. *)
CaptureType == calls \in Seq(Calls) /\ task \in TaskFiles

LEMMA CaptureTypes == CaptureSpec => []CaptureType
<1>1. CaptureInit => CaptureType  BY DEF CaptureInit, CaptureType
<1>2. CaptureType /\ [CaptureNext]_captureVars => CaptureType'
  <2> SUFFICES ASSUME CaptureType, [CaptureNext]_captureVars PROVE CaptureType'  OBVIOUS
  <2>1. ASSUME NEW call \in Calls, RecordToolCall(call) PROVE CaptureType'
    BY <2>1 DEF RecordToolCall, CaptureType
  <2>2. ASSUME NEW t \in TaskFiles, NewCapture(t) PROVE CaptureType'
    BY <2>2 DEF NewCapture, CaptureType
  <2>3. CASE UNCHANGED captureVars  BY <2>3 DEF captureVars, CaptureType
  <2> QED  BY <2>1, <2>2, <2>3 DEF CaptureNext
<1> QED  BY <1>1, <1>2, PTL DEF CaptureSpec

LEMMA RetriesCiteNothing ==
  ASSUME NEW s \in Seq(Calls), NEW i \in 1..(Len(s) + 1), NEW call \in Failing
  PROVE  OKCalls(InsertAt(s, i, call)) = OKCalls(s)
<1> DEFINE r    == InsertAt(s, i, call)
           keep == {n \in DOMAIN s : s[n].status = "OK"}
           more == {n \in DOMAIN r : r[n].status = "OK"}
<1>1. call \in Calls /\ call.status # "OK"  BY DEF Failing
<1>2. /\ r \in Seq(Calls) /\ Len(r) = Len(s) + 1 /\ r[i] = call
      /\ \A n \in 1..(i - 1) : r[n] = s[n]
      /\ \A n \in i..Len(s) : r[n + 1] = s[n]
  <2>1. call \in Calls /\ s \in Seq(Calls) /\ i \in 1..(Len(s) + 1)  BY <1>1
  <2>2. /\ InsertAt(s, i, call) \in Seq(Calls) /\ Len(InsertAt(s, i, call)) = Len(s) + 1
        /\ \A n \in 1..(i - 1) : InsertAt(s, i, call)[n] = s[n]
        /\ InsertAt(s, i, call)[i] = call
        /\ \A n \in i..Len(s) : InsertAt(s, i, call)[n + 1] = s[n]
    BY ONLY <2>1, Inserted
  <2> QED  BY ONLY <2>2
<1>3. DOMAIN r = 1..(Len(s) + 1) /\ DOMAIN s = 1..Len(s) /\ Len(s) \in Nat  BY <1>2
<1> HIDE DEF r
<1>4. i \notin more  BY <1>1, <1>2
<1>5. \A n \in 1..(i - 1) : n \in more <=> n \in keep
  <2>1. ASSUME NEW n \in 1..(i - 1) PROVE n \in DOMAIN r /\ n \in DOMAIN s  BY <1>3
  <2> QED  BY <1>2, <2>1
<1>6. \A n \in i..Len(s) : n + 1 \in more <=> n \in keep
  <2>1. ASSUME NEW n \in i..Len(s) PROVE n + 1 \in DOMAIN r /\ n \in DOMAIN s  BY <1>3
  <2> QED  BY <1>2, <2>1
<1>7. OKCalls(r) = Filtered(r, more) /\ OKCalls(s) = Filtered(s, keep)  BY DEF OKCalls
<1> HIDE DEF keep, more
<1>8. Filtered(InsertAt(s, i, call), more) = Filtered(s, keep)
  BY <1>1, <1>4, <1>5, <1>6, FilteredInserted
<1> QED  BY <1>7, <1>8 DEF r

LEMMA AdviceGrounded ==
  ASSUME NEW s \in Seq(Calls), NEW draft \in Drafts
  PROVE  AdvisorGrounding(s, Advise(s, draft), 0) <=> draft # NoDraft
<1>1. CASE draft = NoDraft  BY <1>1 DEF Advise, AdvisorGrounding
<1>2. CASE draft # NoDraft
  <2> DEFINE keep == {i \in DOMAIN draft : draft[i] \in AnalystResults(s)}
             kept == Filtered(draft, keep)
  <2>1. Advise(s, draft) = kept  BY <1>2 DEF Advise
  <2>2. draft \in Seq(Int)  BY CapturedAssumption
  <2>3. /\ kept \in Seq(Int)
        /\ \A k \in DOMAIN kept : \E n \in DOMAIN draft : n \in keep /\ kept[k] = draft[n]
    <3> HIDE DEF keep
    <3> QED  BY <2>2, FilteredFrom
  <2> HIDE DEF kept
  <2>4. \A k \in DOMAIN kept : kept[k] \in DOMAIN OKCalls(s)  BY <2>3 DEF AnalystResults
  <2>5. OKCalls(s) \in Seq(Calls)  BY FilteredFrom DEF OKCalls
  <2>6. kept # NoDraft
    <3>1. ASSUME kept = NoDraft PROVE FALSE
      <4>1. 1 \in DOMAIN kept /\ kept[1] = -1  BY <3>1 DEF NoDraft
      <4>2. -1 \in 1..Len(OKCalls(s))  BY <2>4, <2>5, <4>1
      <4> QED  BY <2>5, <4>2
    <3> QED  BY <3>1
  <2>7. ToSet(kept) \subseteq DOMAIN OKCalls(s)  BY <2>4 DEF ToSet
  <2>8. Len(kept) >= 0  BY <2>3
  <2> QED  BY <1>2, <2>1, <2>6, <2>7, <2>8 DEF AdvisorGrounding
<1> QED  BY <1>1, <1>2

(* Calls that failed change no result that can be cited, and no advice     *)
(* (attribution.go:63).                                                    *)
THEOREM FailuresShiftNothing == CaptureSpec => []FailedCallsShiftNothing
<1>1. CaptureType => FailedCallsShiftNothing
  <2> SUFFICES ASSUME CaptureType PROVE FailedCallsShiftNothing  OBVIOUS
  <2>1. ASSUME NEW i \in 1..(Len(calls) + 1), NEW call \in Failing
        PROVE  /\ OKCalls(InsertAt(calls, i, call)) = OKCalls(calls)
               /\ InsertAt(calls, i, call) \in Seq(Calls)
    BY RetriesCiteNothing, Inserted DEF CaptureType, Failing
  <2>2. ASSUME NEW r \in Seq(Calls), OKCalls(r) = OKCalls(calls), NEW draft \in Drafts
        PROVE  /\ Advise(r, draft) = Advise(calls, draft)
               /\ AdvisorGrounding(r, Advise(calls, draft), 0) <=> draft # NoDraft
    <3>1. Advise(r, draft) = Advise(calls, draft)  BY <2>2 DEF Advise, AnalystResults
    <3> QED  BY <3>1, AdviceGrounded
  <2> HIDE DEF InsertAt
  <2> QED  BY <2>1, <2>2 DEF FailedCallsShiftNothing
<1> QED  BY <1>1, CaptureTypes, PTL

-----------------------------------------------------------------------------
(* Values in cells of their own                                            *)

(* The parts of JSON values.                                               *)
LEMMA JsonParts ==
  ASSUME NEW node \in Nodes \cup {Nowhere}
  PROVE  /\ \A name : Field(node, name) \in Nodes \cup {Nowhere}
         /\ Items(node) \in Seq(Nodes)
         /\ node = Nowhere => Items(node) = <<>> /\ \A name : Field(node, name) = Nowhere
<1>1. CASE node = Nowhere  BY <1>1 DEF Nowhere, Field, Items
<1>2. CASE node \in Nodes
  <2>1. IsNode(node)  BY <1>2, NodesAssumption
  <2>2. node.is \in {"null", "number", "text", "list", "object"} /\ node # Nowhere
    BY <2>1 DEF IsNode, Null, Nowhere
  <2>3. node.is = "list" => node.v \in Seq(Nodes)  BY <2>1 DEF IsNode, Null
  <2>4. node.is = "object" => \A name \in DOMAIN node.v : node.v[name] \in Nodes
    BY <2>1 DEF IsNode, Null
  <2> QED  BY <2>2, <2>3, <2>4 DEF Field, Items
<1> QED  BY <1>1, <1>2

(* What is known of a row and the values wanted of it.                     *)
Readable(columns, row, binds) ==
  /\ \E m \in Nat : DOMAIN columns = 1..m
  /\ IsSequence(row)
  /\ \A c \in DOMAIN row : row[c].is = "number" => row[c].v \in Fractions
  /\ IsSequence(binds)
  /\ \A b \in DOMAIN binds : IsSequence(binds[b].candidates) /\ binds[b].value \in Fractions

LEMMA Sequential ==
  ASSUME NEW T, NEW s \in Seq(T)
  PROVE  IsSequence(s)
<1>1. Len(s) \in Nat /\ DOMAIN s = 1..Len(s) /\ s = [n \in 1..Len(s) |-> s[n]]  OBVIOUS
<1>2. \A n \in 1..Len(s) : s[n] \in ToSet(s)  BY <1>1 DEF ToSet
<1>3. s \in [1..Len(s) -> ToSet(s)]  BY <1>1, <1>2
<1> QED  BY <1>1, <1>3 DEF IsSequence

LEMMA SequenceDomain ==
  ASSUME NEW s, IsSequence(s)
  PROVE  Len(s) \in Nat /\ DOMAIN s = 1..Len(s)
<1> DEFINE T == ToSet(s)
<1>1. s \in Seq(T)  BY DEF IsSequence
<1> HIDE DEF T
<1> QED  BY <1>1

LEMMA IndexExtremes ==
  ASSUME NEW n \in Nat, NEW S, S \subseteq 1..n, S # {}
  PROVE  /\ Min(S) \in S /\ \A x \in S : Min(S) <= x
         /\ Max(S) \in S /\ \A x \in S : x <= Max(S)
<1>1. S \in SUBSET (1..n) /\ IsFiniteSet(1..n)  BY IntervalSize
<1>2. IsFiniteSet(S)  BY <1>1, FS_Subset
<1>3. S \subseteq Nat  OBVIOUS
<1> QED  BY ONLY <1>2, <1>3, S # {}, Extremes

(* A column that Position finds is the one under the name.                 *)
LEMMA PositionUnder ==
  ASSUME NEW columns, NEW row, NEW binds, Readable(columns, row, binds), NEW name
  PROVE  /\ Position(columns, row, name) # 0 =>
              Under(columns, row, Position(columns, row, name), name)
         /\ \A n : Under(columns, row, n, name) => n = Position(columns, row, name) /\ n # 0
<1> DEFINE at == {c \in DOMAIN columns : columns[c] = name}
<1>1. PICK m \in Nat : DOMAIN columns = 1..m  BY DEF Readable
<1>2. at \subseteq 1..m  BY <1>1
<1>3. DOMAIN row = 1..Len(row) /\ Len(row) \in Nat  BY SequenceDomain DEF Readable
<1>4. CASE at = {}
  <2>1. Position(columns, row, name) = 0  BY <1>4 DEF Position
  <2>2. \A n : ~ Under(columns, row, n, name)  BY <1>4 DEF Under
  <2> QED  BY <2>1, <2>2
<1>5. CASE at # {}
  <2> DEFINE last == Max(at)
  <2>1. Position(columns, row, name) = IF last > Len(row) THEN 0 ELSE last
    BY <1>5 DEF Position
  <2>2. last \in at /\ \A x \in at : x <= last
    <3> HIDE DEF at
    <3> QED  BY <1>2, <1>5, IndexExtremes
  <2> HIDE DEF last
  <2>3. last \in 1..m /\ columns[last] = name /\ \A x \in DOMAIN columns : columns[x] = name => x <= last
    BY <1>1, <2>2
  <2>4. CASE last > Len(row)
    <3>1. ASSUME NEW n, Under(columns, row, n, name) PROVE FALSE
      <4>1. n \in 1..Len(row) /\ last <= n  BY <1>1, <1>3, <2>3, <3>1 DEF Under
      <4> QED  BY <1>3, <2>3, <2>4, <4>1
    <3> QED  BY <2>1, <2>4, <3>1
  <2>5. CASE ~ last > Len(row)
    <3>1. last \in DOMAIN row  BY <1>3, <2>3, <2>5
    <3>2. Under(columns, row, last, name)  BY <1>1, <2>3, <3>1 DEF Under
    <3>3. ASSUME NEW n, Under(columns, row, n, name) PROVE n = last
      <4>1. n \in 1..m /\ n <= last /\ last <= n  BY <1>1, <2>3, <3>3 DEF Under
      <4> QED  BY <2>3, <4>1
    <3>4. Position(columns, row, name) = last /\ last # 0  BY <2>1, <2>3, <2>5
    <3> QED  BY <3>2, <3>3, <3>4
  <2> QED  BY <2>4, <2>5
<1> QED  BY <1>4, <1>5

Named(columns, row, names) ==
  {c \in DOMAIN names : \E n \in DOMAIN row : Under(columns, row, n, names[c])}

LEMMA FirstUnder ==
  ASSUME NEW columns, NEW row, NEW binds, Readable(columns, row, binds),
         NEW names, IsSequence(names)
  PROVE  LET at == FirstPresent(columns, row, names)
             named == Named(columns, row, names)
         IN /\ at = 0 <=> named = {}
            /\ at # 0 => at \in DOMAIN row /\ Under(columns, row, at, names[Min(named)])
            /\ named # {} => \A n : Under(columns, row, n, names[Min(named)]) => n = at
<1> DEFINE at      == FirstPresent(columns, row, names)
           named   == Named(columns, row, names)
           present == {c \in DOMAIN names : Position(columns, row, names[c]) # 0}
<1>1. named = present
  <2>1. \A c \in DOMAIN names : Position(columns, row, names[c]) # 0 <=>
          \E n \in DOMAIN row : Under(columns, row, n, names[c])
    <3>1. \A n, name : Under(columns, row, n, name) => n \in DOMAIN row  BY DEF Under
    <3> QED  BY <3>1, PositionUnder
  <2> QED  BY <2>1 DEF Named
<1>2. at = IF named = {} THEN 0 ELSE Position(columns, row, names[Min(named)])
  BY <1>1 DEF FirstPresent
<1>3. CASE named = {}  BY <1>2, <1>3
<1>4. CASE named # {}
  <2>1. named \subseteq 1..Len(names) /\ Len(names) \in Nat  BY SequenceDomain DEF Named
  <2> DEFINE first == Min(named)
  <2>2. first \in named
    <3> HIDE DEF named
    <3> QED  BY <1>4, <2>1, IndexExtremes
  <2>3. at = Position(columns, row, names[first]) /\ at # 0  BY <1>1, <1>2, <1>4, <2>2
  <2> HIDE DEF first, at, named, present
  <2>4. Under(columns, row, at, names[first])  BY <2>3, PositionUnder
  <2>5. at \in DOMAIN row  BY <2>4 DEF Under
  <2>6. \A n : Under(columns, row, n, names[first]) => n = at  BY <2>3, PositionUnder
  <2> QED  BY <1>4, <2>3, <2>4, <2>5, <2>6 DEF first, at, named
<1> QED  BY <1>3, <1>4

LEMMA TimesMonotone ==
  ASSUME NEW x \in Int, NEW y \in Int, NEW n \in Nat \ {0}
  PROVE  x * n <= y * n <=> x <= y
<1>1. x <= y => x * n <= y * n  OBVIOUS
<1>2. x > y => x * n > y * n  OBVIOUS
<1> QED  BY <1>1, <1>2

LEMMA AbsTimes ==
  ASSUME NEW n \in Int, NEW p \in Nat
  PROVE  Abs(n) \in Nat /\ Abs(n) * p = Abs(n * p)
<1>1. CASE n < 0
  <2>1. n * p <= 0  BY <1>1
  <2>2. Abs(n) = -n /\ (-n) * p = -(n * p)  BY <1>1 DEF Abs
  <2> QED  BY <1>1, <2>1, <2>2 DEF Abs
<1>2. CASE n >= 0
  <2>1. n * p >= 0  BY <1>2
  <2> QED  BY <1>2, <2>1 DEF Abs
<1> QED  BY <1>1, <1>2

LEMMA EqualsNear ==
  ASSUME NEW columns, NEW row, NEW binds, Readable(columns, row, binds),
         NEW c \in DOMAIN row, NEW want \in Fractions
  PROVE  Equals(row[c], want) <=> Near(row[c], want)
<1>1. CASE row[c].is # "number"  BY <1>1 DEF Equals, Near
<1>2. CASE row[c].is = "number"
  <2> DEFINE v == row[c].v  a == v[1]  b == v[2]  e == want[1]  d == want[2]  P == Precision
  <2>1. /\ a \in Int /\ e \in Int /\ P \in Nat /\ b \in Nat /\ d \in Nat
        /\ want = <<e, d>> /\ v = <<a, b>>
    BY <1>2, PrecisionAssumption DEF Readable, Fractions
  <2>2. FloatEq(v, want) <=> Abs(a * d - e * b) * P <= b * d  BY DEF FloatEq, Minus
  <2>3. /\ Leq(Minus(want, <<1, P>>), v) <=> (e * P - 1 * d) * b <= a * (d * P)
        /\ Leq(v, Plus(want, <<1, P>>)) <=> a * (d * P) <= (e * P + 1 * d) * b
    BY DEF Leq, Minus, Plus
  <2> HIDE DEF v, a, b, e, d, P
  <2> DEFINE u == a * d  w == e * b  t == b * d
  <2>4. u \in Int /\ w \in Int /\ t \in Int  BY <2>1
  <2>5. /\ (e * P - 1 * d) * b = w * P - t
        /\ (e * P + 1 * d) * b = w * P + t
        /\ a * (d * P) = u * P
    BY <2>1
  <2> HIDE DEF u, w, t
  <2> DEFINE x == u * P  y == w * P
  <2>6. Abs(u - w) * P = Abs(x - y)
    <3>1. (u - w) * P = x - y  BY <2>1, <2>4
    <3>2. u - w \in Int  BY <2>4
    <3> HIDE DEF x, y
    <3> QED  BY <2>1, <3>1, <3>2, AbsTimes
  <2>7. x \in Int /\ y \in Int  BY <2>1, <2>4
  <2> HIDE DEF x, y
  <2>8. Abs(x - y) <= t <=> y - t <= x /\ x <= y + t  BY <2>4, <2>7 DEF Abs
  <2>9. FloatEq(v, want) <=> Leq(Minus(want, <<1, P>>), v) /\ Leq(v, Plus(want, <<1, P>>))
    BY <2>2, <2>3, <2>5, <2>6, <2>8 DEF u, w, t, x, y
  <2> QED  BY <1>2, <2>9 DEF Equals, Near, v, P
<1> QED  BY <1>1, <1>2

(* Two ways to write one number.                                           *)
SameNumber(v, w) == Minus(v, w)[1] = 0

(* What holds a value holds it however it is written.                      *)
LEMMA NearSame ==
  ASSUME NEW columns, NEW row, NEW binds, Readable(columns, row, binds),
         NEW c \in DOMAIN row, NEW v \in Fractions, NEW w \in Fractions, SameNumber(v, w),
         Near(row[c], v)
  PROVE  Near(row[c], w)
<1> DEFINE a == row[c].v[1]  b == row[c].v[2]  e == v[1]  d == v[2]  g == w[1]  f == w[2]
           P == Precision
<1>0. row[c].is = "number"  BY DEF Near
<1>1. /\ a \in Int /\ e \in Int /\ g \in Int /\ P \in Nat
      /\ b \in Nat \ {0} /\ d \in Nat \ {0} /\ f \in Nat \ {0}
  BY <1>0, PrecisionAssumption DEF Readable, Fractions
<1>2. e * f = g * d
  <2>1. e * f - g * d = 0  BY DEF SameNumber, Minus
  <2> QED  BY <1>1, <2>1
<1>3. Abs(a * d - e * b) * P <= b * d
  <2>1. Equals(row[c], v)  BY EqualsNear
  <2> QED  BY <2>1 DEF Equals, FloatEq, Minus
<1>4. Equals(row[c], w) <=> Abs(a * f - g * b) * P <= b * f
  BY <1>0 DEF Equals, FloatEq, Minus
<1> HIDE DEF a, b, d, e, f, g, P
<1> DEFINE m == a * d - e * b  n == a * f - g * b
<1>5. m \in Int /\ n \in Int  BY <1>1
<1>6. m * f = n * d
  <2>1. m * f = (a * d) * f - (e * f) * b  BY <1>1
  <2>2. n * d = (a * d) * f - (g * d) * b  BY <1>1
  <2> QED  BY <1>2, <2>1, <2>2
<1> HIDE DEF m, n
<1>7. Abs(m) * f = Abs(n) * d /\ Abs(m) \in Nat /\ Abs(n) \in Nat
  <2>1. Abs(m) \in Nat /\ Abs(m) * f = Abs(m * f)  BY <1>1, <1>5, AbsTimes
  <2>2. Abs(n) \in Nat /\ Abs(n) * d = Abs(n * d)  BY <1>1, <1>5, AbsTimes
  <2> QED  BY <1>6, <2>1, <2>2
<1> DEFINE p == Abs(m)  q == Abs(n)
<1> HIDE DEF p, q
<1>8. q * P <= b * f
  <2>1. p * f = q * d /\ p \in Nat /\ q \in Nat /\ p * P <= b * d  BY <1>3, <1>7 DEF p, q, m
  <2>2. (p * P) * f <= (b * d) * f
    <3> DEFINE x == p * P  y == b * d
    <3>1. x \in Int /\ y \in Int /\ x <= y  BY <1>1, <2>1
    <3> HIDE DEF x, y
    <3> QED  BY <1>1, <3>1, TimesMonotone DEF x, y
  <2>3. (p * P) * f = (q * P) * d
    <3>1. (p * P) * f = (p * f) * P /\ (q * P) * d = (q * d) * P  BY <1>1, <2>1
    <3> QED  BY <2>1, <3>1
  <2>4. (b * d) * f = (b * f) * d  BY <1>1
  <2> DEFINE x == q * P  y == b * f
  <2>5. x \in Int /\ y \in Int /\ x * d <= y * d  BY <1>1, <2>1, <2>2, <2>3, <2>4
  <2> HIDE DEF x, y
  <2>6. x <= y  BY <1>1, <2>5, TimesMonotone
  <2> QED  BY <2>6 DEF x, y
<1>9. Equals(row[c], w)  BY <1>4, <1>8 DEF q, n
<1> QED  BY <1>9, EqualsNear

(* No cell holds two values that lie apart.                                *)
LEMMA NearOne ==
  ASSUME NEW columns, NEW row, NEW binds, Readable(columns, row, binds), Apart(binds),
         NEW c \in DOMAIN row, NEW i \in DOMAIN binds, NEW j \in DOMAIN binds,
         Near(row[c], binds[i].value), Near(row[c], binds[j].value)
  PROVE  SameNumber(binds[i].value, binds[j].value)
<1> DEFINE v == binds[i].value  w == binds[j].value
           a == row[c].v[1]  b == row[c].v[2]  e == v[1]  d == v[2]  g == w[1]  f == w[2]
           P == Precision
<1>0. row[c].is = "number" /\ v \in Fractions /\ w \in Fractions  BY DEF Near, Readable
<1>1. /\ a \in Int /\ e \in Int /\ g \in Int /\ P \in Nat
      /\ b \in Nat \ {0} /\ d \in Nat \ {0} /\ f \in Nat \ {0}
  BY <1>0, PrecisionAssumption DEF Readable, Fractions
<1>2. Abs(a * d - e * b) * P <= b * d /\ Abs(a * f - g * b) * P <= b * f
  <2>1. Equals(row[c], v) /\ Equals(row[c], w)  BY <1>0, EqualsNear
  <2> QED  BY <2>1 DEF Equals, FloatEq, Minus
<1>3. SameNumber(v, w) \/ Abs(e * f - g * d) * P > 2 * (d * f)
  <2>1. binds[i] \in ToSet(binds) /\ binds[j] \in ToSet(binds)  BY DEF ToSet
  <2> QED  BY <2>1 DEF Apart, SameNumber, Minus
<1> HIDE DEF v, w, a, b, d, e, f, g, P
<1> DEFINE m == a * d - e * b  n == a * f - g * b  k == e * f - g * d
<1>4. m \in Int /\ n \in Int /\ k \in Int /\ k * b = n * d - m * f
  <2>1. m \in Int /\ n \in Int /\ k \in Int  BY <1>1
  <2>2. k * b = (e * f) * b - (g * d) * b  BY <1>1
  <2>3. n * d = (a * f) * d - (g * d) * b /\ m * f = (a * f) * d - (e * f) * b  BY <1>1
  <2>4. (e * f) * b \in Int /\ (g * d) * b \in Int /\ (a * f) * d \in Int  BY <1>1
  <2> QED  BY <2>1, <2>2, <2>3, <2>4
<1>5. Abs(m) * P <= b * d /\ Abs(n) * P <= b * f  BY <1>2
<1>6. SameNumber(v, w) \/ Abs(k) * P > 2 * (d * f)  BY <1>3
<1> HIDE DEF m, n, k
<1> DEFINE p == Abs(m)  q == Abs(n)  r == Abs(k)
<1>7. /\ p \in Nat /\ q \in Nat /\ r \in Nat
      /\ p * f = Abs(m * f) /\ q * d = Abs(n * d) /\ r * b = Abs(k * b)
  BY <1>1, <1>4, AbsTimes
<1>8. r * b <= q * d + p * f
  <2> DEFINE x == m * f  y == n * d  z == k * b
  <2>1. x \in Int /\ y \in Int /\ z = y - x  BY <1>1, <1>4
  <2> HIDE DEF x, y, z
  <2>2. Abs(z) <= Abs(y) + Abs(x)  BY <2>1 DEF Abs
  <2> QED  BY <1>7, <2>2 DEF x, y, z
<1> HIDE DEF p, q, r
<1>9. r * P <= 2 * (d * f)
  <2>1. p * P <= b * d /\ q * P <= b * f  BY <1>5 DEF p, q
  <2>2. (p * P) * f <= (b * d) * f
    <3> DEFINE x == p * P  y == b * d
    <3>1. x \in Int /\ y \in Int /\ x <= y  BY <1>1, <1>7, <2>1
    <3> HIDE DEF x, y
    <3> QED  BY <1>1, <3>1, TimesMonotone DEF x, y
  <2>3. (q * P) * d <= (b * f) * d
    <3> DEFINE x == q * P  y == b * f
    <3>1. x \in Int /\ y \in Int /\ x <= y  BY <1>1, <1>7, <2>1
    <3> HIDE DEF x, y
    <3> QED  BY <1>1, <3>1, TimesMonotone DEF x, y
  <2>4. (r * b) * P <= (q * d + p * f) * P
    <3> DEFINE x == r * b  y == q * d + p * f
    <3>1. x \in Int /\ y \in Int /\ x <= y  BY <1>1, <1>7, <1>8
    <3> HIDE DEF x, y
    <3> QED  BY <1>1, <3>1 DEF x, y
  <2> DEFINE x == r * P  y == 2 * (d * f)
  <2>5. /\ (r * b) * P = x * b
        /\ (q * d + p * f) * P = (q * P) * d + (p * P) * f
        /\ (b * f) * d + (b * d) * f = y * b
    BY <1>1, <1>7
  <2>6. x \in Int /\ y \in Int /\ x * b <= y * b
    <3> DEFINE s == (q * P) * d  t == (p * P) * f  ss == (b * f) * d  tt == (b * d) * f
    <3>1. x \in Int /\ y \in Int /\ s \in Int /\ t \in Int /\ ss \in Int /\ tt \in Int
      BY <1>1, <1>7
    <3>2. s <= ss /\ t <= tt /\ x * b <= s + t /\ y * b = ss + tt
      BY <2>2, <2>3, <2>4, <2>5
    <3> DEFINE xb == x * b  yb == y * b
    <3>3. xb \in Int /\ yb \in Int  BY <1>1, <3>1
    <3> HIDE DEF s, t, ss, tt, xb, yb
    <3>4. xb <= yb  BY <3>1, <3>2, <3>3 DEF xb, yb
    <3> QED  BY <3>1, <3>4 DEF xb, yb
  <2> HIDE DEF x, y
  <2>7. x <= y  BY <1>1, <2>6, TimesMonotone
  <2> QED  BY <2>7 DEF x, y
<1>10. ~ Abs(k) * P > 2 * (d * f)
  <2> DEFINE x == r * P  y == 2 * (d * f)
  <2>1. x \in Int /\ y \in Int  BY <1>1, <1>7
  <2>2. x <= y  BY <1>9
  <2> HIDE DEF x, y
  <2>3. ~ x > y  BY <2>1, <2>2
  <2> QED  BY <2>3 DEF x, y, r
<1> QED  BY <1>6, <1>10 DEF v, w

(* The column a value is bound to by name, and the values that have one.   *)
Place(columns, row, binds, b) == FirstPresent(columns, row, binds[b].candidates)
Placed(columns, row, binds) == {b \in DOMAIN binds : Place(columns, row, binds, b) # 0}

(* The cell that a value takes of those that are left; 0: none.            *)
Taken(row, binds, claimed, b) ==
  LET free == Unclaimed(row, claimed, binds[b].value) IN IF free = {} THEN 0 ELSE Min(free)

(* g[n] is what is claimed after the first n values.                       *)
Claims(g, columns, row, binds) ==
  /\ g[0] = {Place(columns, row, binds, b) : b \in Placed(columns, row, binds)}
  /\ \A n \in DOMAIN binds : g[n] = g[n - 1] \cup
       (IF n \in Placed(columns, row, binds) THEN {} ELSE {Taken(row, binds, g[n - 1], n)})

LEMMA TakenFree ==
  ASSUME NEW columns, NEW row, NEW binds, Readable(columns, row, binds),
         NEW claimed, NEW b \in DOMAIN binds
  PROVE  LET c == Taken(row, binds, claimed, b) IN
         /\ c \in 0..Len(row)
         /\ c # 0 => c \in DOMAIN row /\ c \notin claimed /\ Near(row[c], binds[b].value)
         /\ c = 0 => \A i \in DOMAIN row : Near(row[i], binds[b].value) => i \in claimed
<1> DEFINE free == Unclaimed(row, claimed, binds[b].value)
           c    == Taken(row, binds, claimed, b)
<1>1. DOMAIN row = 1..Len(row) /\ Len(row) \in Nat /\ binds[b].value \in Fractions
  BY SequenceDomain DEF Readable
<1>2. \A i \in DOMAIN row : i \in free <=> i \notin claimed /\ Near(row[i], binds[b].value)
  <2>1. \A i \in DOMAIN row : Equals(row[i], binds[b].value) <=> Near(row[i], binds[b].value)
    BY <1>1, EqualsNear
  <2> QED  BY <2>1 DEF Unclaimed
<1>3. free \subseteq DOMAIN row  BY DEF Unclaimed
<1>4. c = IF free = {} THEN 0 ELSE Min(free)  BY DEF Taken
<1> HIDE DEF free, c
<1>5. CASE free = {}
  <2>1. c = 0  BY <1>4, <1>5
  <2> QED  BY <1>1, <1>2, <1>5, <2>1 DEF c
<1>6. CASE free # {}
  <2>1. Min(free) \in free  BY <1>1, <1>3, <1>6, IndexExtremes
  <2>2. c \in free  BY <1>4, <1>6, <2>1
  <2>3. c \in 1..Len(row) /\ c # 0  BY <1>1, <1>3, <2>2
  <2> QED  BY <1>1, <1>2, <2>2, <2>3 DEF c
<1> QED  BY <1>5, <1>6

LEMMA ClaimsUnfold ==
  ASSUME NEW columns, NEW row, NEW binds, Readable(columns, row, binds)
  PROVE  \E g : /\ Claims(g, columns, row, binds)
                /\ CheckExpectValues(columns, row, binds) <=>
                     /\ \A b \in Placed(columns, row, binds) :
                          Equals(row[Place(columns, row, binds, b)], binds[b].value)
                     /\ 0 \notin g[Len(binds)]
<1> DEFINE N       == Len(binds)
           At1(b)  == FirstPresent(columns, row, binds[b].candidates)
           Free(claimed, b) == Unclaimed(row, claimed, binds[b].value)
           named   == {b \in DOMAIN binds : At1(b) # 0}
           base    == {At1(b) : b \in named}
           More(claimed, n) == claimed \cup
             (IF n \in named THEN {}
              ELSE IF Free(claimed, n) = {} THEN {0} ELSE {Min(Free(claimed, n))})
           Sat(f)  == f = [n \in 0..N |-> IF n = 0 THEN base ELSE More(f[n - 1], n)]
           S       == SUBSET (0..Len(row))
           step    == [x \in (1..N) \X S |-> More(x[2], x[1])]
<1>0. N \in Nat /\ DOMAIN binds = 1..N /\ Len(row) \in Nat /\ DOMAIN row = 1..Len(row)
  BY SequenceDomain DEF Readable
<1>1. named = Placed(columns, row, binds) /\ \A b : At1(b) = Place(columns, row, binds, b)
  BY DEF Placed, Place
<1>2. base \in S
  <2>1. ASSUME NEW b \in named PROVE At1(b) \in 0..Len(row)
    <3>1. IsSequence(binds[b].candidates)  BY DEF Readable
    <3>2. At1(b) = 0 \/ At1(b) \in DOMAIN row  BY <3>1, FirstUnder
    <3> QED  BY <1>0, <3>2
  <2> QED  BY <2>1
<1>3. ASSUME NEW r, NEW n \in 1..N
      PROVE More(r, n) = r \cup (IF n \in named THEN {} ELSE {Taken(row, binds, r, n)})
  BY DEF Taken
<1> HIDE DEF named, base, More
<1>4. Steps(step, N, S)
  <2>1. ASSUME NEW x \in (1..N) \X S PROVE step[x] \in S
    <3>1. x[1] \in 1..N /\ x[2] \in S  OBVIOUS
    <3>2. Taken(row, binds, x[2], x[1]) \in 0..Len(row)  BY <1>0, <3>1, TakenFree
    <3>3. More(x[2], x[1]) \in S  BY <1>3, <3>1, <3>2
    <3> QED  BY <3>3
  <2> QED  BY <2>1 DEF Steps
<1>5. PICK f : Iterates(f, N, S, base, step)
  <2> HIDE DEF N, S, step, Sat
  <2> QED  BY <1>0, <1>2, <1>4, Iteration
<1>6. f \in [0..N -> S] /\ f[0] = base  BY <1>5 DEF Iterates
<1>7. ASSUME NEW n \in 1..N PROVE f[n] = More(f[n - 1], n)
  <2>1. f[n] = step[<<n, f[n - 1]>>]  BY <1>5 DEF Iterates
  <2>2. n - 1 \in 0..N  BY <1>0
  <2>3. f[n - 1] \in S  BY <1>6, <2>2
  <2>4. <<n, f[n - 1]>> \in (1..N) \X S  BY <2>3
  <2> QED  BY <2>1, <2>4
<1> HIDE DEF step, S
<1>8. Sat(f)
  <2> DEFINE rhs(n) == IF n = 0 THEN base ELSE More(f[n - 1], n)
  <2>1. ASSUME NEW n \in 0..N PROVE f[n] = rhs(n)
    <3>1. n = 0 \/ n \in 1..N  BY <1>0
    <3>2. n \in 1..N => n # 0  BY <1>0
    <3> QED  BY <1>6, <1>7, <3>1, <3>2
  <2> HIDE DEF rhs
  <2>2. f = [n \in 0..N |-> rhs(n)]  BY <1>6, <2>1
  <2> QED  BY <2>2 DEF rhs
<1> DEFINE g == CHOOSE g : Sat(g)
<1>9. Sat(g)
  <2> HIDE DEF Sat
  <2> QED  BY <1>8
<1>10. CheckExpectValues(columns, row, binds) <=>
         /\ \A b \in named : Equals(row[At1(b)], binds[b].value)
         /\ 0 \notin g[N]
  BY DEF CheckExpectValues, named, base, More
<1> HIDE DEF g
<1>11. g[0] = base /\ \A n \in 1..N : g[n] = More(g[n - 1], n)
  <2> DEFINE rhs(n) == IF n = 0 THEN base ELSE More(g[n - 1], n)
  <2>1. g = [n \in 0..N |-> rhs(n)]  BY <1>9
  <2> HIDE DEF rhs
  <2>2. \A n \in 0..N : g[n] = rhs(n)  BY <2>1
  <2> USE DEF rhs
  <2>3. g[0] = base  BY <1>0, <2>2
  <2>4. ASSUME NEW n \in 1..N PROVE g[n] = More(g[n - 1], n)  BY <1>0, <2>2
  <2> QED  BY <2>3, <2>4
<1>12. Claims(g, columns, row, binds)
  <2>1. g[0] = {Place(columns, row, binds, b) : b \in Placed(columns, row, binds)}
    BY <1>1, <1>11 DEF base
  <2> QED  BY <1>0, <1>1, <1>3, <1>11, <2>1 DEF Claims
<1> QED  BY <1>1, <1>10, <1>12

(* Every value without a column, up to n, has made its claim.              *)
Fallback(columns, row, binds) == DOMAIN binds \ Placed(columns, row, binds)

LEMMA Claimed ==
  ASSUME NEW columns, NEW row, NEW binds, Readable(columns, row, binds),
         NEW g, Claims(g, columns, row, binds), NEW n \in 0..Len(binds)
  PROVE  \A c : c \in g[n] <=>
           \/ \E b \in Placed(columns, row, binds) : c = Place(columns, row, binds, b)
           \/ \E o \in Fallback(columns, row, binds) : o <= n /\ c = Taken(row, binds, g[o - 1], o)
<1> DEFINE N    == Len(binds)
           P    == Placed(columns, row, binds)
           F    == Fallback(columns, row, binds)
           Own(c)     == \E b \in P : c = Place(columns, row, binds, b)
           Took(c, m) == \E o \in F : o <= m /\ c = Taken(row, binds, g[o - 1], o)
           good == {m \in 0..N : \A c : c \in g[m] <=> Own(c) \/ Took(c, m)}
<1>0. N \in Nat /\ DOMAIN binds = 1..N  BY SequenceDomain DEF Readable
<1>1. F \subseteq 1..N /\ \A m \in 1..N : m \in F <=> m \notin P  BY <1>0 DEF Fallback
<1>2. g[0] = {Place(columns, row, binds, b) : b \in P}  BY DEF Claims
<1>3. \A m \in 1..N : g[m] = g[m - 1] \cup (IF m \in P THEN {} ELSE {Taken(row, binds, g[m - 1], m)})
  BY <1>0 DEF Claims
<1> HIDE DEF P, F
<1>4. 0 \in good
  <2>1. \A c : ~ Took(c, 0)
    <3>1. \A o \in F : ~ o <= 0  BY <1>0, <1>1
    <3> QED  BY <3>1
  <2>2. \A c : c \in g[0] <=> Own(c)  BY <1>2
  <2>3. 0 \in 0..N  BY <1>0
  <2> HIDE DEF Own, Took
  <2> QED  BY <2>1, <2>2, <2>3
<1>5. ASSUME NEW m \in 1..N, m - 1 \in good PROVE m \in good
  <2>1. \A c : c \in g[m - 1] <=> Own(c) \/ Took(c, m - 1)  BY <1>5
  <2>2. \A c : c \in g[m] <=> c \in g[m - 1] \/ (m \in F /\ c = Taken(row, binds, g[m - 1], m))
    BY <1>1, <1>3
  <2>3. \A o \in F : o <= m <=> o <= m - 1 \/ o = m  BY <1>0, <1>1
  <2>4. \A c : Took(c, m) <=> Took(c, m - 1) \/ (m \in F /\ c = Taken(row, binds, g[m - 1], m))
    <3>1. m <= m  BY <1>0
    <3> QED  BY <2>3, <3>1
  <2>5. m \in 0..N  BY <1>0
  <2> HIDE DEF Own, Took
  <2> QED  BY <2>1, <2>2, <2>4, <2>5
<1>6. \A m \in 0..N : m \in good
  <2> HIDE DEF good, N
  <2> QED  BY <1>0, <1>4, <1>5, StepByStep
<1> QED  BY <1>6 DEF P, F

(* cell is a choice of cells as HasMatching asks for.                      *)
Matches(cell, columns, row, binds) ==
  /\ cell \in [DOMAIN binds -> DOMAIN row]
  /\ \A b \in DOMAIN binds : Near(row[cell[b]], binds[b].value)
  /\ \A b \in Placed(columns, row, binds) : cell[b] = Place(columns, row, binds, b)
  /\ \A o \in Fallback(columns, row, binds), b \in DOMAIN binds : b # o => cell[b] # cell[o]

LEMMA MatchesDefined ==
  ASSUME NEW columns, NEW row, NEW binds, Readable(columns, row, binds)
  PROVE  HasMatching(columns, row, binds) <=> \E cell : Matches(cell, columns, row, binds)
<1> DEFINE names(b) == binds[b].candidates
           named(b) == Named(columns, row, names(b))
           Suits(cell, b) ==
             /\ Near(row[cell[b]], binds[b].value)
             /\ named(b) # {} => Under(columns, row, cell[b], names(b)[Min(named(b))])
             /\ named(b) = {} => \A o \in DOMAIN binds \ {b} : cell[o] # cell[b]
<1>1. HasMatching(columns, row, binds) <=>
        \E cell \in [DOMAIN binds -> DOMAIN row] : \A b \in DOMAIN binds : Suits(cell, b)
  BY DEF HasMatching, Named, Near
<1>2. ASSUME NEW b \in DOMAIN binds
      PROVE  /\ b \in Placed(columns, row, binds) <=> named(b) # {}
             /\ named(b) # {} => \A n : Under(columns, row, n, names(b)[Min(named(b))])
                                          <=> n = Place(columns, row, binds, b)
  <2>1. IsSequence(names(b))  BY DEF Readable
  <2> HIDE DEF names
  <2>2. LET at == FirstPresent(columns, row, names(b)) IN
        /\ at = 0 <=> named(b) = {}
        /\ at # 0 => at \in DOMAIN row /\ Under(columns, row, at, names(b)[Min(named(b))])
        /\ named(b) # {} => \A n : Under(columns, row, n, names(b)[Min(named(b))]) => n = at
    BY <2>1, FirstUnder
  <2>3. Place(columns, row, binds, b) = FirstPresent(columns, row, names(b))
    BY DEF Place, names
  <2> HIDE DEF named
  <2> QED  BY <2>2, <2>3 DEF Placed
<1> HIDE DEF names, named
<1>3. ASSUME NEW cell \in [DOMAIN binds -> DOMAIN row]
      PROVE  (\A b \in DOMAIN binds : Suits(cell, b)) <=> Matches(cell, columns, row, binds)
  <2>1. ASSUME \A b \in DOMAIN binds : Suits(cell, b) PROVE Matches(cell, columns, row, binds)
    <3>1. ASSUME NEW b \in Placed(columns, row, binds) PROVE cell[b] = Place(columns, row, binds, b)
      <4>1. b \in DOMAIN binds  BY DEF Placed
      <4>2. named(b) # {}  BY <1>2, <4>1
      <4>3. Under(columns, row, cell[b], names(b)[Min(named(b))])  BY <2>1, <4>1, <4>2
      <4> QED  BY <1>2, <4>1, <4>2, <4>3
    <3>2. ASSUME NEW o \in Fallback(columns, row, binds), NEW b \in DOMAIN binds, b # o
          PROVE  cell[b] # cell[o]
      <4>1. o \in DOMAIN binds /\ o \notin Placed(columns, row, binds)  BY DEF Fallback
      <4>2. named(o) = {}  BY <1>2, <4>1
      <4> QED  BY <2>1, <3>2, <4>1, <4>2
    <3> QED  BY <2>1, <3>1, <3>2 DEF Matches
  <2>2. ASSUME Matches(cell, columns, row, binds), NEW b \in DOMAIN binds PROVE Suits(cell, b)
    <3>1. CASE b \in Placed(columns, row, binds)
      BY <1>2, <2>2, <3>1 DEF Matches
    <3>2. CASE b \notin Placed(columns, row, binds)
      BY <1>2, <2>2, <3>2 DEF Matches, Fallback
    <3> QED  BY <3>1, <3>2
  <2> QED  BY <2>1, <2>2
<1>4. \A cell : Matches(cell, columns, row, binds) => cell \in [DOMAIN binds -> DOMAIN row]
  BY DEF Matches
<1> HIDE DEF Suits
<1> QED  BY <1>1, <1>3, <1>4

LEMMA GreedySound ==
  ASSUME NEW columns, NEW row, NEW binds, Readable(columns, row, binds),
         NEW g, Claims(g, columns, row, binds), 0 \notin g[Len(binds)],
         \A b \in Placed(columns, row, binds) :
           Equals(row[Place(columns, row, binds, b)], binds[b].value)
  PROVE  \E cell : Matches(cell, columns, row, binds)
<1> DEFINE N == Len(binds)
           P == Placed(columns, row, binds)
           F == Fallback(columns, row, binds)
           at(b) == Place(columns, row, binds, b)
           took(o) == Taken(row, binds, g[o - 1], o)
           cell == [b \in DOMAIN binds |-> IF b \in P THEN at(b) ELSE took(b)]
<1>0. N \in Nat /\ DOMAIN binds = 1..N  BY SequenceDomain DEF Readable
<1>1. P \subseteq 1..N /\ F \subseteq 1..N /\ \A b \in 1..N : b \in F <=> b \notin P
  BY <1>0 DEF Placed, Fallback
<1>2. ASSUME NEW b \in P PROVE at(b) \in DOMAIN row /\ Near(row[at(b)], binds[b].value)
  <2>1. b \in DOMAIN binds /\ at(b) # 0  BY DEF Placed
  <2>2. IsSequence(binds[b].candidates) /\ binds[b].value \in Fractions  BY <2>1 DEF Readable
  <2>3. at(b) \in DOMAIN row  BY <2>1, <2>2, FirstUnder DEF Place
  <2>4. Equals(row[at(b)], binds[b].value)  OBVIOUS
  <2> HIDE DEF at
  <2> QED  BY <2>2, <2>3, <2>4, EqualsNear
<1>3. ASSUME NEW o \in F, NEW n \in o..N PROVE took(o) \in g[n]
  <2>1. n \in 0..N /\ o <= n  BY <1>0, <1>1
  <2> QED  BY <2>1, Claimed
<1>4. ASSUME NEW b \in P, NEW n \in 0..N PROVE at(b) \in g[n]  BY Claimed
<1>5. ASSUME NEW o \in F
      PROVE  took(o) \in DOMAIN row /\ took(o) \notin g[o - 1] /\ Near(row[took(o)], binds[o].value)
  <2>1. N \in o..N  BY <1>0, <1>1
  <2>2. took(o) # 0  BY <1>3, <2>1
  <2>3. o \in DOMAIN binds  BY <1>0, <1>1
  <2> QED  BY <2>2, <2>3, TakenFree
<1> HIDE DEF at, took, P, F
<1>6. cell \in [DOMAIN binds -> DOMAIN row]  BY <1>0, <1>1, <1>2, <1>5
<1>7. \A b \in P : cell[b] = at(b)  BY <1>0, <1>1
<1>8. \A o \in F : cell[o] = took(o)  BY <1>0, <1>1
<1> HIDE DEF cell
<1>9. \A b \in DOMAIN binds : Near(row[cell[b]], binds[b].value)
  BY <1>0, <1>1, <1>2, <1>5, <1>7, <1>8
<1>10. ASSUME NEW o \in F, NEW b \in DOMAIN binds, b # o PROVE cell[b] # cell[o]
  <2>0. o \in 1..N /\ b \in 1..N  BY <1>0, <1>1
  <2>1. CASE b \in P
    <3>1. o - 1 \in 0..N  BY <1>0, <2>0
    <3>2. at(b) \in g[o - 1]  BY <1>4, <2>1, <3>1
    <3> QED  BY <1>5, <1>7, <1>8, <2>1, <3>2
  <2>2. CASE b \in F /\ b < o
    <3>1. o - 1 \in b..N  BY <1>0, <2>0, <2>2
    <3>2. took(b) \in g[o - 1]  BY <1>3, <2>2, <3>1
    <3> QED  BY <1>5, <1>8, <2>2, <3>2
  <2>3. CASE b \in F /\ o < b
    <3>1. b - 1 \in o..N  BY <1>0, <2>0, <2>3
    <3>2. took(o) \in g[b - 1]  BY <1>3, <3>1
    <3> QED  BY <1>5, <1>8, <2>3, <3>2
  <2>4. b < o \/ o < b  BY <1>0, <1>10, <2>0
  <2> QED  BY <1>1, <2>0, <2>1, <2>2, <2>3, <2>4
<1>11. Matches(cell, columns, row, binds)
  BY <1>6, <1>7, <1>9, <1>10 DEF Matches, P, F, at
<1> QED  BY <1>11

(* As many cells hold a value as there are values to place: while one is   *)
(* left without, some cell of the choice is still free.                    *)
LEMMA GreedyComplete ==
  ASSUME NEW columns, NEW row, NEW binds, Readable(columns, row, binds), Apart(binds),
         NEW g, Claims(g, columns, row, binds),
         NEW cell, Matches(cell, columns, row, binds)
  PROVE  /\ 0 \notin g[Len(binds)]
         /\ \A b \in Placed(columns, row, binds) :
              Equals(row[Place(columns, row, binds, b)], binds[b].value)
<1> DEFINE N == Len(binds)
           P == Placed(columns, row, binds)
           F == Fallback(columns, row, binds)
           at(b) == Place(columns, row, binds, b)
           took(o) == Taken(row, binds, g[o - 1], o)
           val(b) == binds[b].value
<1>0. N \in Nat /\ DOMAIN binds = 1..N  BY SequenceDomain DEF Readable
<1>1. P \subseteq 1..N /\ F \subseteq 1..N /\ \A b \in P : b \notin F /\ at(b) # 0
  BY <1>0 DEF Placed, Fallback
<1>2. /\ \A b \in 1..N : cell[b] \in DOMAIN row /\ Near(row[cell[b]], val(b))
      /\ \A b \in P : cell[b] = at(b)
      /\ \A o \in F, b \in 1..N : b # o => cell[b] # cell[o]
  BY <1>0 DEF Matches
<1>3. ASSUME NEW o \in F
      PROVE  /\ took(o) # 0 => took(o) \in DOMAIN row /\ Near(row[took(o)], val(o))
             /\ took(o) = 0 => \A i \in DOMAIN row : Near(row[i], val(o)) => i \in g[o - 1]
  <2>1. o \in DOMAIN binds  BY <1>0, <1>1
  <2> QED  BY <2>1, TakenFree
<1>4. \A n \in 0..N : \A c : c \in g[n] <=> (\E b \in P : c = at(b)) \/ \E o \in F : o <= n /\ c = took(o)
  BY Claimed
<1>5. ASSUME NEW a \in 1..N, NEW b \in 1..N, NEW c \in DOMAIN row,
             Near(row[c], val(a)), Near(row[c], val(b))
      PROVE  SameNumber(val(a), val(b))
  BY <1>0, <1>5, NearOne
<1>6. ASSUME NEW b \in P PROVE Equals(row[at(b)], val(b))
  <2>1. b \in DOMAIN binds /\ at(b) \in DOMAIN row /\ Near(row[at(b)], val(b))  BY <1>0, <1>1, <1>2
  <2>2. val(b) \in Fractions  BY <2>1 DEF Readable
  <2> HIDE DEF at, val
  <2> QED  BY <2>1, <2>2, EqualsNear
<1>7. ASSUME 0 \in g[N] PROVE FALSE
  <2> HIDE DEF P, F, at, took, val
  <2>1. PICK o \in F : took(o) = 0
    <3>1. N \in 0..N  BY <1>0
    <3> QED  BY <1>1, <1>4, <1>7, <3>1
  <2>2. o \in 1..N /\ o - 1 \in 0..N  BY <1>0, <1>1
  <2> DEFINE A == {a \in F : a <= o - 1 /\ SameNumber(val(a), val(o))}
             B == A \cup {o}
  <2>3. A \subseteq F /\ o \notin A /\ B \subseteq F /\ \A x \in B : SameNumber(val(x), val(o))
    <3>1. o \in DOMAIN binds  BY <1>0, <2>2
    <3>2. val(o) \in Fractions  BY <3>1 DEF Readable, val
    <3>3. SameNumber(val(o), val(o))  BY <3>2 DEF SameNumber, Minus, Fractions
    <3> QED  BY <2>2, <3>3
  <2>4. ASSUME NEW x \in B PROVE \E a \in A : cell[x] = took(a)
    <3>1. x \in F /\ x \in 1..N /\ SameNumber(val(x), val(o))  BY <1>1, <2>3
    <3>2. cell[x] \in DOMAIN row /\ Near(row[cell[x]], val(o))
      <4>1. cell[x] \in DOMAIN row /\ Near(row[cell[x]], val(x))  BY <1>2, <3>1
      <4>2. x \in DOMAIN binds /\ o \in DOMAIN binds  BY <1>0, <2>2, <3>1
      <4>3. val(x) \in Fractions /\ val(o) \in Fractions  BY <4>2 DEF Readable, val
      <4> QED  BY <3>1, <4>1, <4>3, NearSame
    <3>3. cell[x] \in g[o - 1]  BY <1>3, <2>1, <3>2
    <3>4. \A b \in P : cell[x] # at(b)
      <4>1. ASSUME NEW b \in P, cell[x] = at(b) PROVE FALSE
        <5>1. b \in 1..N /\ b # x  BY <1>1, <3>1
        <5>2. cell[b] # cell[x] /\ cell[b] = at(b)  BY <1>2, <3>1, <5>1
        <5> QED  BY <4>1, <5>2
      <4> QED  BY <4>1
    <3>5. PICK a \in F : a <= o - 1 /\ cell[x] = took(a)  BY <1>4, <2>2, <3>3, <3>4
    <3>6. a \in 1..N  BY <1>1
    <3>7. took(a) # 0
      <4>1. DOMAIN row = 1..Len(row)  BY SequenceDomain DEF Readable
      <4>2. 0 \notin DOMAIN row  BY <4>1
      <4> QED  BY <3>2, <3>5, <4>2
    <3>8. Near(row[took(a)], val(a))  BY <1>3, <3>7
    <3>9. SameNumber(val(a), val(o))  BY <1>5, <2>2, <3>2, <3>5, <3>6, <3>8
    <3> QED  BY <3>5, <3>9
  <2> DEFINE h == [x \in B |-> CHOOSE a \in A : cell[x] = took(a)]
  <2>5. \A x \in B : h[x] \in A /\ cell[x] = took(h[x])  BY <2>4
  <2>6. h \in [B -> A]  BY <2>5
  <2>7. IsFiniteSet(A)
    <3>1. A \in SUBSET (1..N)  BY <1>1, <2>3
    <3>2. IsFiniteSet(1..N)  BY <1>0, IntervalSize
    <3> HIDE DEF A
    <3> QED  BY <3>1, <3>2, FS_Subset
  <2>8. IsFiniteSet(B) /\ Cardinality(A) < Cardinality(B)
    <3> HIDE DEF A
    <3>1. Cardinality(A) \in Nat  BY <2>7, FS_CardinalityType
    <3>2. IsFiniteSet(B) /\ Cardinality(B) = Cardinality(A) + 1  BY <2>3, <2>7, FS_AddElement
    <3> QED  BY <3>1, <3>2
  <2> HIDE DEF A, B, h
  <2>9. PICK x \in B, y \in B : x # y /\ h[x] = h[y]
    BY ONLY <2>6, <2>7, <2>8, FS_PigeonHole
  <2>10. cell[x] = cell[y]  BY <2>5, <2>9
  <2>11. x \in F /\ y \in 1..N  BY <1>1, <2>3, <2>9
  <2> QED  BY <1>2, <2>9, <2>10, <2>11
<1> QED  BY <1>6, <1>7

LEMMA GreedyMatches ==
  ASSUME NEW columns, NEW row, NEW binds, Readable(columns, row, binds), Apart(binds)
  PROVE  CheckExpectValues(columns, row, binds) <=> HasMatching(columns, row, binds)
<1>1. PICK g : /\ Claims(g, columns, row, binds)
               /\ CheckExpectValues(columns, row, binds) <=>
                    /\ \A b \in Placed(columns, row, binds) :
                         Equals(row[Place(columns, row, binds, b)], binds[b].value)
                    /\ 0 \notin g[Len(binds)]
  BY ClaimsUnfold
<1>2. ASSUME CheckExpectValues(columns, row, binds) PROVE HasMatching(columns, row, binds)
  BY <1>1, <1>2, GreedySound, MatchesDefined
<1>3. ASSUME HasMatching(columns, row, binds) PROVE CheckExpectValues(columns, row, binds)
  <2>1. PICK cell : Matches(cell, columns, row, binds)  BY <1>3, MatchesDefined
  <2> QED  BY <1>1, <2>1, GreedyComplete
<1> QED  BY <1>2, <1>3

(* Whenever there is a cell of its own for every value without a column,   *)
(* taking the first free cell finds one (data_correctness.go:458).         *)
THEOREM ValuesFound == CaptureSpec => []ValuesMatched
<1>1. CaptureType => ValuesMatched
  <2> SUFFICES ASSUME CaptureType, NEW i \in DOMAIN calls, NEW block \in Blocks(task.spec),
                      NEW binds \in ValueBinds(block), Apart(binds),
                      NEW r \in DOMAIN Items(Field(Field(calls[i].json, "table"), "rows"))
               PROVE  LET table == Field(calls[i].json, "table")
                          row   == Items(Items(Field(table, "rows"))[r])
                      IN CheckExpectValues(Columns(table), row, binds) <=>
                           HasMatching(Columns(table), row, binds)
    BY DEF ValuesMatched
  <2> DEFINE table == Field(calls[i].json, "table")
             row   == Items(Items(Field(table, "rows"))[r])
  <2>1. calls[i] \in Calls /\ task \in TaskFiles  BY DEF CaptureType
  <2>2. calls[i].json \in Nodes  BY <2>1, CapturedAssumption
  <2>3. IsSequence(binds) /\ \A b \in DOMAIN binds : IsSequence(binds[b].candidates) /\ binds[b].value \in Fractions
    BY <2>1, CapturedAssumption
  <2>4. IsSequence(row) /\ \A c \in DOMAIN row : row[c].is = "number" => row[c].v \in Fractions
    <3> DEFINE rows == Items(Field(table, "rows"))
    <3>1. table \in Nodes \cup {Nowhere}  BY <2>2, JsonParts
    <3>2. Field(table, "rows") \in Nodes \cup {Nowhere}  BY <3>1, JsonParts
    <3>3. rows \in Seq(Nodes)  BY <3>2, JsonParts
    <3>4. rows[r] \in Nodes
      <4> HIDE DEF rows
      <4> QED  BY <3>3 DEF rows
    <3>5. Items(rows[r]) \in Seq(Nodes)  BY <3>4, JsonParts
    <3>6. IsSequence(row)  BY <3>5, Sequential
    <3>7. \A c \in DOMAIN row : IsNode(row[c])  BY <3>5, NodesAssumption
    <3>8. ASSUME NEW c \in DOMAIN row, row[c].is = "number" PROVE row[c].v \in Fractions
      <4> DEFINE node == row[c]
      <4>1. IsNode(node) /\ node.is = "number"  BY <3>7, <3>8
      <4> HIDE DEF node
      <4>2. node # Null  BY <4>1 DEF Null
      <4>3. node.v \in Fractions  BY <4>1, <4>2 DEF IsNode
      <4> QED  BY <4>3 DEF node
    <3> QED  BY <3>6, <3>8
  <2>5. \E m \in Nat : DOMAIN Columns(table) = 1..m
    <3> DEFINE columns == Items(Field(table, "columns"))
    <3>1. table \in Nodes \cup {Nowhere}  BY <2>2, JsonParts
    <3>2. Field(table, "columns") \in Nodes \cup {Nowhere}  BY <3>1, JsonParts
    <3>3. columns \in Seq(Nodes)  BY <3>2, JsonParts
    <3>4. DOMAIN Columns(table) = DOMAIN columns  BY DEF Columns
    <3> HIDE DEF columns
    <3> QED  BY <3>3, <3>4
  <2> HIDE DEF table, row
  <2>6. Readable(Columns(table), row, binds)  BY <2>3, <2>4, <2>5 DEF Readable
  <2>7. CheckExpectValues(Columns(table), row, binds) <=> HasMatching(Columns(table), row, binds)
    BY <2>6, GreedyMatches
  <2> QED  BY <2>7 DEF table, row
<1> QED  BY <1>1, CaptureTypes, PTL

-----------------------------------------------------------------------------
(* JSON values and what stands below them                                  *)

LEMMA Smallest ==
  ASSUME NEW S, S \subseteq Nat, S # {}
  PROVE  Min(S) \in S /\ \A x \in S : Min(S) <= x
<1>1. PICK k \in S : \A l \in S : k <= l  BY SmallestNumber
<1>2. Min(S) = CHOOSE x \in S : \A y \in S : x <= y  BY DEF Min
<1> QED  BY <1>1, <1>2

LEMMA NumeralFacts ==
  /\ \A i \in DOMAIN Numerals : Numerals[i] \in Texts /\ IsNumeral(Numerals[i]) /\ Atoi(Numerals[i]) = i - 1
  /\ \A text : IsNumeral(text) =>
       /\ Atoi(text) \in Nat /\ Atoi(text) + 1 \in DOMAIN Numerals
       /\ Numerals[Atoi(text) + 1] = text
  /\ ~IsNumeral("*")
<1>0. DOMAIN Numerals = 1..Len(Numerals) /\ Len(Numerals) \in Nat  BY NumeralAssumption
<1>1. ASSUME NEW text, IsNumeral(text)
      PROVE  /\ Atoi(text) \in Nat /\ Atoi(text) + 1 \in DOMAIN Numerals
             /\ Numerals[Atoi(text) + 1] = text
  <2> DEFINE place == CHOOSE i \in DOMAIN Numerals : Numerals[i] = text
  <2>1. place \in DOMAIN Numerals /\ Numerals[place] = text  BY <1>1 DEF IsNumeral
  <2>2. Atoi(text) = place - 1  BY DEF Atoi
  <2> HIDE DEF place
  <2> QED  BY <1>0, <2>1, <2>2
<1>2. ASSUME NEW i \in DOMAIN Numerals
      PROVE  Numerals[i] \in Texts /\ IsNumeral(Numerals[i]) /\ Atoi(Numerals[i]) = i - 1
  <2>1. Numerals[i] \in Texts  BY NumeralAssumption
  <2>2. IsNumeral(Numerals[i])  BY DEF IsNumeral
  <2>3. Atoi(Numerals[i]) \in Nat /\ Atoi(Numerals[i]) + 1 \in DOMAIN Numerals
        /\ Numerals[Atoi(Numerals[i]) + 1] = Numerals[i]
    BY <1>1, <2>2
  <2>4. Atoi(Numerals[i]) + 1 = i  BY <2>3, NumeralAssumption
  <2> QED  BY <1>0, <2>1, <2>2, <2>3, <2>4
<1>3. ~IsNumeral("*")  BY NumeralAssumption DEF IsNumeral, ToSet
<1> QED  BY <1>1, <1>2, <1>3

LEMMA NodeFacts ==
  ASSUME NEW node \in Nodes
  PROVE  /\ node # Nowhere /\ node.is \in {"null", "number", "text", "list", "object"}
         /\ node.is = "number" => node.v \in Fractions
         /\ node.is = "text" => node = Text(node.v) /\ node.v \in Texts
         /\ node.is = "list" => node.v \in Seq(Nodes)
         /\ node.is = "object" => /\ DOMAIN node.v \subseteq Texts
                                  /\ \A name \in DOMAIN node.v : node.v[name] \in Nodes
<1>1. IsNode(node)  BY NodesAssumption
<1>2. node.is \in {"null", "number", "text", "list", "object"}  BY <1>1 DEF IsNode, Null
<1>3. node # Nowhere  BY <1>2 DEF Nowhere
<1>4. node.is = "number" => node.v \in Fractions  BY <1>1 DEF IsNode, Null
<1>5. node.is = "text" => node = Text(node.v) /\ node.v \in Texts  BY <1>1 DEF IsNode, Null
<1>6. node.is = "list" => node.v \in Seq(Nodes)  BY <1>1 DEF IsNode, Null
<1>7. node.is = "object" => DOMAIN node.v \subseteq Texts  BY <1>1 DEF IsNode, Null
<1>8. node.is = "object" => \A name \in DOMAIN node.v : node.v[name] \in Nodes  BY <1>1 DEF IsNode, Null
<1> QED  BY <1>2, <1>3, <1>4, <1>5, <1>6, <1>7, <1>8

(* The element that a key in brackets selects.                             *)
LEMMA FirstOfKey ==
  ASSUME NEW n \in Nat, NEW key, DOMAIN key = 1..n, NEW k \in Texts,
         \A i \in 1..n : key[i] \in Nodes \cup {Nowhere},
         NEW fit, fit = {i \in DOMAIN key : key[i] = Text(k)}
  PROVE  \A i : i \in Firsts(key) /\ key[i].v = k <=> fit # {} /\ i = Min(fit)
<1>0. \A i \in DOMAIN key : i \in Nat  OBVIOUS
<1>1. fit \subseteq Nat  BY <1>0
<1>2. ASSUME NEW i \in Firsts(key), key[i].v = k PROVE fit # {} /\ i = Min(fit)
  <2>1. i \in 1..n /\ key[i].is = "text" /\ \A l \in 1..(i - 1) : key[l] # key[i]  BY DEF Firsts
  <2>2. key[i] \in Nodes  BY <2>1 DEF Nowhere
  <2>3. key[i] = Text(k)  BY <1>2, <2>1, <2>2, NodeFacts
  <2>4. i \in fit  BY <2>1, <2>3
  <2>5. \A l \in fit : i <= l
    <3>1. ASSUME NEW l \in fit, ~ i <= l PROVE FALSE
      <4>1. l \in 1..n /\ key[l] = key[i]  BY <2>3
      <4>2. l \in 1..(i - 1)  BY <2>1, <3>1, <4>1
      <4> QED  BY <2>1, <4>1, <4>2
    <3> QED  BY <3>1
  <2>6. Min(fit) \in fit /\ \A x \in fit : Min(fit) <= x  BY <1>1, <2>4, Smallest
  <2>7. i <= Min(fit) /\ Min(fit) <= i  BY <2>4, <2>5, <2>6
  <2>8. i \in Nat /\ Min(fit) \in Nat  BY <1>1, <2>4, <2>6
  <2>9. i = Min(fit)  BY ONLY <2>7, <2>8
  <2> QED  BY <2>4, <2>9
<1>3. ASSUME fit # {} PROVE Min(fit) \in Firsts(key) /\ key[Min(fit)].v = k
  <2>1. Min(fit) \in fit /\ \A x \in fit : Min(fit) <= x
    BY <1>1, <1>3, Smallest
  <2> DEFINE m == Min(fit)
  <2> HIDE DEF m
  <2>2. m \in 1..n /\ key[m] = Text(k) /\ \A x \in fit : m <= x  BY <2>1 DEF m
  <2>3. key[m].is = "text" /\ key[m].v = k  BY <2>2 DEF Text
  <2>4. ASSUME NEW l \in 1..(m - 1) PROVE key[l] # key[m]
    <3>1. l \in 1..n /\ ~ m <= l  BY <2>2
    <3> QED  BY <2>2, <3>1
  <2>5. m \in Firsts(key)  BY <2>2, <2>3, <2>4 DEF Firsts
  <2> QED  BY <2>3, <2>5 DEF m
<1> QED  BY <1>2, <1>3

Elements(node, name) == Items(Field(node, KeyedArray[name].list))
KeysOf(node, name)   == Keys(Elements(node, name), KeyedArray[name].field)

LEMMA KeyedElement ==
  ASSUME NEW node \in Nodes, NEW name \in DOMAIN KeyedArray, NEW k \in Texts, NEW child
  PROVE  (\E i \in Firsts(KeysOf(node, name)) : KeysOf(node, name)[i].v = k /\ child = Elements(node, name)[i])
           <=> child # Nowhere /\ child = Selected(node, name, k)
<1> DEFINE items == Elements(node, name)
           key == KeysOf(node, name)
           fit == {i \in DOMAIN items : Field(items[i], KeyedArray[name].field) = Text(k)}
<1>1. Field(node, KeyedArray[name].list) \in Nodes \cup {Nowhere}  BY JsonParts
<1>2. items \in Seq(Nodes)  BY <1>1, JsonParts DEF Elements
<1>3. Selected(node, name, k) = IF fit = {} THEN Nowhere ELSE items[Min(fit)]  BY DEF Selected, Elements
<1>4. key = [i \in DOMAIN items |-> Field(items[i], KeyedArray[name].field)]  BY DEF Keys, KeysOf
<1> HIDE DEF items, key
<1>5. DOMAIN items = 1..Len(items) /\ Len(items) \in Nat /\ \A i \in DOMAIN items : items[i] \in Nodes
  BY <1>2
<1>6. \A i \in 1..Len(items) : key[i] \in Nodes \cup {Nowhere}
  <2>1. ASSUME NEW i \in 1..Len(items) PROVE key[i] \in Nodes \cup {Nowhere}
    <3>1. items[i] \in Nodes \cup {Nowhere}  BY <1>5
    <3>2. Field(items[i], KeyedArray[name].field) \in Nodes \cup {Nowhere}  BY <3>1, JsonParts
    <3> QED  BY <1>4, <1>5, <3>2
  <2> QED  BY <2>1
<1>7. DOMAIN key = 1..Len(items)  BY <1>4, <1>5
<1>8. fit = {i \in DOMAIN key : key[i] = Text(k)}  BY <1>4
<1>9. \A i : i \in Firsts(key) /\ key[i].v = k <=> fit # {} /\ i = Min(fit)
  <2> DEFINE n == Len(items)
  <2>1. n \in Nat  BY <1>5
  <2>2. DOMAIN key = 1..n /\ \A i \in 1..n : key[i] \in Nodes \cup {Nowhere}  BY <1>6, <1>7
  <2> HIDE DEF fit, n
  <2> QED  BY <1>8, <2>1, <2>2, FirstOfKey
<1>10. fit # {} => items[Min(fit)] \in Nodes /\ items[Min(fit)] # Nowhere
  <2>1. \A i \in Firsts(key) : i \in DOMAIN items  BY <1>4 DEF Firsts
  <2> HIDE DEF fit
  <2>2. fit # {} => Min(fit) \in DOMAIN items  BY <1>9, <2>1
  <2> QED  BY <1>5, <2>2, NodeFacts
<1> HIDE DEF fit
<1> QED  BY <1>3, <1>9, <1>10 DEF items, key

LEMMA AtElement ==
  ASSUME NEW list \in Nodes \cup {Nowhere}, NEW i \in Nat
  PROVE  /\ At(list, i) \in Nodes \cup {Nowhere}
         /\ i + 1 \in DOMAIN Items(list) => At(list, i) = Items(list)[i + 1] /\ At(list, i) # Nowhere
         /\ i + 1 \notin DOMAIN Items(list) => At(list, i) = Nowhere
<1>1. Items(list) \in Seq(Nodes)  BY JsonParts
<1> DEFINE items == Items(list)
<1>2. DOMAIN items = 1..Len(items) /\ Len(items) \in Nat  BY <1>1
<1>3. At(list, i) = IF i \in 0..(Len(items) - 1) THEN items[i + 1] ELSE Nowhere  BY DEF At
<1>4. \A n \in DOMAIN items : items[n] \in Nodes /\ items[n] # Nowhere
  <2>1. \A n \in DOMAIN items : items[n] \in Nodes  BY <1>1
  <2> QED  BY <2>1, NodeFacts
<1> HIDE DEF items
<1>5. CASE i + 1 \in DOMAIN items
  <2>1. i \in 0..(Len(items) - 1)  BY <1>2, <1>5
  <2> QED  BY <1>3, <1>4, <1>5, <2>1 DEF items
<1>6. CASE i + 1 \notin DOMAIN items
  <2>1. i \notin 0..(Len(items) - 1)  BY <1>2, <1>6
  <2> QED  BY <1>3, <1>6, <2>1 DEF items
<1> QED  BY <1>5, <1>6

LEMMA ChildType ==
  ASSUME NEW node \in Nodes \cup {Nowhere}, NEW seg \in Segments, NEW selecting
  PROVE  /\ Child(node, seg, selecting) \in Nodes \cup {Nowhere}
         /\ node = Nowhere => Child(node, seg, selecting) = Nowhere
<1>1. Field(node, seg.name) \in Nodes \cup {Nowhere} /\ (node = Nowhere => Field(node, seg.name) = Nowhere)
  BY JsonParts
<1>2. ASSUME NEW key
      PROVE  /\ Selected(node, seg.name, key) \in Nodes \cup {Nowhere}
             /\ node = Nowhere => Selected(node, seg.name, key) = Nowhere
  <2>1. CASE seg.name \in DOMAIN KeyedArray
    <3> DEFINE list == Field(node, KeyedArray[seg.name].list)
               items == Items(list)
               fit == {i \in DOMAIN items : Field(items[i], KeyedArray[seg.name].field) = Text(key)}
    <3>1. list \in Nodes \cup {Nowhere} /\ (node = Nowhere => list = Nowhere)  BY JsonParts
    <3>2. items \in Seq(Nodes) /\ (node = Nowhere => items = <<>>)  BY <3>1, JsonParts
    <3>3. Selected(node, seg.name, key) = IF fit = {} THEN Nowhere ELSE items[Min(fit)]
      BY <2>1 DEF Selected
    <3> HIDE DEF list, items
    <3>4. fit \subseteq DOMAIN items /\ DOMAIN items \subseteq Nat /\ \A i \in DOMAIN items : items[i] \in Nodes
      BY <3>2
    <3>5. node = Nowhere => fit = {}  BY <3>2
    <3> HIDE DEF fit
    <3>6. fit # {} => Min(fit) \in fit  BY <3>4, Smallest
    <3> QED  BY <3>3, <3>4, <3>5, <3>6
  <2>2. CASE seg.name \notin DOMAIN KeyedArray
    <3>1. CASE IsNumeral(key)
      <4>1. Selected(node, seg.name, key) = At(Field(node, seg.name), Atoi(key))  BY <2>2, <3>1 DEF Selected
      <4>2. Atoi(key) \in Nat  BY <3>1, NumeralFacts
      <4>3. At(Field(node, seg.name), Atoi(key)) \in Nodes \cup {Nowhere}  BY <1>1, <4>2, AtElement
      <4>4. Items(Nowhere) = <<>>  BY DEF Items, Nowhere
      <4>5. Atoi(key) + 1 \notin DOMAIN <<>>  OBVIOUS
      <4>6. At(Nowhere, Atoi(key)) = Nowhere  BY <4>2, <4>4, <4>5, AtElement
      <4> QED  BY <1>1, <4>1, <4>3, <4>6
    <3>2. CASE ~IsNumeral(key)  BY <2>2, <3>2 DEF Selected
    <3> QED  BY <3>1, <3>2
  <2> QED  BY <2>1, <2>2
<1> QED  BY <1>1, <1>2 DEF Child

LEMMA SegmentParts ==
  ASSUME NEW seg \in Segments
  PROVE  /\ seg.name \in Texts /\ seg.keys \in Seq(Texts)
         /\ seg = Seg(seg.name, seg.keys)
         /\ \A name, keys : seg = Seg(name, keys) <=> seg.name = name /\ seg.keys = keys
BY DEF Segments, Seg

LEMMA ThroughUnfolds ==
  ASSUME NEW node \in Nodes \cup {Nowhere}, NEW path \in Seq(Segments), NEW selecting
  PROVE  LET at == Through(node, path, selecting) IN
         /\ at \in [0..Len(path) -> Nodes \cup {Nowhere}]
         /\ at[0] = node
         /\ \A n \in 1..Len(path) : at[n] = Child(at[n - 1], path[n], selecting)
<1> DEFINE S == Nodes \cup {Nowhere}
           N == Len(path)
           step == [x \in (1..N) \X S |-> Child(x[2], path[x[1]], selecting)]
<1>1. N \in Nat /\ \A n \in 1..N : path[n] \in Segments  OBVIOUS
<1>2. Steps(step, N, S)
  <2>1. \A x \in (1..N) \X S : Child(x[2], path[x[1]], selecting) \in S  BY <1>1, ChildType
  <2> QED  BY <2>1 DEF Steps
<1>3. \A n \in 1..N, y \in S : step[<<n, y>>] = Child(y, path[n], selecting)  OBVIOUS
<1> HIDE DEF step, S
<1>4. node \in S  BY DEF S
<1>5. PICK f : Iterates(f, N, S, node, step)  BY <1>1, <1>2, <1>4, Iteration
<1>6. f \in [0..N -> S] /\ f[0] = node  BY <1>5 DEF Iterates
<1>7. \A n \in 1..N : f[n] = Child(f[n - 1], path[n], selecting)
  <2>1. \A n \in 1..N : n - 1 \in 0..N  BY <1>1
  <2>2. \A n \in 1..N : f[n - 1] \in S  BY <1>6, <2>1
  <2> QED  BY <1>3, <1>5, <2>2 DEF Iterates
<1> DEFINE at == Through(node, path, selecting)
           Unfolds(g) == g = [n \in 0..Len(path) |-> IF n = 0 THEN node ELSE Child(g[n - 1], path[n], selecting)]
<1>8. Unfolds(f)
  <2>1. \A n \in 0..Len(path) : f[n] = IF n = 0 THEN node ELSE Child(f[n - 1], path[n], selecting)
    BY <1>1, <1>6, <1>7
  <2> QED  BY <1>6, <2>1
<1>9. at = CHOOSE g : Unfolds(g)  BY DEF Through
<1>10. Unfolds(at)
  <2> HIDE DEF Unfolds, at
  <2> QED  BY <1>8, <1>9
<1> HIDE DEF at
<1>11. at[0] = node /\ (\A n \in 1..N : at[n] = Child(at[n - 1], path[n], selecting)) /\ DOMAIN at = 0..N
  BY <1>1, <1>10
<1>12. \A n \in 0..N : at[n] \in S
  <2> DEFINE good == {n \in 0..N : at[n] \in S}
  <2>1. 0 \in good  BY <1>1, <1>4, <1>11
  <2>2. ASSUME NEW n \in 1..N, n - 1 \in good PROVE n \in good
    <3>1. Child(at[n - 1], path[n], selecting) \in S  BY <1>1, <2>2, ChildType DEF S
    <3> QED  BY <1>11, <3>1
  <2> HIDE DEF good
  <2>3. \A n \in 0..N : n \in good  BY <1>1, <2>1, <2>2, StepByStep
  <2> QED  BY <2>3 DEF good
<1>13. at \in [0..N -> S]  BY <1>10, <1>11, <1>12
<1> QED  BY <1>11, <1>13 DEF at, S

(* Paths that begin alike lead through the same nodes at first.            *)
LEMMA ThroughAgrees ==
  ASSUME NEW node \in Nodes \cup {Nowhere}, NEW selecting, NEW p \in Seq(Segments), NEW q \in Seq(Segments),
         NEW N \in Nat, N <= Len(p), N <= Len(q), \A i \in 1..N : p[i] = q[i]
  PROVE  \A n \in 0..N : Through(node, p, selecting)[n] = Through(node, q, selecting)[n]
<1> DEFINE f == Through(node, p, selecting)
           g == Through(node, q, selecting)
           good == {n \in 0..N : f[n] = g[n]}
<1>1. f[0] = node /\ \A n \in 1..Len(p) : f[n] = Child(f[n - 1], p[n], selecting)  BY ThroughUnfolds, SMTT(30)
<1>2. g[0] = node /\ \A n \in 1..Len(q) : g[n] = Child(g[n - 1], q[n], selecting)  BY ThroughUnfolds
<1> HIDE DEF f, g
<1>3. 0 \in good  BY <1>1, <1>2
<1>4. ASSUME NEW n \in 1..N, n - 1 \in good PROVE n \in good
  <2>1. n \in 1..Len(p) /\ n \in 1..Len(q) /\ n \in 0..N  OBVIOUS
  <2> QED  BY <1>1, <1>2, <1>4, <2>1
<1> HIDE DEF good
<1>5. \A n \in 0..N : n \in good  BY <1>3, <1>4, StepByStep
<1> QED  BY <1>5 DEF good, f, g

(* Without selectors a path leads as far as it is plain.                   *)
LEMMA ThroughPlainly ==
  ASSUME NEW node \in Nodes, NEW path \in Seq(Segments)
  PROVE  \A n \in 0..Len(path) :
           Through(node, path, FALSE)[n] =
             IF \A i \in 1..n : path[i].keys = <<>> THEN Through(node, path, TRUE)[n] ELSE Nowhere
<1> DEFINE N == Len(path)
           f == Through(node, path, FALSE)
           g == Through(node, path, TRUE)
           Clear(n) == \A i \in 1..n : path[i].keys = <<>>
           good == {n \in 0..N : f[n] = IF Clear(n) THEN g[n] ELSE Nowhere}
<1>0. N \in Nat /\ \A n \in 1..N : path[n] \in Segments /\ path[n].keys \in Seq(Texts)
  <2>1. N \in Nat /\ \A n \in 1..N : path[n] \in Segments  OBVIOUS
  <2> HIDE DEF N
  <2> QED  BY <2>1, SegmentParts
<1>1. f[0] = node /\ (\A n \in 1..N : f[n] = Child(f[n - 1], path[n], FALSE))
      /\ \A n \in 0..N : f[n] \in Nodes \cup {Nowhere}  BY ThroughUnfolds
<1>2. g[0] = node /\ (\A n \in 1..N : g[n] = Child(g[n - 1], path[n], TRUE))
      /\ \A n \in 0..N : g[n] \in Nodes \cup {Nowhere}  BY ThroughUnfolds
<1> HIDE DEF f, g
<1>3. 0 \in good  BY <1>0, <1>1, <1>2
<1>4. ASSUME NEW n \in 1..N, n - 1 \in good PROVE n \in good
  <2>0. n \in 0..N /\ n - 1 \in 0..N  BY <1>0
  <2>1. CASE Clear(n - 1) /\ path[n].keys = <<>>
    <3>1. Clear(n)
      <4>1. ASSUME NEW i \in 1..n PROVE path[i].keys = <<>>
        <5>1. i \in 1..(n - 1) \/ i = n  OBVIOUS
        <5> QED  BY <2>1, <5>1
      <4> QED  BY <4>1
    <3>2. f[n - 1] = g[n - 1]  BY <1>4, <2>1
    <3>3. Child(f[n - 1], path[n], FALSE) = Child(g[n - 1], path[n], TRUE)
      <4>1. Len(path[n].keys) = 0  BY <2>1
      <4> QED  BY <3>2, <4>1 DEF Child
    <3> HIDE DEF Clear
    <3> QED  BY <1>1, <1>2, <2>0, <3>1, <3>3
  <2>2. CASE Clear(n - 1) /\ path[n].keys # <<>>
    <3>1. ~Clear(n)  BY <2>2
    <3>2. Child(f[n - 1], path[n], FALSE) = Nowhere
      <4>1. Len(path[n].keys) # 0  BY <1>0, <2>2
      <4> QED  BY <4>1 DEF Child
    <3> HIDE DEF Clear
    <3> QED  BY <1>1, <2>0, <3>1, <3>2
  <2>3. CASE ~Clear(n - 1)
    <3>1. ~Clear(n)
      <4>1. \A i \in 1..(n - 1) : i \in 1..n  OBVIOUS
      <4> QED  BY <2>3, <4>1
    <3>2. f[n - 1] = Nowhere  BY <1>4, <2>3
    <3>3. Child(Nowhere, path[n], FALSE) = Nowhere  BY <1>0, ChildType
    <3> HIDE DEF Clear
    <3> QED  BY <1>1, <2>0, <3>1, <3>2, <3>3
  <2> QED  BY <2>1, <2>2, <2>3
<1> HIDE DEF good
<1>5. \A n \in 0..N : n \in good  BY <1>0, <1>3, <1>4, StepByStep
<1> QED  BY <1>5 DEF good, f, g

(* What stands below a node is what its children are found to be.          *)
Bracketed(name, k)        == Seg(name, <<k>>)
InCounted(node, n, seg, c) == <<seg, c>> \in Counted(node, n)
InKeyed(node, n, seg, c)   == <<seg, c>> \in Keyed(node, n)
Stands(node, seg, c)      == <<seg, c>> \in Below(node)

LEMMA CountedParts ==
  ASSUME NEW node, NEW name
  PROVE  \A seg, c : InCounted(node, name, seg, c) <=>
           \E i \in DOMAIN Items(Field(node, name)) \cap DOMAIN Numerals :
             seg = Bracketed(name, Numerals[i]) /\ c = Items(Field(node, name))[i]
<1>1. ASSUME NEW seg, NEW c, <<seg, c>> \in Counted(node, name)
      PROVE  \E i \in DOMAIN Items(Field(node, name)) \cap DOMAIN Numerals :
               seg = Bracketed(name, Numerals[i]) /\ c = Items(Field(node, name))[i]
  <2>1. PICK i \in DOMAIN Items(Field(node, name)) \cap DOMAIN Numerals :
               <<seg, c>> = <<Seg(name, <<Numerals[i]>>), Items(Field(node, name))[i]>>
    BY <1>1 DEF Counted
  <2>2. seg = Seg(name, <<Numerals[i]>>) /\ c = Items(Field(node, name))[i]  BY <2>1
  <2> QED  BY <2>2 DEF Bracketed
<1>2. ASSUME NEW i \in DOMAIN Items(Field(node, name)) \cap DOMAIN Numerals
      PROVE  InCounted(node, name, Bracketed(name, Numerals[i]), Items(Field(node, name))[i])
  <2>1. <<Seg(name, <<Numerals[i]>>), Items(Field(node, name))[i]>> \in Counted(node, name)  BY DEF Counted
  <2> QED  BY <2>1 DEF InCounted, Bracketed
<1>3. ASSUME NEW seg, NEW c, InCounted(node, name, seg, c)
      PROVE  \E i \in DOMAIN Items(Field(node, name)) \cap DOMAIN Numerals :
               seg = Bracketed(name, Numerals[i]) /\ c = Items(Field(node, name))[i]
  BY <1>1, <1>3 DEF InCounted
<1> QED  BY <1>2, <1>3

LEMMA KeyedParts ==
  ASSUME NEW node, NEW name
  PROVE  \A seg, c : InKeyed(node, name, seg, c) <=>
           \E i \in Firsts(KeysOf(node, name)) :
             seg = Bracketed(name, KeysOf(node, name)[i].v) /\ c = Elements(node, name)[i]
<1> DEFINE items == Elements(node, name)
           key == KeysOf(node, name)
<1>0. Keyed(node, name) = {<<Seg(name, <<key[i].v>>), items[i]>> : i \in Firsts(key)}
  BY DEF Keyed, KeysOf, Elements
<1> HIDE DEF items, key
<1>1. ASSUME NEW seg, NEW c, <<seg, c>> \in Keyed(node, name)
      PROVE  \E i \in Firsts(key) : seg = Bracketed(name, key[i].v) /\ c = items[i]
  <2>1. PICK i \in Firsts(key) : <<seg, c>> = <<Seg(name, <<key[i].v>>), items[i]>>  BY <1>0, <1>1
  <2>2. seg = Seg(name, <<key[i].v>>) /\ c = items[i]  BY <2>1
  <2> QED  BY <2>2 DEF Bracketed
<1>2. ASSUME NEW i \in Firsts(key) PROVE InKeyed(node, name, Bracketed(name, key[i].v), items[i])
  <2>1. <<Seg(name, <<key[i].v>>), items[i]>> \in Keyed(node, name)  BY <1>0
  <2> QED  BY <2>1 DEF InKeyed, Bracketed
<1>3. ASSUME NEW seg, NEW c, InKeyed(node, name, seg, c)
      PROVE  \E i \in Firsts(key) : seg = Bracketed(name, key[i].v) /\ c = items[i]
  BY <1>1, <1>3 DEF InKeyed
<1> QED  BY <1>2, <1>3 DEF items, key

LEMMA BelowMembers ==
  ASSUME NEW node, NEW x
  PROVE  x \in Below(node) <=>
           /\ node.is = "object"
           /\ \E name \in DOMAIN node.v \cup DOMAIN KeyedArray : x \in Called(node, name)
<1>1. CASE node.is # "object"  BY <1>1 DEF Below
<1>2. CASE node.is = "object"  BY <1>2 DEF Below
<1> QED  BY <1>1, <1>2

LEMMA CalledMembers ==
  ASSUME NEW node, NEW name, NEW x
  PROVE  x \in Called(node, name) <=>
           \/ Field(node, name) # Nowhere /\ x = <<Plain(name), Field(node, name)>>
           \/ name \in DOMAIN KeyedArray /\ x \in Keyed(node, name)
           \/ name \notin DOMAIN KeyedArray /\ x \in Counted(node, name)
BY DEF Called

LEMMA BelowParts ==
  ASSUME NEW node, NEW seg, NEW c
  PROVE  Stands(node, seg, c) <=>
           /\ node.is = "object"
           /\ \E name \in DOMAIN node.v \cup DOMAIN KeyedArray :
                \/ seg = Plain(name) /\ c = Field(node, name) /\ c # Nowhere
                \/ name \in DOMAIN KeyedArray /\ InKeyed(node, name, seg, c)
                \/ name \notin DOMAIN KeyedArray /\ InCounted(node, name, seg, c)
<1>1. Stands(node, seg, c) <=>
        /\ node.is = "object"
        /\ \E name \in DOMAIN node.v \cup DOMAIN KeyedArray : <<seg, c>> \in Called(node, name)
  BY BelowMembers DEF Stands
<1>2. ASSUME NEW name
      PROVE  <<seg, c>> \in Called(node, name) <=>
                \/ seg = Plain(name) /\ c = Field(node, name) /\ c # Nowhere
                \/ name \in DOMAIN KeyedArray /\ InKeyed(node, name, seg, c)
                \/ name \notin DOMAIN KeyedArray /\ InCounted(node, name, seg, c)
  <2>1. <<seg, c>> = <<Plain(name), Field(node, name)>> <=> seg = Plain(name) /\ c = Field(node, name)
    OBVIOUS
  <2> QED  BY <2>1, CalledMembers DEF InKeyed, InCounted
<1> QED  BY <1>1, <1>2

LEMMA BelowPairs ==
  ASSUME NEW node, NEW x \in Below(node)
  PROVE  x = <<x[1], x[2]>> /\ Stands(node, x[1], x[2])
<1> SUFFICES x = <<x[1], x[2]>>  BY DEF Stands
<1>0. PICK name : x \in Called(node, name)  BY BelowMembers
<1>1. CASE x = <<Plain(name), Field(node, name)>>  BY <1>1
<1>2. CASE x \in Counted(node, name)
  <2> DEFINE items == Items(Field(node, name))
  <2>1. PICK i \in DOMAIN items \cap DOMAIN Numerals : x = <<Seg(name, <<Numerals[i]>>), items[i]>>
    BY <1>2 DEF Counted
  <2> QED  BY <2>1
<1>3. CASE x \in Keyed(node, name)
  <2> DEFINE items == Items(Field(node, KeyedArray[name].list))
             key == Keys(items, KeyedArray[name].field)
  <2>1. PICK i \in Firsts(key) : x = <<Seg(name, <<key[i].v>>), items[i]>>  BY <1>3 DEF Keyed
  <2> QED  BY <2>1
<1> QED  BY <1>0, <1>1, <1>2, <1>3, CalledMembers

LEMMA BracketSegment ==
  ASSUME NEW seg \in Segments
  PROVE  /\ \A name : seg = Plain(name) <=> Len(seg.keys) = 0 /\ name = seg.name
         /\ \A name, k : seg = Bracketed(name, k) <=> Len(seg.keys) = 1 /\ name = seg.name /\ k = seg.keys[1]
<1>1. seg.keys \in Seq(Texts)  BY SegmentParts
<1>2. seg.keys = <<>> <=> Len(seg.keys) = 0  BY <1>1
<1>3. ASSUME NEW k PROVE seg.keys = <<k>> <=> Len(seg.keys) = 1 /\ k = seg.keys[1]
  <2>1. ASSUME Len(seg.keys) = 1 PROVE seg.keys = <<seg.keys[1]>>  BY <1>1, <2>1
  <2> QED  BY <2>1
<1>4. \A name, keys : seg = Seg(name, keys) <=> seg.name = name /\ seg.keys = keys  BY SegmentParts
<1>5. \A name : seg = Plain(name) <=> seg.name = name /\ seg.keys = <<>>
  <2>1. ASSUME NEW name PROVE seg = Plain(name) <=> seg.name = name /\ seg.keys = <<>>  BY <1>4 DEF Plain
  <2> QED  BY <2>1
<1>6. \A name, k : seg = Bracketed(name, k) <=> seg.name = name /\ Len(seg.keys) = 1 /\ k = seg.keys[1]
  <2>1. ASSUME NEW name, NEW k
        PROVE  seg = Bracketed(name, k) <=> seg.name = name /\ Len(seg.keys) = 1 /\ k = seg.keys[1]
    BY <1>3, <1>4 DEF Bracketed
  <2> QED  BY <2>1
<1> QED  BY <1>2, <1>5, <1>6

LEMMA BelowPlain ==
  ASSUME NEW node \in Nodes, NEW seg \in Segments, NEW child, Len(seg.keys) = 0
  PROVE  Stands(node, seg, child) <=> child # Nowhere /\ child = Child(node, seg, TRUE)
<1>1. Child(node, seg, TRUE) = Field(node, seg.name)  BY DEF Child
<1>2. \A name : seg = Plain(name) <=> name = seg.name  BY BracketSegment
<1>3. \A name, k : seg # Bracketed(name, k)  BY BracketSegment
<1>4. \A name : ~InCounted(node, name, seg, child)  BY <1>3, CountedParts
<1>5. \A name : ~InKeyed(node, name, seg, child)  BY <1>3, KeyedParts
<1>6. child # Nowhere /\ child = Field(node, seg.name) => node.is = "object" /\ seg.name \in DOMAIN node.v
  BY DEF Field
<1> QED  BY <1>1, <1>2, <1>4, <1>5, <1>6, BelowParts

LEMMA BelowKeyed ==
  ASSUME NEW node \in Nodes, NEW seg \in Segments, NEW child, Len(seg.keys) = 1
  PROVE  Stands(node, seg, child) <=> child # Nowhere /\ child = Child(node, seg, TRUE)
<1> DEFINE k == seg.keys[1]
<1>0. k \in Texts
  <2>1. seg.keys \in Seq(Texts)  BY SegmentParts
  <2> QED  BY <2>1
<1>1. Child(node, seg, TRUE) = Selected(node, seg.name, k)  BY DEF Child
<1>2. \A name : seg # Plain(name)  BY BracketSegment
<1>3. \A name, j : seg = Bracketed(name, j) <=> name = seg.name /\ j = k  BY BracketSegment
<1> HIDE DEF k
<1>5. \A name : InCounted(node, name, seg, child) => name = seg.name  BY <1>3, CountedParts
<1>6. \A name : InKeyed(node, name, seg, child) => name = seg.name  BY <1>3, KeyedParts
<1>7. Stands(node, seg, child) <=>
        /\ node.is = "object" /\ seg.name \in DOMAIN node.v \cup DOMAIN KeyedArray
        /\ \/ seg.name \notin DOMAIN KeyedArray /\ InCounted(node, seg.name, seg, child)
           \/ seg.name \in DOMAIN KeyedArray /\ InKeyed(node, seg.name, seg, child)
  BY <1>2, <1>5, <1>6, BelowParts
<1>8. CASE node.is # "object"
  <2>1. \A name : Field(node, name) = Nowhere  BY <1>8 DEF Field
  <2>2. Items(Nowhere) = <<>>  BY DEF Items, Nowhere
  <2>3. Selected(node, seg.name, k) = Nowhere
    <3>1. CASE seg.name \in DOMAIN KeyedArray
      <4>1. Items(Field(node, KeyedArray[seg.name].list)) = <<>>  BY <2>1, <2>2
      <4> QED  BY <3>1, <4>1 DEF Selected
    <3>2. CASE seg.name \notin DOMAIN KeyedArray
      <4>1. IsNumeral(k) => At(Nowhere, Atoi(k)) = Nowhere  BY <2>2, NumeralFacts DEF At
      <4> QED  BY <2>1, <3>2, <4>1 DEF Selected
    <3> QED  BY <3>1, <3>2
  <2> QED  BY <1>1, <1>7, <1>8, <2>3
<1>9. CASE node.is = "object" /\ seg.name \in DOMAIN KeyedArray
  <2> DEFINE name == seg.name
             items == Elements(node, name)
             key == KeysOf(node, name)
  <2>1. (\E i \in Firsts(key) : key[i].v = k /\ child = items[i])
           <=> child # Nowhere /\ child = Selected(node, name, k)
    BY <1>0, <1>9, KeyedElement
  <2>2. InKeyed(node, name, seg, child) <=>
           \E i \in Firsts(key) : seg = Bracketed(name, key[i].v) /\ child = items[i]
    BY KeyedParts
  <2> HIDE DEF items, key
  <2>3. InKeyed(node, name, seg, child) <=> \E i \in Firsts(key) : key[i].v = k /\ child = items[i]
    BY <1>3, <2>2
  <2> QED  BY <1>1, <1>7, <1>9, <2>1, <2>3
<1>10. CASE node.is = "object" /\ seg.name \notin DOMAIN KeyedArray
  <2> DEFINE name == seg.name
             items == Items(Field(node, name))
  <2>0. name \notin DOMAIN node.v => DOMAIN items = {}
    <3>1. name \notin DOMAIN node.v => items = <<>>  BY DEF Field, Items, Nowhere
    <3> QED  BY <3>1
  <2>1. Stands(node, seg, child) <=>
           \E i \in DOMAIN items \cap DOMAIN Numerals : Numerals[i] = k /\ child = items[i]
    <3>1. InCounted(node, name, seg, child) <=>
            \E i \in DOMAIN items \cap DOMAIN Numerals : seg = Bracketed(name, Numerals[i]) /\ child = items[i]
      BY CountedParts
    <3> HIDE DEF items
    <3> QED  BY <1>3, <1>7, <1>10, <2>0, <3>1
  <2>2. CASE ~IsNumeral(k)
    <3>1. Selected(node, name, k) = Nowhere  BY <1>10, <2>2 DEF Selected
    <3>2. \A i \in DOMAIN Numerals : Numerals[i] # k  BY <2>2 DEF IsNumeral
    <3> QED  BY <1>1, <2>1, <3>1, <3>2
  <2>3. CASE IsNumeral(k)
    <3> DEFINE i == Atoi(k) + 1
    <3>1. Selected(node, name, k) = At(Field(node, name), Atoi(k))  BY <1>10, <2>3 DEF Selected
    <3>2. Atoi(k) \in Nat /\ i \in DOMAIN Numerals /\ Numerals[i] = k  BY <2>3, NumeralFacts
    <3>3. \A j \in DOMAIN Numerals : Numerals[j] = k => j = i  BY <3>2, NumeralAssumption
    <3>4. Field(node, name) \in Nodes \cup {Nowhere}  BY JsonParts
    <3>5. /\ i \in DOMAIN items => At(Field(node, name), Atoi(k)) = items[i] /\ items[i] # Nowhere
          /\ i \notin DOMAIN items => At(Field(node, name), Atoi(k)) = Nowhere
      BY <3>2, <3>4, AtElement
    <3> HIDE DEF i, items
    <3> QED  BY <1>1, <2>1, <3>1, <3>2, <3>3, <3>5
  <2> QED  BY <2>2, <2>3
<1> QED  BY <1>8, <1>9, <1>10

LEMMA BelowIsChild ==
  ASSUME NEW node \in Nodes, NEW seg \in Segments, NEW child
  PROVE  Stands(node, seg, child) <=> child # Nowhere /\ child = Child(node, seg, TRUE)
<1>1. CASE Len(seg.keys) = 0  BY <1>1, BelowPlain
<1>2. CASE Len(seg.keys) = 1  BY <1>2, BelowKeyed
<1>3. CASE Len(seg.keys) # 0 /\ Len(seg.keys) # 1
  <2>1. Child(node, seg, TRUE) = Nowhere  BY <1>3 DEF Child
  <2>2. (\A name : seg # Plain(name)) /\ (\A name, k : seg # Bracketed(name, k))  BY <1>3, BracketSegment
  <2>3. \A name : ~InCounted(node, name, seg, child)  BY <2>2, CountedParts
  <2>4. \A name : ~InKeyed(node, name, seg, child)  BY <2>2, KeyedParts
  <2>5. ~Stands(node, seg, child)  BY <2>2, <2>3, <2>4, BelowParts
  <2> QED  BY <2>1, <2>5
<1> QED  BY <1>1, <1>2, <1>3

LEMMA BelowType ==
  ASSUME NEW node \in Nodes, NEW x \in Below(node)
  PROVE  /\ x[1] \in Segments /\ x = <<x[1], x[2]>>
         /\ x[2] = Child(node, x[1], TRUE) /\ x[2] \in Nodes
<1>1. x = <<x[1], x[2]>> /\ Stands(node, x[1], x[2])  BY BelowPairs
<1>2. \A name \in Texts : Plain(name) \in Segments  BY DEF Plain, Seg, Segments
<1>3. \A name \in Texts, k \in Texts : Bracketed(name, k) \in Segments
  <2>1. ASSUME NEW name \in Texts, NEW k \in Texts PROVE Bracketed(name, k) \in Segments
    <3>1. <<k>> \in Seq(Texts)  OBVIOUS
    <3> QED  BY <3>1 DEF Bracketed, Seg, Segments
  <2> QED  BY <2>1
<1>4. node.is = "object"  BY <1>1, BelowParts
<1>5. DOMAIN node.v \subseteq Texts  BY <1>4, NodeFacts
<1>6. ASSUME NEW name \in Texts, InCounted(node, name, x[1], x[2])
      PROVE  x[1] \in Segments
  <2>1. PICK i \in DOMAIN Items(Field(node, name)) \cap DOMAIN Numerals : x[1] = Bracketed(name, Numerals[i])
    BY <1>6, CountedParts
  <2>2. Numerals[i] \in Texts  BY NumeralFacts
  <2> QED  BY <1>3, <2>1, <2>2
<1>7. ASSUME NEW name \in DOMAIN KeyedArray, InKeyed(node, name, x[1], x[2])
      PROVE  x[1] \in Segments
  <2> DEFINE items == Elements(node, name)
             key == KeysOf(node, name)
  <2>1. PICK i \in Firsts(key) : x[1] = Bracketed(name, key[i].v)  BY <1>7, KeyedParts
  <2>2. Field(node, KeyedArray[name].list) \in Nodes \cup {Nowhere}  BY JsonParts
  <2>3. items \in Seq(Nodes)  BY <2>2, JsonParts DEF Elements
  <2>4. i \in DOMAIN items /\ key[i] = Field(items[i], KeyedArray[name].field) /\ key[i].is = "text"
    BY <2>1 DEF Keys, KeysOf, Firsts
  <2>5. items[i] \in Nodes \cup {Nowhere}  BY <2>3, <2>4
  <2>6. key[i] \in Nodes \cup {Nowhere}  BY <2>4, <2>5, JsonParts
  <2>7. key[i] \in Nodes  BY <2>4, <2>6 DEF Nowhere
  <2>8. key[i].v \in Texts  BY <2>4, <2>7, NodeFacts
  <2> HIDE DEF key, items
  <2>9. name \in Texts  BY NameAssumption
  <2> QED  BY <1>3, <2>1, <2>8, <2>9
<1>8. x[1] \in Segments
  <2>1. DOMAIN node.v \cup DOMAIN KeyedArray \subseteq Texts  BY <1>5, NameAssumption
  <2>2. PICK name \in DOMAIN node.v \cup DOMAIN KeyedArray :
                \/ x[1] = Plain(name)
                \/ name \in DOMAIN KeyedArray /\ InKeyed(node, name, x[1], x[2])
                \/ InCounted(node, name, x[1], x[2])
    BY <1>1, BelowParts
  <2>3. name \in Texts  BY <2>1
  <2> QED  BY <1>2, <1>6, <1>7, <2>2, <2>3
<1>9. x[2] # Nowhere /\ x[2] = Child(node, x[1], TRUE)  BY <1>1, <1>8, BelowIsChild
<1>10. Child(node, x[1], TRUE) \in Nodes \cup {Nowhere}  BY <1>8, ChildType
<1> QED  BY <1>1, <1>8, <1>9, <1>10

(* Where selectors are read.                                               *)
Down(node, seg)  == Child(node, seg, TRUE)
Led(node, path)  == Through(node, path, TRUE)

LEMMA DownFacts ==
  ASSUME NEW node \in Nodes \cup {Nowhere}, NEW seg \in Segments
  PROVE  /\ Down(node, seg) \in Nodes \cup {Nowhere}
         /\ node = Nowhere => Down(node, seg) = Nowhere
         /\ node # Nowhere => \A child : Stands(node, seg, child) <=> child # Nowhere /\ child = Down(node, seg)
<1> DEFINE b == TRUE
<1>1. Down(node, seg) = Child(node, seg, b)  BY DEF Down
<1> HIDE DEF b
<1>2. Down(node, seg) \in Nodes \cup {Nowhere} /\ (node = Nowhere => Down(node, seg) = Nowhere)
  BY <1>1, ChildType
<1>3. ASSUME node # Nowhere, NEW child
      PROVE  Stands(node, seg, child) <=> child # Nowhere /\ child = Down(node, seg)
  <2>1. node \in Nodes  BY <1>3
  <2> QED  BY <2>1, BelowIsChild DEF Down
<1> QED  BY <1>2, <1>3

LEMMA LedUnfolds ==
  ASSUME NEW node \in Nodes \cup {Nowhere}, NEW path \in Seq(Segments)
  PROVE  /\ Led(node, path)[0] = node
         /\ \A n \in 1..Len(path) : Led(node, path)[n] = Down(Led(node, path)[n - 1], path[n])
         /\ \A n \in 0..Len(path) : Led(node, path)[n] \in Nodes \cup {Nowhere}
<1> DEFINE b == TRUE
<1>1. Led(node, path) = Through(node, path, b)  BY DEF Led
<1>2. \A x, y : Down(x, y) = Child(x, y, b)  BY DEF Down
<1> HIDE DEF b
<1> DEFINE at == Through(node, path, b)
<1>3. at \in [0..Len(path) -> Nodes \cup {Nowhere}] /\ at[0] = node
      /\ \A n \in 1..Len(path) : at[n] = Child(at[n - 1], path[n], b)
  BY ThroughUnfolds, ZenonT(40)
<1> HIDE DEF at
<1>4. \A n \in 0..Len(path) : at[n] \in Nodes \cup {Nowhere}  BY <1>3
<1> QED  BY <1>1, <1>2, <1>3, <1>4 DEF at

LEMMA LedAgrees ==
  ASSUME NEW node \in Nodes \cup {Nowhere}, NEW p \in Seq(Segments), NEW q \in Seq(Segments),
         NEW N \in Nat, N <= Len(p), N <= Len(q), \A i \in 1..N : p[i] = q[i]
  PROVE  \A n \in 0..N : Led(node, p)[n] = Led(node, q)[n]
<1> DEFINE b == TRUE
<1>1. Led(node, p) = Through(node, p, b) /\ Led(node, q) = Through(node, q, b)  BY DEF Led
<1> HIDE DEF b
<1>2. \A n \in 0..N : Through(node, p, b)[n] = Through(node, q, b)[n]  BY ThroughAgrees
<1> QED  BY <1>1, <1>2

(* The places that are n segments down: where paths lead, tables not       *)
(* crossed on the way.                                                     *)
IsPlace(json, path, node) ==
  /\ path \in Seq(Segments) /\ node \in Nodes
  /\ node = Led(json, path)[Len(path)]
  /\ \A m \in 0..(Len(path) - 1) : ~IsTable(Led(json, path)[m])

Reached(json, n) ==
  {place \in Seq(Segments) \X Nodes : Len(place[1]) = n /\ IsPlace(json, place[1], place[2])}

Further(places) ==
  UNION {{<<Append(place[1], x[1]), x[2]>> : x \in Below(place[2])} :
           place \in {place \in places : ~IsTable(place[2])}}

LEMMA FurtherMembers ==
  ASSUME NEW places, NEW y
  PROVE  y \in Further(places) <=>
           \E place \in places : /\ ~IsTable(place[2])
                                 /\ \E x \in Below(place[2]) : y = <<Append(place[1], x[1]), x[2]>>
BY DEF Further

LEMMA ReachedPair ==
  ASSUME NEW json, NEW n, NEW place \in Reached(json, n)
  PROVE  place = <<place[1], place[2]>> /\ Len(place[1]) = n /\ IsPlace(json, place[1], place[2])
BY DEF Reached

LEMMA ReachedMember ==
  ASSUME NEW json, NEW path, NEW node, IsPlace(json, path, node)
  PROVE  <<path, node>> \in Reached(json, Len(path))
<1>1. path \in Seq(Segments) /\ node \in Nodes  BY DEF IsPlace
<1>2. <<path, node>> \in Seq(Segments) \X Nodes  BY <1>1
<1>3. <<path, node>>[1] = path /\ <<path, node>>[2] = node  OBVIOUS
<1> QED  BY <1>2, <1>3 DEF Reached

LEMMA FirstPlace ==
  ASSUME NEW json \in Nodes
  PROVE  Reached(json, 0) = {<< <<>>, json >>}
<1>1. \A p \in Seq(Segments) : Led(json, p)[0] = json  BY LedUnfolds
<1>2. ASSUME NEW place \in Reached(json, 0) PROVE place = << <<>>, json >>
  <2>1. place = <<place[1], place[2]>> /\ Len(place[1]) = 0 /\ IsPlace(json, place[1], place[2])
    BY ReachedPair
  <2>2. place[1] \in Seq(Segments) /\ place[2] = Led(json, place[1])[0]  BY <2>1 DEF IsPlace
  <2>3. place[1] = <<>>  BY <2>1, <2>2
  <2>4. place[2] = json  BY <1>1, <2>2
  <2> QED  BY <2>1, <2>3, <2>4
<1>3. << <<>>, json >> \in Reached(json, 0)
  <2>1. <<>> \in Seq(Segments) /\ Len(<<>>) = 0  OBVIOUS
  <2>2. \A m \in 0..(0 - 1) : FALSE  OBVIOUS
  <2>3. IsPlace(json, <<>>, json)  BY <1>1, <2>1, <2>2 DEF IsPlace
  <2> QED  BY <2>1, <2>3, ReachedMember
<1> QED  BY <1>2, <1>3

(* One segment further.                                                    *)
LEMMA FurtherPlace ==
  ASSUME NEW json \in Nodes, NEW p, NEW node, IsPlace(json, p, node), ~IsTable(node),
         NEW seg \in Segments, NEW child \in Nodes, child = Down(node, seg)
  PROVE  IsPlace(json, Append(p, seg), child)
<1> DEFINE q == Append(p, seg)
           n == Len(p)
<1>1. p \in Seq(Segments) /\ node = Led(json, p)[n] /\ \A m \in 0..(n - 1) : ~IsTable(Led(json, p)[m])
  BY DEF IsPlace
<1>2. n \in Nat /\ q \in Seq(Segments) /\ Len(q) = n + 1 /\ q[n + 1] = seg /\ \A i \in 1..n : p[i] = q[i]
  BY <1>1
<1> HIDE DEF q, n
<1>3. \A m \in 0..n : Led(json, p)[m] = Led(json, q)[m]
  <2>1. n <= Len(p) /\ n <= Len(q)  BY <1>2 DEF n
  <2> QED  BY <1>1, <1>2, <2>1, LedAgrees
<1>4. Led(json, q)[n + 1] = Down(Led(json, q)[n], seg)
  <2>0. q \in Seq(Segments) /\ json \in Nodes \cup {Nowhere}  BY <1>2
  <2>1. \A m \in 1..Len(q) : Led(json, q)[m] = Down(Led(json, q)[m - 1], q[m])  BY <2>0, LedUnfolds
  <2>2. n + 1 \in 1..Len(q) /\ (n + 1) - 1 = n  BY <1>2
  <2> QED  BY <1>2, <2>1, <2>2
<1>5. child = Led(json, q)[Len(q)]
  <2>1. n \in 0..n  BY <1>2
  <2>2. Led(json, q)[n] = node  BY <1>1, <1>3, <2>1
  <2> QED  BY <1>2, <1>4, <2>2
<1>6. ASSUME NEW m \in 0..(Len(q) - 1) PROVE ~IsTable(Led(json, q)[m])
  <2>1. m \in 0..n /\ (m \in 0..(n - 1) \/ m = n)  BY <1>2
  <2>2. Led(json, q)[m] = Led(json, p)[m]  BY <1>3, <2>1
  <2>3. CASE m \in 0..(n - 1)  BY <1>1, <2>2, <2>3
  <2>4. CASE m = n  BY <1>1, <2>2, <2>4
  <2> QED  BY <2>1, <2>3, <2>4
<1>7. IsPlace(json, q, child)  BY <1>2, <1>5, <1>6 DEF IsPlace
<1> QED  BY <1>7 DEF q

(* One segment back.                                                       *)
IsNext(json, q, child) ==
  \E p, node, seg : /\ IsPlace(json, p, node) /\ ~IsTable(node) /\ Len(q) = Len(p) + 1
                    /\ seg \in Segments /\ q = Append(p, seg) /\ child = Down(node, seg)

LEMMA NearerPlace ==
  ASSUME NEW json \in Nodes, NEW q, NEW child, IsPlace(json, q, child), NEW n \in Nat, Len(q) = n + 1
  PROVE  IsNext(json, q, child)
<1> DEFINE p == SubSeq(q, 1, n)
           node == Led(json, q)[n]
<1>1. q \in Seq(Segments) /\ child \in Nodes /\ child = Led(json, q)[n + 1]
      /\ \A m \in 0..n : ~IsTable(Led(json, q)[m])
  <2>1. Len(q) - 1 = n  OBVIOUS
  <2> QED  BY <2>1 DEF IsPlace
<1>2. p \in Seq(Segments) /\ Len(p) = n /\ q[n + 1] \in Segments
  BY <1>1
<1>3. q = Append(p, q[n + 1])  BY <1>1
<1>4. \A i \in 1..n : p[i] = q[i]  BY <1>1
<1> HIDE DEF p
<1>5. \A m \in 0..n : Led(json, p)[m] = Led(json, q)[m]
  <2>1. n <= Len(p) /\ n <= Len(q)  BY <1>2
  <2> QED  BY <1>1, <1>2, <1>4, <2>1, LedAgrees
<1>6. (\A m \in 1..Len(q) : Led(json, q)[m] = Down(Led(json, q)[m - 1], q[m]))
      /\ \A m \in 0..Len(q) : Led(json, q)[m] \in Nodes \cup {Nowhere}
  BY <1>1, LedUnfolds
<1>7. Led(json, q)[n + 1] = Down(node, q[n + 1])
  <2>1. n + 1 \in 1..Len(q) /\ (n + 1) - 1 = n  OBVIOUS
  <2> QED  BY <1>6, <2>1
<1>8. node \in Nodes \cup {Nowhere}
  <2>1. n \in 0..Len(q)  OBVIOUS
  <2> QED  BY <1>6, <2>1
<1>9. node = Led(json, p)[n] /\ ~IsTable(node)
  <2>1. n \in 0..n  OBVIOUS
  <2> QED  BY <1>1, <1>5, <2>1
<1> HIDE DEF node
<1>10. node \in Nodes
  <2>1. child # Nowhere  BY <1>1, NodeFacts
  <2>2. node # Nowhere  BY <1>1, <1>2, <1>7, <2>1, DownFacts
  <2> QED  BY <1>8, <2>2
<1>11. IsPlace(json, p, node)
  <2>1. \A m \in 0..(Len(p) - 1) : m \in 0..n  BY <1>2
  <2>2. \A m \in 0..(Len(p) - 1) : ~IsTable(Led(json, p)[m])  BY <1>1, <1>5, <2>1
  <2> QED  BY <1>2, <1>9, <1>10, <2>2 DEF IsPlace
<1>12. child = Down(node, q[n + 1])  BY <1>1, <1>7
<1> DEFINE seg == q[n + 1]
<1>13. seg \in Segments /\ q = Append(p, seg) /\ child = Down(node, seg)  BY <1>2, <1>3, <1>12
<1> HIDE DEF seg
<1> QED  BY <1>2, <1>9, <1>11, <1>13 DEF IsNext

LEMMA NextPlaces ==
  ASSUME NEW json \in Nodes, NEW n \in Nat \ {0}
  PROVE  Reached(json, n) = Further(Reached(json, n - 1))
<1>1. ASSUME NEW y \in Further(Reached(json, n - 1)) PROVE y \in Reached(json, n)
  <2>1. PICK place \in Reached(json, n - 1) :
               /\ ~IsTable(place[2])
               /\ \E x \in Below(place[2]) : y = <<Append(place[1], x[1]), x[2]>>
    BY FurtherMembers
  <2>2. PICK x \in Below(place[2]) : y = <<Append(place[1], x[1]), x[2]>>  BY <2>1
  <2>3. Len(place[1]) = n - 1 /\ IsPlace(json, place[1], place[2])  BY ReachedPair
  <2>4. place[1] \in Seq(Segments) /\ place[2] \in Nodes  BY <2>3 DEF IsPlace
  <2>5. x[1] \in Segments /\ x[2] = Down(place[2], x[1]) /\ x[2] \in Nodes  BY <2>4, BelowType DEF Down
  <2>6. IsPlace(json, Append(place[1], x[1]), x[2])  BY <2>1, <2>3, <2>5, FurtherPlace
  <2>7. Len(Append(place[1], x[1])) = n  BY <2>3, <2>4, <2>5
  <2> QED  BY <2>2, <2>6, <2>7, ReachedMember
<1>2. ASSUME NEW y \in Reached(json, n) PROVE y \in Further(Reached(json, n - 1))
  <2> DEFINE q == y[1]
  <2>1. y = <<q, y[2]>> /\ Len(q) = n /\ IsPlace(json, q, y[2])  BY ReachedPair
  <2>2. PICK p, node, seg : /\ IsPlace(json, p, node) /\ ~IsTable(node) /\ Len(q) = Len(p) + 1
                            /\ seg \in Segments /\ q = Append(p, seg) /\ y[2] = Down(node, seg)
    <3> DEFINE m == n - 1
    <3>1. m \in Nat /\ Len(q) = m + 1  BY <2>1
    <3> HIDE DEF q, m
    <3>2. IsNext(json, q, y[2])  BY <2>1, <3>1, NearerPlace
    <3> QED  BY <3>2 DEF IsNext
  <2>3. <<p, node>> \in Reached(json, n - 1)
    <3>1. Len(p) \in Nat  BY <2>2 DEF IsPlace
    <3>2. Len(p) = n - 1  BY <2>1, <2>2, <3>1
    <3> QED  BY <2>2, <3>2, ReachedMember
  <2>4. y[2] \in Nodes /\ node \in Nodes  BY <2>1, <2>2 DEF IsPlace
  <2>5. Stands(node, seg, y[2])
    <3> HIDE DEF q
    <3>1. y[2] # Nowhere  BY <2>4, NodeFacts
    <3> QED  BY <2>2, <2>4, <3>1, DownFacts
  <2>6. <<seg, y[2]>> \in Below(node)  BY <2>5 DEF Stands
  <2>7. y = <<Append(p, seg), y[2]>>  BY <2>1, <2>2
  <2> HIDE DEF q
  <2> DEFINE place == <<p, node>>
             x == <<seg, y[2]>>
  <2>8. place[1] = p /\ place[2] = node /\ x[1] = seg /\ x[2] = y[2]  OBVIOUS
  <2>9. y = <<Append(place[1], x[1]), x[2]>> /\ x \in Below(place[2]) /\ ~IsTable(place[2])
    BY <2>2, <2>6, <2>7, <2>8
  <2>10. place \in Reached(json, n - 1)  BY <2>3
  <2> HIDE DEF place, x
  <2> QED  BY <2>9, <2>10, FurtherMembers
<1> QED  BY <1>1, <1>2

LEMMA PlacesReached ==
  ASSUME NEW json \in Nodes, NEW n \in Nat
  PROVE  Places(json, n) = Reached(json, n)
<1> DEFINE base == {<< <<>>, json >>}
           f == [k \in 0..n |-> Reached(json, k)]
           Unfolds(g) == g = [k \in 0..n |-> IF k = 0 THEN base ELSE Further(g[k - 1])]
           at == CHOOSE g : Unfolds(g)
<1>1. Places(json, n) = at[n]  BY DEF Places, Further
<1>2. Unfolds(f)
  <2>1. ASSUME NEW k \in 0..n PROVE f[k] = IF k = 0 THEN base ELSE Further(f[k - 1])
    <3>1. CASE k = 0  BY <3>1, FirstPlace
    <3>2. CASE k # 0
      <4>1. k \in Nat \ {0} /\ k - 1 \in 0..n  BY <3>2
      <4>2. Reached(json, k) = Further(Reached(json, k - 1))  BY <4>1, NextPlaces
      <4> QED  BY <3>2, <4>1, <4>2
    <3> QED  BY <3>1, <3>2
  <2> QED  BY <2>1
<1>3. Unfolds(at)
  <2> HIDE DEF Unfolds, f
  <2> QED  BY <1>2
<1>4. at = [k \in 0..n |-> IF k = 0 THEN base ELSE Further(at[k - 1])]
  <2> HIDE DEF at, base
  <2> QED  BY <1>3
<1> HIDE DEF at
<1>5. at[0] = base /\ \A k \in 1..n : at[k] = Further(at[k - 1])
  <2> HIDE DEF base
  <2>1. 0 \in 0..n /\ \A k \in 1..n : k \in 0..n /\ k # 0  OBVIOUS
  <2> QED  BY <1>4, <2>1
<1> DEFINE good == {k \in 0..n : at[k] = Reached(json, k)}
<1>6. 0 \in good
  <2>1. Reached(json, 0) = base  BY FirstPlace
  <2> HIDE DEF base
  <2> QED  BY <1>5, <2>1
<1>7. ASSUME NEW k \in 1..n, k - 1 \in good PROVE k \in good
  <2>1. k \in Nat \ {0} /\ k \in 0..n  OBVIOUS
  <2>2. Reached(json, k) = Further(Reached(json, k - 1))  BY <2>1, NextPlaces
  <2> QED  BY <1>5, <1>7, <2>1, <2>2
<1> HIDE DEF good, base
<1>8. \A k \in 0..n : k \in good  BY <1>6, <1>7, StepByStep
<1>9. n \in good  BY <1>8
<1> QED  BY <1>1, <1>9 DEF good

-----------------------------------------------------------------------------
(* Cells of tables                                                         *)
Single(v) == Values(<<v>>)

(* What is looked up is one number or cannot be resolved.                  *)
IsCell(outcome) == outcome = Unresolvable \/ \E v \in Fractions : outcome = Single(v)

LEMMA SingleFacts ==
  /\ \A v, w : Single(v) = Single(w) <=> v = w
  /\ \A v : Single(v) # Unresolvable /\ Single(v).why = "" /\ Single(v).values = <<v>> /\ Single(v).values[1] = v
  /\ Unresolvable.why # "" /\ Unresolvable.values = <<>>
<1>1. ASSUME NEW v PROVE Single(v).why = "" /\ Single(v).values = <<v>>  BY DEF Single, Values
<1>2. ASSUME NEW v PROVE Single(v).values[1] = v
  <2>1. Single(v).values = <<v>>  BY <1>1
  <2> QED  BY ONLY <2>1
<1>3. Unresolvable.why # "" /\ Unresolvable.values = <<>>  BY DEF Unresolvable, Failed
<1>4. \A v, w : Single(v) = Single(w) <=> v = w
  <2>1. ASSUME NEW v, NEW w, Single(v) = Single(w) PROVE v = w  BY <1>2, <2>1
  <2> QED  BY <2>1
<1>5. \A v : Single(v) # Unresolvable  BY <1>1, <1>3
<1> QED  BY <1>1, <1>2, <1>3, <1>4, <1>5

LEMMA LeafNumber ==
  ASSUME NEW node \in Nodes \cup {Nowhere}
  PROVE  /\ IsCell(Leaf(node))
         /\ \A v : Leaf(node) = Single(v) <=> node.is = "number" /\ v = node.v
<1>1. CASE node.is = "number"
  <2>1. node \in Nodes  BY <1>1 DEF Nowhere
  <2>2. node.v \in Fractions  BY <1>1, <2>1, NodeFacts
  <2>3. Leaf(node) = Single(node.v)  BY <1>1 DEF Leaf, Single
  <2> QED  BY <1>1, <2>2, <2>3, SingleFacts DEF IsCell
<1>2. CASE node.is # "number"
  <2>1. Leaf(node) = Unresolvable  BY <1>2 DEF Leaf
  <2> QED  BY <1>2, <2>1, SingleFacts DEF IsCell
<1> QED  BY <1>1, <1>2

LEMMA CellNumber ==
  ASSUME NEW row \in Nodes \cup {Nowhere}, NEW c \in Int
  PROVE  /\ IsCell(Cell(row, c))
         /\ \A v : Cell(row, c) = Single(v) <=>
              /\ c + 1 \in DOMAIN Items(row) /\ Items(row)[c + 1].is = "number"
              /\ v = Items(row)[c + 1].v
<1> DEFINE items == Items(row)
<1>1. items \in Seq(Nodes)  BY JsonParts
<1>2. Cell(row, c) = IF c + 1 \in DOMAIN items THEN Leaf(items[c + 1]) ELSE Unresolvable
  <2>1. CASE row.is = "list"
    <3>1. items = row.v  BY <2>1 DEF Items
    <3>2. DOMAIN items = 1..Len(items) /\ Len(items) \in Nat  BY <1>1
    <3>3. Cell(row, c) = IF c \in 0..(Len(items) - 1) THEN Leaf(items[c + 1]) ELSE Unresolvable
      BY <2>1, <3>1 DEF Cell
    <3> HIDE DEF items
    <3>4. c \in 0..(Len(items) - 1) <=> c + 1 \in DOMAIN items  BY <3>2
    <3> QED  BY <3>3, <3>4
  <2>2. CASE row.is # "list"
    <3>1. items = <<>>  BY <2>2 DEF Items
    <3>2. c + 1 \notin DOMAIN items  BY <3>1
    <3> QED  BY <2>2, <3>2 DEF Cell
  <2> QED  BY <2>1, <2>2
<1>3. \A n \in DOMAIN items : items[n] \in Nodes  BY <1>1
<1> HIDE DEF items
<1>4. CASE c + 1 \in DOMAIN items
  <2>1. items[c + 1] \in Nodes \cup {Nowhere}  BY <1>3, <1>4
  <2>2. Cell(row, c) = Leaf(items[c + 1])  BY <1>2, <1>4
  <2> QED  BY <1>4, <2>1, <2>2, LeafNumber DEF items
<1>5. CASE c + 1 \notin DOMAIN items
  <2>1. Cell(row, c) = Unresolvable  BY <1>2, <1>5
  <2> QED  BY <1>5, <2>1, SingleFacts DEF items, IsCell
<1> QED  BY <1>4, <1>5

(* The numbers of a row, without tuples.                                   *)
RowOf(table, r)         == Items(Items(Field(table, "rows"))[r])
NamesOf(table)          == Keys(Items(Field(table, "columns")), "name")
InRow(table, r, name, v) == <<name, v>> \in RowNumbers(table, r)

LEMMA NumberedParts ==
  ASSUME NEW table, NEW r
  PROVE  \A name, v : InRow(table, r, name, v) <=>
           \E c \in DOMAIN RowOf(table, r) :
             /\ RowOf(table, r)[c].is = "number" /\ v = RowOf(table, r)[c].v
             /\ \/ c \in DOMAIN Numerals /\ name = Numerals[c]
                \/ /\ c \in Firsts(NamesOf(table)) /\ ~IsNumeral(NamesOf(table)[c].v)
                   /\ name = NamesOf(table)[c].v
<1> DEFINE row == RowOf(table, r)
           key == NamesOf(table)
           numbers == {c \in DOMAIN row : row[c].is = "number"}
           A == {<<Numerals[c], row[c].v>> : c \in numbers \cap DOMAIN Numerals}
           B == {<<key[c].v, row[c].v>> : c \in {c \in numbers \cap Firsts(key) : ~IsNumeral(key[c].v)}}
<1>1. RowNumbers(table, r) = A \cup B  BY DEF RowNumbers, RowOf, NamesOf
<1> HIDE DEF row, key
<1>2. ASSUME NEW name, NEW v
      PROVE  <<name, v>> \in A <=> \E c \in numbers : v = row[c].v /\ c \in DOMAIN Numerals /\ name = Numerals[c]
  <2>1. ASSUME <<name, v>> \in A
        PROVE  \E c \in numbers : v = row[c].v /\ c \in DOMAIN Numerals /\ name = Numerals[c]
    <3>1. PICK c \in numbers \cap DOMAIN Numerals : <<name, v>> = <<Numerals[c], row[c].v>>  BY <2>1
    <3>2. name = Numerals[c] /\ v = row[c].v  BY <3>1
    <3> QED  BY <3>1, <3>2
  <2> QED  BY <2>1
<1>3. ASSUME NEW name, NEW v
      PROVE  <<name, v>> \in B <=>
               \E c \in numbers : /\ v = row[c].v /\ c \in Firsts(key) /\ ~IsNumeral(key[c].v) /\ name = key[c].v
  <2>1. ASSUME <<name, v>> \in B
        PROVE  \E c \in numbers : /\ v = row[c].v /\ c \in Firsts(key) /\ ~IsNumeral(key[c].v) /\ name = key[c].v
    <3>1. PICK c \in {c \in numbers \cap Firsts(key) : ~IsNumeral(key[c].v)} : <<name, v>> = <<key[c].v, row[c].v>>
      BY <2>1
    <3>2. name = key[c].v /\ v = row[c].v  BY <3>1
    <3> QED  BY <3>1, <3>2
  <2> QED  BY <2>1
<1> HIDE DEF A, B
<1>4. ASSUME NEW name, NEW v
      PROVE  InRow(table, r, name, v) <=> <<name, v>> \in A \/ <<name, v>> \in B
  BY <1>1 DEF InRow
<1> SUFFICES ASSUME NEW name, NEW v
             PROVE  InRow(table, r, name, v) <=>
                      \E c \in DOMAIN row :
                        /\ row[c].is = "number" /\ v = row[c].v
                        /\ \/ c \in DOMAIN Numerals /\ name = Numerals[c]
                           \/ /\ c \in Firsts(key) /\ ~IsNumeral(key[c].v) /\ name = key[c].v
  BY DEF row, key
<1>5. <<name, v>> \in A <=> \E c \in numbers : v = row[c].v /\ c \in DOMAIN Numerals /\ name = Numerals[c]
  BY <1>2
<1>6. <<name, v>> \in B <=>
        \E c \in numbers : v = row[c].v /\ c \in Firsts(key) /\ ~IsNumeral(key[c].v) /\ name = key[c].v
  BY <1>3
<1>7. InRow(table, r, name, v) <=> <<name, v>> \in A \/ <<name, v>> \in B  BY <1>4
<1> QED  BY ONLY <1>5, <1>6, <1>7

LEMMA NumberedPair ==
  ASSUME NEW table, NEW r, NEW x \in RowNumbers(table, r)
  PROVE  x = <<x[1], x[2]>> /\ InRow(table, r, x[1], x[2])
<1> SUFFICES x = <<x[1], x[2]>>  BY DEF InRow
<1> DEFINE row == RowOf(table, r)
           key == NamesOf(table)
           numbers == {c \in DOMAIN row : row[c].is = "number"}
           A == {<<Numerals[c], row[c].v>> : c \in numbers \cap DOMAIN Numerals}
           B == {<<key[c].v, row[c].v>> : c \in {c \in numbers \cap Firsts(key) : ~IsNumeral(key[c].v)}}
<1>1. RowNumbers(table, r) = A \cup B  BY DEF RowNumbers, RowOf, NamesOf
<1> HIDE DEF row, key
<1>2. CASE x \in A
  <2>1. PICK c \in numbers \cap DOMAIN Numerals : x = <<Numerals[c], row[c].v>>  BY <1>2
  <2> QED  BY <2>1
<1>3. CASE x \in B
  <2>1. PICK c \in {c \in numbers \cap Firsts(key) : ~IsNumeral(key[c].v)} : x = <<key[c].v, row[c].v>>  BY <1>3
  <2> QED  BY <2>1
<1> QED  BY <1>1, <1>2, <1>3

LEMMA ColumnPosition ==
  ASSUME NEW table \in Nodes \cup {Nowhere}, NEW name \in Texts
  PROVE  /\ Column(table, name) \in Int
         /\ IsNumeral(name) => Column(table, name) = Atoi(name)
         /\ ~IsNumeral(name) =>
              \A c \in Nat \ {0} : c \in Firsts(NamesOf(table)) /\ NamesOf(table)[c].v = name
                                     <=> c = Column(table, name) + 1
<1> DEFINE columns == Items(Field(table, "columns"))
           key == NamesOf(table)
           named == {c \in DOMAIN columns : Field(columns[c], "name") = Text(name)}
           n == Len(columns)
<1>1. Field(table, "columns") \in Nodes \cup {Nowhere}  BY JsonParts
<1>2. columns \in Seq(Nodes)  BY <1>1, JsonParts
<1>3. Column(table, name) = CASE IsNumeral(name) -> Atoi(name)
                              [] ~IsNumeral(name) /\ named # {} -> Min(named) - 1
                              [] ~IsNumeral(name) /\ named = {} -> -1
  BY DEF Column
<1>4. key = [c \in DOMAIN columns |-> Field(columns[c], "name")]  BY DEF NamesOf, Keys
<1>5. n \in Nat /\ DOMAIN columns = 1..n /\ \A c \in 1..n : columns[c] \in Nodes  BY <1>2
<1> HIDE DEF columns, key, n
<1>6. DOMAIN key = 1..n  BY <1>4, <1>5
<1>7. \A c \in 1..n : key[c] \in Nodes \cup {Nowhere}
  <2>1. ASSUME NEW c \in 1..n PROVE key[c] \in Nodes \cup {Nowhere}
    <3>1. columns[c] \in Nodes \cup {Nowhere} /\ key[c] = Field(columns[c], "name")  BY <1>4, <1>5
    <3> QED  BY <3>1, JsonParts
  <2> QED  BY <2>1
<1>8. named = {c \in DOMAIN key : key[c] = Text(name)}  BY <1>4
<1> HIDE DEF named
<1>9. \A c : c \in Firsts(key) /\ key[c].v = name <=> named # {} /\ c = Min(named)
  BY <1>5, <1>6, <1>7, <1>8, FirstOfKey
<1>10. named \subseteq Nat  BY <1>5, <1>6, <1>8
<1>11. named # {} => Min(named) \in Nat  BY <1>10, Smallest
<1>12. CASE IsNumeral(name)
  <2>1. Column(table, name) = Atoi(name) /\ Atoi(name) \in Nat  BY <1>3, <1>12, NumeralFacts
  <2> QED  BY <1>12, <2>1
<1>13. CASE ~IsNumeral(name) /\ named # {}
  <2>1. Column(table, name) = Min(named) - 1  BY <1>3, <1>13
  <2>2. Column(table, name) \in Int /\ Column(table, name) + 1 = Min(named)  BY <1>11, <1>13, <2>1
  <2> QED  BY <1>9, <1>13, <2>2 DEF key
<1>14. CASE ~IsNumeral(name) /\ named = {}
  <2>1. Column(table, name) = -1  BY <1>3, <1>14
  <2>2. \A c \in Nat \ {0} : c # Column(table, name) + 1  BY <2>1
  <2> QED  BY <1>9, <1>14, <2>1, <2>2 DEF key
<1> QED  BY <1>12, <1>13, <1>14

LEMMA InRowIsCell ==
  ASSUME NEW table \in Nodes \cup {Nowhere}, NEW r \in DOMAIN Items(Field(table, "rows")),
         NEW name \in Texts, NEW v
  PROVE  InRow(table, r, name, v) <=>
           Cell(Items(Field(table, "rows"))[r], Column(table, name)) = Single(v)
<1> DEFINE rows == Items(Field(table, "rows"))
           row == RowOf(table, r)
           c == Column(table, name)
           key == NamesOf(table)
<1>1. Field(table, "rows") \in Nodes \cup {Nowhere}  BY JsonParts
<1>2. rows[r] \in Nodes \cup {Nowhere}
  <2>1. rows \in Seq(Nodes)  BY <1>1, JsonParts
  <2> QED  BY <2>1
<1>3. row = Items(rows[r])  BY DEF RowOf
<1>4. row \in Seq(Nodes)  BY <1>2, <1>3, JsonParts
<1>5. c \in Int  BY ColumnPosition
<1>6. Cell(rows[r], c) = Single(v) <=> c + 1 \in DOMAIN row /\ row[c + 1].is = "number" /\ v = row[c + 1].v
  BY <1>2, <1>3, <1>5, CellNumber
<1>7. InRow(table, r, name, v) <=>
        \E i \in DOMAIN row :
          /\ row[i].is = "number" /\ v = row[i].v
          /\ \/ i \in DOMAIN Numerals /\ name = Numerals[i]
             \/ i \in Firsts(key) /\ ~IsNumeral(key[i].v) /\ name = key[i].v
  BY NumberedParts
<1>8. \A i \in DOMAIN row : i \in Nat \ {0}  BY <1>4
<1> HIDE DEF row, rows, key
<1>9. \A i \in DOMAIN row :
        (\/ i \in DOMAIN Numerals /\ name = Numerals[i]
         \/ i \in Firsts(key) /\ ~IsNumeral(key[i].v) /\ name = key[i].v) <=> i = c + 1
  <2> HIDE DEF c
  <2>1. CASE IsNumeral(name)
    <3>1. c = Atoi(name)  BY <2>1, ColumnPosition DEF c
    <3>2. Atoi(name) + 1 \in DOMAIN Numerals /\ Numerals[Atoi(name) + 1] = name  BY <2>1, NumeralFacts
    <3>3. \A i \in DOMAIN Numerals : Numerals[i] = name => i = c + 1  BY <3>1, <3>2, NumeralAssumption
    <3> QED  BY <2>1, <3>1, <3>2, <3>3
  <2>2. CASE ~IsNumeral(name)
    <3>1. \A i \in DOMAIN Numerals : Numerals[i] # name  BY <2>2 DEF IsNumeral
    <3>2. \A i \in Nat \ {0} : i \in Firsts(key) /\ key[i].v = name <=> i = c + 1
      BY <2>2, ColumnPosition DEF c, key
    <3> QED  BY <1>8, <2>2, <3>1, <3>2
  <2> QED  BY <2>1, <2>2
<1> HIDE DEF c
<1>10. InRow(table, r, name, v) <=> c + 1 \in DOMAIN row /\ row[c + 1].is = "number" /\ v = row[c + 1].v
  BY <1>7, <1>9
<1> QED  BY <1>6, <1>10 DEF rows, c

(* What is left of a path when it addresses a cell of a table.             *)
Addresses(path, key, column) ==
  /\ path[1].name \in {"row", "rows"}
  /\ \/ Len(path) = 2 /\ Len(path[1].keys) = 1 /\ path[1].keys[1] = key
        /\ Len(path[2].keys) = 0 /\ path[2].name = column
     \/ Len(path) = 1 /\ Len(path[1].keys) = 2 /\ path[1].keys[1] = key
        /\ path[1].keys[2] = column /\ IsNumeral(column)

LEMMA PathParts ==
  ASSUME NEW path \in Seq(Segments)
  PROVE  /\ Len(path) = 1 => /\ path[1] \in Segments /\ path = <<path[1]>>
         /\ Len(path) = 2 => /\ path[1] \in Segments /\ path[2] \in Segments
                             /\ path = <<path[1], path[2]>>
OBVIOUS

LEMMA PairOfKeys ==
  ASSUME NEW seg \in Segments, Len(seg.keys) = 2
  PROVE  seg.keys[1] \in Texts /\ seg.keys[2] \in Texts /\ seg.keys = <<seg.keys[1], seg.keys[2]>>
<1>1. seg.keys \in Seq(Texts)  BY SegmentParts
<1> QED  BY <1>1

LEMMA InTableParts ==
  ASSUME NEW path \in Seq(Segments), NEW key, NEW column
  PROVE  path \in InTable(key, column) <=> Addresses(path, key, column)
<1> DEFINE Two(rows) == <<Seg(rows, <<key>>), Plain(column)>>
           One(rows) == <<Seg(rows, <<key, column>>)>>
<1>1. path \in InTable(key, column) <=>
        \E rows \in {"row", "rows"} : path = Two(rows) \/ (IsNumeral(column) /\ path = One(rows))
  BY DEF InTable
<1>2. ASSUME NEW rows
      PROVE  path = Two(rows) <=> /\ Len(path) = 2 /\ path[1].name = rows
                                  /\ Len(path[1].keys) = 1 /\ path[1].keys[1] = key
                                  /\ Len(path[2].keys) = 0 /\ path[2].name = column
  <2>1. path = Two(rows) <=> Len(path) = 2 /\ path[1] = Bracketed(rows, key) /\ path[2] = Plain(column)
    <3>1. Two(rows) = <<Bracketed(rows, key), Plain(column)>>  BY DEF Bracketed
    <3> HIDE DEF Two
    <3>2. ASSUME path = Two(rows) PROVE Len(path) = 2 /\ path[1] = Bracketed(rows, key) /\ path[2] = Plain(column)
      BY <3>1, <3>2
    <3>3. ASSUME Len(path) = 2, path[1] = Bracketed(rows, key), path[2] = Plain(column) PROVE path = Two(rows)
      BY <3>1, <3>3, PathParts
    <3> QED  BY <3>2, <3>3
  <2> HIDE DEF Two
  <2>2. CASE Len(path) = 2
    <3>1. path[1] \in Segments /\ path[2] \in Segments  BY <2>2, PathParts
    <3>2. path[1] = Bracketed(rows, key) <=> Len(path[1].keys) = 1 /\ rows = path[1].name /\ key = path[1].keys[1]
      BY <3>1, BracketSegment
    <3>3. path[2] = Plain(column) <=> Len(path[2].keys) = 0 /\ column = path[2].name
      BY <3>1, BracketSegment
    <3> QED  BY <2>1, <2>2, <3>2, <3>3
  <2>3. CASE Len(path) # 2  BY <2>1, <2>3
  <2> QED  BY <2>2, <2>3
<1>3. ASSUME NEW rows
      PROVE  path = One(rows) <=> /\ Len(path) = 1 /\ path[1].name = rows
                                  /\ Len(path[1].keys) = 2 /\ path[1].keys[1] = key /\ path[1].keys[2] = column
  <2>1. ASSUME path = One(rows)
        PROVE  Len(path) = 1 /\ path[1] = Seg(rows, <<key, column>>)
    BY <2>1
  <2>2. ASSUME path = One(rows)
        PROVE  /\ Len(path) = 1 /\ path[1].name = rows
               /\ Len(path[1].keys) = 2 /\ path[1].keys[1] = key /\ path[1].keys[2] = column
    <3>1. path[1].name = rows /\ path[1].keys = <<key, column>>  BY <2>1, <2>2 DEF Seg
    <3> QED  BY <2>1, <2>2, <3>1
  <2>3. ASSUME Len(path) = 1, path[1].name = rows, Len(path[1].keys) = 2, path[1].keys[1] = key, path[1].keys[2] = column
        PROVE  path = One(rows)
    <3>1. path[1] \in Segments /\ path = <<path[1]>>  BY <2>3, PathParts
    <3>2. path[1].keys = <<key, column>>  BY <2>3, <3>1, PairOfKeys
    <3>3. path[1] = Seg(path[1].name, path[1].keys)  BY <3>1, SegmentParts
    <3>4. path[1] = Seg(rows, <<key, column>>)  BY <2>3, <3>2, <3>3
    <3> QED  BY <3>1, <3>4
  <2> QED  BY <2>2, <2>3
<1> HIDE DEF One, Two
<1> QED  BY <1>1, <1>2, <1>3 DEF Addresses

(* The row of a number.                                                    *)
LEMMA RowAtNumeral ==
  ASSUME NEW table \in Nodes \cup {Nowhere}, NEW key, IsNumeral(key)
  PROVE  LET rows == Items(Field(table, "rows")) IN
         /\ \A r \in DOMAIN rows \cap DOMAIN Numerals : Numerals[r] = key => RowAt(table, key) = rows[r]
         /\ (\A r \in DOMAIN rows \cap DOMAIN Numerals : Numerals[r] # key) => RowAt(table, key) = Nowhere
         /\ RowAt(table, key) \in Nodes \cup {Nowhere}
<1> DEFINE rows == Items(Field(table, "rows"))
           i == Atoi(key)
<1>1. Field(table, "rows") \in Nodes \cup {Nowhere}  BY JsonParts
<1>2. RowAt(table, key) = At(Field(table, "rows"), i)  BY DEF RowAt
<1>3. i \in Nat /\ i + 1 \in DOMAIN Numerals /\ Numerals[i + 1] = key  BY NumeralFacts
<1> HIDE DEF i
<1>4. /\ RowAt(table, key) \in Nodes \cup {Nowhere}
      /\ i + 1 \in DOMAIN rows => RowAt(table, key) = rows[i + 1]
      /\ i + 1 \notin DOMAIN rows => RowAt(table, key) = Nowhere
  BY <1>1, <1>2, <1>3, AtElement
<1>5. \A r \in DOMAIN Numerals : Numerals[r] = key => r = i + 1  BY <1>3, NumeralAssumption
<1> HIDE DEF rows
<1>6. (\A r \in DOMAIN rows \cap DOMAIN Numerals : Numerals[r] # key) => i + 1 \notin DOMAIN rows  BY <1>3
<1>7. \A r \in DOMAIN rows \cap DOMAIN Numerals : Numerals[r] = key => RowAt(table, key) = rows[r]
  BY <1>4, <1>5
<1> QED  BY <1>4, <1>6, <1>7 DEF rows

LEMMA TableCellAt ==
  ASSUME NEW table, NEW path \in Seq(Segments), path # <<>>
  PROVE  /\ \A key, column : IsNumeral(key) /\ Addresses(path, key, column) =>
              TableCell(table, path) = Cell(RowAt(table, key), Column(table, column))
         /\ (\A key, column : IsNumeral(key) => ~Addresses(path, key, column)) =>
              TableCell(table, path) = Unresolvable
<1> DEFINE first == path[1]
           ByRow == first.name \in {"row", "rows"} /\ first.keys # <<>> /\ IsNumeral(first.keys[1])
           One == Len(path) = 1 /\ ByRow /\ Len(first.keys) = 2 /\ IsNumeral(first.keys[2])
           Two == Len(path) = 2 /\ ByRow /\ Len(first.keys) = 1 /\ path[2].keys = <<>>
<1>1. TableCell(table, path) =
        CASE One -> Cell(RowAt(table, first.keys[1]), Atoi(first.keys[2]))
          [] Two -> Cell(RowAt(table, first.keys[1]), Column(table, path[2].name))
          [] OTHER -> Unresolvable
  BY DEF TableCell
<1>2. first \in Segments /\ first.keys \in Seq(Texts)
  <2>1. first \in Segments  BY PathParts
  <2> QED  BY <2>1, SegmentParts
<1>3. Len(first.keys) \in Nat /\ (first.keys = <<>> <=> Len(first.keys) = 0)  BY <1>2
<1>4. Len(path) = 2 => (path[2].keys = <<>> <=> Len(path[2].keys) = 0)
  <2>1. ASSUME Len(path) = 2 PROVE path[2].keys \in Seq(Texts)
    <3>1. path[2] \in Segments  BY <2>1, PathParts
    <3> QED  BY <3>1, SegmentParts
  <2> QED  BY <2>1
<1>5. One => TableCell(table, path) = Cell(RowAt(table, first.keys[1]), Column(table, first.keys[2]))
  <2>1. IsNumeral(first.keys[2]) => Column(table, first.keys[2]) = Atoi(first.keys[2])  BY DEF Column
  <2> QED  BY <1>1, <2>1
<1>6. Two => TableCell(table, path) = Cell(RowAt(table, first.keys[1]), Column(table, path[2].name))
  <2>1. Two => ~One  OBVIOUS
  <2> HIDE DEF One, Two
  <2> QED  BY <1>1, <2>1
<1>7. ~One /\ ~Two => TableCell(table, path) = Unresolvable
  <2> HIDE DEF One, Two
  <2> QED  BY <1>1
<1>8. ASSUME NEW key, NEW column, IsNumeral(key), Addresses(path, key, column)
      PROVE  TableCell(table, path) = Cell(RowAt(table, key), Column(table, column))
  <2>1. CASE Len(path) = 2
    <3>1. Two /\ first.keys[1] = key /\ path[2].name = column  BY <1>3, <1>4, <1>8, <2>1 DEF Addresses
    <3> QED  BY <1>6, <3>1
  <2>2. CASE Len(path) # 2
    <3>1. One /\ first.keys[1] = key /\ first.keys[2] = column  BY <1>3, <1>8, <2>2 DEF Addresses
    <3> QED  BY <1>5, <3>1
  <2> QED  BY <2>1, <2>2
<1>9. One => IsNumeral(first.keys[1]) /\ Addresses(path, first.keys[1], first.keys[2])  BY DEF Addresses
<1>10. Two => IsNumeral(first.keys[1]) /\ Addresses(path, first.keys[1], path[2].name)  BY <1>4 DEF Addresses
<1> HIDE DEF One, Two
<1> QED  BY <1>7, <1>8, <1>9, <1>10

CellOf(table, path, v) == <<path, v>> \in TableCells(table)
InCells(x, r, y) == \E path \in InTable(Numerals[r], x[1]) : y = <<path, x[2]>>

LEMMA TableCellsMembers ==
  ASSUME NEW table, NEW y
  PROVE  y \in TableCells(table) <=>
           \E r \in DOMAIN Items(Field(table, "rows")) \cap DOMAIN Numerals :
             \E x \in RowNumbers(table, r) : InCells(x, r, y)
<1> DEFINE D == DOMAIN Items(Field(table, "rows")) \cap DOMAIN Numerals
           One(x, r) == {<<path, x[2]>> : path \in InTable(Numerals[r], x[1])}
           Row1(r) == UNION {One(x, r) : x \in RowNumbers(table, r)}
<1>1. TableCells(table) = UNION {Row1(r) : r \in D}  BY DEF TableCells
<1>2. \A x, r : y \in One(x, r) <=> InCells(x, r, y)  BY DEF InCells
<1>3. \A r : y \in Row1(r) <=> \E x \in RowNumbers(table, r) : y \in One(x, r)
  <2> HIDE DEF One
  <2> QED  OBVIOUS
<1> HIDE DEF Row1, D
<1>4. y \in TableCells(table) <=> \E r \in D : y \in Row1(r)  BY <1>1
<1> HIDE DEF One
<1> QED  BY <1>2, <1>3, <1>4 DEF D

LEMMA InCellsParts ==
  ASSUME NEW x, NEW r, NEW p, NEW v
  PROVE  InCells(x, r, <<p, v>>) <=> p \in InTable(Numerals[r], x[1]) /\ v = x[2]
<1>1. ASSUME InCells(x, r, <<p, v>>) PROVE p \in InTable(Numerals[r], x[1]) /\ v = x[2]
  <2>1. PICK path \in InTable(Numerals[r], x[1]) : <<p, v>> = <<path, x[2]>>  BY <1>1 DEF InCells
  <2> QED  BY <2>1
<1>2. ASSUME p \in InTable(Numerals[r], x[1]), v = x[2] PROVE InCells(x, r, <<p, v>>)  BY <1>2 DEF InCells
<1> QED  BY <1>1, <1>2

LEMMA CellsPair ==
  ASSUME NEW table, NEW y \in TableCells(table)
  PROVE  y = <<y[1], y[2]>> /\ CellOf(table, y[1], y[2])
<1>1. PICK r, x : InCells(x, r, y)  BY TableCellsMembers
<1>2. PICK path : y = <<path, x[2]>>  BY <1>1 DEF InCells
<1> QED  BY <1>2 DEF CellOf

(* A path has an address in a row in common with no other row or column.   *)
LEMMA AddressedOnce ==
  ASSUME NEW path, NEW key, NEW column, NEW key2, NEW column2,
         Addresses(path, key, column), Addresses(path, key2, column2)
  PROVE  key = key2 /\ column = column2
BY DEF Addresses

LEMMA AddressTexts ==
  ASSUME NEW path \in Seq(Segments), NEW key, NEW column, Addresses(path, key, column)
  PROVE  key \in Texts /\ column \in Texts
<1>1. CASE Len(path) = 2
  <2>1. path[1] \in Segments /\ path[2] \in Segments  BY <1>1, PathParts
  <2>2. path[1].keys \in Seq(Texts) /\ path[2].name \in Texts  BY <2>1, SegmentParts
  <2>3. Len(path[1].keys) = 1 /\ path[1].keys[1] = key /\ path[2].name = column  BY <1>1 DEF Addresses
  <2> QED  BY <2>2, <2>3
<1>2. CASE Len(path) # 2
  <2>1. Len(path) = 1 /\ Len(path[1].keys) = 2 /\ path[1].keys[1] = key /\ path[1].keys[2] = column
    BY <1>2 DEF Addresses
  <2>2. path[1] \in Segments  BY <2>1, PathParts
  <2> QED  BY <2>1, <2>2, PairOfKeys
<1> QED  BY <1>1, <1>2

LEMMA TableCellDefined ==
  ASSUME NEW table \in Nodes \cup {Nowhere}, NEW path \in Seq(Segments), path # <<>>
  PROVE  /\ IsCell(TableCell(table, path))
         /\ \A v : CellOf(table, path, v) <=> TableCell(table, path) = Single(v)
<1> DEFINE rows == Items(Field(table, "rows"))
           D == DOMAIN rows \cap DOMAIN Numerals
<1>1. ASSUME NEW v
      PROVE  CellOf(table, path, v) <=>
               \E r \in D : \E x \in RowNumbers(table, r) : Addresses(path, Numerals[r], x[1]) /\ v = x[2]
  <2>1. CellOf(table, path, v) <=> \E r \in D : \E x \in RowNumbers(table, r) : InCells(x, r, <<path, v>>)
    BY TableCellsMembers DEF CellOf
  <2>2. \A r, x : InCells(x, r, <<path, v>>) <=> Addresses(path, Numerals[r], x[1]) /\ v = x[2]
    <3>1. ASSUME NEW r, NEW x
          PROVE  InCells(x, r, <<path, v>>) <=> Addresses(path, Numerals[r], x[1]) /\ v = x[2]
      <4>1. path \in InTable(Numerals[r], x[1]) <=> Addresses(path, Numerals[r], x[1])  BY InTableParts
      <4> QED  BY <4>1, InCellsParts
    <3> QED  BY <3>1
  <2> HIDE DEF D
  <2> QED  BY <2>1, <2>2
<1>2. ASSUME NEW v
      PROVE  CellOf(table, path, v) <=>
               \E r \in D : \E name \in Texts : Addresses(path, Numerals[r], name) /\ InRow(table, r, name, v)
  <2>1. ASSUME NEW r \in D, NEW x \in RowNumbers(table, r), Addresses(path, Numerals[r], x[1]), v = x[2]
        PROVE  x[1] \in Texts /\ InRow(table, r, x[1], v)
    BY <2>1, AddressTexts, NumberedPair
  <2>2. ASSUME NEW r \in D, NEW name, InRow(table, r, name, v)
        PROVE  \E x \in RowNumbers(table, r) : x[1] = name /\ v = x[2]
    <3> DEFINE x == <<name, v>>
    <3>1. x \in RowNumbers(table, r) /\ x[1] = name /\ x[2] = v  BY <2>2 DEF InRow
    <3> HIDE DEF x
    <3> QED  BY <3>1
  <2> HIDE DEF D
  <2> QED  BY <1>1, <2>1, <2>2
<1>3. CASE \E key, column : IsNumeral(key) /\ Addresses(path, key, column)
  <2>1. PICK key, column : IsNumeral(key) /\ Addresses(path, key, column)  BY <1>3
  <2>2. key \in Texts /\ column \in Texts  BY <2>1, AddressTexts
  <2>3. TableCell(table, path) = Cell(RowAt(table, key), Column(table, column))  BY <2>1, TableCellAt
  <2>4. Column(table, column) \in Int  BY <2>2, ColumnPosition
  <2>5. RowAt(table, key) \in Nodes \cup {Nowhere}  BY <2>1, RowAtNumeral
  <2>6. IsCell(TableCell(table, path))  BY <2>3, <2>4, <2>5, CellNumber
  <2>7. ASSUME NEW v
        PROVE  CellOf(table, path, v) <=> \E r \in D : Numerals[r] = key /\ InRow(table, r, column, v)
    <3> HIDE DEF D
    <3> QED  BY <1>2, <2>1, <2>2, AddressedOnce
  <2>8. CASE \E r \in D : Numerals[r] = key
    <3>1. PICK r \in D : Numerals[r] = key  BY <2>8
    <3>2. RowAt(table, key) = rows[r]  BY <2>1, <3>1, RowAtNumeral
    <3>3. \A i \in D : Numerals[i] = key => i = r  BY <3>1, NumeralAssumption
    <3>4. r \in DOMAIN rows  OBVIOUS
    <3>5. \A v : InRow(table, r, column, v) <=> Cell(rows[r], Column(table, column)) = Single(v)
      BY <2>2, <3>4, InRowIsCell
    <3> HIDE DEF D, rows
    <3>6. \A v : CellOf(table, path, v) <=> InRow(table, r, column, v)  BY <2>7, <3>1, <3>3
    <3> QED  BY <2>3, <2>6, <3>2, <3>5, <3>6
  <2>9. CASE \A r \in D : Numerals[r] # key
    <3>1. RowAt(table, key) = Nowhere  BY <2>1, <2>9, RowAtNumeral
    <3>2. \A v : ~CellOf(table, path, v)
      <4> HIDE DEF D
      <4> QED  BY <2>7, <2>9
    <3>3. Items(Nowhere) = <<>>  BY DEF Items, Nowhere
    <3>4. Column(table, column) + 1 \notin DOMAIN Items(Nowhere)  BY <3>3
    <3>5. \A v : Cell(Nowhere, Column(table, column)) # Single(v)  BY <2>4, <3>4, CellNumber
    <3> QED  BY <2>3, <2>6, <3>1, <3>2, <3>5
  <2> HIDE DEF D
  <2> QED  BY <2>8, <2>9
<1>4. CASE \A key, column : IsNumeral(key) => ~Addresses(path, key, column)
  <2>1. TableCell(table, path) = Unresolvable  BY <1>4, TableCellAt
  <2>2. \A r \in D : IsNumeral(Numerals[r])  BY NumeralFacts
  <2>3. \A v : ~CellOf(table, path, v)
    <3> HIDE DEF D
    <3> QED  BY <1>2, <1>4, <2>2
  <2> QED  BY <2>1, <2>3, SingleFacts DEF IsCell
<1> QED  BY <1>3, <1>4

-----------------------------------------------------------------------------
(* What a result's addresses are                                           *)

LEMMA PathSplit ==
  ASSUME NEW T, NEW path \in Seq(T), NEW p \in Seq(T), NEW S, NEW rest \in Seq(S), path = p \o rest
  PROVE  /\ Len(path) = Len(p) + Len(rest) /\ rest = SubSeq(path, Len(p) + 1, Len(path))
         /\ rest \in Seq(T)
         /\ \A i \in 1..Len(p) : p[i] = path[i]
<1>1. Len(path) = Len(p) + Len(rest)  OBVIOUS
<1>2. \A i \in 1..Len(p) : p[i] = path[i]  OBVIOUS
<1>3. \A i \in 1..Len(rest) : rest[i] = path[Len(p) + i]  OBVIOUS
<1>4. \A i \in 1..Len(rest) : rest[i] \in T
  <2>1. \A i \in 1..Len(rest) : Len(p) + i \in 1..Len(path)  BY <1>1
  <2>2. \A i \in 1..Len(path) : path[i] \in T  OBVIOUS
  <2> QED  BY <1>3, <2>1, <2>2
<1>5. rest \in Seq(T)
  <2>1. Len(rest) \in Nat /\ rest = [i \in 1..Len(rest) |-> rest[i]]  OBVIOUS
  <2>2. rest \in [1..Len(rest) -> T]  BY <1>4, <2>1
  <2> QED  BY <2>1, <2>2
<1>6. rest = SubSeq(path, Len(p) + 1, Len(path))
  <2> DEFINE tail == SubSeq(path, Len(p) + 1, Len(path))
  <2>1. tail \in Seq(T) /\ Len(tail) = Len(rest)  BY <1>1
  <2>2. \A i \in 1..Len(rest) : tail[i] = rest[i]  BY <1>1, <1>3
  <2> HIDE DEF tail
  <2>3. tail = rest  BY <1>5, <2>1, <2>2
  <2> QED  BY <2>3 DEF tail
<1> QED  BY <1>1, <1>2, <1>5, <1>6

LEMMA PathJoin ==
  ASSUME NEW T, NEW path \in Seq(T), NEW n \in 0..Len(path)
  PROVE  LET p == SubSeq(path, 1, n)
             rest == SubSeq(path, n + 1, Len(path))
         IN /\ p \in Seq(T) /\ rest \in Seq(T) /\ Len(p) = n /\ Len(rest) = Len(path) - n
            /\ path = p \o rest /\ \A i \in 1..n : p[i] = path[i]
<1> DEFINE p == SubSeq(path, 1, n)
           rest == SubSeq(path, n + 1, Len(path))
<1>1. p \in Seq(T) /\ rest \in Seq(T) /\ Len(p) = n /\ Len(rest) = Len(path) - n  OBVIOUS
<1>2. (\A i \in 1..n : p[i] = path[i]) /\ \A i \in 1..(Len(path) - n) : rest[i] = path[n + i]  OBVIOUS
<1> HIDE DEF p, rest
<1>3. p \o rest \in Seq(T) /\ Len(p \o rest) = Len(path)  BY <1>1
<1>4. \A i \in 1..Len(path) : (p \o rest)[i] = path[i]
  <2>1. ASSUME NEW i \in 1..Len(path) PROVE (p \o rest)[i] = path[i]
    <3>1. CASE i \in 1..n  BY <1>1, <1>2, <3>1
    <3>2. CASE i \notin 1..n
      <4>1. i - n \in 1..(Len(path) - n) /\ n + (i - n) = i  BY <3>2
      <4>2. (p \o rest)[i] = rest[i - n]  BY <1>1, <4>1
      <4> QED  BY <1>2, <4>1, <4>2
    <3> QED  BY <3>1, <3>2
  <2> QED  BY <2>1
<1>5. path = p \o rest
  <2> DEFINE whole == p \o rest
  <2>1. whole \in Seq(T) /\ Len(whole) = Len(path) /\ \A i \in 1..Len(path) : whole[i] = path[i]  BY <1>3, <1>4
  <2> HIDE DEF whole
  <2>2. path = whole  BY <2>1
  <2> QED  BY <2>2 DEF whole
<1> QED  BY <1>1, <1>2, <1>5 DEF p, rest

IsAt(cited, path, v) == v \in CitedAs(path, cited)

LEMMA IsAtMembers ==
  ASSUME NEW cited, NEW path, NEW v
  PROVE  IsAt(cited, path, v) <=> \E x \in cited : x[1] = path /\ v = x[2]
BY DEF IsAt, CitedAs

(* The places of a result, without tuples.                                 *)
LEMMA PlacesMembers ==
  ASSUME NEW json \in Nodes, NEW n \in Nat
  PROVE  /\ \A place \in Places(json, n) : /\ place = <<place[1], place[2]>>
                                           /\ IsPlace(json, place[1], place[2]) /\ Len(place[1]) = n
         /\ \A p, node : IsPlace(json, p, node) /\ Len(p) = n =>
              \E place \in Places(json, n) : place[1] = p /\ place[2] = node
<1>1. Places(json, n) = Reached(json, n)  BY PlacesReached
<1>2. ASSUME NEW place \in Places(json, n)
      PROVE  place = <<place[1], place[2]>> /\ IsPlace(json, place[1], place[2]) /\ Len(place[1]) = n
  BY <1>1, ReachedPair
<1>3. ASSUME NEW p, NEW node, IsPlace(json, p, node), Len(p) = n
      PROVE  \E place \in Places(json, n) : place[1] = p /\ place[2] = node
  <2> DEFINE place == <<p, node>>
  <2>1. place \in Places(json, n)  BY <1>1, <1>3, ReachedMember
  <2>2. place[1] = p /\ place[2] = node  OBVIOUS
  <2> HIDE DEF place
  <2> QED  BY <2>1, <2>2
<1> QED  BY <1>2, <1>3

LEMMA TablesAboveMembers ==
  ASSUME NEW json \in Nodes, NEW depth \in Nat
  PROVE  /\ \A place \in TablesAbove(json, depth) :
              IsPlace(json, place[1], place[2]) /\ Len(place[1]) < depth /\ IsTable(place[2])
         /\ \A p, node : IsPlace(json, p, node) /\ Len(p) < depth /\ IsTable(node) =>
              \E place \in TablesAbove(json, depth) : place[1] = p /\ place[2] = node
<1>1. \A place : place \in TablesAbove(json, depth) <=>
         (\E n \in 0..(depth - 1) : place \in Places(json, n)) /\ IsTable(place[2])
  BY DEF TablesAbove
<1>2. \A n \in 0..(depth - 1) : n \in Nat /\ n < depth  OBVIOUS
<1>3. ASSUME NEW place \in TablesAbove(json, depth)
      PROVE  IsPlace(json, place[1], place[2]) /\ Len(place[1]) < depth /\ IsTable(place[2])
  <2>1. PICK n \in 0..(depth - 1) : place \in Places(json, n)  BY <1>1
  <2>2. n \in Nat /\ n < depth  BY <1>2
  <2> QED  BY <1>1, <2>1, <2>2, PlacesMembers
<1>4. ASSUME NEW p, NEW node, IsPlace(json, p, node), Len(p) < depth, IsTable(node)
      PROVE  \E place \in TablesAbove(json, depth) : place[1] = p /\ place[2] = node
  <2>1. Len(p) \in Nat  BY <1>4 DEF IsPlace
  <2>2. Len(p) \in 0..(depth - 1)  BY <1>4, <2>1
  <2>3. PICK place \in Places(json, Len(p)) : place[1] = p /\ place[2] = node  BY <1>4, <2>1, PlacesMembers
  <2> QED  BY <1>1, <1>4, <2>2, <2>3
<1> QED  BY <1>3, <1>4

LEMMA CitedCellParts ==
  ASSUME NEW json \in Nodes, NEW depth \in Nat, NEW path, NEW v
  PROVE  IsAt(CitedCells(json, depth), path, v) <=>
           \/ \E node : IsPlace(json, path, node) /\ Len(path) = depth /\ node.is = "number" /\ v = node.v
           \/ \E p, table, rest :
                /\ IsPlace(json, p, table) /\ Len(p) < depth /\ IsTable(table)
                /\ CellOf(table, rest, v) /\ path = p \o rest
<1> DEFINE A == {<<place[1], place[2].v>> : place \in {place \in Places(json, depth) : place[2].is = "number"}}
           Of(place) == {<<place[1] \o x[1], x[2]>> : x \in TableCells(place[2])}
           B == UNION {Of(place) : place \in TablesAbove(json, depth)}
<1>1. CitedCells(json, depth) = A \cup B  BY DEF CitedCells
<1>2. IsAt(CitedCells(json, depth), path, v) <=>
        (\E x \in A : x[1] = path /\ v = x[2]) \/ (\E x \in B : x[1] = path /\ v = x[2])
  <2> HIDE DEF A, B
  <2> QED  BY <1>1, IsAtMembers
<1>3. (\E x \in A : x[1] = path /\ v = x[2]) <=>
        \E place \in Places(json, depth) : place[2].is = "number" /\ place[1] = path /\ v = place[2].v
  <2> DEFINE D == {place \in Places(json, depth) : place[2].is = "number"}
  <2>1. ASSUME NEW place \in D PROVE \E x \in A : x[1] = place[1] /\ x[2] = place[2].v
    <3> DEFINE x == <<place[1], place[2].v>>
    <3>1. x \in A /\ x[1] = place[1] /\ x[2] = place[2].v  OBVIOUS
    <3> HIDE DEF x
    <3> QED  BY <3>1
  <2>2. ASSUME NEW x \in A PROVE \E place \in D : x[1] = place[1] /\ x[2] = place[2].v
    <3>1. PICK place \in D : x = <<place[1], place[2].v>>  OBVIOUS
    <3>2. x[1] = place[1] /\ x[2] = place[2].v  BY <3>1
    <3> QED  BY <3>2
  <2> HIDE DEF A
  <2> QED  BY <2>1, <2>2
<1>4. (\E x \in B : x[1] = path /\ v = x[2]) <=>
        \E place \in TablesAbove(json, depth) : \E x \in TableCells(place[2]) : path = place[1] \o x[1] /\ v = x[2]
  <2>1. (\E x \in B : x[1] = path /\ v = x[2]) <=>
          \E place \in TablesAbove(json, depth) : \E y \in Of(place) : y[1] = path /\ v = y[2]
    <3> HIDE DEF Of
    <3> QED  OBVIOUS
  <2>2. \A place : (\E y \in Of(place) : y[1] = path /\ v = y[2]) <=>
                     \E x \in TableCells(place[2]) : path = place[1] \o x[1] /\ v = x[2]
    <3>1. ASSUME NEW place, NEW x \in TableCells(place[2])
          PROVE  \E y \in Of(place) : y[1] = place[1] \o x[1] /\ y[2] = x[2]
      <4> DEFINE y == <<place[1] \o x[1], x[2]>>
      <4>1. y \in Of(place) /\ y[1] = place[1] \o x[1] /\ y[2] = x[2]  OBVIOUS
      <4> HIDE DEF y, Of
      <4> QED  BY <4>1
    <3>2. ASSUME NEW place, NEW y \in Of(place)
          PROVE  \E x \in TableCells(place[2]) : y[1] = place[1] \o x[1] /\ y[2] = x[2]
      <4>1. PICK x \in TableCells(place[2]) : y = <<place[1] \o x[1], x[2]>>  OBVIOUS
      <4>2. y[1] = place[1] \o x[1] /\ y[2] = x[2]  BY <4>1
      <4> QED  BY <4>2
    <3> HIDE DEF Of
    <3> SUFFICES ASSUME NEW place
                 PROVE  (\E y \in Of(place) : y[1] = path /\ v = y[2]) <=>
                          \E x \in TableCells(place[2]) : path = place[1] \o x[1] /\ v = x[2]
      OBVIOUS
    <3>3. ASSUME NEW x \in TableCells(place[2]), path = place[1] \o x[1], v = x[2]
          PROVE  \E y \in Of(place) : y[1] = path /\ v = y[2]
      <4>1. PICK y \in Of(place) : y[1] = place[1] \o x[1] /\ y[2] = x[2]  BY <3>1
      <4> QED  BY <3>3, <4>1
    <3>4. ASSUME NEW y \in Of(place), y[1] = path, v = y[2]
          PROVE  \E x \in TableCells(place[2]) : path = place[1] \o x[1] /\ v = x[2]
      <4>1. PICK x \in TableCells(place[2]) : y[1] = place[1] \o x[1] /\ y[2] = x[2]  BY <3>2
      <4> QED  BY <3>4, <4>1
    <3> QED  BY <3>3, <3>4
  <2> HIDE DEF B, Of
  <2> QED  BY <2>1, <2>2
<1> HIDE DEF A, B
<1>5. (\E place \in Places(json, depth) : place[2].is = "number" /\ place[1] = path /\ v = place[2].v) <=>
        \E node : IsPlace(json, path, node) /\ Len(path) = depth /\ node.is = "number" /\ v = node.v
  BY PlacesMembers
<1>6. ASSUME NEW place \in TablesAbove(json, depth), NEW x \in TableCells(place[2]),
             path = place[1] \o x[1], v = x[2]
      PROVE  \E p, table, rest :
               /\ IsPlace(json, p, table) /\ Len(p) < depth /\ IsTable(table)
               /\ CellOf(table, rest, v) /\ path = p \o rest
  <2>1. CellOf(place[2], x[1], v)  BY <1>6, CellsPair
  <2>2. IsPlace(json, place[1], place[2]) /\ Len(place[1]) < depth /\ IsTable(place[2])  BY TablesAboveMembers
  <2> QED  BY <1>6, <2>1, <2>2
<1>7. ASSUME NEW p, NEW table, NEW rest,
             IsPlace(json, p, table), Len(p) < depth, IsTable(table), CellOf(table, rest, v), path = p \o rest
      PROVE  \E place \in TablesAbove(json, depth) : \E x \in TableCells(place[2]) : path = place[1] \o x[1] /\ v = x[2]
  <2>1. PICK place \in TablesAbove(json, depth) : place[1] = p /\ place[2] = table  BY <1>7, TablesAboveMembers
  <2> DEFINE x == <<rest, v>>
  <2>2. x \in TableCells(place[2]) /\ x[1] = rest /\ x[2] = v  BY <1>7, <2>1 DEF CellOf
  <2> HIDE DEF x
  <2> QED  BY <1>7, <2>1, <2>2
<1> QED  BY <1>2, <1>3, <1>4, <1>5, <1>6, <1>7

(* What is left for a table is a sequence.                                 *)
IsRest(rest) == \E S : rest \in Seq(S) /\ Len(rest) # 0

LEMMA InTableRest ==
  ASSUME NEW key, NEW column, NEW rest \in InTable(key, column)
  PROVE  IsRest(rest)
<1>1. PICK rows \in {"row", "rows"} : rest = <<Seg(rows, <<key>>), Plain(column)>>
                                      \/ rest = <<Seg(rows, <<key, column>>)>>
  BY DEF InTable
<1>2. ASSUME NEW a, rest = <<a>> PROVE IsRest(rest)
  <2>1. rest \in Seq({a}) /\ Len(rest) # 0  BY <1>2
  <2> QED  BY <2>1 DEF IsRest
<1>3. ASSUME NEW a, NEW b, rest = <<a, b>> PROVE IsRest(rest)
  <2>1. rest \in Seq({a, b}) /\ Len(rest) # 0  BY <1>3
  <2> QED  BY <2>1 DEF IsRest
<1> QED  BY <1>1, <1>2, <1>3

LEMMA CellRest ==
  ASSUME NEW table, NEW rest, NEW v, CellOf(table, rest, v)
  PROVE  IsRest(rest)
<1>1. PICK r, x : InCells(x, r, <<rest, v>>)  BY TableCellsMembers DEF CellOf
<1>2. rest \in InTable(Numerals[r], x[1])  BY <1>1, InCellsParts
<1> QED  BY <1>2, InTableRest

(* The first table on the way takes the rest of the path.                  *)
Crossed(json, path) == Tables(Led(json, path), path)

LEMMA FirstTable ==
  ASSUME NEW json \in Nodes, NEW path \in Seq(Segments), NEW m, Crossed(json, path) # {}, m = Min(Crossed(json, path))
  PROVE  /\ m \in 0..(Len(path) - 1) /\ IsTable(Led(json, path)[m])
         /\ IsPlace(json, SubSeq(path, 1, m), Led(json, path)[m])
         /\ \A n \in 0..(Len(path) - 1) : IsTable(Led(json, path)[n]) => m <= n
<1> DEFINE p == SubSeq(path, 1, m)
           node == Led(json, path)[m]
<1>1. Crossed(json, path) = {n \in 0..(Len(path) - 1) : IsTable(Led(json, path)[n])}
  BY DEF Crossed, Tables
<1>2. Crossed(json, path) \subseteq Nat  BY <1>1
<1>3. m \in Crossed(json, path) /\ \A n \in Crossed(json, path) : m <= n  BY <1>2, Smallest
<1>4. m \in 0..(Len(path) - 1) /\ IsTable(node) /\ m \in 0..Len(path)
      /\ \A n \in 0..(Len(path) - 1) : IsTable(Led(json, path)[n]) => m <= n
  BY <1>1, <1>3
<1>5. p \in Seq(Segments) /\ Len(p) = m /\ \A i \in 1..m : p[i] = path[i]  BY <1>4, PathJoin
<1> HIDE DEF p
<1>6. \A n \in 0..m : Led(json, p)[n] = Led(json, path)[n]
  <2>1. m \in Nat /\ m <= Len(p) /\ m <= Len(path)  BY <1>4, <1>5
  <2> QED  BY <1>5, <2>1, LedAgrees
<1>7. node \in Nodes
  <2>1. node \in Nodes \cup {Nowhere}  BY <1>4, LedUnfolds
  <2>2. node # Nowhere  BY <1>4 DEF IsTable, Field, Nowhere
  <2> QED  BY <2>1, <2>2
<1>8. node = Led(json, p)[m]
  <2>1. m \in 0..m  BY <1>4
  <2> QED  BY <1>6, <2>1
<1> HIDE DEF node
<1>9. \A n \in 0..(m - 1) : ~IsTable(Led(json, p)[n])
  <2>1. ASSUME NEW n \in 0..(m - 1) PROVE ~IsTable(Led(json, p)[n])
    <3>1. n \in 0..(Len(path) - 1) /\ n \in 0..m /\ ~ m <= n  BY <1>4
    <3> QED  BY <1>4, <1>6, <3>1
  <2> QED  BY <2>1
<1>10. IsPlace(json, p, node)  BY <1>5, <1>7, <1>8, <1>9 DEF IsPlace
<1> QED  BY <1>4, <1>10 DEF p, node

(* There is no other table that a path leads to.                           *)
LEMMA OnlyTable ==
  ASSUME NEW json \in Nodes, NEW path \in Seq(Segments), NEW p, NEW rest, NEW table,
         IsPlace(json, p, table), IsTable(table), IsRest(rest), path = p \o rest
  PROVE  /\ Crossed(json, path) # {} /\ Len(p) = Min(Crossed(json, path))
         /\ table = Led(json, path)[Min(Crossed(json, path))]
         /\ rest = Rest(path, Min(Crossed(json, path)))
<1> DEFINE n == Len(p)
           m == Min(Crossed(json, path))
<1>1. p \in Seq(Segments) /\ table = Led(json, p)[n] /\ \A i \in 0..(n - 1) : ~IsTable(Led(json, p)[i])
  BY DEF IsPlace
<1>2. PICK S : rest \in Seq(S) /\ Len(rest) # 0  BY DEF IsRest
<1>3. Len(path) = n + Len(rest) /\ rest = SubSeq(path, n + 1, Len(path)) /\ \A i \in 1..n : p[i] = path[i]
  BY <1>1, <1>2, PathSplit
<1>4. n \in Nat /\ n \in 0..(Len(path) - 1)  BY <1>1, <1>2, <1>3
<1>5. \A i \in 0..n : Led(json, p)[i] = Led(json, path)[i]
  <2>1. n <= Len(p) /\ n <= Len(path)  BY <1>1, <1>4
  <2> HIDE DEF n
  <2> QED  BY <1>1, <1>3, <1>4, <2>1, LedAgrees, ZenonT(40)
<1>6. table = Led(json, path)[n]
  <2>1. n \in 0..n  BY <1>4
  <2> QED  BY <1>1, <1>5, <2>1
<1>7. Crossed(json, path) = {i \in 0..(Len(path) - 1) : IsTable(Led(json, path)[i])}
  BY DEF Crossed, Tables
<1>8. n \in Crossed(json, path)  BY <1>4, <1>6, <1>7
<1>9. m \in 0..(Len(path) - 1) /\ IsTable(Led(json, path)[m]) /\ m <= n
  <2>1. Crossed(json, path) # {}  BY <1>8
  <2> HIDE DEF n
  <2> QED  BY <1>4, <1>6, <2>1, FirstTable
<1> HIDE DEF m, n
<1>10. m = n
  <2>1. m \in 0..n  BY <1>4, <1>9
  <2>2. ASSUME m # n PROVE FALSE
    <3>1. m \in 0..(n - 1)  BY <1>4, <2>1, <2>2
    <3> QED  BY <1>1, <1>5, <1>9, <2>1, <3>1
  <2> QED  BY <2>2
<1> QED  BY <1>3, <1>6, <1>8, <1>10 DEF Rest, m, n

LEMMA NavigateCites ==
  ASSUME NEW json \in Nodes, NEW path \in Seq(Segments), path # <<>>
  PROVE  /\ IsCell(Navigate(json, path))
         /\ \A v : IsAt(CitedCells(json, Len(path)), path, v) <=> Navigate(json, path) = Single(v)
<1> DEFINE depth == Len(path)
           tables == Crossed(json, path)
           m == Min(tables)
           end == Led(json, path)[depth]
<1>1. Navigate(json, path) = IF tables = {} THEN Leaf(end) ELSE TableCell(Led(json, path)[m], Rest(path, m))
  BY DEF Navigate, Crossed, Led
<1>2. depth \in Nat /\ depth # 0 /\ depth \in 0..depth  OBVIOUS
<1>3. end \in Nodes \cup {Nowhere}  BY <1>2, LedUnfolds
<1>4. tables = {n \in 0..(depth - 1) : IsTable(Led(json, path)[n])}  BY DEF Crossed, Tables
<1>5. \A node : IsPlace(json, path, node) <=> tables = {} /\ node = end /\ node \in Nodes
  <2>1. ASSUME NEW node
        PROVE  IsPlace(json, path, node) <=> /\ node \in Nodes /\ node = end
                                             /\ \A n \in 0..(depth - 1) : ~IsTable(Led(json, path)[n])
    BY DEF IsPlace
  <2> HIDE DEF tables, end, depth
  <2> QED  BY <1>4, <2>1
<1>6. ASSUME NEW v
      PROVE  IsAt(CitedCells(json, depth), path, v) <=>
               \/ \E node : IsPlace(json, path, node) /\ node.is = "number" /\ v = node.v
               \/ \E p, table, rest :
                    /\ IsPlace(json, p, table) /\ Len(p) < depth /\ IsTable(table)
                    /\ CellOf(table, rest, v) /\ path = p \o rest
  BY <1>2, CitedCellParts
<1>7. CASE tables = {}
  <2>1. \A p, table, rest, v :
          ~ (IsPlace(json, p, table) /\ IsTable(table) /\ CellOf(table, rest, v) /\ path = p \o rest)
    <3>1. ASSUME NEW p, NEW table, NEW rest, NEW v,
                 IsPlace(json, p, table), IsTable(table), CellOf(table, rest, v), path = p \o rest
          PROVE  FALSE
      <4>1. IsRest(rest)  BY <3>1, CellRest
      <4> QED  BY <1>7, <3>1, <4>1, OnlyTable
    <3> QED  BY <3>1
  <2>2. Navigate(json, path) = Leaf(end)  BY <1>1, <1>7
  <2> HIDE DEF tables, end
  <2>3. end.is = "number" => end \in Nodes  BY <1>3 DEF Nowhere
  <2>4. \A v : IsAt(CitedCells(json, depth), path, v) <=> end.is = "number" /\ v = end.v
    BY <1>5, <1>6, <1>7, <2>1, <2>3
  <2>5. IsCell(Leaf(end)) /\ \A v : Leaf(end) = Single(v) <=> end.is = "number" /\ v = end.v
    BY <1>3, LeafNumber
  <2> QED  BY <2>2, <2>4, <2>5
<1>8. CASE tables # {}
  <2> DEFINE table == Led(json, path)[m]
             rest == Rest(path, m)
             p == SubSeq(path, 1, m)
  <2>1. m \in 0..(depth - 1) /\ IsTable(table) /\ IsPlace(json, p, table)  BY <1>8, FirstTable
  <2>2. p \in Seq(Segments) /\ rest \in Seq(Segments) /\ Len(p) = m /\ Len(rest) = depth - m /\ path = p \o rest
    <3>1. m \in 0..Len(path)  BY <2>1
    <3> HIDE DEF m
    <3> QED  BY <3>1, PathJoin DEF Rest
  <2>3. rest # <<>> /\ Len(p) < depth  BY <2>1, <2>2
  <2>4. table \in Nodes  BY <2>1 DEF IsPlace
  <2>5. Navigate(json, path) = TableCell(table, rest)  BY <1>1, <1>8
  <2> HIDE DEF p, rest, table, m
  <2>6. IsCell(TableCell(table, rest)) /\ \A v : CellOf(table, rest, v) <=> TableCell(table, rest) = Single(v)
    BY <2>2, <2>3, <2>4, TableCellDefined
  <2>7. ASSUME NEW q, NEW t, NEW s, NEW v,
               IsPlace(json, q, t), IsTable(t), CellOf(t, s, v), path = q \o s
        PROVE  t = table /\ s = rest
    <3>1. IsRest(s)  BY <2>7, CellRest
    <3> QED  BY <2>7, <3>1, OnlyTable DEF table, rest, m
  <2> HIDE DEF tables
  <2>8. \A v : IsAt(CitedCells(json, depth), path, v) <=> CellOf(table, rest, v)
    <3> SUFFICES ASSUME NEW v PROVE IsAt(CitedCells(json, depth), path, v) <=> CellOf(table, rest, v)  OBVIOUS
    <3>1. ASSUME IsAt(CitedCells(json, depth), path, v) PROVE CellOf(table, rest, v)
      BY <1>5, <1>6, <1>8, <2>7, <3>1
    <3>2. ASSUME CellOf(table, rest, v) PROVE IsAt(CitedCells(json, depth), path, v)
      BY <1>6, <2>1, <2>2, <2>3, <3>2
    <3> QED  BY <3>1, <3>2
  <2> QED  BY <2>5, <2>6, <2>8
<1> HIDE DEF tables
<1> QED  BY <1>7, <1>8

-----------------------------------------------------------------------------
(* Columns of tables                                                       *)
RowsOf(table) == Items(Field(table, "rows"))

Full(table, name, vs) ==
  /\ vs = [r \in DOMAIN RowsOf(table) |-> vs[r]]
  /\ \A r \in DOMAIN RowsOf(table) : InRow(table, r, name, vs[r])

IsColumn(outcome) == outcome = Unresolvable \/ \E vs \in Seq(Fractions) : vs # <<>> /\ outcome = Values(vs)

LEMMA ValuesFacts ==
  /\ \A vs, ws : Values(vs) = Values(ws) <=> vs = ws
  /\ \A vs : Values(vs) # Unresolvable /\ Values(vs).why = "" /\ Values(vs).values = vs
<1>1. ASSUME NEW vs PROVE Values(vs).why = "" /\ Values(vs).values = vs  BY DEF Values
<1>2. \A vs : Values(vs) # Unresolvable  BY <1>1, SingleFacts
<1>3. ASSUME NEW vs, NEW ws, Values(vs) = Values(ws) PROVE vs = ws
  <2>1. Values(vs).values = vs /\ Values(ws).values = ws  BY <1>1
  <2>2. Values(vs).values = Values(ws).values  BY <1>3
  <2> QED  BY ONLY <2>1, <2>2
<1> QED  BY <1>1, <1>2, <1>3

LEMMA TableColumnDefined ==
  ASSUME NEW table \in Nodes \cup {Nowhere}, NEW name \in Texts
  PROVE  /\ IsColumn(TableColumn(table, name))
         /\ \A vs : TableColumn(table, name) = Values(vs) <=> RowsOf(table) # <<>> /\ Full(table, name, vs)
<1> DEFINE rows == RowsOf(table)
           n == Len(rows)
           c == Column(table, name)
           cell == [i \in DOMAIN rows |-> Cell(rows[i], c)]
           got == [i \in DOMAIN rows |-> cell[i].values[1]]
           bad == rows = <<>> \/ \E i \in DOMAIN rows : cell[i].why # ""
<1>1. TableColumn(table, name) = IF bad THEN Unresolvable ELSE Values(got)  BY DEF TableColumn, RowsOf
<1>2. Field(table, "rows") \in Nodes \cup {Nowhere}  BY JsonParts
<1>3. rows \in Seq(Nodes)  BY <1>2, JsonParts DEF RowsOf
<1>4. n \in Nat /\ DOMAIN rows = 1..n /\ (rows = <<>> <=> n = 0) /\ \A i \in 1..n : rows[i] \in Nodes  BY <1>3
<1>5. c \in Int  BY ColumnPosition
<1>6. \A i \in DOMAIN rows : IsCell(cell[i])
  <2>1. ASSUME NEW i \in DOMAIN rows PROVE IsCell(cell[i])
    <3>1. rows[i] \in Nodes \cup {Nowhere}  BY <1>4
    <3> QED  BY <1>5, <3>1, CellNumber
  <2> QED  BY <2>1
<1>7. \A i \in DOMAIN rows : \A v : InRow(table, i, name, v) <=> cell[i] = Single(v)
  <2>1. ASSUME NEW i \in DOMAIN rows, NEW v PROVE InRow(table, i, name, v) <=> cell[i] = Single(v)
    BY InRowIsCell DEF RowsOf
  <2> QED  BY <2>1
<1>8. \A i \in DOMAIN rows : got[i] = cell[i].values[1]  OBVIOUS
<1>9. got = [i \in DOMAIN rows |-> got[i]]  OBVIOUS
<1> HIDE DEF rows, cell, n, c, got
<1>10. ASSUME bad PROVE \A vs : ~ (rows # <<>> /\ Full(table, name, vs))
  <2>1. ASSUME NEW vs, rows # <<>>, Full(table, name, vs) PROVE FALSE
    <3>1. PICK i \in DOMAIN rows : cell[i].why # ""  BY <1>10, <2>1
    <3>2. InRow(table, i, name, vs[i])  BY <2>1 DEF Full, rows
    <3>3. cell[i] = Single(vs[i])  BY <1>7, <3>2
    <3> QED  BY <3>1, <3>3, SingleFacts
  <2> QED  BY <2>1
<1>11. ASSUME ~bad
       PROVE  /\ \A i \in DOMAIN rows : got[i] \in Fractions /\ cell[i] = Single(got[i])
              /\ \A vs : Full(table, name, vs) <=> vs = got
  <2>1. ASSUME NEW i \in DOMAIN rows PROVE got[i] \in Fractions /\ cell[i] = Single(got[i])
    <3>1. IsCell(cell[i]) /\ cell[i].why = ""  BY <1>6, <1>11
    <3>2. PICK v \in Fractions : cell[i] = Single(v)  BY <3>1, SingleFacts DEF IsCell
    <3> QED  BY <1>8, <3>2, SingleFacts, ZenonT(40)
  <2>2. ASSUME NEW vs, Full(table, name, vs) PROVE vs = got
    <3>1. vs = [i \in DOMAIN rows |-> vs[i]] /\ \A i \in DOMAIN rows : InRow(table, i, name, vs[i])
      BY <2>2 DEF Full, rows
    <3>2. \A i \in DOMAIN rows : cell[i] = Single(vs[i])  BY <1>7, <3>1
    <3>3. \A i \in DOMAIN rows : vs[i] = got[i]  BY <2>1, <3>2, SingleFacts
    <3> QED  BY <1>9, <3>1, <3>3
  <2>3. Full(table, name, got)
    <3>1. \A i \in DOMAIN rows : InRow(table, i, name, got[i])  BY <1>7, <2>1
    <3> QED  BY <1>9, <3>1 DEF Full, rows
  <2> QED  BY <2>1, <2>2, <2>3
<1>12. CASE bad
  <2>1. TableColumn(table, name) = Unresolvable  BY <1>1, <1>12
  <2> HIDE DEF bad
  <2> QED  BY <1>10, <1>12, <2>1, ValuesFacts DEF IsColumn, rows
<1>13. CASE ~bad
  <2>1. TableColumn(table, name) = Values(got)  BY <1>1, <1>13
  <2>2. rows # <<>>  BY <1>13
  <2> HIDE DEF bad
  <2>3. got \in Seq(Fractions) /\ got # <<>>
    <3>1. \A i \in 1..n : got[i] \in Fractions  BY <1>4, <1>11, <1>13
    <3>2. got \in [1..n -> Fractions]  BY <1>4, <1>9, <3>1
    <3>3. got \in Seq(Fractions)  BY <1>4, <3>2
    <3>4. DOMAIN got # {}  BY <1>4, <2>2, <3>2
    <3> QED  BY <3>3, <3>4
  <2>4. \A vs : Full(table, name, vs) <=> vs = got  BY <1>11, <1>13
  <2>5. \A vs : TableColumn(table, name) = Values(vs) <=> vs = got  BY <2>1, ValuesFacts
  <2> QED  BY <2>1, <2>2, <2>3, <2>4, <2>5 DEF IsColumn, rows
<1> QED  BY <1>12, <1>13

ColumnOf(table, path, vs) == <<path, vs>> \in TableColumns(table)

LEMMA ColumnParts ==
  ASSUME NEW table \in Nodes \cup {Nowhere}
  PROVE  /\ \A path, vs : ColumnOf(table, path, vs) <=>
              /\ RowsOf(table) # <<>>
              /\ \E x \in RowNumbers(table, 1) : path \in InTable("*", x[1]) /\ Full(table, x[1], vs)
         /\ \A y \in TableColumns(table) : y = <<y[1], y[2]>>
<1> DEFINE rows == DOMAIN Items(Field(table, "rows"))
           columns == IF rows = {} THEN {} ELSE RowNumbers(table, 1)
           Every == UNION {{x[2] : x \in RowNumbers(table, r)} : r \in rows}
           F(name) == {values \in [rows -> Every] : \A r \in rows : <<name, values[r]>> \in RowNumbers(table, r)}
           One(x) == {<<path, values>> : path \in InTable("*", x[1]), values \in F(x[1])}
<1>1. TableColumns(table) = UNION {One(x) : x \in columns}  BY DEF TableColumns
<1>2. ASSUME NEW name, NEW vs PROVE vs \in F(name) <=> Full(table, name, vs)
  <2>1. vs \in F(name) <=> vs \in [rows -> Every] /\ \A r \in rows : InRow(table, r, name, vs[r])
    <3> HIDE DEF Every, rows
    <3> QED  BY DEF InRow
  <2>2. Full(table, name, vs) <=> vs = [r \in rows |-> vs[r]] /\ \A r \in rows : InRow(table, r, name, vs[r])
    BY DEF Full, RowsOf
  <2>3. ASSUME NEW r \in rows, InRow(table, r, name, vs[r]) PROVE vs[r] \in Every
    <3> DEFINE x == <<name, vs[r]>>
    <3>1. x \in RowNumbers(table, r) /\ x[2] = vs[r]  BY <2>3 DEF InRow
    <3> HIDE DEF x, rows
    <3>2. vs[r] \in {z[2] : z \in RowNumbers(table, r)}  BY <3>1
    <3> QED  BY <3>2
  <2> HIDE DEF F, rows, Every
  <2>4. vs = [r \in rows |-> vs[r]] /\ (\A r \in rows : InRow(table, r, name, vs[r])) => vs \in [rows -> Every]
    BY <2>3
  <2>5. vs \in [rows -> Every] => vs = [r \in rows |-> vs[r]]  OBVIOUS
  <2> QED  BY <2>1, <2>2, <2>4, <2>5
<1>3. \A y : y \in TableColumns(table) <=> \E x \in columns : y \in One(x)
  <2> HIDE DEF One, columns
  <2> QED  BY <1>1
<1>4. ASSUME NEW x, NEW path, NEW vs
      PROVE  <<path, vs>> \in One(x) <=> path \in InTable("*", x[1]) /\ vs \in F(x[1])
  <2> HIDE DEF F
  <2>1. ASSUME <<path, vs>> \in One(x) PROVE path \in InTable("*", x[1]) /\ vs \in F(x[1])
    <3>1. PICK p \in InTable("*", x[1]), ws \in F(x[1]) : <<path, vs>> = <<p, ws>>  BY <2>1
    <3> QED  BY <3>1
  <2> QED  BY <2>1
<1>5. \A x : \A y \in One(x) : y = <<y[1], y[2]>>
  <2>1. ASSUME NEW x, NEW y \in One(x) PROVE y = <<y[1], y[2]>>
    <3> HIDE DEF F
    <3>1. PICK p \in InTable("*", x[1]), ws \in F(x[1]) : y = <<p, ws>>  OBVIOUS
    <3> QED  BY <3>1
  <2> QED  BY <2>1
<1>6. \A x : x \in columns <=> rows # {} /\ x \in RowNumbers(table, 1)
  <2> HIDE DEF rows
  <2> QED  OBVIOUS
<1>7. rows # {} <=> RowsOf(table) # <<>>
  <2>1. Field(table, "rows") \in Nodes \cup {Nowhere}  BY JsonParts
  <2>2. Items(Field(table, "rows")) \in Seq(Nodes)  BY <2>1, JsonParts
  <2> QED  BY <2>2 DEF RowsOf
<1> HIDE DEF One, F, columns, rows
<1>8. ASSUME NEW path, NEW vs
      PROVE  ColumnOf(table, path, vs) <=>
               /\ RowsOf(table) # <<>>
               /\ \E x \in RowNumbers(table, 1) : path \in InTable("*", x[1]) /\ Full(table, x[1], vs)
  <2>1. ColumnOf(table, path, vs) <=> \E x \in columns : <<path, vs>> \in One(x)  BY <1>3 DEF ColumnOf
  <2>2. \A x : <<path, vs>> \in One(x) <=> path \in InTable("*", x[1]) /\ Full(table, x[1], vs)  BY <1>2, <1>4
  <2> QED  BY <1>6, <1>7, <2>1, <2>2
<1>9. ASSUME NEW y \in TableColumns(table) PROVE y = <<y[1], y[2]>>  BY <1>3, <1>5
<1> QED  BY <1>8, <1>9

LEMMA ColumnsPair ==
  ASSUME NEW table \in Nodes \cup {Nowhere}, NEW y \in TableColumns(table)
  PROVE  y = <<y[1], y[2]>> /\ ColumnOf(table, y[1], y[2])
BY ColumnParts DEF ColumnOf

LEMMA TableVectorAt ==
  ASSUME NEW table, NEW path \in Seq(Segments), path # <<>>
  PROVE  /\ \A column : Addresses(path, "*", column) => TableVector(table, path) = TableColumn(table, column)
         /\ (\A column : ~Addresses(path, "*", column)) => TableVector(table, path) = Unresolvable
<1> DEFINE first == path[1]
           Two == Len(path) = 2 /\ IsStar(first) /\ Len(first.keys) = 1 /\ path[2].keys = <<>>
           One == Len(path) = 1 /\ IsStar(first) /\ Len(first.keys) = 2 /\ IsNumeral(first.keys[2])
<1>1. TableVector(table, path) =
        CASE Two -> TableColumn(table, path[2].name)
          [] One -> TableColumn(table, first.keys[2])
          [] OTHER -> Unresolvable
  BY DEF TableVector
<1>2. first \in Segments /\ first.keys \in Seq(Texts)
  <2>1. first \in Segments  BY PathParts
  <2> QED  BY <2>1, SegmentParts
<1>3. Len(first.keys) \in Nat /\ (first.keys = <<>> <=> Len(first.keys) = 0)  BY <1>2
<1>4. Len(path) = 2 => (path[2].keys = <<>> <=> Len(path[2].keys) = 0)
  <2>1. ASSUME Len(path) = 2 PROVE path[2].keys \in Seq(Texts)
    <3>1. path[2] \in Segments  BY <2>1, PathParts
    <3> QED  BY <3>1, SegmentParts
  <2> QED  BY <2>1
<1>5. \A column : Addresses(path, "*", column) <=> (Two /\ column = path[2].name) \/ (One /\ column = first.keys[2])
  BY <1>3, <1>4 DEF Addresses, IsStar
<1>6. ~ (One /\ Two)  OBVIOUS
<1> HIDE DEF One, Two
<1>7. Two => TableVector(table, path) = TableColumn(table, path[2].name)  BY <1>1, <1>6
<1>8. One => TableVector(table, path) = TableColumn(table, first.keys[2])  BY <1>1, <1>6
<1>9. ~One /\ ~Two => TableVector(table, path) = Unresolvable  BY <1>1
<1> QED  BY <1>5, <1>7, <1>8, <1>9

LEMMA TableVectorDefined ==
  ASSUME NEW table \in Nodes \cup {Nowhere}, NEW path \in Seq(Segments), path # <<>>
  PROVE  /\ IsColumn(TableVector(table, path))
         /\ \A vs : ColumnOf(table, path, vs) <=> TableVector(table, path) = Values(vs)
<1>1. \A x : path \in InTable("*", x[1]) <=> Addresses(path, "*", x[1])  BY InTableParts
<1>2. \A vs : ColumnOf(table, path, vs) <=>
                /\ RowsOf(table) # <<>>
                /\ \E x \in RowNumbers(table, 1) : Addresses(path, "*", x[1]) /\ Full(table, x[1], vs)
  BY <1>1, ColumnParts
<1>3. CASE \E column : Addresses(path, "*", column)
  <2>1. PICK column : Addresses(path, "*", column)  BY <1>3
  <2>2. column \in Texts /\ TableVector(table, path) = TableColumn(table, column)
    BY <2>1, AddressTexts, TableVectorAt
  <2>3. IsColumn(TableColumn(table, column))
        /\ \A vs : TableColumn(table, column) = Values(vs) <=> RowsOf(table) # <<>> /\ Full(table, column, vs)
    BY <2>2, TableColumnDefined
  <2>4. ASSUME NEW vs, RowsOf(table) # <<>>, Full(table, column, vs)
        PROVE  \E x \in RowNumbers(table, 1) : x[1] = column
    <3>1. 1 \in DOMAIN RowsOf(table)
      <4>1. Field(table, "rows") \in Nodes \cup {Nowhere}  BY JsonParts
      <4>2. RowsOf(table) \in Seq(Nodes)  BY <4>1, JsonParts DEF RowsOf
      <4> QED  BY <2>4, <4>2
    <3>2. InRow(table, 1, column, vs[1])  BY <2>4, <3>1 DEF Full
    <3> DEFINE x == <<column, vs[1]>>
    <3>3. x \in RowNumbers(table, 1) /\ x[1] = column  BY <3>2 DEF InRow
    <3> HIDE DEF x
    <3> QED  BY <3>3
  <2>5. \A vs : ColumnOf(table, path, vs) <=> RowsOf(table) # <<>> /\ Full(table, column, vs)
    <3> SUFFICES ASSUME NEW vs
                 PROVE  ColumnOf(table, path, vs) <=> RowsOf(table) # <<>> /\ Full(table, column, vs)
      OBVIOUS
    <3>1. ASSUME ColumnOf(table, path, vs) PROVE RowsOf(table) # <<>> /\ Full(table, column, vs)
      BY <1>2, <2>1, <3>1, AddressedOnce
    <3>2. ASSUME RowsOf(table) # <<>>, Full(table, column, vs) PROVE ColumnOf(table, path, vs)
      BY <1>2, <2>1, <2>4, <3>2
    <3> QED  BY <3>1, <3>2
  <2> QED  BY <2>2, <2>3, <2>5
<1>4. CASE \A column : ~Addresses(path, "*", column)
  <2>1. TableVector(table, path) = Unresolvable  BY <1>4, TableVectorAt
  <2>2. \A vs : ~ColumnOf(table, path, vs)  BY <1>2, <1>4
  <2> QED  BY <2>1, <2>2, ValuesFacts DEF IsColumn
<1> QED  BY <1>3, <1>4

IsClear(path, n) == \A i \in 1..n : path[i].keys = <<>>
Bare(json, path) == Through(json, path, FALSE)

LEMMA BareFacts ==
  ASSUME NEW json \in Nodes, NEW path \in Seq(Segments)
  PROVE  \A n \in 0..Len(path) : Bare(json, path)[n] = IF IsClear(path, n) THEN Led(json, path)[n] ELSE Nowhere
BY ThroughPlainly DEF Bare, IsClear, Led

LEMMA CitedColumnParts ==
  ASSUME NEW json \in Nodes, NEW depth \in Nat, NEW path, NEW vs
  PROVE  IsAt(CitedColumns(json, depth), path, vs) <=>
           \E p, t, s :
             /\ IsPlace(json, p, t) /\ Len(p) < depth /\ IsTable(t) /\ IsClear(p, Len(p))
             /\ ColumnOf(t, s, vs) /\ path = p \o s
<1> DEFINE Of(place) == {<<place[1] \o x[1], x[2]>> : x \in TableColumns(place[2])}
           D == {place \in TablesAbove(json, depth) : \A i \in DOMAIN place[1] : place[1][i].keys = <<>>}
           B == UNION {Of(place) : place \in D}
<1>1. IsAt(CitedColumns(json, depth), path, vs) <=> \E x \in B : x[1] = path /\ vs = x[2]
  <2>1. CitedColumns(json, depth) = B  BY DEF CitedColumns
  <2> HIDE DEF B
  <2> QED  BY <2>1, IsAtMembers
<1>2. (\E x \in B : x[1] = path /\ vs = x[2]) <=> \E place \in D : \E y \in Of(place) : y[1] = path /\ vs = y[2]
  <2> HIDE DEF Of, D
  <2> QED  OBVIOUS
<1>3. ASSUME NEW place, NEW x \in TableColumns(place[2])
      PROVE  \E y \in Of(place) : y[1] = place[1] \o x[1] /\ y[2] = x[2]
  <2> DEFINE y == <<place[1] \o x[1], x[2]>>
  <2>1. y \in Of(place) /\ y[1] = place[1] \o x[1] /\ y[2] = x[2]  OBVIOUS
  <2> HIDE DEF y, Of
  <2> QED  BY <2>1
<1>4. ASSUME NEW place, NEW y \in Of(place)
      PROVE  \E x \in TableColumns(place[2]) : y[1] = place[1] \o x[1] /\ y[2] = x[2]
  <2>1. PICK x \in TableColumns(place[2]) : y = <<place[1] \o x[1], x[2]>>  OBVIOUS
  <2>2. y[1] = place[1] \o x[1] /\ y[2] = x[2]  BY <2>1
  <2> QED  BY <2>2
<1>5. \A place \in D : /\ IsPlace(json, place[1], place[2]) /\ Len(place[1]) < depth /\ IsTable(place[2])
                       /\ IsClear(place[1], Len(place[1]))
  <2>1. ASSUME NEW place \in D
        PROVE  /\ IsPlace(json, place[1], place[2]) /\ Len(place[1]) < depth /\ IsTable(place[2])
               /\ IsClear(place[1], Len(place[1]))
    <3>1. IsPlace(json, place[1], place[2]) /\ Len(place[1]) < depth /\ IsTable(place[2])  BY TablesAboveMembers
    <3>2. DOMAIN place[1] = 1..Len(place[1])  BY <3>1 DEF IsPlace
    <3> QED  BY <3>1, <3>2 DEF IsClear
  <2> QED  BY <2>1
<1>6. ASSUME NEW p, NEW node, IsPlace(json, p, node), Len(p) < depth, IsTable(node), IsClear(p, Len(p))
      PROVE  \E place \in D : place[1] = p /\ place[2] = node
  <2>1. PICK place \in TablesAbove(json, depth) : place[1] = p /\ place[2] = node  BY <1>6, TablesAboveMembers
  <2>2. DOMAIN p = 1..Len(p)  BY <1>6 DEF IsPlace
  <2>3. place \in D  BY <1>6, <2>1, <2>2 DEF IsClear
  <2> HIDE DEF D
  <2> QED  BY <2>1, <2>3
<1> HIDE DEF B, Of, D
<1>7. ASSUME NEW place \in D, NEW y \in Of(place), y[1] = path, vs = y[2]
      PROVE  \E p, table, rest :
               /\ IsPlace(json, p, table) /\ Len(p) < depth /\ IsTable(table) /\ IsClear(p, Len(p))
               /\ ColumnOf(table, rest, vs) /\ path = p \o rest
  <2>1. PICK x \in TableColumns(place[2]) : y[1] = place[1] \o x[1] /\ y[2] = x[2]  BY <1>4
  <2>2. /\ IsPlace(json, place[1], place[2]) /\ Len(place[1]) < depth /\ IsTable(place[2])
        /\ IsClear(place[1], Len(place[1]))
    BY <1>5
  <2>3. place[2] \in Nodes \cup {Nowhere}  BY <2>2 DEF IsPlace
  <2>4. ColumnOf(place[2], x[1], x[2])  BY <2>3, ColumnsPair
  <2> QED  BY <1>7, <2>1, <2>2, <2>4
<1>8. ASSUME NEW p, NEW table, NEW rest,
             IsPlace(json, p, table), Len(p) < depth, IsTable(table), IsClear(p, Len(p)),
             ColumnOf(table, rest, vs), path = p \o rest
      PROVE  \E place \in D : \E y \in Of(place) : y[1] = path /\ vs = y[2]
  <2>1. PICK place \in D : place[1] = p /\ place[2] = table  BY <1>6, <1>8
  <2> DEFINE x == <<rest, vs>>
  <2>2. x \in TableColumns(place[2]) /\ x[1] = rest /\ x[2] = vs  BY <1>8, <2>1 DEF ColumnOf
  <2> HIDE DEF x
  <2>3. PICK y \in Of(place) : y[1] = place[1] \o x[1] /\ y[2] = x[2]  BY <1>3, <2>2
  <2> QED  BY <1>8, <2>1, <2>2, <2>3
<1> QED  BY <1>1, <1>2, <1>7, <1>8

LEMMA ColumnRest ==
  ASSUME NEW table \in Nodes, NEW rest, NEW vs, ColumnOf(table, rest, vs)
  PROVE  IsRest(rest)
<1>1. PICK x \in RowNumbers(table, 1) : rest \in InTable("*", x[1])  BY ColumnParts
<1> QED  BY <1>1, InTableRest

LEMMA NavColumnCites ==
  ASSUME NEW json \in Nodes, NEW path \in Seq(Segments), path # <<>>
  PROVE  /\ IsColumn(NavColumn(json, path))
         /\ \A vs : IsAt(CitedColumns(json, Len(path)), path, vs) <=> NavColumn(json, path) = Values(vs)
<1> DEFINE depth == Len(path)
           tables == Tables(Bare(json, path), path)
           crossed == Crossed(json, path)
           m == Min(crossed)
           table == Led(json, path)[m]
           rest == Rest(path, m)
<1>1. NavColumn(json, path) =
        IF tables = {} THEN Unresolvable ELSE TableVector(Bare(json, path)[Min(tables)], Rest(path, Min(tables)))
  BY DEF NavColumn, Bare
<1>2. tables = {n \in 0..(depth - 1) : IsTable(Bare(json, path)[n])}
      /\ crossed = {n \in 0..(depth - 1) : IsTable(Led(json, path)[n])}
  BY DEF Crossed, Tables
<1>3. depth \in Nat /\ depth # 0 /\ \A n \in 0..(depth - 1) : n \in 0..Len(path)  OBVIOUS
<1>4. ~IsTable(Nowhere)  BY DEF IsTable, Field, Nowhere
<1>5. \A n \in 0..(depth - 1) : IsTable(Bare(json, path)[n]) <=> IsClear(path, n) /\ IsTable(Led(json, path)[n])
  BY <1>3, <1>4, BareFacts
<1>6. ASSUME NEW p, NEW t, NEW s, NEW vs, IsPlace(json, p, t), IsTable(t), ColumnOf(t, s, vs), path = p \o s
      PROVE  crossed # {} /\ Len(p) = m /\ t = table /\ s = rest
  <2>1. IsRest(s)
    <3>1. t \in Nodes  BY <1>6 DEF IsPlace
    <3> QED  BY <1>6, <3>1, ColumnRest
  <2> QED  BY <1>6, <2>1, OnlyTable
<1>7. ASSUME NEW vs
      PROVE  IsAt(CitedColumns(json, depth), path, vs) <=>
           \E p, t, s :
             /\ IsPlace(json, p, t) /\ Len(p) < depth /\ IsTable(t) /\ IsClear(p, Len(p))
             /\ ColumnOf(t, s, vs) /\ path = p \o s
  <2> HIDE DEF depth, table, rest
  <2> QED  BY <1>3, CitedColumnParts
<1>8. CASE crossed = {}
  <2>1. tables = {}  BY <1>2, <1>5, <1>8
  <2>2. NavColumn(json, path) = Unresolvable  BY <1>1, <2>1
  <2> HIDE DEF crossed
  <2>3. \A vs : ~IsAt(CitedColumns(json, depth), path, vs)  BY <1>6, <1>7, <1>8
  <2> QED  BY <2>2, <2>3, ValuesFacts DEF IsColumn
<1>9. CASE crossed # {}
  <2> DEFINE p == SubSeq(path, 1, m)
  <2>1. m \in 0..(depth - 1) /\ IsTable(table) /\ IsPlace(json, p, table)
        /\ \A n \in 0..(depth - 1) : IsTable(Led(json, path)[n]) => m <= n
    BY <1>9, FirstTable
  <2>2. /\ p \in Seq(Segments) /\ rest \in Seq(Segments) /\ Len(p) = m /\ Len(rest) = depth - m /\ path = p \o rest
        /\ \A i \in 1..m : p[i] = path[i]
    <3>1. m \in 0..Len(path)  BY <2>1
    <3> HIDE DEF m
    <3> QED  BY <3>1, PathJoin DEF Rest
  <2>3. rest # <<>> /\ Len(p) < depth  BY <2>1, <2>2
  <2>4. table \in Nodes  BY <2>1 DEF IsPlace
  <2> HIDE DEF p, rest, m
  <2>5. IsClear(path, m) <=> IsClear(p, Len(p))  BY <2>2 DEF IsClear
  <2>6. IsColumn(TableVector(table, rest))
        /\ \A vs : ColumnOf(table, rest, vs) <=> TableVector(table, rest) = Values(vs)
    <3> HIDE DEF table
    <3> QED  BY <2>2, <2>3, <2>4, TableVectorDefined
  <2>7. CASE IsClear(path, m)
    <3>1. m \in tables  BY <1>2, <1>5, <2>1, <2>7
    <3>2. tables \subseteq Nat /\ \A n \in tables : m <= n  BY <1>2, <1>5, <2>1
    <3>3. Min(tables) = m
      <4> HIDE DEF tables
      <4>1. Min(tables) \in tables /\ \A n \in tables : Min(tables) <= n  BY <3>1, <3>2, Smallest
      <4>2. Min(tables) <= m /\ m <= Min(tables)  BY <3>1, <3>2, <4>1
      <4>3. Min(tables) \in Nat /\ m \in Nat  BY <3>1, <3>2, <4>1
      <4> QED  BY ONLY <4>2, <4>3
    <3>4. Bare(json, path)[m] = table  BY <1>3, <2>1, <2>7, BareFacts
    <3>5. NavColumn(json, path) = TableVector(table, rest)
      <4> HIDE DEF tables, table
      <4> QED  BY <1>1, <3>1, <3>3, <3>4 DEF rest
    <3> HIDE DEF crossed, table
    <3>6. \A vs : IsAt(CitedColumns(json, depth), path, vs) <=> ColumnOf(table, rest, vs)
      <4> SUFFICES ASSUME NEW vs PROVE IsAt(CitedColumns(json, depth), path, vs) <=> ColumnOf(table, rest, vs)
        OBVIOUS
      <4>1. ASSUME IsAt(CitedColumns(json, depth), path, vs) PROVE ColumnOf(table, rest, vs)
        BY <1>6, <1>7, <4>1
      <4>2. ASSUME ColumnOf(table, rest, vs) PROVE IsAt(CitedColumns(json, depth), path, vs)
        BY <1>7, <2>1, <2>2, <2>3, <2>5, <2>7, <4>2
      <4> QED  BY <4>1, <4>2
    <3> QED  BY <2>6, <3>5, <3>6
  <2>8. CASE ~IsClear(path, m)
    <3>1. \A n \in 0..(depth - 1) : m <= n => ~IsClear(path, n)
      <4>1. ASSUME NEW n \in 0..(depth - 1), m <= n, IsClear(path, n) PROVE FALSE
        <5>1. \A i \in 1..m : i \in 1..n  BY <2>1, <4>1
        <5> QED  BY <2>8, <4>1, <5>1 DEF IsClear
      <4> QED  BY <4>1
    <3>2. tables = {}  BY <1>2, <1>5, <2>1, <3>1
    <3>3. NavColumn(json, path) = Unresolvable  BY <1>1, <3>2
    <3>4. ASSUME NEW vs, IsAt(CitedColumns(json, depth), path, vs) PROVE FALSE
      <4>1. PICK q, t, s : /\ IsPlace(json, q, t) /\ IsTable(t) /\ IsClear(q, Len(q))
                           /\ ColumnOf(t, s, vs) /\ path = q \o s
        BY <1>7, <3>4
      <4>2. Len(q) = m  BY <1>6, <4>1
      <4>3. IsRest(s)
        <5>1. t \in Nodes  BY <4>1 DEF IsPlace
        <5> QED  BY <4>1, <5>1, ColumnRest
      <4>4. PICK S : s \in Seq(S)  BY <4>3 DEF IsRest
      <4>5. q \in Seq(Segments)  BY <4>1 DEF IsPlace
      <4>6. \A i \in 1..Len(q) : q[i] = path[i]  BY <4>1, <4>4, <4>5, PathSplit
      <4> QED  BY <2>8, <4>1, <4>2, <4>6 DEF IsClear
    <3> QED  BY <3>3, <3>4, ValuesFacts DEF IsColumn
  <2> QED  BY <2>7, <2>8
<1> HIDE DEF crossed
<1> QED  BY <1>8, <1>9

-----------------------------------------------------------------------------
(* Grading adds to the capture, and the audit to grading, without changing *)
(* what happens there.                                                     *)
LEMMA GradesCaptured == GradingSpec => CaptureSpec
<1>1. GradingInit => CaptureInit  BY DEF GradingInit
<1>2. [GradingNext]_gradingVars => [CaptureNext]_captureVars
  <2>1. ASSUME NEW call \in Calls, ToolCall(call) PROVE CaptureNext  BY <2>1 DEF ToolCall, CaptureNext
  <2>2. ASSUME NEW a \in Answers, Evaluate(a) PROVE UNCHANGED captureVars  BY <2>2 DEF Evaluate
  <2>3. ASSUME NEW t \in TaskFiles, NextTask(t) PROVE CaptureNext  BY <2>3 DEF NextTask, CaptureNext
  <2>4. UNCHANGED gradingVars => UNCHANGED captureVars  BY DEF gradingVars
  <2> QED  BY <2>1, <2>2, <2>3, <2>4 DEF GradingNext
<1> QED  BY <1>1, <1>2, PTL DEF GradingSpec, CaptureSpec

THEOREM AuditsGraded == AuditSpec => GradingSpec
<1>1. AuditInit => GradingInit  BY DEF AuditInit
<1>2. [AuditNext]_auditVars => [GradingNext]_gradingVars
  <2>1. ASSUME NEW call \in Calls, Record(call) PROVE GradingNext  BY <2>1 DEF Record, GradingNext
  <2>2. ASSUME NEW a \in Answers, Grade(a) PROVE GradingNext  BY <2>2 DEF Grade, GradingNext
  <2>3. Audit => UNCHANGED gradingVars  BY DEF Audit
  <2>4. ASSUME NEW t \in TaskFiles, Another(t) PROVE GradingNext  BY <2>4 DEF Another, GradingNext
  <2>5. UNCHANGED auditVars => UNCHANGED gradingVars  BY DEF auditVars
  <2> QED  BY <2>1, <2>2, <2>3, <2>4, <2>5 DEF AuditNext
<1> QED  BY <1>1, <1>2, PTL DEF AuditSpec, GradingSpec

LEMMA AuditTypes == AuditSpec => []CaptureType
BY AuditsGraded, GradesCaptured, CaptureTypes, PTL

(* What can be cited is of the tools.                                      *)
LEMMA ResultNode ==
  ASSUME NEW run \in Seq(Calls)
  PROVE  /\ OKCalls(run) \in Seq(Calls)
         /\ \A q \in DOMAIN OKCalls(run) : OKCalls(run)[q].json \in Nodes
         /\ \A q \in DOMAIN OKCalls(run) : Root(run, q) = OKCalls(run)[q].json
         /\ \A q : q \notin DOMAIN OKCalls(run) => Root(run, q) = Nowhere
<1>1. OKCalls(run) \in Seq(Calls)  BY FilteredFrom DEF OKCalls
<1> DEFINE ok == OKCalls(run)
<1>2. \A q : Root(run, q) = IF q \in DOMAIN ok THEN ok[q].json ELSE Nowhere  BY DEF Root
<1> HIDE DEF ok
<1>3. \A q \in DOMAIN ok : ok[q] \in Calls  BY <1>1 DEF ok
<1>4. \A call \in Calls : call.json \in Nodes  BY CapturedAssumption
<1> QED  BY <1>1, <1>2, <1>3, <1>4 DEF ok

LEMMA ResolveCites ==
  ASSUME NEW run \in Seq(Calls), NEW q \in DOMAIN OKCalls(run), NEW path \in Seq(Segments), path # <<>>
  PROVE  LET json == OKCalls(run)[q].json
             cell == Cite(q, path)
         IN /\ IsCell(Resolve(run, cell))
            /\ \A v : IsAt(CitedCells(json, Len(path)), path, v) <=> Resolve(run, cell) = Single(v)
            /\ IsColumn(ResolveColumn(run, cell))
            /\ \A vs : IsAt(CitedColumns(json, Len(path)), path, vs) <=> ResolveColumn(run, cell) = Values(vs)
<1> DEFINE json == OKCalls(run)[q].json
           cell == Cite(q, path)
<1>1. json \in Nodes /\ Root(run, q) = json  BY ResultNode
<1>2. cell.path = path /\ cell.q = q  BY DEF Cite
<1> HIDE DEF json, cell
<1>3. Resolve(run, cell) = Navigate(json, path)  BY <1>1, <1>2 DEF Resolve
<1>4. ResolveColumn(run, cell) = NavColumn(json, path)  BY <1>1, <1>2 DEF ResolveColumn
<1>5. IsCell(Navigate(json, path))
      /\ \A v : IsAt(CitedCells(json, Len(path)), path, v) <=> Navigate(json, path) = Single(v)
  BY <1>1, NavigateCites
<1>6. IsColumn(NavColumn(json, path))
      /\ \A vs : IsAt(CitedColumns(json, Len(path)), path, vs) <=> NavColumn(json, path) = Values(vs)
  BY <1>1, NavColumnCites
<1> QED  BY <1>3, <1>4, <1>5, <1>6 DEF json, cell

(* The outcomes are exactly the values cited.                              *)
LEMMA ExactCell ==
  ASSUME NEW outcome, IsCell(outcome), NEW S, \A v : v \in S <=> outcome = Single(v)
  PROVE  {outcome.values} \ {<<>>} = {<<v>> : v \in S}
<1>1. CASE outcome = Unresolvable
  <2>1. S = {}  BY <1>1, SingleFacts
  <2>2. outcome.values = <<>>  BY <1>1, SingleFacts
  <2> QED  BY <2>1, <2>2
<1>2. ASSUME NEW v \in Fractions, outcome = Single(v) PROVE {outcome.values} \ {<<>>} = {<<w>> : w \in S}
  <2>1. S = {v}  BY <1>2, SingleFacts, ZenonT(40)
  <2>2. outcome.values = <<v>>  BY <1>2, SingleFacts
  <2>3. <<v>> # <<>>  OBVIOUS
  <2> QED  BY <2>1, <2>2, <2>3
<1> QED  BY <1>1, <1>2 DEF IsCell

LEMMA ExactColumn ==
  ASSUME NEW outcome, IsColumn(outcome), NEW S, \A vs : vs \in S <=> outcome = Values(vs)
  PROVE  {outcome.values} \ {<<>>} = S
<1>1. CASE outcome = Unresolvable
  <2>1. S = {}  BY <1>1, ValuesFacts
  <2>2. outcome.values = <<>>  BY <1>1, SingleFacts
  <2> QED  BY <2>1, <2>2
<1>2. ASSUME NEW vs \in Seq(Fractions), vs # <<>>, outcome = Values(vs) PROVE {outcome.values} \ {<<>>} = S
  <2>1. S = {vs}  BY <1>2, ValuesFacts
  <2>2. outcome.values = vs  BY <1>2, ValuesFacts
  <2> QED  BY <1>2, <2>1, <2>2
<1> QED  BY <1>1, <1>2 DEF IsColumn

LEMMA AddressesDefined == CaptureType => AddressesDenoteCells
<1> SUFFICES ASSUME CaptureType, NEW q \in DOMAIN OKCalls(calls), NEW path \in Paths, Len(path) # 0
             PROVE  LET json == OKCalls(calls)[q].json
                        cell == Cite(q, path)
                    IN /\ {Resolve(calls, cell).values} \ {<<>>} = {<<v>> : v \in CitedAs(path, CitedCells(json, Len(path)))}
                       /\ {ResolveColumn(calls, cell).values} \ {<<>>} = CitedAs(path, CitedColumns(json, Len(path)))
  BY DEF AddressesDenoteCells
<1> DEFINE json == OKCalls(calls)[q].json
           cell == Cite(q, path)
           cells == CitedAs(path, CitedCells(json, Len(path)))
           columns == CitedAs(path, CitedColumns(json, Len(path)))
<1>1. calls \in Seq(Calls)  BY DEF CaptureType
<1>2. path \in Seq(Segments) /\ path # <<>>  BY PathsAssumption
<1>3. /\ IsCell(Resolve(calls, cell)) /\ \A v : v \in cells <=> Resolve(calls, cell) = Single(v)
      /\ IsColumn(ResolveColumn(calls, cell)) /\ \A vs : vs \in columns <=> ResolveColumn(calls, cell) = Values(vs)
  BY <1>1, <1>2, ResolveCites DEF IsAt
<1> HIDE DEF cell, cells, columns
<1>4. {Resolve(calls, cell).values} \ {<<>>} = {<<v>> : v \in cells}  BY <1>3, ExactCell
<1>5. {ResolveColumn(calls, cell).values} \ {<<>>} = columns  BY <1>3, ExactColumn
<1> QED  BY <1>4, <1>5 DEF cell, cells, columns

(* Whatever the results are, Resolve and ResolveColumn accept exactly the  *)
(* paths that a result has for its numbers and columns, and find them.     *)
THEOREM AddressesFound == AuditSpec => []AddressesDenoteCells
BY AuditTypes, AddressesDefined, PTL

-----------------------------------------------------------------------------
(* Anchors                                                                 *)

LEMMA AnchorPlaces ==
  ASSUME NEW anchor, IsAnchor(anchor)
  PROVE  /\ <<>> \in DOMAIN anchor
         /\ \A p \in DOMAIN anchor :
              /\ p \in Seq(Nat) /\ Len(p) \in Nat /\ \A i : Len(Append(p, i)) = Len(p) + 1
              /\ p = <<>> <=> Len(p) = 0
              /\ anchor[p].op \in Texts /\ anchor[p].q \in Int /\ anchor[p].args \in Nat
              /\ anchor[p].path \in Seq(Segments)
              /\ \A i \in 1..anchor[p].args : Append(p, i) \in DOMAIN anchor
<1>1. <<>> \in DOMAIN anchor /\ DOMAIN anchor \subseteq Seq(Nat)  BY DEF IsAnchor
<1>2. ASSUME NEW p \in DOMAIN anchor
      PROVE  /\ anchor[p] \in [op : Texts, q : Int, args : Nat, path : Seq(Segments)]
             /\ \A i \in 1..anchor[p].args : Append(p, i) \in DOMAIN anchor
  BY DEF IsAnchor
<1>3. ASSUME NEW p \in Seq(Nat)
      PROVE  Len(p) \in Nat /\ (p = <<>> <=> Len(p) = 0) /\ \A i : Len(Append(p, i)) = Len(p) + 1
  <2>1. Len(p) \in Nat /\ (p = <<>> <=> Len(p) = 0)  OBVIOUS
  <2>2. ASSUME NEW i PROVE Len(Append(p, i)) = Len(p) + 1
    <3>1. p \in Seq(Nat \cup {i})  OBVIOUS
    <3> QED  BY <3>1
  <2> QED  BY <2>1, <2>2
<1>4. ASSUME NEW p \in DOMAIN anchor
      PROVE  /\ anchor[p].op \in Texts /\ anchor[p].q \in Int /\ anchor[p].args \in Nat
             /\ anchor[p].path \in Seq(Segments)
  <2>1. anchor[p] \in [op : Texts, q : Int, args : Nat, path : Seq(Segments)]  BY <1>2
  <2> DEFINE a == anchor[p]
  <2> HIDE DEF a
  <2>2. a \in [op : Texts, q : Int, args : Nat, path : Seq(Segments)]  BY <2>1 DEF a
  <2>3. a.op \in Texts /\ a.q \in Int /\ a.args \in Nat /\ a.path \in Seq(Segments)  BY <2>2
  <2> QED  BY <2>3 DEF a
<1> QED  BY <1>1, <1>2, <1>3, <1>4

Operands(at, anchor, p) == [i \in 1..anchor[p].args |-> at[Append(p, i)]]

OutcomeAt(at, run, anchor, p) ==
  IF Len(p) > MaxAnchorDepth THEN Unresolvable
  ELSE IF anchor[p].op # "" THEN Combine(anchor[p].op, Operands(at, anchor, p))
  ELSE IF p = <<>> THEN Resolve(run, anchor[p]) ELSE ResolveOperand(run, anchor[p])

LEMMA ResolvedUnfolds ==
  ASSUME NEW run, NEW anchor, IsAnchor(anchor)
  PROVE  \A p \in DOMAIN anchor : Resolved(run, anchor)[p] = OutcomeAt(Resolved(run, anchor), run, anchor, p)
<1> DEFINE F(g, p) == OutcomeAt(g, run, anchor, p)
           N == MaxAnchorDepth + 1
           Approximates(g, n) == \A p \in DOMAIN anchor : Len(p) > MaxAnchorDepth - n => g[p] = F(g, p)
           good == {n \in 0..N : \E g : Approximates(g, n)}
<1>0. MaxAnchorDepth \in Nat /\ N \in Nat  BY DepthAssumption
<1>1. \A p \in DOMAIN anchor : Len(p) \in Nat /\ \A i : Len(Append(p, i)) = Len(p) + 1  BY AnchorPlaces
<1>2. \A p \in DOMAIN anchor : \A i \in 1..anchor[p].args : Append(p, i) \in DOMAIN anchor  BY AnchorPlaces
<1>3. ASSUME NEW g, NEW h, NEW p \in DOMAIN anchor, \A i \in 1..anchor[p].args : g[Append(p, i)] = h[Append(p, i)]
      PROVE  F(g, p) = F(h, p)
  <2>1. Operands(g, anchor, p) = Operands(h, anchor, p)  BY <1>3 DEF Operands
  <2> QED  BY <2>1 DEF OutcomeAt
<1>4. ASSUME NEW g, NEW h, NEW p \in DOMAIN anchor, Len(p) > MaxAnchorDepth
      PROVE  F(g, p) = F(h, p)
  BY <1>0, <1>1, <1>4 DEF OutcomeAt
<1> HIDE DEF F
<1>5. ASSUME NEW g, NEW n \in Nat, Approximates(g, n)
      PROVE  Approximates([p \in DOMAIN anchor |-> F(g, p)], n + 1)
  <2> DEFINE h == [p \in DOMAIN anchor |-> F(g, p)]
  <2>1. \A p \in DOMAIN anchor : h[p] = F(g, p)  OBVIOUS
  <2> HIDE DEF h
  <2>2. ASSUME NEW p \in DOMAIN anchor, Len(p) > MaxAnchorDepth - (n + 1) PROVE h[p] = F(h, p)
    <3>1. ASSUME NEW i \in 1..anchor[p].args PROVE g[Append(p, i)] = h[Append(p, i)]
      <4>1. Append(p, i) \in DOMAIN anchor  BY <1>2
      <4>2. Len(Append(p, i)) > MaxAnchorDepth - n  BY <1>0, <1>1, <2>2
      <4>3. g[Append(p, i)] = F(g, Append(p, i))  BY <1>5, <4>1, <4>2
      <4> QED  BY <2>1, <4>1, <4>3
    <3>2. F(g, p) = F(h, p)  BY <1>3, <3>1
    <3> QED  BY <2>1, <3>2
  <2>3. Approximates(h, n + 1)  BY <2>2
  <2> QED  BY <2>3 DEF h
<1>6. 0 \in good
  <2> DEFINE h == [p \in DOMAIN anchor |-> F(<<>>, p)]
  <2>1. \A p \in DOMAIN anchor : h[p] = F(<<>>, p)  OBVIOUS
  <2> HIDE DEF h
  <2>2. ASSUME NEW p \in DOMAIN anchor, Len(p) > MaxAnchorDepth - 0 PROVE h[p] = F(h, p)
    <3>1. Len(p) > MaxAnchorDepth  BY <1>0, <1>1, <2>2
    <3>2. F(<<>>, p) = F(h, p)  BY <1>4, <3>1
    <3> QED  BY <2>1, <3>2
  <2>3. Approximates(h, 0)  BY <2>2
  <2> HIDE DEF Approximates
  <2> QED  BY <1>0, <2>3
<1> HIDE DEF Approximates
<1>7. ASSUME NEW n \in 1..N, n - 1 \in good PROVE n \in good
  <2> DEFINE k == n - 1
  <2>1. k \in Nat /\ k + 1 = n  OBVIOUS
  <2>2. PICK g : Approximates(g, k)  BY <1>7
  <2> HIDE DEF k
  <2>3. \E h : Approximates(h, k + 1)  BY <1>5, <2>1, <2>2
  <2> QED  BY <1>0, <2>1, <2>3
<1> HIDE DEF good
<1>8. \A n \in 0..N : n \in good  BY <1>0, <1>6, <1>7, StepByStep
<1>9. PICK g : Approximates(g, N)
  <2>1. N \in good  BY <1>0, <1>8
  <2> QED  BY <2>1 DEF good
<1> DEFINE Satisfies(h) == h = [p \in DOMAIN anchor |-> F(h, p)]
           f == [p \in DOMAIN anchor |-> g[p]]
<1>10. Satisfies(f)
  <2>1. ASSUME NEW p \in DOMAIN anchor PROVE g[p] = F(f, p)
    <3>1. g[p] = F(g, p)
      <4>1. Len(p) > MaxAnchorDepth - N  BY <1>0, <1>1
      <4> QED  BY <1>9, <4>1 DEF Approximates
    <3>2. \A i \in 1..anchor[p].args : g[Append(p, i)] = f[Append(p, i)]  BY <1>2
    <3> HIDE DEF f
    <3>3. F(g, p) = F(f, p)  BY <1>3, <3>2
    <3> QED  BY <3>1, <3>3
  <2> HIDE DEF f
  <2>2. [p \in DOMAIN anchor |-> g[p]] = [p \in DOMAIN anchor |-> F(f, p)]  BY <2>1
  <2> QED  BY <2>2 DEF f
<1> DEFINE at == CHOOSE h : Satisfies(h)
<1>11. Satisfies(at)
  <2> HIDE DEF Satisfies, f
  <2> QED  BY <1>10
<1>12. Resolved(run, anchor) = at
  BY DEF Resolved, Operands, F, OutcomeAt
<1> HIDE DEF at
<1>13. \A p \in DOMAIN anchor : at[p] = F(at, p)  BY <1>11
<1> QED  BY <1>12, <1>13 DEF F

Denoted(run, anchor) ==
  LET at[p \in DOMAIN anchor] ==
        IF anchor[p].op = "" THEN Cited(run, anchor[p])
        ELSE IF Len(p) >= MaxAnchorDepth THEN {}
        ELSE Applied(anchor[p].op, [i \in 1..anchor[p].args |-> at[Append(p, i)]])
  IN at

DenotedAt(at, run, anchor, p) ==
  IF anchor[p].op = "" THEN Cited(run, anchor[p])
  ELSE IF Len(p) >= MaxAnchorDepth THEN {}
  ELSE Applied(anchor[p].op, Operands(at, anchor, p))

LEMMA DenotesDenoted ==
  ASSUME NEW run, NEW anchor
  PROVE  Denotes(run, anchor) = Denoted(run, anchor)[<<>>]
BY DEF Denotes, Denoted

LEMMA DenotedUnfolds ==
  ASSUME NEW run, NEW anchor, IsAnchor(anchor)
  PROVE  \A p \in DOMAIN anchor : Denoted(run, anchor)[p] = DenotedAt(Denoted(run, anchor), run, anchor, p)
<1> DEFINE F(g, p) == DenotedAt(g, run, anchor, p)
           N == MaxAnchorDepth + 1
           Approximates(g, n) == \A p \in DOMAIN anchor : Len(p) > MaxAnchorDepth - n => g[p] = F(g, p)
           good == {n \in 0..N : \E g : Approximates(g, n)}
<1>0. MaxAnchorDepth \in Nat /\ N \in Nat  BY DepthAssumption
<1>1. \A p \in DOMAIN anchor : Len(p) \in Nat /\ \A i : Len(Append(p, i)) = Len(p) + 1  BY AnchorPlaces
<1>2. \A p \in DOMAIN anchor : \A i \in 1..anchor[p].args : Append(p, i) \in DOMAIN anchor  BY AnchorPlaces
<1>3. ASSUME NEW g, NEW h, NEW p \in DOMAIN anchor, \A i \in 1..anchor[p].args : g[Append(p, i)] = h[Append(p, i)]
      PROVE  F(g, p) = F(h, p)
  <2>1. Operands(g, anchor, p) = Operands(h, anchor, p)  BY <1>3 DEF Operands
  <2> QED  BY <2>1 DEF DenotedAt
<1>4. ASSUME NEW g, NEW h, NEW p \in DOMAIN anchor, Len(p) > MaxAnchorDepth
      PROVE  F(g, p) = F(h, p)
  <2>1. Len(p) >= MaxAnchorDepth  BY <1>0, <1>1, <1>4
  <2> QED  BY <2>1 DEF DenotedAt
<1> HIDE DEF F
<1>5. ASSUME NEW g, NEW n \in Nat, Approximates(g, n)
      PROVE  Approximates([p \in DOMAIN anchor |-> F(g, p)], n + 1)
  <2> DEFINE h == [p \in DOMAIN anchor |-> F(g, p)]
  <2>1. \A p \in DOMAIN anchor : h[p] = F(g, p)  OBVIOUS
  <2> HIDE DEF h
  <2>2. ASSUME NEW p \in DOMAIN anchor, Len(p) > MaxAnchorDepth - (n + 1) PROVE h[p] = F(h, p)
    <3>1. ASSUME NEW i \in 1..anchor[p].args PROVE g[Append(p, i)] = h[Append(p, i)]
      <4>1. Append(p, i) \in DOMAIN anchor  BY <1>2
      <4>2. Len(Append(p, i)) > MaxAnchorDepth - n  BY <1>0, <1>1, <2>2
      <4>3. g[Append(p, i)] = F(g, Append(p, i))  BY <1>5, <4>1, <4>2
      <4> QED  BY <2>1, <4>1, <4>3
    <3>2. F(g, p) = F(h, p)  BY <1>3, <3>1
    <3> QED  BY <2>1, <3>2
  <2>3. Approximates(h, n + 1)  BY <2>2
  <2> QED  BY <2>3 DEF h
<1>6. 0 \in good
  <2> DEFINE h == [p \in DOMAIN anchor |-> F(<<>>, p)]
  <2>1. \A p \in DOMAIN anchor : h[p] = F(<<>>, p)  OBVIOUS
  <2> HIDE DEF h
  <2>2. ASSUME NEW p \in DOMAIN anchor, Len(p) > MaxAnchorDepth - 0 PROVE h[p] = F(h, p)
    <3>1. Len(p) > MaxAnchorDepth  BY <1>0, <1>1, <2>2
    <3>2. F(<<>>, p) = F(h, p)  BY <1>4, <3>1
    <3> QED  BY <2>1, <3>2
  <2>3. Approximates(h, 0)  BY <2>2
  <2> HIDE DEF Approximates
  <2> QED  BY <1>0, <2>3
<1> HIDE DEF Approximates
<1>7. ASSUME NEW n \in 1..N, n - 1 \in good PROVE n \in good
  <2> DEFINE k == n - 1
  <2>1. k \in Nat /\ k + 1 = n  OBVIOUS
  <2>2. PICK g : Approximates(g, k)  BY <1>7
  <2> HIDE DEF k
  <2>3. \E h : Approximates(h, k + 1)  BY <1>5, <2>1, <2>2
  <2> QED  BY <1>0, <2>1, <2>3
<1> HIDE DEF good
<1>8. \A n \in 0..N : n \in good  BY <1>0, <1>6, <1>7, StepByStep
<1>9. PICK g : Approximates(g, N)
  <2>1. N \in good  BY <1>0, <1>8
  <2> QED  BY <2>1 DEF good
<1> DEFINE Satisfies(h) == h = [p \in DOMAIN anchor |-> F(h, p)]
           f == [p \in DOMAIN anchor |-> g[p]]
<1>10. Satisfies(f)
  <2>1. ASSUME NEW p \in DOMAIN anchor PROVE g[p] = F(f, p)
    <3>1. g[p] = F(g, p)
      <4>1. Len(p) > MaxAnchorDepth - N  BY <1>0, <1>1
      <4> QED  BY <1>9, <4>1 DEF Approximates
    <3>2. \A i \in 1..anchor[p].args : g[Append(p, i)] = f[Append(p, i)]  BY <1>2
    <3> HIDE DEF f
    <3>3. F(g, p) = F(f, p)  BY <1>3, <3>2
    <3> QED  BY <3>1, <3>3
  <2> HIDE DEF f
  <2>2. [p \in DOMAIN anchor |-> g[p]] = [p \in DOMAIN anchor |-> F(f, p)]  BY <2>1
  <2> QED  BY <2>2 DEF f
<1> DEFINE at == CHOOSE h : Satisfies(h)
<1>11. Satisfies(at)
  <2> HIDE DEF Satisfies, f
  <2> QED  BY <1>10
<1>12. Denoted(run, anchor) = at
  BY DEF Denoted, Operands, F, DenotedAt
<1> HIDE DEF at
<1>13. \A p \in DOMAIN anchor : at[p] = F(at, p)  BY <1>11
<1> QED  BY <1>12, <1>13 DEF F

-----------------------------------------------------------------------------
(* What an anchor is resolved to is what it denotes.                       *)

(* Once a path leads nowhere it stays there.                               *)
LEMMA NowhereStays ==
  ASSUME NEW node \in Nodes \cup {Nowhere}, NEW path \in Seq(Segments), NEW selecting,
         NEW k \in 0..Len(path), Through(node, path, selecting)[k] = Nowhere
  PROVE  \A n \in k..Len(path) : Through(node, path, selecting)[n] = Nowhere
<1> DEFINE at == Through(node, path, selecting)
<1>1. at \in [0..Len(path) -> Nodes \cup {Nowhere}] /\ at[0] = node
      /\ \A n \in 1..Len(path) : at[n] = Child(at[n - 1], path[n], selecting)
  <2>1. node \in Nodes \cup {Nowhere} /\ path \in Seq(Segments)  OBVIOUS
  <2> QED  BY ONLY <2>1, ThroughUnfolds
<1> DEFINE N == Len(path) - k
           good == {n \in 0..N : at[k + n] = Nowhere}
<1>2. Len(path) \in Nat /\ N \in Nat  OBVIOUS
<1> HIDE DEF at, N
<1>3. 0 \in good  BY <1>2 DEF at
<1>4. ASSUME NEW n \in 1..N, n - 1 \in good PROVE n \in good
  <2>1. k + n \in 1..Len(path) /\ k + (n - 1) = (k + n) - 1  BY <1>2 DEF N
  <2>2. at[(k + n) - 1] = Nowhere  BY <1>4, <2>1
  <2>3. path[k + n] \in Segments  BY <2>1
  <2>4. Child(Nowhere, path[k + n], selecting) = Nowhere  BY <2>3, ChildType
  <2>5. at[k + n] = Nowhere  BY <1>1, <2>1, <2>2, <2>4
  <2> QED  BY <2>5
<1>5. \A n \in 0..N : n \in good
  <2> HIDE DEF good
  <2> QED  BY <1>2, <1>3, <1>4, StepByStep
<1>6. ASSUME NEW n \in k..Len(path) PROVE at[n] = Nowhere
  <2>1. n - k \in 0..N /\ k + (n - k) = n  BY <1>2 DEF N
  <2> QED  BY <1>5, <2>1
<1> QED  BY <1>6 DEF at

LEMMA NothingCrossed ==
  ASSUME NEW path \in Seq(Segments), NEW selecting
  PROVE  /\ Tables(Through(Nowhere, path, selecting), path) = {}
         /\ Through(Nowhere, path, selecting)[Len(path)] = Nowhere
<1> DEFINE at == Through(Nowhere, path, selecting)
<1>1. at[0] = Nowhere  BY ThroughUnfolds
<1>2. 0 \in 0..Len(path) /\ Len(path) \in Nat  OBVIOUS
<1>3. \A n \in 0..Len(path) : at[n] = Nowhere  BY <1>1, <1>2, NowhereStays
<1> HIDE DEF at
<1>4. ~IsTable(Nowhere)
  <2>1. Nowhere.is = "nowhere"  BY DEF Nowhere
  <2>2. Field(Nowhere, "columns") = Nowhere  BY <2>1 DEF Field
  <2> QED  BY <2>2 DEF IsTable
<1>5. Tables(at, path) = {}  BY <1>2, <1>3, <1>4 DEF Tables
<1> QED  BY <1>2, <1>3, <1>5 DEF at

LEMMA NothingThere ==
  ASSUME NEW path \in Seq(Segments)
  PROVE  Navigate(Nowhere, path) = Unresolvable /\ NavColumn(Nowhere, path) = Unresolvable
<1> DEFINE sel == TRUE
           bare == FALSE
<1> HIDE DEF sel, bare
<1>1. /\ Tables(Through(Nowhere, path, sel), path) = {}
      /\ Through(Nowhere, path, sel)[Len(path)] = Nowhere
  BY NothingCrossed
<1>2. Tables(Through(Nowhere, path, bare), path) = {}  BY NothingCrossed
<1>3. Leaf(Nowhere) = Unresolvable
  <2>1. Nowhere.is = "nowhere"  BY DEF Nowhere
  <2> QED  BY <2>1 DEF Leaf
<1>4. Navigate(Nowhere, path) = Leaf(Through(Nowhere, path, sel)[Len(path)])  BY <1>1 DEF Navigate, sel
<1>5. NavColumn(Nowhere, path) = Unresolvable  BY <1>2 DEF NavColumn, bare
<1> QED  BY <1>1, <1>3, <1>4, <1>5

LEMMA StarredNowhere ==
  ASSUME NEW node \in Nodes \cup {Nowhere}, NEW seg \in Segments, IsStar(seg)
  PROVE  Down(node, seg) = Nowhere
<1>1. seg.name \in {"row", "rows"} /\ seg.keys[1] = "*"  BY DEF IsStar
<1>2. Len(seg.keys) \in Nat /\ Len(seg.keys) # 0
  <2>1. seg.keys \in Seq(Texts) /\ seg.keys # <<>>  BY SegmentParts DEF IsStar
  <2> QED  BY <2>1
<1>3. seg.name \notin DOMAIN KeyedArray  BY <1>1 DEF KeyedArray
<1>4. ~IsNumeral(seg.keys[1])  BY <1>1, NumeralFacts
<1>5. Selected(node, seg.name, seg.keys[1]) = Nowhere  BY <1>3, <1>4 DEF Selected
<1> QED  BY <1>2, <1>5 DEF Down, Child

(* A cell is one row's: no starred path leads to a number.                 *)
LEMMA StarredCell ==
  ASSUME NEW node \in Nodes \cup {Nowhere}, NEW path \in Seq(Segments), NEW i \in DOMAIN path, IsStar(path[i])
  PROVE  Navigate(node, path) = Unresolvable
<1> DEFINE nodes == Led(node, path)
           tables == Tables(nodes, path)
           m == Min(tables)
           sel == TRUE
<1>0. Len(path) \in Nat /\ i \in 1..Len(path) /\ path[i] \in Segments  OBVIOUS
<1>1. /\ \A n \in 1..Len(path) : nodes[n] = Down(nodes[n - 1], path[n])
      /\ \A n \in 0..Len(path) : nodes[n] \in Nodes \cup {Nowhere}
  BY LedUnfolds
<1> HIDE DEF sel
<1>2. nodes = Through(node, path, sel)  BY DEF Led, sel
<1>3. Navigate(node, path) = IF tables = {} THEN Leaf(nodes[Len(path)])
                             ELSE TableCell(nodes[m], Rest(path, m))
  BY DEF Navigate, Led
<1> HIDE DEF nodes
<1>4. nodes[i] = Nowhere
  <2>1. nodes[i - 1] \in Nodes \cup {Nowhere}  BY <1>0, <1>1
  <2> QED  BY <1>0, <1>1, <2>1, StarredNowhere
<1>5. \A n \in i..Len(path) : nodes[n] = Nowhere
  <2>1. i \in 0..Len(path) /\ Through(node, path, sel)[i] = Nowhere  BY <1>0, <1>2, <1>4
  <2>2. \A n \in i..Len(path) : Through(node, path, sel)[n] = Nowhere  BY <2>1, NowhereStays
  <2> QED  BY <1>2, <2>2
<1>6. ASSUME tables = {} PROVE Leaf(nodes[Len(path)]) = Unresolvable
  <2>1. nodes[Len(path)] = Nowhere  BY <1>0, <1>5
  <2>2. Nowhere.is = "nowhere"  BY DEF Nowhere
  <2> QED  BY <2>1, <2>2 DEF Leaf
<1>7. ASSUME tables # {} PROVE TableCell(nodes[m], Rest(path, m)) = Unresolvable
  <2> DEFINE rest == Rest(path, m)
  <2>1. tables \subseteq Nat /\ \A n \in tables : n \in 0..(Len(path) - 1) /\ IsTable(nodes[n])
    BY <1>0 DEF Tables
  <2> HIDE DEF tables
  <2>2. m \in tables  BY <1>7, <2>1, Smallest
  <2>3. m \in 0..(Len(path) - 1) /\ IsTable(nodes[m])  BY <2>1, <2>2
  <2> HIDE DEF m
  <2>4. m < i
    <3>1. ~IsTable(Nowhere)
      <4>1. Nowhere.is = "nowhere"  BY DEF Nowhere
      <4>2. Field(Nowhere, "columns") = Nowhere  BY <4>1 DEF Field
      <4> QED  BY <4>2 DEF IsTable
    <3> QED  BY <1>0, <1>5, <2>3, <3>1
  <2>5. /\ rest \in Seq(Segments) /\ Len(rest) = Len(path) - m
        /\ rest[i - m] = path[i]
    BY <1>0, <2>3, <2>4 DEF Rest
  <2> HIDE DEF rest
  <2>6. rest # <<>> /\ i - m \in 1..Len(rest)  BY <1>0, <2>3, <2>4, <2>5
  <2>7. ASSUME NEW key, NEW column, IsNumeral(key), Addresses(rest, key, column) PROVE FALSE
    <3>1. rest[1].keys[1] = key /\ Len(rest) \in {1, 2} /\ (Len(rest) = 2 => Len(rest[2].keys) = 0)
      BY <2>7 DEF Addresses
    <3>2. ~IsStar(rest[1])
      <4>1. key # "*"  BY <2>7, NumeralFacts
      <4> QED  BY <3>1, <4>1 DEF IsStar
    <3>3. i - m = 2 /\ Len(rest) = 2  BY <2>5, <2>6, <3>1, <3>2
    <3>4. IsStar(rest[2])  BY <2>5, <3>3
    <3>5. rest[2].keys \in Seq(Texts) /\ rest[2].keys # <<>>
      <4>1. rest[2] \in Segments  BY <2>5, <3>3
      <4> QED  BY <3>4, <4>1, SegmentParts DEF IsStar
    <3> QED  BY <3>1, <3>3, <3>5
  <2>8. TableCell(nodes[m], rest) = Unresolvable  BY <2>5, <2>6, <2>7, TableCellAt
  <2> QED  BY <2>8 DEF rest
<1> QED  BY <1>3, <1>6, <1>7

(* An outcome is one of the sequences denoted, of which there is no other. *)
Exactly(outcome, denoted) ==
  IsColumn(outcome) /\ \A vs : vs \in denoted <=> outcome = Values(vs)

LEMMA NothingMatches == ASSUME NEW D, D = {} PROVE Exactly(Unresolvable, D)
BY ValuesFacts DEF Exactly, IsColumn

LEMMA CellIsColumn ==
  ASSUME NEW outcome, IsCell(outcome)
  PROVE  IsColumn(outcome)
<1>1. ASSUME NEW v \in Fractions, outcome = Single(v) PROVE IsColumn(outcome)
  <2>1. <<v>> \in Seq(Fractions) /\ <<v>> # <<>> /\ outcome = Values(<<v>>)  BY <1>1 DEF Single
  <2> QED  BY <2>1 DEF IsColumn
<1>2. outcome = Unresolvable => IsColumn(outcome)  BY DEF IsColumn
<1> QED  BY <1>1, <1>2 DEF IsCell

(* A number matches the one-element sequences of what is cited.            *)
LEMMA CellMatches ==
  ASSUME NEW outcome, IsCell(outcome), NEW S, \A v : v \in S <=> outcome = Single(v)
  PROVE  Exactly(outcome, {<<v>> : v \in S})
<1>1. IsColumn(outcome)  BY CellIsColumn
<1>2. ASSUME NEW vs, vs \in {<<v>> : v \in S} PROVE outcome = Values(vs)
  <2>1. PICK v \in S : vs = <<v>>  BY <1>2
  <2>2. outcome = Single(v)  BY <2>1
  <2> QED  BY <2>1, <2>2 DEF Single
<1>3. ASSUME NEW vs, outcome = Values(vs) PROVE vs \in {<<v>> : v \in S}
  <2>1. outcome # Unresolvable  BY <1>3, ValuesFacts
  <2>2. PICK v \in Fractions : outcome = Single(v)  BY <2>1 DEF IsCell
  <2>3. v \in S  BY <2>2
  <2>4. Values(vs) = Values(<<v>>)  BY <1>3, <2>2 DEF Single
  <2>5. vs = <<v>>  BY <2>4, ValuesFacts
  <2> QED  BY <2>3, <2>5
<1>4. \A vs : vs \in {<<v>> : v \in S} <=> outcome = Values(vs)
  <2>1. ASSUME NEW vs PROVE vs \in {<<v>> : v \in S} <=> outcome = Values(vs)  BY <1>2, <1>3
  <2> QED  BY <2>1
<1> QED  BY <1>1, <1>4 DEF Exactly

LEMMA CitedMatches ==
  ASSUME NEW run \in Seq(Calls), NEW cell, cell.path \in Seq(Segments)
  PROVE  /\ Exactly(ResolveOperand(run, cell), Cited(OKCalls(run), cell))
         /\ ~WholeColumn(cell) => IsCell(Resolve(run, cell)) /\ Exactly(Resolve(run, cell), Cited(OKCalls(run), cell))
         /\ WholeColumn(cell) => Resolve(run, cell) = Unresolvable
<1> DEFINE path == cell.path
           q == cell.q
           ok == OKCalls(run)
           json == ok[q].json
           cells == CitedAs(path, CitedCells(json, Len(path)))
           columns == CitedAs(path, CitedColumns(json, Len(path)))
           D == Cited(ok, cell)
<1>0. IsCell(Unresolvable) /\ IsColumn(Unresolvable)  BY DEF IsCell, IsColumn
<1>1. /\ q \in DOMAIN ok => Root(run, q) = json /\ json \in Nodes
      /\ q \notin DOMAIN ok => Root(run, q) = Nowhere
  BY ResultNode
<1>2. Resolve(run, cell) = IF path = <<>> THEN Unresolvable ELSE Navigate(Root(run, q), path)  BY DEF Resolve
<1>3. ResolveColumn(run, cell) = IF path = <<>> THEN Unresolvable ELSE NavColumn(Root(run, q), path)
  BY DEF ResolveColumn
<1>4. D = IF q \notin DOMAIN ok \/ path = <<>> THEN {}
          ELSE IF WholeColumn(cell) THEN columns ELSE {<<v>> : v \in cells}
  BY DEF Cited
<1>5. ASSUME WholeColumn(cell) PROVE Resolve(run, cell) = Unresolvable
  <2>1. PICK i \in DOMAIN path : IsStar(path[i])  BY <1>5 DEF WholeColumn
  <2>2. Root(run, q) \in Nodes \cup {Nowhere}  BY <1>1
  <2>3. Navigate(Root(run, q), path) = Unresolvable
    <3> HIDE DEF path, q
    <3>1. path \in Seq(Segments)  BY DEF path
    <3> QED  BY <2>1, <2>2, <3>1, StarredCell
  <2> QED  BY <1>2, <2>3
<1>6. ResolveOperand(run, cell) = IF WholeColumn(cell) THEN ResolveColumn(run, cell) ELSE Resolve(run, cell)
  BY DEF ResolveOperand
<1>7. CASE q \notin DOMAIN ok \/ path = <<>>
  <2>1. Resolve(run, cell) = Unresolvable /\ ResolveColumn(run, cell) = Unresolvable
    <3>1. CASE path = <<>>  BY <1>2, <1>3, <3>1
    <3>2. CASE q \notin DOMAIN ok
      <4>1. Navigate(Nowhere, path) = Unresolvable /\ NavColumn(Nowhere, path) = Unresolvable  BY NothingThere
      <4> QED  BY <1>1, <1>2, <1>3, <3>2, <4>1
    <3> QED  BY <1>7, <3>1, <3>2
  <2>2. D = {}  BY <1>4, <1>7
  <2>3. Exactly(Unresolvable, D)  BY <2>2, NothingMatches
  <2> QED  BY <1>0, <1>5, <1>6, <2>1, <2>3
<1>8. CASE q \in DOMAIN ok /\ path # <<>>
  <2> DEFINE cite == Cite(q, path)
  <2>1. cite.path = path /\ cite.q = q  BY DEF Cite
  <2>2. /\ IsCell(Resolve(run, cite)) /\ \A v : IsAt(CitedCells(json, Len(path)), path, v) <=> Resolve(run, cite) = Single(v)
        /\ IsColumn(ResolveColumn(run, cite))
        /\ \A vs : IsAt(CitedColumns(json, Len(path)), path, vs) <=> ResolveColumn(run, cite) = Values(vs)
    BY <1>8, ResolveCites
  <2>3. Resolve(run, cite) = Resolve(run, cell) /\ ResolveColumn(run, cite) = ResolveColumn(run, cell)
    BY <2>1 DEF Resolve, ResolveColumn
  <2> HIDE DEF cite
  <2>4. /\ IsCell(Resolve(run, cell)) /\ \A v : v \in cells <=> Resolve(run, cell) = Single(v)
        /\ IsColumn(ResolveColumn(run, cell)) /\ \A vs : vs \in columns <=> ResolveColumn(run, cell) = Values(vs)
    BY <2>2, <2>3 DEF IsAt
  <2> HIDE DEF cells, columns, D
  <2>5. Exactly(Resolve(run, cell), {<<v>> : v \in cells})  BY <2>4, CellMatches
  <2>6. Exactly(ResolveColumn(run, cell), columns)  BY <2>4 DEF Exactly
  <2>7. WholeColumn(cell) => D = columns  BY <1>4, <1>8
  <2>8. ~WholeColumn(cell) => D = {<<v>> : v \in cells}  BY <1>4, <1>8
  <2> QED  BY <1>5, <1>6, <2>4, <2>5, <2>6, <2>7, <2>8 DEF D
<1> QED  BY <1>7, <1>8

-----------------------------------------------------------------------------
(* Operators                                                               *)
LEMMA FlattenType ==
  ASSUME NEW n \in Nat, NEW T, NEW seqs \in [1..n -> Seq(T)]
  PROVE  /\ FlattenSeq(seqs) \in Seq(T)
         /\ n = 0 => FlattenSeq(seqs) = <<>>
<1>1. Len(seqs) = n /\ seqs \in Seq(Seq(T))  OBVIOUS
<1>2. CASE n = 0
  <2>1. seqs = <<>>  BY <1>1, <1>2
  <2>2. FlattenSeq(seqs) = seqs  BY <1>1, <1>2 DEF FlattenSeq
  <2>3. <<>> \in Seq(T)  OBVIOUS
  <2>4. FlattenSeq(seqs) = <<>>  BY <2>1, <2>2
  <2> QED  BY <2>3, <2>4
<1>3. CASE n # 0
  <2> DEFINE Sat(f) == f = [i \in 1..n |-> IF i = 1 THEN seqs[i] ELSE f[i - 1] \o seqs[i]]
             base == <<>>
             step == [x \in (1..n) \X Seq(T) |-> IF x[1] = 1 THEN seqs[1] ELSE x[2] \o seqs[x[1]]]
  <2>1. \A i \in 1..n : seqs[i] \in Seq(T)  OBVIOUS
  <2>2. step \in [(1..n) \X Seq(T) -> Seq(T)]
    <3>1. ASSUME NEW x \in (1..n) \X Seq(T) PROVE (IF x[1] = 1 THEN seqs[1] ELSE x[2] \o seqs[x[1]]) \in Seq(T)
      <4>1. x[1] \in 1..n /\ x[2] \in Seq(T) /\ seqs[x[1]] \in Seq(T)  BY <2>1
      <4>2. x[2] \o seqs[x[1]] \in Seq(T)  BY <4>1
      <4> QED  BY <4>1, <4>2
    <3> QED  BY <3>1
  <2>3. Steps(step, n, Seq(T))  BY <2>2 DEF Steps
  <2>4. \A i \in 1..n, s \in Seq(T) : step[<<i, s>>] = IF i = 1 THEN seqs[1] ELSE s \o seqs[i]  OBVIOUS
  <2>5. base \in Seq(T)  OBVIOUS
  <2> HIDE DEF step, base
  <2>6. PICK g : Iterates(g, n, Seq(T), base, step)  BY <2>3, <2>5, Iteration
  <2>7. g \in [0..n -> Seq(T)] /\ \A i \in 1..n : g[i] = step[<<i, g[i - 1]>>]  BY <2>6 DEF Iterates
  <2> DEFINE f == [i \in 1..n |-> g[i]]
  <2>8. Sat(f)
    <3>1. ASSUME NEW i \in 1..n PROVE g[i] = IF i = 1 THEN seqs[i] ELSE f[i - 1] \o seqs[i]
      <4>1. i - 1 \in 0..n /\ g[i - 1] \in Seq(T)  BY <2>7
      <4>2. g[i] = IF i = 1 THEN seqs[1] ELSE g[i - 1] \o seqs[i]  BY <2>4, <2>7, <4>1
      <4>3. i # 1 => i - 1 \in 1..n /\ f[i - 1] = g[i - 1]  OBVIOUS
      <4> QED  BY <4>2, <4>3
    <3> DEFINE h == [i \in 1..n |-> IF i = 1 THEN seqs[i] ELSE f[i - 1] \o seqs[i]]
    <3>2. \A i \in 1..n : h[i] = g[i]  BY <3>1
    <3>3. f = h  BY <3>2
    <3> QED  BY <3>3
  <2> DEFINE flat == CHOOSE h : Sat(h)
  <2>9. Sat(flat)
    <3> HIDE DEF Sat, f
    <3> QED  BY <2>8
  <2>10. FlattenSeq(seqs) = flat[n]  BY <1>1, <1>3 DEF FlattenSeq
  <2> HIDE DEF flat
  <2>11. \A i \in 1..n : flat[i] = IF i = 1 THEN seqs[i] ELSE flat[i - 1] \o seqs[i]  BY <2>9
  <2> HIDE DEF Sat
  <2> DEFINE N == n - 1
             good == {k \in 0..N : flat[k + 1] \in Seq(T)}
  <2>12. 0 \in good /\ N \in Nat
    <3>1. flat[1] = seqs[1]  BY <1>3, <2>11
    <3> QED  BY <1>3, <2>1, <3>1
  <2>13. ASSUME NEW k \in 1..N, k - 1 \in good PROVE k \in good
    <3>1. k + 1 \in 1..n /\ k + 1 # 1 /\ flat[(k + 1) - 1] \in Seq(T)  BY <1>3, <2>13
    <3>2. flat[k + 1] = flat[(k + 1) - 1] \o seqs[k + 1]  BY <2>11, <3>1
    <3>3. seqs[k + 1] \in Seq(T)  BY <2>1, <3>1
    <3>4. \A s \in Seq(T), t \in Seq(T) : s \o t \in Seq(T)  OBVIOUS
    <3>5. flat[k + 1] \in Seq(T)  BY <3>1, <3>2, <3>3, <3>4
    <3> QED  BY <3>5
  <2>14. \A k \in 0..N : k \in good
    <3> HIDE DEF good, N
    <3> QED  BY <2>12, <2>13, StepByStep
  <2>15. N \in 0..N /\ N + 1 = n  BY <1>3
  <2>16. flat[n] \in Seq(T)  BY <2>14, <2>15
  <2> QED  BY <1>3, <2>10, <2>16
<1> QED  BY <1>2, <1>3

LEMMA MinusType ==
  ASSUME NEW x \in Fractions, NEW y \in Fractions
  PROVE  Minus(x, y) \in Fractions
<1>1. x[1] \in Int /\ x[2] \in Nat \ {0} /\ y[1] \in Int /\ y[2] \in Nat \ {0}  BY DEF Fractions
<1>2. x[1] * y[2] - y[1] * x[2] \in Int  BY <1>1
<1>3. x[2] * y[2] \in Nat \ {0}  BY <1>1
<1> QED  BY <1>2, <1>3 DEF Minus, Fractions

LEMMA DivideType ==
  ASSUME NEW a \in Fractions, NEW b \in Fractions
  PROVE  IsCell(Divide(a, b))
<1>1. a[1] \in Int /\ a[2] \in Nat \ {0} /\ b[1] \in Int /\ b[2] \in Nat \ {0}  BY DEF Fractions
<1>2. CASE b[1] = 0  BY <1>2 DEF Divide, IsCell
<1>3. CASE b[1] > 0
  <2> DEFINE v == <<a[1] * b[2], a[2] * b[1]>>
  <2>1. a[1] * b[2] \in Int /\ a[2] * b[1] \in Nat \ {0}  BY <1>1, <1>3
  <2>2. v \in Fractions  BY <2>1 DEF Fractions
  <2>3. Divide(a, b) = Single(v)  BY <1>1, <1>3 DEF Divide, Single
  <2> QED  BY <2>2, <2>3 DEF IsCell
<1>4. CASE b[1] < 0
  <2> DEFINE v == <<-a[1] * b[2], -a[2] * b[1]>>
  <2>1. -a[1] * b[2] \in Int /\ -a[2] * b[1] \in Nat \ {0}
    <3>1. -b[1] \in Nat \ {0}  BY <1>1, <1>4
    <3>2. a[2] * (-b[1]) \in Nat \ {0}  BY <1>1, <3>1
    <3>3. -a[2] * b[1] = a[2] * (-b[1])  BY <1>1
    <3> QED  BY <1>1, <3>2, <3>3
  <2>2. v \in Fractions  BY <2>1 DEF Fractions
  <2>3. Divide(a, b) = Single(v)  BY <1>1, <1>4 DEF Divide, Single
  <2> QED  BY <2>2, <2>3 DEF IsCell
<1> QED  BY <1>1, <1>2, <1>3, <1>4

LEMMA SumType ==
  ASSUME NEW vs \in Seq(Fractions)
  PROVE  FoldSeq(Plus, <<0, 1>>, vs) \in Fractions
<1> DEFINE T == DOMAIN vs
<1>1. T = 1..Len(vs) /\ Len(vs) \in Nat /\ vs \in [T -> Fractions]  OBVIOUS
<1>2. IsFiniteSet(T)
  <2> DEFINE N == Len(vs)
  <2>1. T = 1..N /\ N \in Int /\ 1 \in Int  BY <1>1
  <2> HIDE DEF T, N
  <2>2. IsFiniteSet(1..N)  BY <2>1, FS_Interval
  <2> QED  BY <2>1, <2>2
<1>3. FoldSeq(Plus, <<0, 1>>, vs) = SumOf(vs)  BY DEF FoldSeq, SumOf
<1> HIDE DEF T
<1>4. DOMAIN vs = T  BY DEF T
<1>5. PICK g : Sums(g, vs, T) /\ SumOf(vs) = g[T]  BY <1>2, <1>4, SumUnfolds
<1>6. \A s \in SUBSET T : g[s] \in Fractions  BY <1>1, <1>2, <1>5, SumsType
<1> QED  BY <1>3, <1>5, <1>6

LEMMA Arities ==
  ASSUME NEW op \in DOMAIN DerivOps
  PROVE  /\ op \in {"ratio", "pct", "diff", "pct_points", "spread", "pct_change", "sum"}
         /\ DerivOps[op] = IF op = "sum" THEN -1 ELSE 2
BY DEF DerivOps

LEMMA ApplyType ==
  ASSUME NEW op \in DOMAIN DerivOps, NEW vs \in Seq(Fractions), op # "sum" => Len(vs) = 2
  PROVE  IsCell(Apply(op, vs))
<1>1. op \in {"ratio", "pct", "diff", "pct_points", "spread", "pct_change", "sum"}  BY Arities
<1>2. CASE op = "sum"
  <2>1. FoldSeq(Plus, <<0, 1>>, vs) \in Fractions  BY SumType
  <2>2. Apply(op, vs) = Single(FoldSeq(Plus, <<0, 1>>, vs))  BY <1>2 DEF Apply, Single
  <2> QED  BY <2>1, <2>2 DEF IsCell
<1>3. CASE op # "sum"
  <2>1. vs[1] \in Fractions /\ vs[2] \in Fractions  BY <1>3
  <2> DEFINE a == vs[1]
             b == vs[2]
  <2> HIDE DEF a, b
  <2>2. Minus(a, b) \in Fractions  BY <2>1, MinusType DEF a, b
  <2>3. IsCell(Divide(a, b)) /\ IsCell(Divide(Minus(a, b), b))  BY <2>1, <2>2, DivideType DEF a, b
  <2>4. IsCell(Single(Minus(a, b)))  BY <2>2 DEF IsCell
  <2>5. CASE op \in {"ratio", "pct"}
    <3>1. Apply(op, vs) = Divide(a, b)  BY <2>5 DEF Apply, a, b
    <3> QED  BY <2>3, <3>1
  <2>6. CASE op \in {"diff", "pct_points", "spread"}
    <3>1. Apply(op, vs) = Single(Minus(a, b))  BY <2>6 DEF Apply, a, b, Single
    <3> QED  BY <2>4, <3>1
  <2>7. CASE op = "pct_change"
    <3>1. Apply(op, vs) = Divide(Minus(a, b), b)  BY <2>7 DEF Apply, a, b
    <3> QED  BY <2>3, <3>1
  <2> QED  BY <1>1, <1>3, <2>5, <2>6, <2>7
<1> QED  BY <1>2, <1>3

(* The ways to take one sequence from each of the operands.                *)
OneOfEach(operands) ==
  {values \in [DOMAIN operands -> UNION {operands[i] : i \in DOMAIN operands}] :
     \A i \in DOMAIN operands : values[i] \in operands[i]}

IsApplied(op, operands, w) ==
  \E values \in OneOfEach(operands) :
    /\ Fits(op, values) /\ Apply(op, FlattenSeq(values)).why = ""
    /\ w = Apply(op, FlattenSeq(values)).values

LEMMA AppliedMembers ==
  ASSUME NEW op, NEW operands
  PROVE  \A w : w \in Applied(op, operands) <=> IsApplied(op, operands, w)
<1> DEFINE choices == OneOfEach(operands)
           outcomes == {Apply(op, FlattenSeq(values)) : values \in {values \in choices : Fits(op, values)}}
<1>1. Applied(op, operands) = {outcome.values : outcome \in {outcome \in outcomes : outcome.why = ""}}
  BY DEF Applied, OneOfEach
<1> HIDE DEF choices
<1>2. \A outcome : outcome \in outcomes <=> \E values \in choices : Fits(op, values) /\ outcome = Apply(op, FlattenSeq(values))
  OBVIOUS
<1> HIDE DEF outcomes
<1>3. ASSUME NEW w PROVE w \in Applied(op, operands) <=> \E outcome \in outcomes : outcome.why = "" /\ w = outcome.values
  BY <1>1
<1>4. ASSUME NEW w
      PROVE  w \in Applied(op, operands) <=>
               \E values \in choices : /\ Fits(op, values) /\ Apply(op, FlattenSeq(values)).why = ""
                                      /\ w = Apply(op, FlattenSeq(values)).values
  <2>1. ASSUME w \in Applied(op, operands)
        PROVE  \E values \in choices : /\ Fits(op, values) /\ Apply(op, FlattenSeq(values)).why = ""
                                       /\ w = Apply(op, FlattenSeq(values)).values
    <3>1. PICK outcome \in outcomes : outcome.why = "" /\ w = outcome.values  BY <1>3, <2>1
    <3>2. PICK values \in choices : Fits(op, values) /\ outcome = Apply(op, FlattenSeq(values))  BY <1>2, <3>1
    <3> QED  BY <3>1, <3>2
  <2>2. ASSUME NEW values \in choices, Fits(op, values), Apply(op, FlattenSeq(values)).why = "",
               w = Apply(op, FlattenSeq(values)).values
        PROVE  w \in Applied(op, operands)
    <3>1. Apply(op, FlattenSeq(values)) \in outcomes  BY <1>2, <2>2
    <3> QED  BY <1>3, <2>2, <3>1
  <2> QED  BY <2>1, <2>2
<1> QED  BY <1>4 DEF choices, IsApplied

LEMMA OnlyChoice ==
  ASSUME NEW n \in Nat, NEW operands, DOMAIN operands = 1..n,
         NEW v, v = [i \in 1..n |-> v[i]], \A i \in 1..n : operands[i] = {v[i]}
  PROVE  OneOfEach(operands) = {v}
<1>1. v \in [1..n -> UNION {operands[i] : i \in 1..n}]
  <2>1. \A i \in 1..n : v[i] \in UNION {operands[j] : j \in 1..n}  OBVIOUS
  <2> DEFINE U == UNION {operands[i] : i \in 1..n}
  <2> HIDE DEF U
  <2>2. \A i \in 1..n : v[i] \in U  BY <2>1 DEF U
  <2>3. v \in [1..n -> U]  BY <2>2
  <2> QED  BY <2>3 DEF U
<1>2. v \in OneOfEach(operands)  BY <1>1 DEF OneOfEach
<1>3. ASSUME NEW w \in OneOfEach(operands) PROVE w = v
  <2>1. w = [i \in 1..n |-> w[i]] /\ \A i \in 1..n : w[i] \in operands[i]  BY DEF OneOfEach
  <2>2. \A i \in 1..n : w[i] = v[i]  BY <2>1
  <2> QED  BY <2>1, <2>2
<1> QED  BY <1>2, <1>3

(* The parts of an outcome.                                                *)
LEMMA OutcomeParts ==
  ASSUME NEW outcome, NEW D, Exactly(outcome, D)
  PROVE  /\ outcome.values \in Seq(Fractions)
         /\ outcome.why # "" => outcome = Unresolvable /\ D = {}
         /\ outcome.why = "" => outcome # Unresolvable /\ D = {outcome.values}
<1>1. CASE outcome = Unresolvable
  <2>1. D = {}  BY <1>1, ValuesFacts DEF Exactly
  <2>2. <<>> \in Seq(Fractions)  OBVIOUS
  <2> QED  BY <1>1, <2>1, <2>2, SingleFacts
<1>2. ASSUME NEW vs \in Seq(Fractions), outcome = Values(vs)
      PROVE  /\ outcome.values \in Seq(Fractions) /\ outcome.why = ""
             /\ outcome # Unresolvable /\ D = {outcome.values}
  <2>1. outcome.values = vs /\ outcome.why = "" /\ outcome # Unresolvable  BY <1>2, ValuesFacts
  <2>2. \A ws : ws \in D <=> ws = vs  BY <1>2, ValuesFacts DEF Exactly
  <2>3. D = {vs}  BY <2>2
  <2> QED  BY <2>1, <2>3
<1> QED  BY <1>1, <1>2, ValuesFacts DEF Exactly, IsColumn

(* The operator applied to what its operands denote.                       *)
LEMMA CombineExact ==
  ASSUME NEW op \in DOMAIN DerivOps, NEW n \in Nat,
         NEW outcomes, DOMAIN outcomes = 1..n, NEW denoted, DOMAIN denoted = 1..n,
         \A i \in 1..n : Exactly(outcomes[i], denoted[i])
  PROVE  Exactly(Combine(op, outcomes), Applied(op, denoted)) /\ IsCell(Combine(op, outcomes))
<1> DEFINE v == [i \in 1..n |-> outcomes[i].values]
           arity == DerivOps[op]
           flat == FlattenSeq(v)
           unusable == {i \in DOMAIN outcomes : outcomes[i].why # "" \/ (arity >= 0 /\ Len(outcomes[i].values) # 1)}
           bad == flat = <<>> \/ (arity >= 0 /\ Len(flat) # arity)
           D == Applied(op, denoted)
<1>1. \A i \in 1..n : /\ outcomes[i].values \in Seq(Fractions) /\ v[i] = outcomes[i].values
                      /\ outcomes[i].why # "" => outcomes[i] = Unresolvable /\ denoted[i] = {}
                      /\ outcomes[i].why = "" => denoted[i] = {outcomes[i].values}
  BY OutcomeParts
<1>2. v \in [1..n -> Seq(Fractions)]  BY <1>1
<1>3. flat \in Seq(Fractions)
  <2> HIDE DEF v
  <2> QED  BY <1>2, FlattenType
<1>4. arity = IF op = "sum" THEN -1 ELSE 2  BY Arities
<1>5. Combine(op, outcomes) =
        IF unusable # {} THEN (IF outcomes[Min(unusable)].why # "" THEN outcomes[Min(unusable)] ELSE Unresolvable)
        ELSE IF bad THEN Unresolvable ELSE Apply(op, flat)
  BY DEF Combine
<1>6. unusable \subseteq 1..n  OBVIOUS
<1>7. ASSUME unusable # {} PROVE Combine(op, outcomes) = Unresolvable
  <2> DEFINE m == Min(unusable)
  <2>1. unusable \subseteq Nat
    <3> HIDE DEF unusable
    <3> QED  BY <1>6
  <2>2. m \in 1..n
    <3> HIDE DEF unusable
    <3> QED  BY <1>6, <1>7, <2>1, Smallest
  <2> HIDE DEF m, unusable
  <2>3. outcomes[m].why # "" => outcomes[m] = Unresolvable  BY <1>1, <2>2
  <2> QED  BY <1>5, <1>7, <2>3 DEF m
<1>8. \A w : w \in D <=> \E values \in OneOfEach(denoted) :
                           /\ Fits(op, values) /\ Apply(op, FlattenSeq(values)).why = ""
                           /\ w = Apply(op, FlattenSeq(values)).values
  <2>1. \A w : w \in D <=> IsApplied(op, denoted, w)  BY AppliedMembers
  <2> HIDE DEF D
  <2> QED  BY <2>1 DEF IsApplied
<1>9. CASE \E i \in 1..n : outcomes[i].why # ""
  <2>1. unusable # {}  BY <1>9
  <2>2. OneOfEach(denoted) = {}
    <3>1. PICK i \in 1..n : denoted[i] = {}  BY <1>1, <1>9
    <3> QED  BY <3>1 DEF OneOfEach
  <2>3. D = {}  BY <1>8, <2>2
  <2> HIDE DEF D, unusable
  <2>4. Exactly(Combine(op, outcomes), D)  BY <1>7, <2>1, <2>3, NothingMatches
  <2>5. Combine(op, outcomes) = Unresolvable  BY <1>7, <2>1
  <2> QED  BY <2>4, <2>5 DEF D, IsCell
<1>10. CASE \A i \in 1..n : outcomes[i].why = ""
  <2>1. \A i \in 1..n : denoted[i] = {v[i]}  BY <1>1, <1>10
  <2>2. v = [i \in 1..n |-> v[i]]  OBVIOUS
  <2>3. OneOfEach(denoted) = {v}
    <3> HIDE DEF v
    <3> QED  BY <2>1, <2>2, OnlyChoice
  <2>4. Fits(op, v) <=> unusable = {} /\ ~bad
    <3>1. DOMAIN v = 1..n  OBVIOUS
    <3>2. CASE op = "sum"
      <4>1. ~(arity >= 0)  BY <1>4, <3>2
      <4>2. unusable = {}  BY <1>10, <4>1
      <4>3. Fits(op, v) <=> flat # <<>>  BY <3>2 DEF Fits
      <4> QED  BY <4>1, <4>2, <4>3
    <3>3. CASE op # "sum"
      <4>1. arity = 2  BY <1>4, <3>3
      <4>2. unusable = {} <=> \A i \in 1..n : Len(v[i]) = 1
        <5>1. \A i \in 1..n : outcomes[i].why = "" /\ v[i] = outcomes[i].values  BY <1>10
        <5> HIDE DEF v, arity
        <5>2. ASSUME NEW i \in 1..n PROVE i \in unusable <=> Len(v[i]) # 1
          <6>1. i \in unusable <=> outcomes[i].why # "" \/ (arity >= 0 /\ Len(outcomes[i].values) # 1)  OBVIOUS
          <6>2. outcomes[i].why = "" /\ v[i] = outcomes[i].values  BY <5>1
          <6>3. arity >= 0  BY <4>1
          <6> HIDE DEF unusable
          <6> QED  BY <6>1, <6>2, <6>3
        <5> HIDE DEF unusable
        <5> QED  BY <1>6, <5>2
      <4>3. Fits(op, v) <=> Len(flat) = 2 /\ \A i \in 1..n : Len(v[i]) = 1  BY <3>1, <3>3 DEF Fits
      <4>4. ~bad <=> Len(flat) = 2
        <5> HIDE DEF flat
        <5>1. flat = <<>> => Len(flat) = 0  OBVIOUS
        <5> QED  BY <4>1, <5>1
      <4> HIDE DEF bad, unusable, flat
      <4> QED  BY <4>2, <4>3, <4>4
    <3> QED  BY <3>2, <3>3
  <2> DEFINE outcome == Apply(op, flat)
  <2>5. \A w : w \in D <=> Fits(op, v) /\ outcome.why = "" /\ w = outcome.values  BY <1>8, <2>3
  <2>6. CASE ~Fits(op, v)
    <3>1. Combine(op, outcomes) = Unresolvable
      <4> HIDE DEF unusable, bad, flat
      <4> QED  BY <1>5, <1>7, <2>4, <2>6
    <3>2. D = {}  BY <2>5, <2>6
    <3> HIDE DEF D
    <3>3. Exactly(Combine(op, outcomes), D)  BY <3>1, <3>2, NothingMatches
    <3> QED  BY <3>1, <3>3 DEF D, IsCell
  <2>7. CASE Fits(op, v)
    <3>1. op # "sum" => Len(flat) = 2  BY <2>7 DEF Fits
    <3>2. IsCell(outcome)
      <4> HIDE DEF flat
      <4> QED  BY <1>3, <3>1, ApplyType
    <3>3. Combine(op, outcomes) = outcome
      <4> HIDE DEF unusable, bad, flat
      <4> QED  BY <1>5, <2>4, <2>7
    <3> HIDE DEF outcome, D
    <3>4. IsColumn(outcome)  BY <3>2, CellIsColumn
    <3>5. ASSUME NEW w PROVE w \in D <=> outcome = Values(w)
      <4>1. CASE outcome = Unresolvable
        <5>1. outcome.why # ""  BY <4>1, SingleFacts
        <5>2. outcome # Values(w)  BY <4>1, ValuesFacts
        <5> QED  BY <2>5, <5>1, <5>2
      <4>2. ASSUME NEW x \in Fractions, outcome = Single(x) PROVE w \in D <=> outcome = Values(w)
        <5>1. outcome = Values(<<x>>) /\ outcome.why = "" /\ outcome.values = <<x>>
          BY <4>2, SingleFacts DEF Single
        <5>2. w \in D <=> w = <<x>>  BY <2>5, <2>7, <5>1
        <5>3. outcome = Values(w) <=> w = <<x>>
          <6> DEFINE s == <<x>>
          <6>1. outcome = Values(s)  BY <5>1
          <6> HIDE DEF s
          <6>2. Values(s) = Values(w) <=> s = w  BY ValuesFacts
          <6>3. outcome = Values(w) <=> w = s  BY <6>1, <6>2
          <6> QED  BY <6>3 DEF s
        <5> QED  BY <5>2, <5>3
      <4> QED  BY <3>2, <4>1, <4>2 DEF IsCell
    <3>6. Exactly(outcome, D)  BY <3>4, <3>5 DEF Exactly
    <3> QED  BY <3>2, <3>3, <3>6 DEF D
  <2> QED  BY <2>6, <2>7
<1> QED  BY <1>9, <1>10

(* Nothing comes of operands none of which can be used.                    *)
LEMMA CombineNothing ==
  ASSUME NEW op \in DOMAIN DerivOps, NEW n \in Nat, NEW outcomes, DOMAIN outcomes = 1..n,
         \A i \in 1..n : outcomes[i] = Unresolvable
  PROVE  Combine(op, outcomes) = Unresolvable
<1> DEFINE v == [i \in 1..n |-> outcomes[i].values]
           arity == DerivOps[op]
           unusable == {i \in DOMAIN outcomes : outcomes[i].why # "" \/ (arity >= 0 /\ Len(outcomes[i].values) # 1)}
<1>1. \A i \in 1..n : outcomes[i].why # "" /\ outcomes[i].values = <<>>  BY SingleFacts
<1>2. Combine(op, outcomes) =
        IF unusable # {} THEN (IF outcomes[Min(unusable)].why # "" THEN outcomes[Min(unusable)] ELSE Unresolvable)
        ELSE IF FlattenSeq(v) = <<>> \/ (arity >= 0 /\ Len(FlattenSeq(v)) # arity) THEN Unresolvable
        ELSE Apply(op, FlattenSeq(v))
  BY DEF Combine
<1>3. unusable = 1..n  BY <1>1
<1>4. CASE n = 0
  <2>1. v \in [1..n -> Seq(Fractions)]
    <3>1. <<>> \in Seq(Fractions)  OBVIOUS
    <3>2. \A i \in 1..n : outcomes[i].values \in Seq(Fractions)  BY <1>1, <3>1
    <3> QED  BY <3>2
  <2>2. FlattenSeq(v) = <<>>
    <3> HIDE DEF v
    <3> QED  BY <1>4, <2>1, FlattenType
  <2>3. unusable = {}  BY <1>3, <1>4
  <2> HIDE DEF unusable
  <2> QED  BY <1>2, <2>2, <2>3
<1>5. CASE n # 0
  <2> HIDE DEF unusable
  <2>1. unusable # {} /\ unusable \subseteq Nat
    <3>1. 1 \in 1..n  BY <1>5
    <3> QED  BY <1>3, <3>1
  <2>2. Min(unusable) \in 1..n  BY <1>3, <2>1, Smallest
  <2> QED  BY <1>2, <2>1, <2>2
<1> QED  BY <1>4, <1>5

-----------------------------------------------------------------------------
(* A whole column is no value of its own, only one of an operator.         *)
IsReadable(anchor, p) == p = <<>> /\ anchor[p].op = "" => ~WholeColumn(anchor[p])

LEMMA ResolvedExact ==
  ASSUME NEW run \in Seq(Calls), NEW anchor, IsAnchor(anchor), Registered(anchor)
  PROVE  \A p \in DOMAIN anchor : Len(p) <= MaxAnchorDepth =>
           /\ IsReadable(anchor, p) => Exactly(Resolved(run, anchor)[p], Denoted(OKCalls(run), anchor)[p])
           /\ anchor[p].op # "" \/ ~WholeColumn(anchor[p]) => IsCell(Resolved(run, anchor)[p])
           /\ ~IsReadable(anchor, p) => Resolved(run, anchor)[p] = Unresolvable
<1> DEFINE R == Resolved(run, anchor)
           D == Denoted(OKCalls(run), anchor)
           M == MaxAnchorDepth
           Right(p) == /\ IsReadable(anchor, p) => Exactly(R[p], D[p])
                       /\ anchor[p].op # "" \/ ~WholeColumn(anchor[p]) => IsCell(R[p])
                       /\ ~IsReadable(anchor, p) => R[p] = Unresolvable
           good == {n \in 0..M : \A p \in DOMAIN anchor : Len(p) = M - n => Right(p)}
<1>0. M \in Nat  BY DepthAssumption
<1>1. \A p \in DOMAIN anchor : R[p] = OutcomeAt(R, run, anchor, p)  BY ResolvedUnfolds
<1>2. \A p \in DOMAIN anchor : D[p] = DenotedAt(D, OKCalls(run), anchor, p)  BY DenotedUnfolds
<1>3. \A p \in DOMAIN anchor :
        /\ Len(p) \in Nat /\ anchor[p].args \in Nat /\ anchor[p].path \in Seq(Segments)
        /\ \A i : Len(Append(p, i)) = Len(p) + 1
        /\ \A i \in 1..anchor[p].args : Append(p, i) \in DOMAIN anchor
        /\ p = <<>> <=> Len(p) = 0
  BY AnchorPlaces
<1>a. ASSUME NEW p \in DOMAIN anchor, Len(p) <= M PROVE ~(Len(p) > M)
  <2>1. Len(p) \in Nat  BY <1>3
  <2> HIDE DEF M
  <2> QED  BY <1>0, <1>a, <2>1
<1>4. \A p \in DOMAIN anchor : anchor[p].op # "" => anchor[p].op \in DOMAIN DerivOps  BY DEF Registered
<1>5. ASSUME NEW p \in DOMAIN anchor, Len(p) <= M, anchor[p].op = ""
      PROVE  Right(p)
  <2> DEFINE cell == anchor[p]
  <2>1. R[p] = IF p = <<>> THEN Resolve(run, cell) ELSE ResolveOperand(run, cell)
    <3>1. ~(Len(p) > M)  BY <1>a, <1>5
    <3> HIDE DEF R
    <3> QED  BY <1>1, <1>5, <3>1 DEF OutcomeAt
  <2>2. D[p] = Cited(OKCalls(run), cell)
    <3> HIDE DEF D
    <3> QED  BY <1>2, <1>5 DEF DenotedAt
  <2>3. cell.path \in Seq(Segments)  BY <1>3
  <2> HIDE DEF cell, R, D
  <2>4. /\ Exactly(ResolveOperand(run, cell), Cited(OKCalls(run), cell))
        /\ ~WholeColumn(cell) => IsCell(Resolve(run, cell)) /\ Exactly(Resolve(run, cell), Cited(OKCalls(run), cell))
        /\ WholeColumn(cell) => Resolve(run, cell) = Unresolvable
    BY <2>3, CitedMatches
  <2>5. ~WholeColumn(cell) => ResolveOperand(run, cell) = Resolve(run, cell)  BY DEF ResolveOperand
  <2>6. IsReadable(anchor, p) <=> (p = <<>> => ~WholeColumn(cell))  BY <1>5 DEF IsReadable, cell
  <2>7. anchor[p].op = ""  BY <1>5
  <2> QED  BY <2>1, <2>2, <2>4, <2>5, <2>6, <2>7 DEF cell
<1>6. ASSUME NEW p \in DOMAIN anchor, Len(p) <= M, anchor[p].op # "",
             Len(p) < M => \A i \in 1..anchor[p].args : Right(Append(p, i))
      PROVE  Right(p)
  <2> DEFINE op == anchor[p].op
             n == anchor[p].args
             outcomes == Operands(R, anchor, p)
             denoted == Operands(D, anchor, p)
  <2>1. op \in DOMAIN DerivOps /\ n \in Nat  BY <1>3, <1>4, <1>6
  <2>2. R[p] = Combine(op, outcomes)
    <3>1. ~(Len(p) > M)  BY <1>a, <1>6
    <3> HIDE DEF R
    <3> QED  BY <1>1, <1>6, <3>1 DEF OutcomeAt
  <2>3. D[p] = IF Len(p) >= M THEN {} ELSE Applied(op, denoted)
    <3> HIDE DEF D
    <3> QED  BY <1>2, <1>6 DEF DenotedAt
  <2>4. IsReadable(anchor, p)  BY <1>6 DEF IsReadable
  <2>5. /\ DOMAIN outcomes = 1..n /\ \A i \in 1..n : outcomes[i] = R[Append(p, i)]
        /\ DOMAIN denoted = 1..n /\ \A i \in 1..n : denoted[i] = D[Append(p, i)]
    <3> HIDE DEF R, D
    <3> QED  BY DEF Operands
  <2> HIDE DEF outcomes, denoted, op, n
  <2>6. CASE Len(p) < M
    <3>1. ASSUME NEW i \in 1..n PROVE Exactly(outcomes[i], denoted[i])
      <4>1. Append(p, i) \in DOMAIN anchor /\ Append(p, i) # <<>>
        <5>1. Append(p, i) \in DOMAIN anchor /\ Len(Append(p, i)) = Len(p) + 1 /\ Len(p) \in Nat  BY <1>3 DEF n
        <5> QED  BY <1>3, <5>1
      <4>2. IsReadable(anchor, Append(p, i))  BY <4>1 DEF IsReadable
      <4>3. Exactly(R[Append(p, i)], D[Append(p, i)])  BY <1>6, <2>6, <4>2 DEF n
      <4> HIDE DEF R, D
      <4> QED  BY <2>5, <4>3
    <3>2. Exactly(Combine(op, outcomes), Applied(op, denoted)) /\ IsCell(Combine(op, outcomes))
      BY <2>1, <2>5, <3>1, CombineExact
    <3>3. D[p] = Applied(op, denoted)  BY <1>0, <1>3, <2>3, <2>6
    <3> HIDE DEF R, D
    <3> QED  BY <2>2, <2>4, <3>2, <3>3
  <2>7. CASE ~(Len(p) < M)
    <3>1. ASSUME NEW i \in 1..n PROVE outcomes[i] = Unresolvable
      <4>1. Append(p, i) \in DOMAIN anchor /\ Len(Append(p, i)) > M  BY <1>0, <1>3, <2>7 DEF n
      <4>2. R[Append(p, i)] = OutcomeAt(R, run, anchor, Append(p, i))  BY <1>1, <4>1
      <4> HIDE DEF R
      <4>3. R[Append(p, i)] = Unresolvable  BY <4>1, <4>2 DEF OutcomeAt
      <4> QED  BY <2>5, <4>3
    <3>2. Combine(op, outcomes) = Unresolvable  BY <2>1, <2>5, <3>1, CombineNothing
    <3>3. D[p] = {}  BY <1>0, <1>3, <2>3, <2>7
    <3> HIDE DEF R, D
    <3>4. Exactly(R[p], D[p])  BY <2>2, <3>2, <3>3, NothingMatches
    <3> QED  BY <2>2, <2>4, <3>2, <3>4 DEF IsCell
  <2> QED  BY <2>6, <2>7
<1> HIDE DEF Right
<1>7. 0 \in good
  <2>1. ASSUME NEW p \in DOMAIN anchor, Len(p) = M - 0 PROVE Right(p)
    <3>1. Len(p) <= M /\ ~(Len(p) < M)  BY <1>0, <2>1
    <3> QED  BY <1>5, <1>6, <3>1
  <2> QED  BY <1>0, <2>1
<1>8. ASSUME NEW n \in 1..M, n - 1 \in good PROVE n \in good
  <2>1. ASSUME NEW p \in DOMAIN anchor, Len(p) = M - n PROVE Right(p)
    <3>1. Len(p) <= M /\ Len(p) + 1 = M - (n - 1)  BY <1>0, <1>8, <2>1
    <3>2. ASSUME NEW i \in 1..anchor[p].args PROVE Right(Append(p, i))
      <4>1. Append(p, i) \in DOMAIN anchor /\ Len(Append(p, i)) = M - (n - 1)  BY <1>3, <3>1
      <4> QED  BY <1>8, <4>1
    <3> QED  BY <1>5, <1>6, <3>1, <3>2
  <2>2. n \in 0..M  BY <1>0
  <2> QED  BY <2>1, <2>2
<1>9. \A n \in 0..M : n \in good
  <2> HIDE DEF good
  <2> QED  BY <1>0, <1>7, <1>8, StepByStep
<1>10. ASSUME NEW p \in DOMAIN anchor, Len(p) <= M PROVE Right(p)
  <2>1. M - Len(p) \in 0..M /\ Len(p) = M - (M - Len(p))  BY <1>0, <1>3, <1>10
  <2> QED  BY <1>9, <2>1
<1> QED  BY <1>10 DEF Right

-----------------------------------------------------------------------------
(* Claims                                                                  *)
Marks == ToSet(DecorativeSuffixes) \cup {"percent", "scale", "undecodable"}

(* What the loop over the units takes off the end can be named: each with  *)
(* its place in the list.  And where units stand in the right order, none  *)
(* that comes so early in the list is left.                                *)
LEMMA MarksRead ==
  ASSUME NEW number, NEW marks \in Seq(Marks)
  PROVE  /\ Decorated(marks) =>
              ClaimedNumber(number, marks) = <<number, IF InPercent(marks) THEN 100 ELSE 1>>
         /\ ~Decorated(marks) => ClaimedNumber(number, marks) = NaN
<1> DEFINE D == DecorativeSuffixes
           N == Len(D)
           L == IF InPercent(marks) THEN Len(marks) - 1 ELSE Len(marks)
           Less(e, n) == IF e # 0 /\ marks[e] = D[n] THEN e - 1 ELSE e
           Sat(f) == f = [n \in 0..N |-> IF n = 0 THEN L ELSE Less(f[n - 1], n)]
           S == 0..L
           step == [x \in (1..N) \X S |-> Less(x[2], x[1])]
           InOrder(at, i) == marks[i] = D[at[i]] /\ \A j \in 1..(i - 1) : at[j] > at[i]
<1>0. N \in Nat /\ DOMAIN D = 1..N  BY SuffixAssumption
<1>1. L \in Nat
  <2>1. Len(marks) \in Nat /\ (marks # <<>> => Len(marks) > 0)  OBVIOUS
  <2> QED  BY <2>1 DEF InPercent
<1>2. Decorated(marks) <=> \E at \in [1..L -> 1..N] : \A i \in 1..L : InOrder(at, i)
  BY <1>0 DEF Decorated
<1> HIDE DEF D, N, L
<1>3. Steps(step, N, S)
  <2>1. ASSUME NEW x \in (1..N) \X S PROVE step[x] \in S
    <3>1. x[1] \in 1..N /\ x[2] \in S  OBVIOUS
    <3>2. Less(x[2], x[1]) \in S  BY <1>1, <3>1
    <3> QED  BY <3>2
  <2> QED  BY <2>1 DEF Steps
<1>4. PICK f : Iterates(f, N, S, L, step)
  <2>1. L \in S  BY <1>1
  <2> HIDE DEF S, step
  <2> QED  BY <1>0, <1>3, <2>1, Iteration
<1>5. f \in [0..N -> S] /\ f[0] = L  BY <1>4 DEF Iterates
<1>6. ASSUME NEW n \in 1..N PROVE f[n] = Less(f[n - 1], n)
  <2>1. f[n] = step[<<n, f[n - 1]>>]  BY <1>4 DEF Iterates
  <2>2. n - 1 \in 0..N  BY <1>0
  <2>3. f[n - 1] \in S  BY <1>5, <2>2
  <2>4. <<n, f[n - 1]>> \in (1..N) \X S  BY <2>3
  <2> QED  BY <2>1, <2>4
<1> HIDE DEF step, S, Less
<1>7. Sat(f)
  <2> DEFINE rhs(n) == IF n = 0 THEN L ELSE Less(f[n - 1], n)
  <2>1. ASSUME NEW n \in 0..N PROVE f[n] = rhs(n)
    <3>1. n = 0 \/ n \in 1..N  BY <1>0
    <3>2. n \in 1..N => n # 0  BY <1>0
    <3> QED  BY <1>5, <1>6, <3>1, <3>2
  <2> HIDE DEF rhs
  <2>2. f = [n \in 0..N |-> rhs(n)]  BY <1>5, <2>1
  <2> QED  BY <2>2 DEF rhs
<1> DEFINE g == CHOOSE g : Sat(g)
<1>8. Sat(g)
  <2> HIDE DEF Sat
  <2> QED  BY <1>7
<1>9. ClaimedNumber(number, marks) =
        IF g[N] # 0 THEN NaN ELSE <<number, IF InPercent(marks) THEN 100 ELSE 1>>
  BY DEF ClaimedNumber, D, N, L, Less
<1> HIDE DEF g
<1>10. g[0] = L /\ \A n \in 1..N : g[n] = Less(g[n - 1], n)
  <2> DEFINE rhs(n) == IF n = 0 THEN L ELSE Less(g[n - 1], n)
  <2>1. g = [n \in 0..N |-> rhs(n)]  BY <1>8
  <2> HIDE DEF rhs
  <2>2. \A n \in 0..N : g[n] = rhs(n)  BY <2>1
  <2> USE DEF rhs
  <2>3. g[0] = L  BY <1>0, <2>2
  <2>4. ASSUME NEW n \in 1..N PROVE g[n] = Less(g[n - 1], n)  BY <1>0, <2>2
  <2> QED  BY <2>3, <2>4
<1> HIDE DEF Sat
<1> USE DEF Less
<1>11. ASSUME g[N] = 0 PROVE Decorated(marks)
  <2> DEFINE TakenOff(n, at) ==
               /\ g[n] \in 0..L /\ at \in [1..L -> 0..N]
               /\ \A i \in (g[n] + 1)..L :
                    /\ at[i] \in 1..n /\ marks[i] = D[at[i]]
                    /\ \A j \in (g[n] + 1)..(i - 1) : at[j] > at[i]
             good == {n \in 0..N : \E at : TakenOff(n, at)}
  <2>1. 0 \in good
    <3>1. TakenOff(0, [i \in 1..L |-> 0])  BY <1>0, <1>1, <1>10
    <3>2. 0 \in 0..N  BY <1>0
    <3> HIDE DEF TakenOff
    <3> QED  BY <3>1, <3>2
  <2>2. ASSUME NEW n \in 1..N, n - 1 \in good PROVE n \in good
    <3>1. PICK at : TakenOff(n - 1, at)  BY <2>2
    <3> DEFINE e == g[n - 1]
    <3>2. e \in 0..L /\ at \in [1..L -> 0..N]  BY <3>1
    <3>3. \A i \in (e + 1)..L :
            /\ at[i] \in 1..(n - 1) /\ marks[i] = D[at[i]]
            /\ \A j \in (e + 1)..(i - 1) : at[j] > at[i]
      BY <3>1
    <3>4. g[n] = IF e # 0 /\ marks[e] = D[n] THEN e - 1 ELSE e  BY <1>10
    <3> HIDE DEF e
    <3>5. CASE e # 0 /\ marks[e] = D[n]
      <4> DEFINE to == [at EXCEPT ![e] = n]
      <4>1. e \in 1..L /\ g[n] = e - 1 /\ g[n] \in 0..L  BY <1>1, <3>2, <3>4, <3>5
      <4>2. to \in [1..L -> 0..N] /\ to[e] = n  BY <1>0, <3>2, <4>1
      <4>3. \A i \in (e + 1)..L : to[i] = at[i] /\ i \in 1..L /\ i # e  BY <1>1, <3>2, <4>1
      <4> HIDE DEF to
      <4>4. ASSUME NEW i \in (g[n] + 1)..L
            PROVE  /\ to[i] \in 1..n /\ marks[i] = D[to[i]]
                   /\ \A j \in (g[n] + 1)..(i - 1) : to[j] > to[i]
        <5>1. i = e \/ i \in (e + 1)..L  BY <1>1, <4>1
        <5>2. CASE i = e
          <6>1. \A j \in (g[n] + 1)..(i - 1) : FALSE  BY <1>1, <4>1, <5>2
          <6>2. n \in 1..n  BY <1>0
          <6> QED  BY <3>5, <4>2, <5>2, <6>1, <6>2
        <5>3. CASE i \in (e + 1)..L
          <6>1. to[i] \in 1..(n - 1) /\ marks[i] = D[to[i]]  BY <3>3, <4>3, <5>3
          <6>2. to[i] \in 1..n /\ n > to[i]  BY <1>0, <6>1
          <6>3. ASSUME NEW j \in (g[n] + 1)..(i - 1) PROVE to[j] > to[i]
            <7>1. j = e \/ (j \in (e + 1)..(i - 1) /\ j \in (e + 1)..L)  BY <1>1, <4>1, <5>3
            <7>2. CASE j = e  BY <4>2, <6>2, <7>2
            <7>3. CASE j \in (e + 1)..(i - 1) /\ j \in (e + 1)..L
              <8>1. at[j] > at[i]  BY <3>3, <5>3, <7>3
              <8> QED  BY <4>3, <5>3, <7>3, <8>1
            <7> QED  BY <7>1, <7>2, <7>3
          <6> QED  BY <6>1, <6>2, <6>3
        <5> QED  BY <5>1, <5>2, <5>3
      <4>5. TakenOff(n, to)  BY <4>1, <4>2, <4>4
      <4>6. n \in 0..N  BY <1>0
      <4> HIDE DEF TakenOff
      <4> QED  BY <4>5, <4>6
    <3>6. CASE ~(e # 0 /\ marks[e] = D[n])
      <4>1. g[n] = e  BY <3>4, <3>6
      <4>2. \A i \in (e + 1)..L : at[i] \in 1..n
        <5>1. \A x \in 1..(n - 1) : x \in 1..n  BY <1>0
        <5> QED  BY <3>3, <5>1
      <4>3. TakenOff(n, at)  BY <3>2, <3>3, <4>1, <4>2
      <4>4. n \in 0..N  BY <1>0
      <4> HIDE DEF TakenOff
      <4> QED  BY <4>3, <4>4
    <3> QED  BY <3>5, <3>6
  <2>3. N \in good
    <3> HIDE DEF good
    <3>1. \A n \in 0..N : n \in good  BY <1>0, <2>1, <2>2, StepByStep
    <3>2. N \in 0..N  BY <1>0
    <3> QED  BY <3>1, <3>2
  <2>4. PICK at : TakenOff(N, at)  BY <2>3
  <2>5. at \in [1..L -> 1..N] /\ \A i \in 1..L : InOrder(at, i)
    <3>1. (g[N] + 1)..L = 1..L  BY <1>11
    <3>2. \A i \in 1..L : at[i] \in 1..N /\ marks[i] = D[at[i]]  BY <2>4, <3>1
    <3>3. \A i \in 1..L : \A j \in 1..(i - 1) : at[j] > at[i]  BY <1>11, <2>4
    <3>4. at \in [1..L -> 1..N]  BY <2>4, <3>2
    <3> QED  BY <3>2, <3>3, <3>4
  <2> HIDE DEF InOrder
  <2> QED  BY <1>2, <2>5
<1>12. ASSUME Decorated(marks) PROVE g[N] = 0
  <2>1. PICK at \in [1..L -> 1..N] : \A i \in 1..L : InOrder(at, i)  BY <1>2, <1>12
  <2> DEFINE good == {n \in 0..N : g[n] \in 0..L /\ \A i \in 1..L : i <= g[n] => at[i] > n}
  <2>2. 0 \in good
    <3>1. \A i \in 1..L : at[i] > 0  BY <1>0, <2>1
    <3>2. 0 \in 0..N /\ L \in 0..L  BY <1>0, <1>1
    <3> QED  BY <1>10, <3>1, <3>2
  <2>3. ASSUME NEW n \in 1..N, n - 1 \in good PROVE n \in good
    <3> DEFINE e == g[n - 1]
    <3>1. e \in 0..L /\ \A i \in 1..L : i <= e => at[i] > n - 1  BY <2>3
    <3>2. g[n] = IF e # 0 /\ marks[e] = D[n] THEN e - 1 ELSE e  BY <1>10
    <3> HIDE DEF e
    <3>3. g[n] \in 0..L /\ g[n] <= e  BY <1>1, <3>1, <3>2
    <3>4. ASSUME NEW i \in 1..L, i <= g[n] PROVE at[i] > n
      <4>1. e \in 1..L /\ i <= e  BY <1>1, <3>1, <3>3, <3>4
      <4>2. at[i] \in 1..N /\ at[e] \in 1..N /\ at[i] > n - 1 /\ at[e] > n - 1  BY <2>1, <3>1, <4>1
      <4>3. CASE i = e
        <5>1. marks[e] # D[n]
          <6>1. ASSUME marks[e] = D[n] PROVE FALSE
            <7>1. e # 0 /\ g[n] = e - 1  BY <1>1, <3>2, <4>1, <6>1
            <7> QED  BY <1>1, <3>4, <4>1, <4>3, <7>1
          <6> QED  BY <6>1
        <5>2. at[e] # n  BY <2>1, <4>1, <5>1
        <5> QED  BY <1>0, <4>2, <4>3, <5>2
      <4>4. CASE i # e
        <5>1. i \in 1..(e - 1)  BY <1>1, <4>1, <4>4
        <5>2. at[i] > at[e]  BY <2>1, <4>1, <5>1
        <5> QED  BY <1>0, <4>2, <5>2
      <4> QED  BY <4>3, <4>4
    <3>5. n \in 0..N  BY <1>0
    <3> QED  BY <3>3, <3>4, <3>5
  <2>4. N \in good
    <3> HIDE DEF good
    <3>1. \A n \in 0..N : n \in good  BY <1>0, <2>2, <2>3, StepByStep
    <3>2. N \in 0..N  BY <1>0
    <3> QED  BY <3>1, <3>2
  <2>5. ASSUME g[N] # 0 PROVE FALSE
    <3>1. g[N] \in 1..L /\ g[N] <= g[N]  BY <1>1, <2>4, <2>5
    <3>2. at[g[N]] > N /\ at[g[N]] \in 1..N  BY <2>1, <2>4, <3>1
    <3> QED  BY <1>0, <3>2
  <2> QED  BY <2>5
<1> QED  BY <1>9, <1>11, <1>12

LEMMA TwoBounds ==
  ASSUME NEW a \in Int, NEW b \in Int
  PROVE  /\ Min({a, b}) = IF a <= b THEN a ELSE b
         /\ Max({a, b}) = IF a <= b THEN b ELSE a
<1>1. \A x \in {a, b} : x = a \/ x = b  OBVIOUS
<1>2. Min({a, b}) = IF a <= b THEN a ELSE b
  <2> DEFINE m == IF a <= b THEN a ELSE b
             Least(x) == x \in {a, b} /\ \A y \in {a, b} : x <= y
  <2>1. Least(m)  OBVIOUS
  <2>2. \A x : Least(x) => x = m  OBVIOUS
  <2>3. Min({a, b}) = CHOOSE x \in {a, b} : \A y \in {a, b} : x <= y  BY DEF Min
  <2> QED  BY <2>1, <2>2, <2>3
<1>3. Max({a, b}) = IF a <= b THEN b ELSE a
  <2> DEFINE m == IF a <= b THEN b ELSE a
             Most(x) == x \in {a, b} /\ \A y \in {a, b} : x >= y
  <2>1. Most(m)  OBVIOUS
  <2>2. \A x : Most(x) => x = m  OBVIOUS
  <2>3. Max({a, b}) = CHOOSE x \in {a, b} : \A y \in {a, b} : x >= y  BY DEF Max
  <2> QED  BY <2>1, <2>2, <2>3
<1> QED  BY <1>2, <1>3

LEMMA CloseWithin ==
  ASSUME NEW got \in Fractions, NEW claimed, claimed[1] \in Int, claimed[2] \in {1, 100}
  PROVE  RelClose(got, claimed) <=> Within(got, claimed)
<1> DEFINE number == claimed[1]
           d == claimed[2]
           a == got[1]
           b == got[2]
           X == a * d
           C == number * b
<1>1. a \in Int /\ b \in Nat \ {0}  BY DEF Fractions
<1>2. RelClose(got, claimed) <=>
        IF number = 0 THEN a = 0 ELSE Abs(X - C) * d * 100 <= Abs(number) * (b * d)
  BY DEF RelClose, Minus
<1>3. Within(got, claimed) <=>
        Min({99 * C, 101 * C}) <= 100 * a * d /\ 100 * a * d <= Max({99 * C, 101 * C})
  BY DEF Within
<1>0. number \in Int /\ d \in {1, 100}  OBVIOUS
<1> HIDE DEF number, d, a, b
<1>4. X \in Int /\ C \in Int /\ 100 * a * d = 100 * X
  <2>1. X \in Int /\ C \in Int  BY <1>0, <1>1
  <2>2. 100 * a * d = 100 * X  BY <1>0, <1>1
  <2> QED  BY <2>1, <2>2
<1>5. (number = 0 => C = 0) /\ (number > 0 => C > 0) /\ (number < 0 => C < 0)
  <2>1. number = 0 => C = 0  BY <1>0, <1>1
  <2>2. number > 0 => C > 0  BY <1>0, <1>1
  <2>3. number < 0 => C < 0
    <3>1. ASSUME number < 0 PROVE C < 0
      <4>1. -number \in Nat \ {0}  BY <1>0, <3>1
      <4>2. (-number) * b \in Nat \ {0}  BY <1>0, <1>1, <4>1
      <4>3. (-number) * b = -C  BY <1>0, <1>1
      <4> QED  BY <1>0, <1>4, <4>2, <4>3
    <3> QED  BY <3>1
  <2> QED  BY <2>1, <2>2, <2>3
<1>6. Abs(number) * (b * d) = Abs(C) * d
  <2>1. CASE number < 0
    <3>1. Abs(number) = -number /\ Abs(C) = -C  BY <1>0, <1>5, <2>1 DEF Abs
    <3>2. (-number) * (b * d) = (-C) * d  BY <1>0, <1>1
    <3> QED  BY <3>1, <3>2
  <2>2. CASE ~(number < 0)
    <3>1. Abs(number) = number /\ Abs(C) = C
      <4>1. ~(C < 0)  BY <1>0, <1>4, <1>5, <2>2
      <4> HIDE DEF C
      <4> QED  BY <2>2, <4>1 DEF Abs
    <3>2. number * (b * d) = C * d  BY <1>0, <1>1
    <3> QED  BY <3>1, <3>2
  <2> QED  BY <2>1, <2>2
<1>7. number = 0 => (a = 0 <=> X = 0)  BY <1>0, <1>1
<1> HIDE DEF X, C
<1>8. 99 * C \in Int /\ 101 * C \in Int  BY <1>0, <1>4
<1>9. /\ Min({99 * C, 101 * C}) = IF 99 * C <= 101 * C THEN 99 * C ELSE 101 * C
      /\ Max({99 * C, 101 * C}) = IF 99 * C <= 101 * C THEN 101 * C ELSE 99 * C
  BY <1>0, <1>8, TwoBounds
<1>10. Within(got, claimed) <=>
         IF C >= 0 THEN 99 * C <= 100 * X /\ 100 * X <= 101 * C ELSE 101 * C <= 100 * X /\ 100 * X <= 99 * C
  <2>1. 99 * C <= 101 * C <=> C >= 0  BY <1>0, <1>4
  <2> QED  BY <1>3, <1>4, <1>9, <2>1
<1>11. CASE number = 0  BY <1>0, <1>2, <1>4, <1>5, <1>7, <1>10, <1>11
<1>12. CASE number # 0
  <2>1. RelClose(got, claimed) <=> Abs(X - C) * d * 100 <= Abs(C) * d  BY <1>0, <1>2, <1>6, <1>12
  <2>2. Abs(X - C) * d * 100 <= Abs(C) * d <=> Abs(X - C) * 100 <= Abs(C)
    <3>1. Abs(X - C) \in Int /\ Abs(C) \in Int  BY <1>0, <1>4 DEF Abs
    <3> QED  BY <1>0, <3>1
  <2>3. Abs(X - C) * 100 <= Abs(C) <=>
          IF C >= 0 THEN 99 * C <= 100 * X /\ 100 * X <= 101 * C ELSE 101 * C <= 100 * X /\ 100 * X <= 99 * C
    BY <1>0, <1>4 DEF Abs
  <2> QED  BY <1>10, <2>1, <2>2, <2>3
<1> QED  BY <1>11, <1>12

LEMMA ClaimGraded ==
  ASSUME calls \in Seq(Calls), NEW claim, IsAnchor(claim.anchor), Registered(claim.anchor),
         claim.number \in Int, claim.marks \in Seq(Marks)
  PROVE  EvalAnchor(calls, claim) \in {"mismatch", "unresolvable"} <=> ~TrueClaim(claim)
<1> DEFINE a == claim.anchor
           root == <<>>
           top == a[root]
           R == ResolveAnchor(calls, a)
           D == Denotes(OKCalls(calls), a)
           marks == claim.marks
           c == ClaimedNumber(claim.number, marks)
           d == IF InPercent(marks) THEN 100 ELSE 1
           claimed == <<claim.number, d>>
           verdict == EvalAnchor(calls, claim)
<1>0. IsAnchor(a) /\ Registered(a)  OBVIOUS
<1>1. d \in {1, 100}  OBVIOUS
<1>2. /\ Decorated(marks) => c = claimed
      /\ ~Decorated(marks) => c = NaN
  BY MarksRead
<1>3. TrueClaim(claim) <=>
        /\ Decorated(marks) /\ (top.op = "" => ~WholeColumn(top))
        /\ \E vs \in D : Len(vs) = 1 /\ Within(vs[1], claimed)
  BY DEF TrueClaim
<1> HIDE DEF d
<1>4. R = Resolved(calls, a)[root] /\ D = Denoted(OKCalls(calls), a)[root]  BY DenotesDenoted DEF ResolveAnchor
<1>5. root \in DOMAIN a /\ Len(root) <= MaxAnchorDepth
  <2>1. root \in DOMAIN a
    <3> HIDE DEF a
    <3> QED  BY <1>0, AnchorPlaces
  <2>2. Len(root) = 0  OBVIOUS
  <2> QED  BY <2>1, <2>2, DepthAssumption
<1>6. /\ IsReadable(a, root) => Exactly(R, D)
      /\ top.op # "" \/ ~WholeColumn(top) => IsCell(R)
      /\ ~IsReadable(a, root) => R = Unresolvable
  <2> HIDE DEF a, root, R, D
  <2> QED  BY <1>0, <1>4, <1>5, ResolvedExact
<1>7. IsReadable(a, root) <=> (top.op = "" => ~WholeColumn(top))  BY DEF IsReadable
<1>8. claimed # NaN
  <2>1. claimed[2] # 0 /\ NaN[2] = 0  BY <1>1 DEF NaN
  <2> QED  BY <2>1
<1>9. verdict = IF top = NoCell \/ c = NaN THEN "unresolvable"
                ELSE IF R.why = "unsupported" THEN "derived_unsupported"
                ELSE IF R.why # "" THEN "unresolvable"
                ELSE IF RelClose(R.values[1], c) THEN "resolved" ELSE "mismatch"
  BY DEF EvalAnchor
<1>10. top = NoCell => D = {}
  <2>1. ASSUME top = NoCell PROVE D = {}
    <3>1. top.op = "" /\ top.path = <<>>
      <4>1. NoCell.op = "" /\ NoCell.path = <<>>  BY DEF NoCell, Cite
      <4> HIDE DEF top
      <4> QED  BY <2>1, <4>1
    <3>2. D = DenotedAt(Denoted(OKCalls(calls), a), OKCalls(calls), a, root)
      <4> HIDE DEF a, root, D
      <4> QED  BY <1>0, <1>4, <1>5, DenotedUnfolds
    <3>3. DenotedAt(Denoted(OKCalls(calls), a), OKCalls(calls), a, root) = Cited(OKCalls(calls), top)
      BY <3>1 DEF DenotedAt
    <3>4. Cited(OKCalls(calls), top) = {}  BY <3>1 DEF Cited
    <3> QED  BY <3>2, <3>3, <3>4
  <2> QED  BY <2>1
<1> HIDE DEF verdict, R, D, c, claimed, top, marks
<1>11. CASE top = NoCell  BY <1>3, <1>9, <1>10, <1>11 DEF verdict
<1>12. CASE ~Decorated(marks)  BY <1>2, <1>3, <1>9, <1>12 DEF verdict
<1>13. CASE top # NoCell /\ Decorated(marks)
  <2>1. c = claimed /\ c # NaN  BY <1>2, <1>8, <1>13
  <2>2. Unresolvable.why = "unresolvable" /\ "unresolvable" # "" /\ "unresolvable" # "unsupported"
    BY DEF Unresolvable, Failed
  <2>3. CASE R = Unresolvable
    <3>1. verdict = "unresolvable"  BY <1>9, <1>13, <2>1, <2>2, <2>3
    <3>2. ~TrueClaim(claim)
      <4>1. IsReadable(a, root) => D = {}  BY <1>6, <2>3, ValuesFacts DEF Exactly
      <4> QED  BY <1>7, <1>3, <4>1
    <3> QED  BY <3>1, <3>2 DEF verdict
  <2>4. CASE R # Unresolvable
    <3>1. IsReadable(a, root) /\ Exactly(R, D)  BY <1>6, <2>4
    <3>2. IsCell(R)  BY <1>6, <1>7, <3>1
    <3>3. PICK v \in Fractions : R = Single(v)  BY <2>4, <3>2 DEF IsCell
    <3>4. R.why = "" /\ R.values = <<v>> /\ R.values[1] = v  BY <3>3, SingleFacts
    <3>5. D = {<<v>>}  BY <3>1, <3>4, OutcomeParts
    <3>6. verdict = IF RelClose(v, claimed) THEN "resolved" ELSE "mismatch"
      BY <1>9, <1>13, <2>1, <3>4
    <3>7. TrueClaim(claim) <=> Within(v, claimed)
      <4> DEFINE s == <<v>>
      <4>1. Len(s) = 1 /\ s[1] = v /\ D = {s}  BY <3>5
      <4> HIDE DEF s
      <4> QED  BY <1>7, <1>3, <1>13, <3>1, <4>1
    <3>8. RelClose(v, claimed) <=> Within(v, claimed)
      <4>1. claimed[1] \in Int /\ claimed[2] \in {1, 100} /\ v \in Fractions  BY <1>1 DEF claimed
      <4> QED  BY ONLY <4>1, CloseWithin
    <3> QED  BY <3>6, <3>7, <3>8 DEF verdict
  <2> QED  BY <2>3, <2>4
<1> QED  BY <1>11, <1>12, <1>13

-----------------------------------------------------------------------------
(* An answer's grade stays that of the calls and the task it was given for.*)
Graded ==
  answer # NoAnswer =>
    /\ answer \in Answers
    /\ scores.grounding = AttributionGrounding(calls, answer, task.minClaims)

LEMMA GradesStand == GradingSpec => []Graded
<1>1. GradingInit => Graded  BY DEF GradingInit, Graded
<1>2. Graded /\ [GradingNext]_gradingVars => Graded'
  <2> SUFFICES ASSUME Graded, [GradingNext]_gradingVars PROVE Graded'  OBVIOUS
  <2>1. ASSUME NEW call \in Calls, ToolCall(call) PROVE Graded'  BY <2>1 DEF ToolCall, Graded
  <2>2. ASSUME NEW a \in Answers, Evaluate(a) PROVE Graded'
    <3>1. answer' = a /\ UNCHANGED <<calls, task>>  BY <2>2 DEF Evaluate, captureVars
    <3>2. scores'.grounding = AttributionGrounding(calls, a, task.minClaims)  BY <2>2 DEF Evaluate
    <3> QED  BY <3>1, <3>2 DEF Graded
  <2>3. ASSUME NEW t \in TaskFiles, NextTask(t) PROVE Graded'  BY <2>3 DEF NextTask, Graded
  <2>4. CASE UNCHANGED gradingVars  BY <2>4 DEF gradingVars, captureVars, Graded
  <2> QED  BY <2>1, <2>2, <2>3, <2>4 DEF GradingNext
<1> QED  BY <1>1, <1>2, PTL DEF GradingSpec

LEMMA GradedDefined == CaptureType /\ Graded => GradedAsDefined
<1> SUFFICES ASSUME CaptureType, Graded, answer # NoAnswer, \A c \in ToSet(answer.claims) : Registered(c.anchor)
             PROVE  LET claims == IF answer.block = "claims" THEN answer.claims ELSE <<>> IN
                    scores.grounding <=> Len(claims) >= task.minClaims /\ \A c \in ToSet(claims) : TrueClaim(c)
  BY DEF GradedAsDefined
<1> DEFINE claims == IF answer.block = "claims" THEN answer.claims ELSE <<>>
           bad == {i \in DOMAIN claims : EvalAnchor(calls, claims[i]) \in {"mismatch", "unresolvable"}}
<1>1. calls \in Seq(Calls)  BY DEF CaptureType
<1>2. answer \in Answers /\ scores.grounding = AttributionGrounding(calls, answer, task.minClaims)  BY DEF Graded
<1>3. AttributionGrounding(calls, answer, task.minClaims) <=> Len(claims) >= task.minClaims /\ bad = {}
  BY DEF AttributionGrounding, ParseAttributionOutput
<1>4. ASSUME NEW i \in DOMAIN claims
      PROVE  EvalAnchor(calls, claims[i]) \in {"mismatch", "unresolvable"} <=> ~TrueClaim(claims[i])
  <2> DEFINE claim == claims[i]
  <2>1. claim \in ToSet(answer.claims)
    <3>1. answer.block = "claims"  BY <1>4
    <3> QED  BY <1>4, <3>1 DEF ToSet
  <2> HIDE DEF claim
  <2>2. /\ IsAnchor(claim.anchor) /\ claim.number \in Int
        /\ claim.marks \in Seq(Marks) /\ Registered(claim.anchor)
    BY <1>2, <2>1, AnswersAssumption DEF Marks
  <2>3. EvalAnchor(calls, claim) \in {"mismatch", "unresolvable"} <=> ~TrueClaim(claim)
    BY <1>1, <2>2, ClaimGraded
  <2> QED  BY <2>3 DEF claim
<1> HIDE DEF claims
<1>5. bad = {} <=> \A c \in ToSet(claims) : TrueClaim(c)
  <2>1. bad = {} <=> \A i \in DOMAIN claims : TrueClaim(claims[i])  BY <1>4
  <2> QED  BY <2>1 DEF ToSet
<1> QED  BY <1>2, <1>3, <1>5 DEF claims

(* The gate passes exactly the answers it should.                          *)
THEOREM GradesAreRight == AuditSpec => []GradedAsDefined
<1>1. AuditSpec => []Graded  BY AuditsGraded, GradesStand, PTL
<1> QED  BY <1>1, AuditTypes, GradedDefined, PTL

-----------------------------------------------------------------------------
(* What redaction leaves of a result                                       *)
LEMMA PartsLower ==
  ASSUME NEW node \in Nodes, node.is \in {"list", "object"}
  PROVE  \A part \in DOMAIN node.v : node.v[part] \in Nodes /\ Height[node.v[part]] < Height[node]
<1>1. \A part \in DOMAIN node.v : Height[node.v[part]] < Height[node]  BY AuditAssumption
<1>2. CASE node.is = "list"
  <2>1. node.v \in Seq(Nodes)  BY <1>2, NodeFacts
  <2> DEFINE s == node.v
  <2> HIDE DEF s
  <2>2. s \in Seq(Nodes)  BY <2>1 DEF s
  <2>3. \A part \in DOMAIN s : s[part] \in Nodes  BY <2>2
  <2> QED  BY <1>1, <2>3 DEF s
<1>3. CASE node.is = "object"
  <2>1. \A name \in DOMAIN node.v : node.v[name] \in Nodes  BY <1>3, NodeFacts
  <2> QED  BY <1>1, <2>1
<1> QED  BY <1>2, <1>3

LEMMA SampleParts ==
  ASSUME NEW T, NEW items \in Seq(T)
  PROVE  /\ Sample(items) \in Seq(T)
         /\ DOMAIN Sample(items) = {i \in DOMAIN items : i <= MaxSampleRows}
         /\ \A i \in DOMAIN Sample(items) : Sample(items)[i] = items[i]
<1> DEFINE n == Len(items)
           M == MaxSampleRows
           k == Min({M, n})
<1>1. n \in Nat /\ M \in Nat /\ DOMAIN items = 1..n  BY AuditAssumption
<1>2. k = IF M <= n THEN M ELSE n  BY <1>1, TwoBounds
<1>3. Sample(items) = SubSeq(items, 1, k)  BY DEF Sample
<1> HIDE DEF k, n, M
<1>4. k \in 0..n  BY <1>1, <1>2
<1>5. /\ SubSeq(items, 1, k) \in Seq(T) /\ Len(SubSeq(items, 1, k)) = k
      /\ \A i \in 1..k : SubSeq(items, 1, k)[i] = items[i]
  BY <1>1, <1>4 DEF n
<1>6. DOMAIN Sample(items) = 1..k  BY <1>3, <1>5
<1>7. 1..k = {i \in 1..n : i <= M}  BY <1>1, <1>2, <1>4
<1> QED  BY <1>1, <1>3, <1>5, <1>6, <1>7 DEF M

LEMMA KeptElements ==
  ASSUME NEW node \in Nodes, node.is = "list"
  PROVE  \A i \in DOMAIN Sample(node.v) : i \in DOMAIN node.v /\ Sample(node.v)[i] = node.v[i]
<1>1. node.v \in Seq(Nodes)  BY NodeFacts
<1> DEFINE s == node.v
<1> HIDE DEF s
<1>2. s \in Seq(Nodes)  BY <1>1 DEF s
<1>3. \A i \in DOMAIN Sample(s) : i \in DOMAIN s /\ Sample(s)[i] = s[i]  BY <1>2, SampleParts
<1> QED  BY <1>3 DEF s

RedactAt(g, node) ==
  IF node.is = "text" THEN Text(RedactText(node.v))
  ELSE IF node.is = "list" THEN List([i \in DOMAIN Sample(node.v) |-> g[node.v[i]]])
  ELSE IF node.is = "object" THEN Object([name \in DOMAIN node.v |-> g[node.v[name]]])
  ELSE node

LEMMA RedactUnfolds == \A node \in Nodes : RedactValue[node] = RedactAt(RedactValue, node)
<1> DEFINE F(g, node)  == RedactAt(g, node)
           Upto(g, n)  == \A node \in Nodes : Height[node] < n => g[node] = F(g, node)
           G(n)        == CHOOSE g : Upto(g, n)
           f           == [node \in Nodes |-> G(Height[node] + 1)[node]]
           Satisfies(h) == h = [node \in Nodes |-> F(h, node)]
           whole       == CHOOSE h : Satisfies(h)
<1>1. \A node \in Nodes : Height[node] \in Nat  BY AuditAssumption
<1>2. ASSUME NEW g, NEW h, NEW node \in Nodes, \A x \in Nodes : Height[x] < Height[node] => g[x] = h[x]
      PROVE  F(g, node) = F(h, node)
  <2>1. CASE node.is = "list"
    <3> DEFINE K == DOMAIN Sample(node.v)
    <3>1. \A i \in K : node.v[i] \in Nodes /\ Height[node.v[i]] < Height[node]  BY <2>1, KeptElements, PartsLower
    <3>2. \A i \in K : g[node.v[i]] = h[node.v[i]]  BY <1>2, <3>1
    <3>3. [i \in K |-> g[node.v[i]]] = [i \in K |-> h[node.v[i]]]  BY <3>2
    <3> QED  BY <2>1, <3>3 DEF RedactAt
  <2>2. CASE node.is = "object"
    <3>1. \A name \in DOMAIN node.v : g[node.v[name]] = h[node.v[name]]  BY <1>2, <2>2, PartsLower
    <3>2. [name \in DOMAIN node.v |-> g[node.v[name]]] = [name \in DOMAIN node.v |-> h[node.v[name]]]  BY <3>1
    <3> QED  BY <2>2, <3>2 DEF RedactAt
  <2>3. CASE node.is \notin {"list", "object"}  BY <2>3 DEF RedactAt
  <2> QED  BY <2>1, <2>2, <2>3
<1> HIDE DEF F
<1>3. ASSUME NEW g, NEW n \in Nat, Upto(g, n) PROVE Upto([node \in Nodes |-> F(g, node)], n + 1)
  <2> DEFINE h == [node \in Nodes |-> F(g, node)]
  <2>1. \A node \in Nodes : h[node] = F(g, node)  OBVIOUS
  <2> HIDE DEF h
  <2>2. ASSUME NEW node \in Nodes, Height[node] < n + 1 PROVE h[node] = F(h, node)
    <3>1. ASSUME NEW x \in Nodes, Height[x] < Height[node] PROVE g[x] = h[x]
      <4>1. Height[x] < n  BY <1>1, <2>2, <3>1
      <4> QED  BY <1>3, <2>1, <4>1
    <3>2. F(g, node) = F(h, node)  BY <1>2, <3>1
    <3> QED  BY <2>1, <3>2
  <2>3. Upto(h, n + 1)  BY <2>2
  <2> QED  BY <2>3 DEF h
<1>4. ASSUME NEW n \in Nat PROVE \E g : Upto(g, n)
  <2> DEFINE good == {k \in 0..n : \E g : Upto(g, k)}
  <2>1. 0 \in good
    <3>1. Upto(<<>>, 0)  BY <1>1
    <3> HIDE DEF Upto
    <3> QED  BY <3>1
  <2>2. ASSUME NEW k \in 1..n, k - 1 \in good PROVE k \in good
    <3> HIDE DEF Upto
    <3>1. PICK g : Upto(g, k - 1)  BY <2>2
    <3>2. Upto([node \in Nodes |-> F(g, node)], (k - 1) + 1)  BY <1>3, <3>1
    <3>3. (k - 1) + 1 = k /\ k \in 0..n  OBVIOUS
    <3> QED  BY <3>2, <3>3
  <2> HIDE DEF good
  <2>3. \A k \in 0..n : k \in good  BY <2>1, <2>2, StepByStep
  <2>4. n \in good  BY <2>3
  <2> QED  BY <2>4 DEF good
<1>5. \A n \in Nat : Upto(G(n), n)
  <2> HIDE DEF Upto
  <2> QED  BY <1>4
<1>6. ASSUME NEW g, NEW h, NEW n \in Nat, NEW m \in Nat, Upto(g, n), Upto(h, m)
      PROVE  \A node \in Nodes : Height[node] < n /\ Height[node] < m => g[node] = h[node]
  <2> DEFINE good == {k \in 0..n : \A node \in Nodes : Height[node] < k /\ Height[node] < m => g[node] = h[node]}
  <2>1. 0 \in good  BY <1>1
  <2>2. ASSUME NEW k \in 1..n, k - 1 \in good PROVE k \in good
    <3>1. ASSUME NEW node \in Nodes, Height[node] < k, Height[node] < m PROVE g[node] = h[node]
      <4>1. ASSUME NEW x \in Nodes, Height[x] < Height[node] PROVE g[x] = h[x]
        <5>1. Height[x] < k - 1 /\ Height[x] < m  BY <1>1, <3>1, <4>1
        <5> QED  BY <2>2, <5>1
      <4>2. F(g, node) = F(h, node)  BY <1>2, <4>1
      <4>3. Height[node] < n  BY <1>1, <3>1
      <4>4. g[node] = F(g, node) /\ h[node] = F(h, node)  BY <1>6, <3>1, <4>3
      <4> QED  BY <4>2, <4>4
    <3> QED  BY <3>1
  <2> HIDE DEF good
  <2>3. \A k \in 0..n : k \in good  BY <2>1, <2>2, StepByStep
  <2>4. n \in good  BY <2>3
  <2> QED  BY <2>4 DEF good
<1> HIDE DEF G
<1>7. Satisfies(f)
  <2>1. ASSUME NEW node \in Nodes PROVE f[node] = F(f, node)
    <3> DEFINE n == Height[node] + 1
    <3>1. n \in Nat /\ Height[node] < n  BY <1>1
    <3>2. Upto(G(n), n)  BY <1>5, <3>1
    <3>3. f[node] = G(n)[node]  OBVIOUS
    <3>4. G(n)[node] = F(G(n), node)  BY <3>1, <3>2
    <3>5. ASSUME NEW x \in Nodes, Height[x] < Height[node] PROVE G(n)[x] = f[x]
      <4> DEFINE m == Height[x] + 1
      <4>1. m \in Nat /\ Height[x] < m /\ Height[x] < n  BY <1>1, <3>5
      <4>2. f[x] = G(m)[x]  OBVIOUS
      <4>3. Upto(G(m), m)  BY <1>5, <4>1
      <4> HIDE DEF Upto, n, m, f
      <4>4. \A y \in Nodes : Height[y] < n /\ Height[y] < m => G(n)[y] = G(m)[y]
        BY <1>6, <3>1, <3>2, <4>1, <4>3
      <4> QED  BY <4>1, <4>2, <4>4
    <3> HIDE DEF f, n
    <3>6. F(G(n), node) = F(f, node)  BY <1>2, <3>5
    <3> QED  BY <3>3, <3>4, <3>6
  <2>2. f = [node \in Nodes |-> f[node]]  OBVIOUS
  <2> HIDE DEF f
  <2>3. [node \in Nodes |-> f[node]] = [node \in Nodes |-> F(f, node)]  BY <2>1
  <2> QED  BY <2>2, <2>3
<1>8. Satisfies(whole)
  <2> HIDE DEF Satisfies, f
  <2> QED  BY <1>7
<1>9. RedactValue = whole  BY DEF RedactValue, F, RedactAt
<1> HIDE DEF whole
<1>10. \A node \in Nodes : whole[node] = F(whole, node)  BY <1>8
<1> QED  BY <1>9, <1>10 DEF F

ShortAt(g, node) ==
  CASE node.is = "list"   -> Len(node.v) <= MaxSampleRows /\ \A i \in DOMAIN node.v : g[node.v[i]]
    [] node.is = "object" -> \A name \in DOMAIN node.v : g[node.v[name]]
    [] OTHER              -> TRUE

LEMMA ShortUnfolds == \A node \in Nodes : Short[node] = ShortAt(Short, node)
<1> DEFINE F(g, node)  == ShortAt(g, node)
           Upto(g, n)  == \A node \in Nodes : Height[node] < n => g[node] = F(g, node)
           G(n)        == CHOOSE g : Upto(g, n)
           f           == [node \in Nodes |-> G(Height[node] + 1)[node]]
           Satisfies(h) == h = [node \in Nodes |-> F(h, node)]
           whole       == CHOOSE h : Satisfies(h)
<1>1. \A node \in Nodes : Height[node] \in Nat  BY AuditAssumption
<1>2. ASSUME NEW g, NEW h, NEW node \in Nodes, \A x \in Nodes : Height[x] < Height[node] => g[x] = h[x]
      PROVE  F(g, node) = F(h, node)
  <2>1. CASE node.is = "list"
    <3>1. \A i \in DOMAIN node.v : g[node.v[i]] = h[node.v[i]]  BY <1>2, <2>1, PartsLower
    <3> QED  BY <2>1, <3>1 DEF ShortAt
  <2>2. CASE node.is = "object"
    <3>1. \A name \in DOMAIN node.v : g[node.v[name]] = h[node.v[name]]  BY <1>2, <2>2, PartsLower
    <3> QED  BY <2>2, <3>1 DEF ShortAt
  <2>3. CASE node.is \notin {"list", "object"}  BY <2>3 DEF ShortAt
  <2> QED  BY <2>1, <2>2, <2>3
<1> HIDE DEF F
<1>3. ASSUME NEW g, NEW n \in Nat, Upto(g, n) PROVE Upto([node \in Nodes |-> F(g, node)], n + 1)
  <2> DEFINE h == [node \in Nodes |-> F(g, node)]
  <2>1. \A node \in Nodes : h[node] = F(g, node)  OBVIOUS
  <2> HIDE DEF h
  <2>2. ASSUME NEW node \in Nodes, Height[node] < n + 1 PROVE h[node] = F(h, node)
    <3>1. ASSUME NEW x \in Nodes, Height[x] < Height[node] PROVE g[x] = h[x]
      <4>1. Height[x] < n  BY <1>1, <2>2, <3>1
      <4> QED  BY <1>3, <2>1, <4>1
    <3>2. F(g, node) = F(h, node)  BY <1>2, <3>1
    <3> QED  BY <2>1, <3>2
  <2>3. Upto(h, n + 1)  BY <2>2
  <2> QED  BY <2>3 DEF h
<1>4. ASSUME NEW n \in Nat PROVE \E g : Upto(g, n)
  <2> DEFINE good == {k \in 0..n : \E g : Upto(g, k)}
  <2>1. 0 \in good
    <3>1. Upto(<<>>, 0)  BY <1>1
    <3> HIDE DEF Upto
    <3> QED  BY <3>1
  <2>2. ASSUME NEW k \in 1..n, k - 1 \in good PROVE k \in good
    <3> HIDE DEF Upto
    <3>1. PICK g : Upto(g, k - 1)  BY <2>2
    <3>2. Upto([node \in Nodes |-> F(g, node)], (k - 1) + 1)  BY <1>3, <3>1
    <3>3. (k - 1) + 1 = k /\ k \in 0..n  OBVIOUS
    <3> QED  BY <3>2, <3>3
  <2> HIDE DEF good
  <2>3. \A k \in 0..n : k \in good  BY <2>1, <2>2, StepByStep
  <2>4. n \in good  BY <2>3
  <2> QED  BY <2>4 DEF good
<1>5. \A n \in Nat : Upto(G(n), n)
  <2> HIDE DEF Upto
  <2> QED  BY <1>4
<1>6. ASSUME NEW g, NEW h, NEW n \in Nat, NEW m \in Nat, Upto(g, n), Upto(h, m)
      PROVE  \A node \in Nodes : Height[node] < n /\ Height[node] < m => g[node] = h[node]
  <2> DEFINE good == {k \in 0..n : \A node \in Nodes : Height[node] < k /\ Height[node] < m => g[node] = h[node]}
  <2>1. 0 \in good  BY <1>1
  <2>2. ASSUME NEW k \in 1..n, k - 1 \in good PROVE k \in good
    <3>1. ASSUME NEW node \in Nodes, Height[node] < k, Height[node] < m PROVE g[node] = h[node]
      <4>1. ASSUME NEW x \in Nodes, Height[x] < Height[node] PROVE g[x] = h[x]
        <5>1. Height[x] < k - 1 /\ Height[x] < m  BY <1>1, <3>1, <4>1
        <5> QED  BY <2>2, <5>1
      <4>2. F(g, node) = F(h, node)  BY <1>2, <4>1
      <4>3. Height[node] < n  BY <1>1, <3>1
      <4>4. g[node] = F(g, node) /\ h[node] = F(h, node)  BY <1>6, <3>1, <4>3
      <4> QED  BY <4>2, <4>4
    <3> QED  BY <3>1
  <2> HIDE DEF good
  <2>3. \A k \in 0..n : k \in good  BY <2>1, <2>2, StepByStep
  <2>4. n \in good  BY <2>3
  <2> QED  BY <2>4 DEF good
<1> HIDE DEF G
<1>7. Satisfies(f)
  <2>1. ASSUME NEW node \in Nodes PROVE f[node] = F(f, node)
    <3> DEFINE n == Height[node] + 1
    <3>1. n \in Nat /\ Height[node] < n  BY <1>1
    <3>2. Upto(G(n), n)  BY <1>5, <3>1
    <3>3. f[node] = G(n)[node]  OBVIOUS
    <3>4. G(n)[node] = F(G(n), node)  BY <3>1, <3>2
    <3>5. ASSUME NEW x \in Nodes, Height[x] < Height[node] PROVE G(n)[x] = f[x]
      <4> DEFINE m == Height[x] + 1
      <4>1. m \in Nat /\ Height[x] < m /\ Height[x] < n  BY <1>1, <3>5
      <4>2. f[x] = G(m)[x]  OBVIOUS
      <4>3. Upto(G(m), m)  BY <1>5, <4>1
      <4> HIDE DEF Upto, n, m, f
      <4>4. \A y \in Nodes : Height[y] < n /\ Height[y] < m => G(n)[y] = G(m)[y]
        BY <1>6, <3>1, <3>2, <4>1, <4>3
      <4> QED  BY <4>1, <4>2, <4>4
    <3> HIDE DEF f, n
    <3>6. F(G(n), node) = F(f, node)  BY <1>2, <3>5
    <3> QED  BY <3>3, <3>4, <3>6
  <2>2. f = [node \in Nodes |-> f[node]]  OBVIOUS
  <2> HIDE DEF f
  <2>3. [node \in Nodes |-> f[node]] = [node \in Nodes |-> F(f, node)]  BY <2>1
  <2> QED  BY <2>2, <2>3
<1>8. Satisfies(whole)
  <2> HIDE DEF Satisfies, f
  <2> QED  BY <1>7
<1>9. Short = whole  BY DEF Short, F, ShortAt
<1> HIDE DEF whole
<1>10. \A node \in Nodes : whole[node] = F(whole, node)  BY <1>8
<1> QED  BY <1>9, <1>10 DEF F

(* A path can be walked from anywhere.                                     *)
LEMMA ThroughSteps ==
  ASSUME NEW node, NEW path \in Seq(Segments), NEW selecting
  PROVE  LET at == Through(node, path, selecting) IN
         /\ at[0] = node
         /\ \A n \in 1..Len(path) : at[n] = Child(at[n - 1], path[n], selecting)
<1> DEFINE N == Len(path)
           Upto(g, n) == g[0] = node /\ \A k \in 1..n : g[k] = Child(g[k - 1], path[k], selecting)
           good == {n \in 0..N : \E g : Upto(g, n)}
           Unfolds(g) == g = [n \in 0..Len(path) |-> IF n = 0 THEN node ELSE Child(g[n - 1], path[n], selecting)]
           at == Through(node, path, selecting)
<1>0. N \in Nat  OBVIOUS
<1>1. 0 \in good
  <2>1. Upto([k \in 0..0 |-> node], 0)  OBVIOUS
  <2> HIDE DEF Upto
  <2> QED  BY <1>0, <2>1
<1>2. ASSUME NEW n \in 1..N, n - 1 \in good PROVE n \in good
  <2> HIDE DEF Upto
  <2>1. PICK g : Upto(g, n - 1)  BY <1>2
  <2> DEFINE h == [k \in 0..n |-> IF k = n THEN Child(g[n - 1], path[n], selecting) ELSE g[k]]
  <2>2. h[0] = g[0] /\ h[n] = Child(g[n - 1], path[n], selecting) /\ \A k \in 0..(n - 1) : h[k] = g[k]  OBVIOUS
  <2> HIDE DEF h
  <2>3. \A k \in 1..n : k = n \/ (k \in 1..(n - 1) /\ k \in 0..(n - 1))  OBVIOUS
  <2>4. \A k \in 1..n : k - 1 \in 0..(n - 1)  OBVIOUS
  <2>5. \A k \in 1..n : h[k] = Child(h[k - 1], path[k], selecting)  BY <2>1, <2>2, <2>3, <2>4 DEF Upto
  <2>6. Upto(h, n)  BY <2>1, <2>2, <2>5 DEF Upto
  <2>7. n \in 0..N  BY <1>0
  <2> QED  BY <2>6, <2>7
<1> HIDE DEF good
<1>3. \A n \in 0..N : n \in good  BY <1>0, <1>1, <1>2, StepByStep
<1>4. PICK g : Upto(g, N)
  <2> HIDE DEF Upto
  <2>1. N \in good  BY <1>0, <1>3
  <2> QED  BY <2>1 DEF good
<1> DEFINE f == [n \in 0..N |-> g[n]]
<1>5. Unfolds(f)
  <2>1. \A n \in 0..N : f[n] = g[n]  OBVIOUS
  <2>2. \A n \in 0..N : n = 0 \/ (n \in 1..N /\ n - 1 \in 0..N)  BY <1>0
  <2> HIDE DEF f
  <2>3. ASSUME NEW n \in 0..N PROVE f[n] = IF n = 0 THEN node ELSE Child(f[n - 1], path[n], selecting)
    BY <1>4, <2>1, <2>2
  <2>4. f = [n \in 0..N |-> f[n]]  BY DEF f
  <2>5. [n \in 0..N |-> f[n]] = [n \in 0..N |-> IF n = 0 THEN node ELSE Child(f[n - 1], path[n], selecting)]  BY <2>3
  <2> QED  BY <2>4, <2>5
<1>6. at = CHOOSE h : Unfolds(h)  BY DEF Through
<1>7. Unfolds(at)
  <2> HIDE DEF Unfolds, at, f
  <2> QED  BY <1>5, <1>6
<1> HIDE DEF at
<1> QED  BY <1>0, <1>7 DEF at

-----------------------------------------------------------------------------
(* What is kept of a value, and where nothing was cut                      *)
Kept(x)  == IF x = Nowhere THEN Nowhere ELSE RedactValue[x]
Whole(x) == x = Nowhere \/ Short[x]

Telling(text) == text \in Private \cup {Placeholder}

LEMMA KeptKinds ==
  ASSUME NEW x \in Nodes \cup {Nowhere}
  PROVE  /\ Kept(x).is = x.is
         /\ Kept(x) = Nowhere <=> x = Nowhere
         /\ x.is \notin {"text", "list", "object"} => Kept(x) = x
         /\ x.is = "text" => Kept(x) = Text(RedactText(x.v))
         /\ x.is = "list" => Kept(x) = List([i \in DOMAIN Sample(x.v) |-> RedactValue[x.v[i]]])
         /\ x.is = "object" => Kept(x) = Object([name \in DOMAIN x.v |-> RedactValue[x.v[name]]])
<1>1. CASE x = Nowhere  BY <1>1 DEF Kept, Nowhere
<1>2. CASE x # Nowhere
  <2>1. x \in Nodes  BY <1>2
  <2>2. Kept(x) = RedactAt(RedactValue, x)  BY <1>2, <2>1, RedactUnfolds DEF Kept
  <2>3. x.is \in {"null", "number", "text", "list", "object"}  BY <2>1, NodeFacts
  <2>4. CASE x.is = "text"
    <3>1. Kept(x) = Text(RedactText(x.v))  BY <2>2, <2>4 DEF RedactAt
    <3>2. Kept(x).is = "text"  BY <3>1 DEF Text
    <3> QED  BY <1>2, <2>4, <3>1, <3>2 DEF Nowhere
  <2>5. CASE x.is = "list"
    <3>1. Kept(x) = List([i \in DOMAIN Sample(x.v) |-> RedactValue[x.v[i]]])  BY <2>2, <2>5 DEF RedactAt
    <3>2. Kept(x).is = "list"  BY <3>1 DEF List
    <3> QED  BY <1>2, <2>5, <3>1, <3>2 DEF Nowhere
  <2>6. CASE x.is = "object"
    <3>1. Kept(x) = Object([name \in DOMAIN x.v |-> RedactValue[x.v[name]]])  BY <2>2, <2>6 DEF RedactAt
    <3>2. Kept(x).is = "object"  BY <3>1 DEF Object
    <3> QED  BY <1>2, <2>6, <3>1, <3>2 DEF Nowhere
  <2>7. CASE x.is \in {"null", "number"}
    <3>1. Kept(x) = x  BY <2>2, <2>7 DEF RedactAt
    <3> QED  BY <1>2, <2>7, <3>1
  <2> QED  BY <2>3, <2>4, <2>5, <2>6, <2>7
<1> QED  BY <1>1, <1>2

LEMMA KeptText ==
  ASSUME NEW x \in Nodes \cup {Nowhere}, NEW key, ~Telling(key)
  PROVE  Kept(x) = Text(key) <=> x = Text(key)
<1>1. CASE x.is = "text"
  <2>1. Kept(x) = Text(RedactText(x.v))  BY <1>1, KeptKinds
  <2>2. x \in Nodes  BY <1>1 DEF Nowhere
  <2>3. x = Text(x.v)  BY <1>1, <2>2, NodeFacts
  <2>4. RedactText(x.v) = key <=> x.v = key  BY DEF RedactText, Telling
  <2> DEFINE a == x.v
             b == RedactText(x.v)
  <2>5. Text(a) = Text(key) <=> a = key  BY DEF Text
  <2>6. Text(b) = Text(key) <=> b = key  BY DEF Text
  <2> QED  BY <2>1, <2>3, <2>4, <2>5, <2>6
<1>2. CASE x.is # "text"
  <2>1. Kept(x).is # "text"  BY <1>2, KeptKinds
  <2>2. Text(key).is = "text"  BY DEF Text
  <2> QED  BY <1>2, <2>1, <2>2
<1> QED  BY <1>1, <1>2

LEMMA KeptField ==
  ASSUME NEW x \in Nodes \cup {Nowhere}, NEW name
  PROVE  Field(Kept(x), name) = Kept(Field(x, name))
<1>1. CASE x.is = "object"
  <2> DEFINE f == [n \in DOMAIN x.v |-> RedactValue[x.v[n]]]
  <2>1. Kept(x) = Object(f)  BY <1>1, KeptKinds
  <2>2. Kept(x).is = "object" /\ Kept(x).v = f  BY <2>1 DEF Object
  <2>3. DOMAIN f = DOMAIN x.v /\ \A n \in DOMAIN x.v : f[n] = RedactValue[x.v[n]]  OBVIOUS
  <2>4. x \in Nodes  BY <1>1 DEF Nowhere
  <2>5. \A n \in DOMAIN x.v : x.v[n] \in Nodes  BY <1>1, <2>4, NodeFacts
  <2>6. \A node \in Nodes : node # Nowhere  BY NodeFacts
  <2> HIDE DEF f
  <2>7. CASE name \in DOMAIN x.v
    <3>1. Field(x, name) = x.v[name] /\ Field(Kept(x), name) = f[name]  BY <1>1, <2>2, <2>3, <2>7 DEF Field
    <3> QED  BY <2>3, <2>5, <2>6, <2>7, <3>1 DEF Kept
  <2>8. CASE name \notin DOMAIN x.v
    <3>1. Field(x, name) = Nowhere /\ Field(Kept(x), name) = Nowhere  BY <1>1, <2>2, <2>3, <2>8 DEF Field
    <3> QED  BY <3>1 DEF Kept
  <2> QED  BY <2>7, <2>8
<1>2. CASE x.is # "object"
  <2>1. Kept(x).is # "object"  BY <1>2, KeptKinds
  <2>2. Field(x, name) = Nowhere /\ Field(Kept(x), name) = Nowhere  BY <1>2, <2>1 DEF Field
  <2> QED  BY <2>2 DEF Kept
<1> QED  BY <1>1, <1>2

LEMMA KeptItems ==
  ASSUME NEW x \in Nodes \cup {Nowhere}
  PROVE  /\ \E n \in Nat : n <= Len(Items(x)) /\ Len(Items(Kept(x))) = n /\ DOMAIN Items(Kept(x)) = 1..n
         /\ DOMAIN Items(Kept(x)) = {i \in DOMAIN Items(x) : i <= MaxSampleRows}
         /\ \A i \in DOMAIN Items(Kept(x)) : Items(Kept(x))[i] = Kept(Items(x)[i])
<1>1. CASE x.is = "list"
  <2> DEFINE s == x.v
             K == DOMAIN Sample(s)
             f == [i \in K |-> RedactValue[s[i]]]
  <2>1. Kept(x) = List(f)  BY <1>1, KeptKinds
  <2>2. Items(Kept(x)) = f  BY <2>1 DEF Items, List
  <2>3. Items(x) = s  BY <1>1 DEF Items
  <2>4. x \in Nodes  BY <1>1 DEF Nowhere
  <2>5. s \in Seq(Nodes)  BY <1>1, <2>4, NodeFacts
  <2> HIDE DEF s
  <2>6. Sample(s) \in Seq(Nodes) /\ K = {i \in DOMAIN s : i <= MaxSampleRows}  BY <2>5, SampleParts
  <2> DEFINE n == Len(Sample(s))
  <2>7. n \in Nat /\ K = 1..n  BY <2>6
  <2>8. DOMAIN f = K  OBVIOUS
  <2>9. \A i \in K : f[i] = RedactValue[s[i]]  OBVIOUS
  <2>10. \A i \in K : i \in DOMAIN s  BY <2>6
  <2>11. \A i \in DOMAIN s : s[i] \in Nodes  BY <2>5
  <2>12. \A node \in Nodes : node # Nowhere  BY NodeFacts
  <2>13. \A i \in K : f[i] = Kept(s[i])  BY <2>9, <2>10, <2>11, <2>12 DEF Kept
  <2>14. Len(f) = n
    <3>1. f = [i \in 1..n |-> RedactValue[s[i]]]  BY <2>7
    <3> QED  BY <2>7, <3>1
  <2>15. n <= Len(s)
    <3>1. Len(s) \in Nat /\ DOMAIN s = 1..Len(s)  BY <2>5
    <3>2. n # 0 => n \in K  BY <2>7
    <3> QED  BY <2>7, <2>10, <3>1, <3>2
  <2> HIDE DEF f, n, K
  <2> QED  BY <2>2, <2>3, <2>6, <2>7, <2>8, <2>13, <2>14, <2>15
<1>2. CASE x.is # "list"
  <2>1. Kept(x).is # "list"  BY <1>2, KeptKinds
  <2>2. Items(x) = <<>> /\ Items(Kept(x)) = <<>>  BY <1>2, <2>1 DEF Items
  <2>3. 0 \in Nat /\ Len(<<>>) = 0 /\ DOMAIN <<>> = 1..0 /\ 0 <= 0 /\ DOMAIN <<>> = {}  OBVIOUS
  <2> QED  BY <2>2, <2>3
<1> QED  BY <1>1, <1>2

LEMMA KeptTable ==
  ASSUME NEW x \in Nodes \cup {Nowhere}
  PROVE  IsTable(Kept(x)) <=> IsTable(x)
<1>1. \A name : Field(x, name) \in Nodes \cup {Nowhere}  BY JsonParts
<1>2. Field(Kept(x), "columns") = Kept(Field(x, "columns"))  BY KeptField
<1>3. Field(Kept(x), "rows") = Kept(Field(x, "rows"))  BY KeptField
<1>4. Kept(Field(x, "columns")) = Nowhere <=> Field(x, "columns") = Nowhere  BY <1>1, KeptKinds
<1>5. Kept(Field(x, "rows")) = Nowhere <=> Field(x, "rows") = Nowhere  BY <1>1, KeptKinds
<1> QED  BY <1>2, <1>3, <1>4, <1>5 DEF IsTable

LEMMA WholeParts ==
  ASSUME NEW x \in Nodes \cup {Nowhere}, Whole(x)
  PROVE  /\ \A name : Whole(Field(x, name))
         /\ \A i \in DOMAIN Items(x) : i <= MaxSampleRows /\ Whole(Items(x)[i])
<1>1. CASE x = Nowhere
  <2>1. Items(x) = <<>> /\ \A name : Field(x, name) = Nowhere  BY <1>1, JsonParts
  <2> QED  BY <2>1 DEF Whole
<1>2. CASE x # Nowhere
  <2>1. x \in Nodes  BY <1>2
  <2>2. Short[x]  BY <1>2 DEF Whole
  <2>3. ShortAt(Short, x)  BY <2>1, <2>2, ShortUnfolds
  <2>4. \A name : Whole(Field(x, name))
    <3>1. ASSUME NEW name, x.is = "object", name \in DOMAIN x.v PROVE Whole(Field(x, name))
      <4>1. Short[x.v[name]]  BY <2>3, <3>1 DEF ShortAt
      <4> QED  BY <3>1, <4>1 DEF Field, Whole
    <3> QED  BY <3>1 DEF Field, Whole
  <2>5. CASE x.is = "list"
    <3> DEFINE s == x.v
    <3>1. s \in Seq(Nodes)  BY <2>1, <2>5, NodeFacts
    <3>2. Len(s) <= MaxSampleRows /\ \A i \in DOMAIN s : Short[s[i]]  BY <2>3, <2>5 DEF ShortAt
    <3>3. Items(x) = s  BY <2>5 DEF Items
    <3> HIDE DEF s
    <3>4. \A i \in DOMAIN s : i \in Nat /\ i <= Len(s)  BY <3>1
    <3>5. MaxSampleRows \in Nat /\ Len(s) \in Nat  BY <3>1, AuditAssumption
    <3> QED  BY <2>4, <3>2, <3>3, <3>4, <3>5 DEF Whole
  <2>6. CASE x.is # "list"
    <3>1. Items(x) = <<>>  BY <2>6 DEF Items
    <3> QED  BY <2>4, <3>1
  <2> QED  BY <2>4, <2>5, <2>6
<1> QED  BY <1>1, <1>2

(* A node that follows another one is what was kept of it, or nothing if   *)
(* something of what it was found in was cut; an outcome likewise.         *)
Follows(new, old, x) == new = Kept(old) \/ (new = Nowhere /\ ~Whole(x))
Alike(new, old, x)   == new = old \/ (new = Unresolvable /\ ~Whole(x))

LEMMA KeptAt ==
  ASSUME NEW list \in Nodes \cup {Nowhere}, NEW i \in Nat
  PROVE  Follows(At(Kept(list), i), At(list, i), list)
<1> DEFINE old == Items(list)
           new == Items(Kept(list))
<1>1. PICK n \in Nat : n <= Len(old) /\ Len(new) = n /\ DOMAIN new = 1..n  BY KeptItems
<1>2. DOMAIN new = {k \in DOMAIN old : k <= MaxSampleRows} /\ \A k \in DOMAIN new : new[k] = Kept(old[k])
  BY KeptItems
<1>3. Len(old) \in Nat /\ DOMAIN old = 1..Len(old)
  <2>1. old \in Seq(Nodes)  BY JsonParts
  <2> HIDE DEF old
  <2> QED  BY <2>1
<1>4. At(Kept(list), i) = IF i \in 0..(Len(new) - 1) THEN new[i + 1] ELSE Nowhere  BY DEF At
<1>5. At(list, i) = IF i \in 0..(Len(old) - 1) THEN old[i + 1] ELSE Nowhere  BY DEF At
<1>6. Whole(list) => \A k \in DOMAIN old : k <= MaxSampleRows  BY WholeParts
<1> HIDE DEF old, new
<1>7. CASE i < n
  <2>1. i \in 0..(Len(new) - 1) /\ i \in 0..(Len(old) - 1) /\ i + 1 \in DOMAIN new  BY <1>1, <1>3, <1>7
  <2> QED  BY <1>2, <1>4, <1>5, <2>1 DEF Follows
<1>8. CASE i >= Len(old)
  <2>1. i \notin 0..(Len(new) - 1) /\ i \notin 0..(Len(old) - 1)  BY <1>1, <1>3, <1>8
  <2>2. Kept(Nowhere) = Nowhere  BY DEF Kept
  <2> QED  BY <1>4, <1>5, <2>1, <2>2 DEF Follows
<1>9. CASE i >= n /\ i < Len(old)
  <2>1. i \notin 0..(Len(new) - 1) /\ i + 1 \in DOMAIN old /\ i + 1 \notin DOMAIN new  BY <1>1, <1>3, <1>9
  <2>2. ~Whole(list)  BY <1>2, <1>6, <2>1
  <2> QED  BY <1>4, <2>1, <2>2 DEF Follows
<1> QED  BY <1>1, <1>3, <1>7, <1>8, <1>9

(* The first element with a key stays the first, if it is kept.            *)
Having(x, field, key) == {i \in DOMAIN Items(x) : Field(Items(x)[i], field) = Text(key)}

LEMMA KeptHaving ==
  ASSUME NEW x \in Nodes \cup {Nowhere}, NEW field, NEW key, ~Telling(key)
  PROVE  LET old == Having(x, field, key)
             new == Having(Kept(x), field, key)
         IN /\ new # {} => /\ old # {} /\ Min(new) = Min(old) /\ Min(new) \in DOMAIN Items(Kept(x))
            /\ new = {} => old = {} \/ ~Whole(x)
<1> DEFINE s == Items(x)
           t == Items(Kept(x))
           old == Having(x, field, key)
           new == Having(Kept(x), field, key)
           M == MaxSampleRows
<1>1. s \in Seq(Nodes)  BY JsonParts
<1>2. DOMAIN t = {k \in DOMAIN s : k <= M} /\ \A k \in DOMAIN t : t[k] = Kept(s[k])  BY KeptItems
<1>3. Whole(x) => \A k \in DOMAIN s : k <= M  BY WholeParts
<1>4. old = {i \in DOMAIN s : Field(s[i], field) = Text(key)}  BY DEF Having
<1>5. new = {i \in DOMAIN t : Field(t[i], field) = Text(key)}  BY DEF Having
<1> HIDE DEF s, t, old, new
<1>6. DOMAIN s \subseteq Nat /\ \A i \in DOMAIN s : s[i] \in Nodes  BY <1>1
<1>7. M \in Nat  BY AuditAssumption
<1>8. ASSUME NEW i \in DOMAIN t PROVE Field(t[i], field) = Text(key) <=> Field(s[i], field) = Text(key)
  <2>1. i \in DOMAIN s /\ s[i] \in Nodes \cup {Nowhere}  BY <1>2, <1>6
  <2>2. Field(t[i], field) = Kept(Field(s[i], field))  BY <1>2, <2>1, KeptField
  <2>3. Field(s[i], field) \in Nodes \cup {Nowhere}  BY <2>1, JsonParts
  <2> QED  BY <2>2, <2>3, KeptText
<1>9. new = {i \in old : i <= M}  BY <1>2, <1>4, <1>5, <1>8
<1> HIDE DEF M
<1>10. old \subseteq Nat /\ new \subseteq Nat  BY <1>4, <1>6, <1>9
<1>11. ASSUME new # {} PROVE old # {} /\ Min(new) = Min(old) /\ Min(new) \in DOMAIN t
  <2>1. old # {}  BY <1>9, <1>11
  <2>2. Min(old) \in old /\ \A i \in old : Min(old) <= i  BY <1>10, <2>1, Smallest
  <2>3. Min(new) \in new /\ \A i \in new : Min(new) <= i  BY <1>10, <1>11, Smallest
  <2>4. Min(new) \in old /\ Min(new) <= M  BY <1>9, <2>3
  <2>5. Min(old) <= Min(new)  BY <2>2, <2>4
  <2>6. Min(old) \in Nat /\ Min(new) \in Nat  BY <1>10, <2>2, <2>3
  <2>7. Min(old) <= M  BY <1>7, <2>4, <2>5, <2>6
  <2>8. Min(old) \in new  BY <1>9, <2>2, <2>7
  <2>9. Min(new) <= Min(old)  BY <2>3, <2>8
  <2>10. Min(new) = Min(old)  BY <2>5, <2>6, <2>9
  <2> QED  BY <1>5, <2>1, <2>3, <2>10
<1>12. ASSUME new = {}, old # {} PROVE ~Whole(x)
  <2>1. PICK i \in old : TRUE  BY <1>12
  <2>2. ~(i <= M)  BY <1>9, <1>12, <2>1
  <2> QED  BY <1>3, <1>4, <2>1, <2>2
<1> QED  BY <1>11, <1>12 DEF new, old, t

LEMMA FollowsUp ==
  ASSUME NEW x \in Nodes \cup {Nowhere}, NEW name, NEW new, NEW old, Follows(new, old, Field(x, name))
  PROVE  Follows(new, old, x)
<1>1. Whole(x) => Whole(Field(x, name))  BY WholeParts
<1> QED  BY <1>1 DEF Follows

LEMMA KeptSelected ==
  ASSUME NEW x \in Nodes \cup {Nowhere}, NEW name, NEW key, ~Telling(key)
  PROVE  Follows(Selected(Kept(x), name, key), Selected(x, name, key), x)
<1>0. Kept(Nowhere) = Nowhere  BY DEF Kept
<1>1. CASE name \in DOMAIN KeyedArray
  <2> DEFINE L == KeyedArray[name].list
             F == KeyedArray[name].field
             y == Field(x, L)
             old == Having(y, F, key)
             new == Having(Kept(y), F, key)
  <2>1. y \in Nodes \cup {Nowhere}  BY JsonParts
  <2>2. Field(Kept(x), L) = Kept(y)  BY KeptField
  <2>3. Selected(x, name, key) = IF old = {} THEN Nowhere ELSE Items(y)[Min(old)]
    BY <1>1 DEF Selected, Having
  <2>4. Selected(Kept(x), name, key) = IF new = {} THEN Nowhere ELSE Items(Kept(y))[Min(new)]
    <3>1. Selected(Kept(x), name, key) =
            IF Having(Field(Kept(x), L), F, key) = {} THEN Nowhere
            ELSE Items(Field(Kept(x), L))[Min(Having(Field(Kept(x), L), F, key))]
      BY <1>1 DEF Selected, Having
    <3> QED  BY <2>2, <3>1
  <2>5. /\ new # {} => old # {} /\ Min(new) = Min(old) /\ Min(new) \in DOMAIN Items(Kept(y))
        /\ new = {} => old = {} \/ ~Whole(y)
    BY <2>1, KeptHaving
  <2>6. \A i \in DOMAIN Items(Kept(y)) : Items(Kept(y))[i] = Kept(Items(y)[i])  BY <2>1, KeptItems
  <2>7. Whole(x) => Whole(y)  BY WholeParts
  <2> HIDE DEF y, old, new
  <2>8. CASE new = {}  BY <1>0, <2>3, <2>4, <2>5, <2>7, <2>8 DEF Follows
  <2>9. CASE new # {}
    <3>1. Selected(Kept(x), name, key) = Kept(Items(y)[Min(new)])  BY <2>4, <2>5, <2>6, <2>9
    <3>2. Selected(x, name, key) = Items(y)[Min(new)]  BY <2>3, <2>5, <2>9
    <3> QED  BY <3>1, <3>2 DEF Follows
  <2> QED  BY <2>8, <2>9
<1>2. CASE name \notin DOMAIN KeyedArray /\ IsNumeral(key)
  <2>1. Selected(x, name, key) = At(Field(x, name), Atoi(key))  BY <1>2 DEF Selected
  <2>2. Selected(Kept(x), name, key) = At(Field(Kept(x), name), Atoi(key))  BY <1>2 DEF Selected
  <2>3. Field(Kept(x), name) = Kept(Field(x, name))  BY KeptField
  <2>4. Field(x, name) \in Nodes \cup {Nowhere}  BY JsonParts
  <2>5. Atoi(key) \in Nat  BY <1>2, NumeralFacts
  <2>6. Follows(At(Kept(Field(x, name)), Atoi(key)), At(Field(x, name), Atoi(key)), Field(x, name))
    BY <2>4, <2>5, KeptAt
  <2>7. Follows(At(Kept(Field(x, name)), Atoi(key)), At(Field(x, name), Atoi(key)), x)  BY <2>6, FollowsUp
  <2> QED  BY <2>1, <2>2, <2>3, <2>7
<1>3. CASE name \notin DOMAIN KeyedArray /\ ~IsNumeral(key)
  <2>1. Selected(x, name, key) = Nowhere /\ Selected(Kept(x), name, key) = Nowhere  BY <1>3 DEF Selected
  <2> QED  BY <1>0, <2>1 DEF Follows
<1> QED  BY <1>1, <1>2, <1>3

LEMMA WholeAt ==
  ASSUME NEW list \in Nodes \cup {Nowhere}, NEW i \in Nat, Whole(list)
  PROVE  Whole(At(list, i))
<1>1. CASE i + 1 \in DOMAIN Items(list)
  <2>1. At(list, i) = Items(list)[i + 1]  BY <1>1, AtElement
  <2> QED  BY <1>1, <2>1, WholeParts
<1>2. CASE i + 1 \notin DOMAIN Items(list)
  <2>1. At(list, i) = Nowhere  BY <1>2, AtElement
  <2> QED  BY <2>1 DEF Whole
<1> QED  BY <1>1, <1>2

LEMMA WholeSelected ==
  ASSUME NEW x \in Nodes \cup {Nowhere}, NEW name, NEW key, Whole(x)
  PROVE  Whole(Selected(x, name, key))
<1>1. CASE name \in DOMAIN KeyedArray
  <2> DEFINE L == KeyedArray[name].list
             F == KeyedArray[name].field
             y == Field(x, L)
             old == Having(y, F, key)
  <2>1. y \in Nodes \cup {Nowhere} /\ Whole(y)  BY JsonParts, WholeParts
  <2>2. Selected(x, name, key) = IF old = {} THEN Nowhere ELSE Items(y)[Min(old)]
    BY <1>1 DEF Selected, Having
  <2>3. \A i \in DOMAIN Items(y) : Whole(Items(y)[i])  BY <2>1, WholeParts
  <2>4. old \subseteq DOMAIN Items(y)  BY DEF Having
  <2>5. DOMAIN Items(y) \subseteq Nat
    <3>1. Items(y) \in Seq(Nodes)  BY <2>1, JsonParts
    <3> QED  BY <3>1
  <2> HIDE DEF y, old
  <2>6. CASE old # {}
    <3>1. old \subseteq Nat  BY <2>4, <2>5
    <3>2. Min(old) \in old  BY <2>6, <3>1, Smallest
    <3> QED  BY <2>2, <2>3, <2>4, <2>6, <3>2
  <2>7. CASE old = {}  BY <2>2, <2>7 DEF Whole
  <2> QED  BY <2>6, <2>7
<1>2. CASE name \notin DOMAIN KeyedArray /\ IsNumeral(key)
  <2>1. Selected(x, name, key) = At(Field(x, name), Atoi(key))  BY <1>2 DEF Selected
  <2>2. Field(x, name) \in Nodes \cup {Nowhere} /\ Whole(Field(x, name))  BY JsonParts, WholeParts
  <2>3. Atoi(key) \in Nat  BY <1>2, NumeralFacts
  <2> QED  BY <2>1, <2>2, <2>3, WholeAt
<1>3. CASE name \notin DOMAIN KeyedArray /\ ~IsNumeral(key)
  <2>1. Selected(x, name, key) = Nowhere  BY <1>3 DEF Selected
  <2> QED  BY <2>1 DEF Whole
<1> QED  BY <1>1, <1>2, <1>3

(* A path that names nothing private.                                      *)
Public(path) ==
  \A i \in DOMAIN path :
    ~Telling(path[i].name) /\ \A k \in DOMAIN path[i].keys : ~Telling(path[i].keys[k])

LEMMA DownCases ==
  ASSUME NEW x, NEW seg
  PROVE  /\ Len(seg.keys) = 0 => Down(x, seg) = Field(x, seg.name)
         /\ Len(seg.keys) = 1 => Down(x, seg) = Selected(x, seg.name, seg.keys[1])
         /\ Len(seg.keys) # 0 /\ Len(seg.keys) # 1 => Down(x, seg) = Nowhere
BY DEF Down, Child

LEMMA KeptDown ==
  ASSUME NEW x \in Nodes \cup {Nowhere}, NEW seg \in Segments, \A k \in DOMAIN seg.keys : ~Telling(seg.keys[k])
  PROVE  /\ Follows(Down(Kept(x), seg), Down(x, seg), x)
         /\ Whole(x) => Whole(Down(x, seg))
<1>1. seg.keys \in Seq(Texts)  BY SegmentParts
<1>2. CASE Len(seg.keys) = 0
  <2>1. Down(x, seg) = Field(x, seg.name)  BY <1>2, DownCases
  <2>2. Down(Kept(x), seg) = Field(Kept(x), seg.name)  BY <1>2, DownCases
  <2>3. Field(Kept(x), seg.name) = Kept(Field(x, seg.name))  BY KeptField
  <2>4. Whole(x) => Whole(Field(x, seg.name))  BY WholeParts
  <2> QED  BY <2>1, <2>2, <2>3, <2>4 DEF Follows
<1>3. CASE Len(seg.keys) = 1
  <2>1. 1 \in DOMAIN seg.keys
    <3> DEFINE s == seg.keys
    <3> HIDE DEF s
    <3>1. s \in Seq(Texts) /\ Len(s) = 1  BY <1>1, <1>3 DEF s
    <3>2. 1 \in DOMAIN s  BY <3>1
    <3> QED  BY <3>2 DEF s
  <2>2. ~Telling(seg.keys[1])  BY <2>1
  <2>3. Down(x, seg) = Selected(x, seg.name, seg.keys[1])  BY <1>3, DownCases
  <2>4. Down(Kept(x), seg) = Selected(Kept(x), seg.name, seg.keys[1])  BY <1>3, DownCases
  <2>5. Follows(Selected(Kept(x), seg.name, seg.keys[1]), Selected(x, seg.name, seg.keys[1]), x)
    BY <2>2, KeptSelected
  <2>6. Whole(x) => Whole(Selected(x, seg.name, seg.keys[1]))  BY WholeSelected
  <2> QED  BY <2>3, <2>4, <2>5, <2>6
<1>4. CASE Len(seg.keys) # 0 /\ Len(seg.keys) # 1
  <2>1. Down(x, seg) = Nowhere  BY <1>4, DownCases
  <2>2. Down(Kept(x), seg) = Nowhere  BY <1>4, DownCases
  <2> QED  BY <2>1, <2>2 DEF Follows, Kept, Whole
<1> QED  BY <1>2, <1>3, <1>4

(* Walking what was kept of a value.                                       *)
LEMMA LedSteps ==
  ASSUME NEW node, NEW path \in Seq(Segments)
  PROVE  /\ Led(node, path)[0] = node
         /\ \A n \in 1..Len(path) : Led(node, path)[n] = Down(Led(node, path)[n - 1], path[n])
<1> DEFINE b == TRUE
<1>1. Led(node, path) = Through(node, path, b)  BY DEF Led
<1>2. \A x, y : Down(x, y) = Child(x, y, b)  BY DEF Down
<1> HIDE DEF b
<1> DEFINE at == Through(node, path, b)
<1>3. at[0] = node /\ \A n \in 1..Len(path) : at[n] = Child(at[n - 1], path[n], b)  BY ThroughSteps
<1> HIDE DEF at
<1> QED  BY <1>1, <1>2, <1>3 DEF at

LEMMA KeptWalk ==
  ASSUME NEW json \in Nodes \cup {Nowhere}, NEW path \in Seq(Segments), Public(path)
  PROVE  \A n \in 0..Len(path) :
           /\ Follows(Led(Kept(json), path)[n], Led(json, path)[n], json)
           /\ Whole(json) => Whole(Led(json, path)[n])
<1> DEFINE N == Len(path)
           old == Led(json, path)
           new == Led(Kept(json), path)
           good == {n \in 0..N : Follows(new[n], old[n], json) /\ (Whole(json) => Whole(old[n]))}
<1>1. N \in Nat /\ \A n \in 1..N : path[n] \in Segments /\ n \in DOMAIN path  OBVIOUS
<1>2. old[0] = json /\ \A n \in 1..N : old[n] = Down(old[n - 1], path[n])  BY LedSteps
<1>3. new[0] = Kept(json) /\ \A n \in 1..N : new[n] = Down(new[n - 1], path[n])  BY LedSteps
<1>4. \A n \in 0..N : old[n] \in Nodes \cup {Nowhere}  BY LedUnfolds
<1> HIDE DEF old, new
<1>5. 0 \in good  BY <1>1, <1>2, <1>3 DEF Follows
<1>6. ASSUME NEW n \in 1..N, n - 1 \in good PROVE n \in good
  <2> DEFINE x == old[n - 1]
             y == new[n - 1]
             seg == path[n]
  <2>1. n - 1 \in 0..N /\ n \in 0..N  BY <1>1
  <2>2. x \in Nodes \cup {Nowhere} /\ seg \in Segments  BY <1>1, <1>4, <2>1
  <2>3. \A k \in DOMAIN seg.keys : ~Telling(seg.keys[k])  BY <1>1 DEF Public
  <2>4. Follows(y, x, json) /\ (Whole(json) => Whole(x))  BY <1>6
  <2>5. old[n] = Down(x, seg) /\ new[n] = Down(y, seg)  BY <1>2, <1>3
  <2> HIDE DEF x, y, seg
  <2>6. Follows(Down(Kept(x), seg), Down(x, seg), x) /\ (Whole(x) => Whole(Down(x, seg)))
    BY <2>2, <2>3, KeptDown
  <2>7. Down(Nowhere, seg) = Nowhere  BY <2>2, DownFacts
  <2>8. Follows(new[n], old[n], json)  BY <2>4, <2>5, <2>6, <2>7 DEF Follows
  <2>9. Whole(json) => Whole(old[n])  BY <2>4, <2>5, <2>6
  <2> QED  BY <2>1, <2>8, <2>9
<1> HIDE DEF good
<1>7. \A n \in 0..N : n \in good  BY <1>1, <1>5, <1>6, StepByStep
<1> QED  BY <1>7 DEF good, old, new

LEMMA LostStays ==
  ASSUME NEW node, NEW path \in Seq(Segments)
  PROVE  \A n \in 0..Len(path) : \A k \in 0..n : Led(node, path)[k] = Nowhere => Led(node, path)[n] = Nowhere
<1> DEFINE N == Len(path)
           at == Led(node, path)
           good == {n \in 0..N : \A k \in 0..n : at[k] = Nowhere => at[n] = Nowhere}
<1>1. N \in Nat /\ \A n \in 1..N : path[n] \in Segments  OBVIOUS
<1>2. \A n \in 1..N : at[n] = Down(at[n - 1], path[n])  BY LedSteps
<1> HIDE DEF at
<1>3. 0 \in good  BY <1>1
<1>4. ASSUME NEW n \in 1..N, n - 1 \in good PROVE n \in good
  <2>1. path[n] \in Segments  BY <1>1
  <2>2. Down(Nowhere, path[n]) = Nowhere  BY <2>1, DownFacts
  <2>3. at[n - 1] = Nowhere => at[n] = Nowhere  BY <1>2, <2>2
  <2>4. ASSUME NEW k \in 0..n, at[k] = Nowhere PROVE at[n] = Nowhere
    <3>1. k = n \/ k \in 0..(n - 1)  OBVIOUS
    <3>2. CASE k \in 0..(n - 1)  BY <1>4, <2>3, <2>4, <3>2
    <3> QED  BY <2>4, <3>1, <3>2
  <2>5. n \in 0..N  BY <1>1
  <2> QED  BY <2>4, <2>5
<1> HIDE DEF good
<1>5. \A n \in 0..N : n \in good  BY <1>1, <1>3, <1>4, StepByStep
<1> QED  BY <1>5 DEF good, at

-----------------------------------------------------------------------------
(* Cells of what was kept                                                  *)
LEMMA KeptLeaf ==
  ASSUME NEW x \in Nodes \cup {Nowhere}
  PROVE  Leaf(Kept(x)) = Leaf(x)
<1>1. Kept(x).is = x.is  BY KeptKinds
<1>2. x.is = "number" => Kept(x) = x  BY KeptKinds
<1> QED  BY <1>1, <1>2 DEF Leaf

LEMMA KeptCell ==
  ASSUME NEW row \in Nodes \cup {Nowhere}, NEW c \in Int
  PROVE  Alike(Cell(Kept(row), c), Cell(row, c), row)
<1> DEFINE s == Items(row)
           t == Items(Kept(row))
<1>1. CASE row.is = "list"
  <2>1. PICK n \in Nat : n <= Len(s) /\ Len(t) = n /\ DOMAIN t = 1..n  BY KeptItems
  <2>2. DOMAIN t = {k \in DOMAIN s : k <= MaxSampleRows} /\ \A k \in DOMAIN t : t[k] = Kept(s[k])  BY KeptItems
  <2>3. s \in Seq(Nodes)  BY JsonParts
  <2>4. Kept(row).is = "list"  BY <1>1, KeptKinds
  <2>5. Cell(row, c) = IF c \in 0..(Len(s) - 1) THEN Leaf(s[c + 1]) ELSE Unresolvable  BY <1>1 DEF Cell, Items
  <2>6. Cell(Kept(row), c) = IF c \in 0..(Len(t) - 1) THEN Leaf(t[c + 1]) ELSE Unresolvable  BY <2>4 DEF Cell, Items
  <2>7. Whole(row) => \A k \in DOMAIN s : k <= MaxSampleRows  BY WholeParts
  <2> HIDE DEF s, t
  <2>8. Len(s) \in Nat /\ DOMAIN s = 1..Len(s) /\ \A k \in DOMAIN s : s[k] \in Nodes  BY <2>3
  <2>9. CASE c \in 0..(n - 1)
    <3>1. c \in 0..(Len(t) - 1) /\ c \in 0..(Len(s) - 1) /\ c + 1 \in DOMAIN t /\ c + 1 \in DOMAIN s
      BY <2>1, <2>8, <2>9
    <3>2. s[c + 1] \in Nodes \cup {Nowhere} /\ t[c + 1] = Kept(s[c + 1])  BY <2>2, <2>8, <3>1
    <3>3. Leaf(t[c + 1]) = Leaf(s[c + 1])  BY <3>2, KeptLeaf
    <3> QED  BY <2>5, <2>6, <3>1, <3>3 DEF Alike
  <2>10. CASE c \notin 0..(Len(s) - 1)
    <3>1. c \notin 0..(Len(t) - 1)  BY <2>1, <2>8, <2>10
    <3> QED  BY <2>5, <2>6, <2>10, <3>1 DEF Alike
  <2>11. CASE c \notin 0..(n - 1) /\ c \in 0..(Len(s) - 1)
    <3>1. c \notin 0..(Len(t) - 1) /\ c + 1 \in DOMAIN s /\ c + 1 \notin DOMAIN t  BY <2>1, <2>8, <2>11
    <3>2. ~Whole(row)  BY <2>2, <2>7, <3>1
    <3> QED  BY <2>6, <3>1, <3>2 DEF Alike
  <2> QED  BY <2>9, <2>10, <2>11
<1>2. CASE row.is # "list"
  <2>1. Kept(row).is # "list"  BY <1>2, KeptKinds
  <2> QED  BY <1>2, <2>1 DEF Cell, Alike
<1> QED  BY <1>1, <1>2

LEMMA KeptColumn ==
  ASSUME NEW table \in Nodes \cup {Nowhere}, NEW name, ~Telling(name)
  PROVE  \/ Column(Kept(table), name) = Column(table, name)
         \/ Column(Kept(table), name) = -1 /\ ~Whole(table)
<1> DEFINE y == Field(table, "columns")
           old == Having(y, "name", name)
           new == Having(Kept(y), "name", name)
<1>1. y \in Nodes \cup {Nowhere}  BY JsonParts
<1>2. Field(Kept(table), "columns") = Kept(y)  BY KeptField
<1>3. /\ IsNumeral(name) => Column(table, name) = Atoi(name)
      /\ ~IsNumeral(name) /\ old # {} => Column(table, name) = Min(old) - 1
      /\ ~IsNumeral(name) /\ old = {} => Column(table, name) = -1
  BY DEF Column, Having
<1>4. /\ IsNumeral(name) => Column(Kept(table), name) = Atoi(name)
      /\ ~IsNumeral(name) /\ new # {} => Column(Kept(table), name) = Min(new) - 1
      /\ ~IsNumeral(name) /\ new = {} => Column(Kept(table), name) = -1
  <2> DEFINE z == Field(Kept(table), "columns")
             had == Having(z, "name", name)
  <2>1. /\ IsNumeral(name) => Column(Kept(table), name) = Atoi(name)
        /\ ~IsNumeral(name) /\ had # {} => Column(Kept(table), name) = Min(had) - 1
        /\ ~IsNumeral(name) /\ had = {} => Column(Kept(table), name) = -1
    BY DEF Column, Having
  <2>2. had = new  BY <1>2
  <2> QED  BY <2>1, <2>2
<1>5. /\ new # {} => old # {} /\ Min(new) = Min(old)
      /\ new = {} => old = {} \/ ~Whole(y)
  BY <1>1, KeptHaving
<1>6. Whole(table) => Whole(y)  BY WholeParts
<1> HIDE DEF y, old, new
<1> QED  BY <1>3, <1>4, <1>5, <1>6

LEMMA KeptTableCell ==
  ASSUME NEW table \in Nodes \cup {Nowhere}, NEW path \in Seq(Segments), path # <<>>, Public(path)
  PROVE  Alike(TableCell(Kept(table), path), TableCell(table, path), table)
<1>1. CASE \E key, column : IsNumeral(key) /\ Addresses(path, key, column)
  <2>1. PICK key, column : IsNumeral(key) /\ Addresses(path, key, column)  BY <1>1
  <2>2. TableCell(table, path) = Cell(RowAt(table, key), Column(table, column))  BY <2>1, TableCellAt
  <2>3. TableCell(Kept(table), path) = Cell(RowAt(Kept(table), key), Column(Kept(table), column))
    <3> DEFINE k == Kept(table)
    <3> HIDE DEF k
    <3>1. TableCell(k, path) = Cell(RowAt(k, key), Column(k, column))  BY <2>1, TableCellAt
    <3> QED  BY <3>1 DEF k
  <2>4. ~Telling(column)
    <3>1. CASE Len(path) = 2 /\ path[2].name = column
      <4>1. 2 \in DOMAIN path  BY <3>1
      <4> QED  BY <3>1, <4>1 DEF Public
    <3>2. CASE Len(path) = 1 /\ Len(path[1].keys) = 2 /\ path[1].keys[2] = column
      <4>1. 1 \in DOMAIN path /\ path[1] \in Segments  BY <3>2
      <4>2. path[1].keys \in Seq(Texts)  BY <4>1, SegmentParts
      <4> DEFINE s == path[1].keys
      <4> HIDE DEF s
      <4>3. s \in Seq(Texts) /\ Len(s) = 2  BY <3>2, <4>2 DEF s
      <4>4. 2 \in DOMAIN s  BY <4>3
      <4> QED  BY <3>2, <4>1, <4>4 DEF Public, s
    <3> QED  BY <2>1, <3>1, <3>2 DEF Addresses
  <2>5. column \in Texts  BY <2>1, AddressTexts
  <2> DEFINE rows == Field(table, "rows")
             i == Atoi(key)
             old == At(rows, i)
             new == At(Kept(rows), i)
             c == Column(table, column)
             d == Column(Kept(table), column)
  <2>6. i \in Nat  BY <2>1, NumeralFacts
  <2>7. rows \in Nodes \cup {Nowhere}  BY JsonParts
  <2>8. RowAt(table, key) = old  BY DEF RowAt
  <2>9. RowAt(Kept(table), key) = new
    <3>1. Field(Kept(table), "rows") = Kept(rows)  BY KeptField
    <3> QED  BY <3>1 DEF RowAt
  <2>10. Follows(new, old, rows)  BY <2>6, <2>7, KeptAt
  <2>11. old \in Nodes \cup {Nowhere}  BY <2>6, <2>7, AtElement
  <2>12. Whole(table) => Whole(old)
    <3>1. Whole(table) => Whole(rows)  BY WholeParts
    <3>2. Whole(rows) => Whole(old)  BY <2>6, <2>7, WholeAt
    <3> QED  BY <3>1, <3>2
  <2>13. Whole(table) => Whole(rows)  BY WholeParts
  <2>14. c \in Int  BY <2>5, ColumnPosition
  <2>15. d = c \/ (d = -1 /\ ~Whole(table))  BY <2>4, KeptColumn
  <2>16. Alike(Cell(Kept(old), c), Cell(old, c), old)  BY <2>11, <2>14, KeptCell
  <2>17. \A x : Cell(x, -1) = Unresolvable  BY DEF Cell
  <2>18. \A n : Cell(Nowhere, n) = Unresolvable  BY DEF Cell, Nowhere
  <2> HIDE DEF rows, i, old, new, c, d
  <2>19. Alike(Cell(new, d), Cell(old, c), table)
    BY <2>10, <2>12, <2>13, <2>15, <2>16, <2>17, <2>18 DEF Alike, Follows
  <2> QED  BY <2>2, <2>3, <2>8, <2>9, <2>19 DEF c, d
<1>2. CASE \A key, column : IsNumeral(key) => ~Addresses(path, key, column)
  <2>1. TableCell(table, path) = Unresolvable  BY <1>2, TableCellAt
  <2>2. TableCell(Kept(table), path) = Unresolvable
    <3> DEFINE k == Kept(table)
    <3> HIDE DEF k
    <3>1. TableCell(k, path) = Unresolvable  BY <1>2, TableCellAt
    <3> QED  BY <3>1 DEF k
  <2> QED  BY <2>1, <2>2 DEF Alike
<1> QED  BY <1>1, <1>2

LEMMA RestPublic ==
  ASSUME NEW path \in Seq(Segments), Public(path), NEW m \in 0..(Len(path) - 1)
  PROVE  Rest(path, m) \in Seq(Segments) /\ Rest(path, m) # <<>> /\ Public(Rest(path, m))
<1> DEFINE L == Len(path)
           rest == SubSeq(path, m + 1, L)
<1>1. L \in Nat /\ DOMAIN path = 1..L /\ m \in Nat /\ m <= L - 1  OBVIOUS
<1>2. rest \in Seq(Segments) /\ Len(rest) = L - m /\ \A i \in 1..(L - m) : rest[i] = path[m + i]
  BY <1>1
<1>3. DOMAIN rest = 1..(L - m)  BY <1>2
<1>4. \A i \in 1..(L - m) : m + i \in DOMAIN path  BY <1>1
<1>5. Rest(path, m) = rest  BY DEF Rest
<1> HIDE DEF rest
<1>6. Public(rest)  BY <1>2, <1>3, <1>4 DEF Public
<1>7. rest # <<>>
  <2>1. Len(rest) # 0  BY <1>1, <1>2
  <2> QED  BY <2>1
<1> QED  BY <1>2, <1>5, <1>6, <1>7

(* A cell of what was kept of a result, if it is still found.              *)
LEMMA KeptNavigate ==
  ASSUME NEW json \in Nodes \cup {Nowhere}, NEW path \in Seq(Segments), Public(path)
  PROVE  Alike(Navigate(Kept(json), path), Navigate(json, path), json)
<1> DEFINE L == Len(path)
           old == Led(json, path)
           new == Led(Kept(json), path)
           here == Tables(old, path)
           there == Tables(new, path)
<1>1. L \in Nat /\ L \in 0..L  OBVIOUS
<1>2. \A n \in 0..L : Follows(new[n], old[n], json) /\ (Whole(json) => Whole(old[n]))  BY KeptWalk
<1>3. \A n \in 0..L : \A k \in 0..n : new[k] = Nowhere => new[n] = Nowhere  BY LostStays
<1>4. \A n \in 0..L : old[n] \in Nodes \cup {Nowhere}  BY LedUnfolds
<1>5. Navigate(json, path) =
        IF here = {} THEN Leaf(old[L]) ELSE TableCell(old[Min(here)], Rest(path, Min(here)))
  BY DEF Navigate, Led
<1>6. Navigate(Kept(json), path) =
        IF there = {} THEN Leaf(new[L]) ELSE TableCell(new[Min(there)], Rest(path, Min(there)))
  BY DEF Navigate, Led
<1>7. /\ here = {n \in 0..(L - 1) : IsTable(old[n])}
      /\ there = {n \in 0..(L - 1) : IsTable(new[n])}
  BY DEF Tables
<1> HIDE DEF old, new, here, there
<1>8. \A n \in 0..(L - 1) : n \in 0..L  BY <1>1
<1>9. ~IsTable(Nowhere)  BY DEF IsTable, Field, Nowhere
<1>10. \A n \in 0..L : new[n] # Nowhere => new[n] = Kept(old[n])  BY <1>2 DEF Follows
<1>11. \A n \in 0..L : new[n] = Kept(old[n]) => (IsTable(new[n]) <=> IsTable(old[n]))  BY <1>4, KeptTable
<1>12. here \subseteq Nat /\ there \subseteq Nat  BY <1>7
<1>13. CASE there # {}
  <2> DEFINE m == Min(there)
  <2>1. m \in there /\ \A n \in there : m <= n  BY <1>12, <1>13, Smallest
  <2> HIDE DEF m
  <2>2. m \in 0..(L - 1) /\ m \in 0..L /\ IsTable(new[m])  BY <1>7, <1>8, <2>1
  <2>3. new[m] # Nowhere  BY <1>9, <2>2
  <2>4. new[m] = Kept(old[m]) /\ IsTable(old[m])  BY <1>10, <1>11, <2>2, <2>3
  <2>5. m \in here  BY <1>7, <2>2, <2>4
  <2>6. ASSUME NEW n \in here, n < m PROVE FALSE
    <3>1. n \in 0..(L - 1) /\ n \in 0..L /\ n \in 0..m  BY <1>7, <1>8, <2>2, <2>6
    <3>2. new[n] # Nowhere  BY <1>3, <2>2, <2>3, <3>1
    <3>3. n \in there  BY <1>7, <1>10, <1>11, <3>1, <3>2
    <3>4. m <= n  BY <2>1, <3>3
    <3> QED  BY <2>2, <2>6, <3>1, <3>4
  <2>7. Min(here) = m
    <3>1. here # {}  BY <2>5
    <3>2. Min(here) \in here /\ \A n \in here : Min(here) <= n  BY <1>12, <3>1, Smallest
    <3>3. Min(here) <= m /\ ~(Min(here) < m)  BY <2>5, <2>6, <3>2
    <3>4. Min(here) \in Nat /\ m \in Nat  BY <1>12, <2>1, <3>2
    <3> QED  BY <3>3, <3>4
  <2> DEFINE rest == Rest(path, m)
             table == old[m]
  <2>8. rest \in Seq(Segments) /\ rest # <<>> /\ Public(rest)  BY <2>2, RestPublic
  <2>9. table \in Nodes \cup {Nowhere}  BY <1>4, <2>2
  <2>10. Navigate(json, path) = TableCell(table, rest)
    <3>1. here # {}  BY <2>5
    <3> QED  BY <1>5, <2>7, <3>1
  <2>11. Navigate(Kept(json), path) = TableCell(Kept(table), rest)
    <3>1. Navigate(Kept(json), path) = TableCell(new[m], Rest(path, m))  BY <1>6, <1>13 DEF m
    <3> QED  BY <2>4, <3>1
  <2>12. Whole(json) => Whole(table)  BY <1>2, <2>2
  <2> HIDE DEF rest, table
  <2>13. Alike(TableCell(Kept(table), rest), TableCell(table, rest), table)  BY <2>8, <2>9, KeptTableCell
  <2> QED  BY <2>10, <2>11, <2>12, <2>13 DEF Alike
<1>14. CASE there = {} /\ \A n \in 0..L : new[n] = Kept(old[n])
  <2>1. here = {}  BY <1>7, <1>8, <1>11, <1>14
  <2>2. Leaf(new[L]) = Leaf(old[L])  BY <1>1, <1>4, <1>14, KeptLeaf
  <2> QED  BY <1>5, <1>6, <1>14, <2>1, <2>2 DEF Alike
<1>15. CASE there = {} /\ \E n \in 0..L : new[n] # Kept(old[n])
  <2>1. PICK n \in 0..L : new[n] # Kept(old[n])  BY <1>15
  <2>2. new[n] = Nowhere /\ ~Whole(json)  BY <1>2, <2>1 DEF Follows
  <2>3. n \in 0..L  OBVIOUS
  <2>4. new[L] = Nowhere  BY <1>1, <1>3, <2>2, <2>3
  <2>5. Leaf(Nowhere) = Unresolvable  BY DEF Leaf, Nowhere
  <2> QED  BY <1>6, <1>15, <2>2, <2>4, <2>5 DEF Alike
<1> QED  BY <1>13, <1>14, <1>15

-----------------------------------------------------------------------------
(* Anchors over stored calls                                               *)

(* The result q of a run is stored under the same number, as it is kept.   *)
Backed(run, stored, q) ==
  /\ q \in DOMAIN OKCalls(run) /\ q \in DOMAIN OKCalls(stored)
  /\ OKCalls(run)[q].json \in Nodes
  /\ OKCalls(stored)[q].json = RedactValue[OKCalls(run)[q].json]

Cut(run, cell) == ~Short[OKCalls(run)[cell.q].json]

LEMMA BackedResolve ==
  ASSUME NEW run, NEW stored, NEW cell, cell.path \in Seq(Segments), Public(cell.path),
         Backed(run, stored, cell.q)
  PROVE  \/ Resolve(stored, cell) = Resolve(run, cell)
         \/ Resolve(stored, cell) = Unresolvable /\ Cut(run, cell)
<1> DEFINE json == OKCalls(run)[cell.q].json
           path == cell.path
<1>1. json \in Nodes /\ json # Nowhere  BY NodeFacts DEF Backed
<1>2. Root(run, cell.q) = json /\ Root(stored, cell.q) = Kept(json)  BY <1>1 DEF Backed, Root, Kept
<1>3. CASE path = <<>>  BY <1>3 DEF Resolve
<1>4. CASE path # <<>>
  <2>1. Resolve(run, cell) = Navigate(json, path)  BY <1>2, <1>4 DEF Resolve
  <2>2. Resolve(stored, cell) = Navigate(Kept(json), path)  BY <1>2, <1>4 DEF Resolve
  <2>3. Cut(run, cell) <=> ~Whole(json)  BY <1>1 DEF Cut, Whole
  <2>4. path \in Seq(Segments) /\ Public(path)  OBVIOUS
  <2> HIDE DEF json, path
  <2>5. Alike(Navigate(Kept(json), path), Navigate(json, path), json)  BY <1>1, <2>4, KeptNavigate
  <2> QED  BY <2>1, <2>2, <2>3, <2>5 DEF Alike
<1> QED  BY <1>3, <1>4

SomeCut(run, anchor) == \E c \in Cites(anchor) : Cut(run, c)
Fades(new, old, run, anchor) == new = old \/ (new = Unresolvable /\ SomeCut(run, anchor))

Unusable(op, operands) ==
  {i \in DOMAIN operands : operands[i].why # "" \/ (DerivOps[op] >= 0 /\ Len(operands[i].values) # 1)}

Deciding(outcome) == IF outcome.why # "" THEN outcome ELSE Unresolvable

LEMMA CombineFades ==
  ASSUME NEW op, NEW n \in Nat, NEW new, NEW old, NEW run, NEW anchor,
         new = [i \in 1..n |-> new[i]], old = [i \in 1..n |-> old[i]],
         \A i \in 1..n : Fades(new[i], old[i], run, anchor)
  PROVE  Fades(Combine(op, new), Combine(op, old), run, anchor)
<1>0. Unresolvable.why # "" /\ Failed("unsupported") = Failed("unsupported")  BY SingleFacts
<1>1. CASE op \notin DOMAIN DerivOps  BY <1>1 DEF Combine, Fades
<1>2. CASE op \in DOMAIN DerivOps /\ \A i \in 1..n : new[i] = old[i]
  <2>1. [i \in 1..n |-> new[i]] = [i \in 1..n |-> old[i]]  BY <1>2
  <2>2. new = old  BY <2>1
  <2> QED  BY <2>2 DEF Fades
<1>3. CASE op \in DOMAIN DerivOps /\ \E i \in 1..n : new[i] # old[i]
  <2> DEFINE gone == Unusable(op, new)
             bad == Unusable(op, old)
             j == Min(gone)
             Uses(outcome) == ~(outcome.why # "" \/ (DerivOps[op] >= 0 /\ Len(outcome.values) # 1))
  <2>1. PICK i \in 1..n : new[i] # old[i]  BY <1>3
  <2>2. new[i] = Unresolvable /\ SomeCut(run, anchor)  BY <2>1 DEF Fades
  <2>3. DOMAIN new = 1..n /\ DOMAIN old = 1..n  OBVIOUS
  <2>4. gone = {k \in 1..n : ~Uses(new[k])} /\ bad = {k \in 1..n : ~Uses(old[k])}  BY <2>3 DEF Unusable
  <2>5. ~Uses(Unresolvable)  BY <1>0
  <2>6. gone # {} =>
          Combine(op, new) = Deciding(new[j])
    BY <1>3 DEF Combine, Unusable, Deciding
  <2>7. bad # {} =>
          Combine(op, old) = Deciding(old[Min(bad)])
    BY <1>3 DEF Combine, Unusable, Deciding
  <2> HIDE DEF gone, bad, Uses
  <2>8. i \in gone  BY <2>2, <2>4, <2>5
  <2>9. gone \subseteq Nat /\ bad \subseteq Nat  BY ONLY <2>4, n \in Nat
  <2>10. j \in gone /\ \A k \in gone : j <= k
    <3>1. gone # {}  BY <2>8
    <3> QED  BY <2>9, <3>1, Smallest
  <2> HIDE DEF j
  <2>11. j \in 1..n /\ ~Uses(new[j])  BY <2>4, <2>10
  <2>12. CASE new[j] # old[j]
    <3>1. new[j] = Unresolvable  BY <2>11, <2>12 DEF Fades
    <3>2. Combine(op, new) = Unresolvable  BY <1>0, <2>6, <2>8, <3>1 DEF Deciding
    <3> QED  BY <2>2, <3>2 DEF Fades
  <2>13. CASE new[j] = old[j]
    <3>1. j \in bad  BY <2>4, <2>11, <2>13
    <3>2. ASSUME NEW k \in bad, k < j PROVE FALSE
      <4>1. k \in 1..n /\ ~Uses(old[k])  BY <2>4, <3>2
      <4>2. k \notin gone
        <5>1. k \in Nat /\ j \in Nat  BY <2>9, <2>10
        <5> QED  BY <2>10, <3>2, <5>1
      <4>3. Uses(new[k])  BY <2>4, <4>1, <4>2
      <4>4. new[k] # Unresolvable  BY <2>5, <4>3
      <4>5. new[k] = old[k]  BY <4>1, <4>4 DEF Fades
      <4> QED  BY <4>1, <4>3, <4>5
    <3>3. Min(bad) = j
      <4>1. bad # {}  BY <3>1
      <4>2. Min(bad) \in bad /\ \A k \in bad : Min(bad) <= k  BY <2>9, <4>1, Smallest
      <4>3. Min(bad) <= j /\ ~(Min(bad) < j)  BY <3>1, <3>2, <4>2
      <4>4. Min(bad) \in Nat /\ j \in Nat  BY <2>9, <2>10, <4>2
      <4> QED  BY <4>3, <4>4
    <3>4. bad # {} /\ gone # {}  BY <2>8, <3>1
    <3>5. Combine(op, new) = Deciding(new[j])  BY <2>6, <3>4
    <3>6. Combine(op, old) = Deciding(old[j])  BY <2>7, <3>3, <3>4
    <3>7. Combine(op, new) = Combine(op, old)  BY ONLY <2>13, <3>5, <3>6
    <3> QED  BY <3>7 DEF Fades
  <2> QED  BY <2>12, <2>13
<1> QED  BY <1>1, <1>2, <1>3

LEMMA NamesPublic ==
  ASSUME NEW cell, Names(cell) \cap (Private \cup {Placeholder}) = {}
  PROVE  Public(cell.path)
<1>1. \A i \in DOMAIN cell.path : cell.path[i].name \in Names(cell)  BY DEF Names
<1>2. \A i \in DOMAIN cell.path : \A k \in DOMAIN cell.path[i].keys : cell.path[i].keys[k] \in Names(cell)
  BY DEF Names, ToSet
<1> QED  BY <1>1, <1>2 DEF Public, Telling

LEMMA TextsRedacted == \A text \in Texts : RedactText(text) \in Texts
BY AuditAssumption DEF RedactText

LEMMA RedactedKeys ==
  ASSUME NEW keys \in Seq(Texts)
  PROVE  LET new == [k \in DOMAIN keys |-> RedactText(keys[k])] IN
         /\ new \in Seq(Texts)
         /\ (\A k \in DOMAIN keys : ~Telling(keys[k])) => new = keys
<1> DEFINE new == [k \in DOMAIN keys |-> RedactText(keys[k])]
<1>1. Len(keys) \in Nat /\ DOMAIN keys = 1..Len(keys) /\ \A k \in DOMAIN keys : keys[k] \in Texts  OBVIOUS
<1>2. \A k \in DOMAIN keys : RedactText(keys[k]) \in Texts  BY <1>1, TextsRedacted
<1>3. new \in [1..Len(keys) -> Texts]  BY <1>1, <1>2
<1>4. new \in Seq(Texts)
  <2> HIDE DEF new
  <2> QED  BY <1>1, <1>3
<1>5. ASSUME \A k \in DOMAIN keys : ~Telling(keys[k]) PROVE new = keys
  <2>1. \A k \in DOMAIN keys : RedactText(keys[k]) = keys[k]  BY <1>5 DEF RedactText, Telling
  <2>2. keys = [k \in DOMAIN keys |-> keys[k]]  OBVIOUS
  <2>3. [k \in DOMAIN keys |-> RedactText(keys[k])] = [k \in DOMAIN keys |-> keys[k]]  BY <2>1
  <2> QED  BY <2>2, <2>3
<1> QED  BY <1>4, <1>5

LEMMA RedactedPath ==
  ASSUME NEW path \in Seq(Segments)
  PROVE  /\ RedactPath(path) \in Seq(Segments)
         /\ Public(path) => RedactPath(path) = path
<1> DEFINE Keys2(seg) == [k \in DOMAIN seg.keys |-> RedactText(seg.keys[k])]
           S(seg) == Seg(RedactText(seg.name), Keys2(seg))
           new == [i \in DOMAIN path |-> S(path[i])]
<1>1. Len(path) \in Nat /\ DOMAIN path = 1..Len(path) /\ \A i \in DOMAIN path : path[i] \in Segments  OBVIOUS
<1>2. RedactPath(path) = new  BY DEF RedactPath
<1>3. ASSUME NEW seg \in Segments
      PROVE  /\ Keys2(seg) \in Seq(Texts)
             /\ (\A k \in DOMAIN seg.keys : ~Telling(seg.keys[k])) => Keys2(seg) = seg.keys
  <2>1. seg.keys \in Seq(Texts)  BY SegmentParts
  <2> DEFINE keys == seg.keys
  <2> HIDE DEF keys
  <2>2. keys \in Seq(Texts)  BY <2>1 DEF keys
  <2>3. /\ [k \in DOMAIN keys |-> RedactText(keys[k])] \in Seq(Texts)
        /\ (\A k \in DOMAIN keys : ~Telling(keys[k])) => [k \in DOMAIN keys |-> RedactText(keys[k])] = keys
    BY <2>2, RedactedKeys
  <2> QED  BY <2>3 DEF keys
<1> HIDE DEF Keys2
<1>4. \A seg \in Segments : S(seg) \in Segments
  <2>1. ASSUME NEW seg \in Segments PROVE S(seg) \in Segments
    <3>1. RedactText(seg.name) \in Texts  BY SegmentParts, TextsRedacted
    <3> QED  BY <1>3, <3>1 DEF Seg, Segments
  <2> QED  BY <2>1
<1>5. \A seg \in Segments :
        ~Telling(seg.name) /\ (\A k \in DOMAIN seg.keys : ~Telling(seg.keys[k])) => S(seg) = seg
  <2>1. ASSUME NEW seg \in Segments, ~Telling(seg.name), \A k \in DOMAIN seg.keys : ~Telling(seg.keys[k])
        PROVE  S(seg) = seg
    <3>1. RedactText(seg.name) = seg.name  BY <2>1 DEF RedactText, Telling
    <3>2. Keys2(seg) = seg.keys  BY <1>3, <2>1
    <3>3. seg = Seg(seg.name, seg.keys)  BY SegmentParts
    <3> QED  BY <3>1, <3>2, <3>3
  <2> QED  BY <2>1
<1> HIDE DEF S
<1>6. new \in [1..Len(path) -> Segments]  BY <1>1, <1>4
<1>7. new \in Seq(Segments)
  <2> HIDE DEF new
  <2> QED  BY <1>1, <1>6
<1>8. ASSUME Public(path) PROVE new = path
  <2>1. \A i \in DOMAIN path : S(path[i]) = path[i]  BY <1>1, <1>5, <1>8 DEF Public
  <2>2. path = [i \in DOMAIN path |-> path[i]]  OBVIOUS
  <2>3. [i \in DOMAIN path |-> S(path[i])] = [i \in DOMAIN path |-> path[i]]  BY <2>1
  <2> QED  BY <2>2, <2>3
<1> QED  BY <1>2, <1>7, <1>8

LEMMA RedactedAnchor ==
  ASSUME NEW anchor, IsAnchor(anchor)
  PROVE  /\ IsAnchor(RedactAnchor(anchor)) /\ DOMAIN RedactAnchor(anchor) = DOMAIN anchor
         /\ \A p \in DOMAIN anchor :
              /\ RedactAnchor(anchor)[p].op = anchor[p].op
              /\ RedactAnchor(anchor)[p].args = anchor[p].args
              /\ Public(anchor[p].path) => RedactAnchor(anchor)[p] = anchor[p]
<1> DEFINE Parts == [op : Texts, q : Int, args : Nat, path : Seq(Segments)]
           new == RedactAnchor(anchor)
           R(a) == [a EXCEPT !.path = RedactPath(@)]
<1>1. <<>> \in DOMAIN anchor /\ DOMAIN anchor \subseteq Seq(Nat)  BY DEF IsAnchor
<1>2. \A p \in DOMAIN anchor : anchor[p] \in Parts /\ \A i \in 1..anchor[p].args : Append(p, i) \in DOMAIN anchor
  BY DEF IsAnchor
<1>3. DOMAIN new = DOMAIN anchor /\ \A p \in DOMAIN anchor : new[p] = R(anchor[p])  BY DEF RedactAnchor
<1>4. ASSUME NEW a \in Parts
      PROVE  R(a) \in Parts /\ R(a).op = a.op /\ R(a).args = a.args /\ (Public(a.path) => R(a) = a)
  <2>1. a.path \in Seq(Segments)  OBVIOUS
  <2>2. RedactPath(a.path) \in Seq(Segments) /\ (Public(a.path) => RedactPath(a.path) = a.path)
    BY <2>1, RedactedPath
  <2> QED  BY <2>2
<1> HIDE DEF R, new
<1>5. \A p \in DOMAIN new : new[p] \in Parts /\ \A i \in 1..new[p].args : Append(p, i) \in DOMAIN new
  <2>1. ASSUME NEW p \in DOMAIN anchor
        PROVE  new[p] \in Parts /\ \A i \in 1..new[p].args : Append(p, i) \in DOMAIN anchor
    <3>1. anchor[p] \in Parts  BY <1>2
    <3>2. R(anchor[p]) \in Parts /\ R(anchor[p]).args = anchor[p].args  BY <1>4, <3>1
    <3> QED  BY <1>2, <1>3, <3>2
  <2> QED  BY <1>3, <2>1
<1>6. IsAnchor(new)  BY <1>1, <1>3, <1>5 DEF IsAnchor
<1>7. ASSUME NEW p \in DOMAIN anchor
      PROVE  new[p].op = anchor[p].op /\ new[p].args = anchor[p].args /\ (Public(anchor[p].path) => new[p] = anchor[p])
  <2>1. anchor[p] \in Parts  BY <1>2
  <2> QED  BY <1>3, <1>4, <2>1
<1> QED  BY <1>3, <1>6, <1>7 DEF new

(* Every cell of it is one of stored results that can be checked.          *)
Checkable(run, stored, anchor) ==
  \A p \in DOMAIN anchor : anchor[p].op = "" =>
    /\ ~WholeColumn(anchor[p]) /\ Public(anchor[p].path)
    /\ Backed(run, stored, anchor[p].q)

LEMMA AnchorFades ==
  ASSUME NEW run, NEW stored, NEW anchor, IsAnchor(anchor), Checkable(run, stored, anchor)
  PROVE  \A p \in DOMAIN anchor :
           Fades(Resolved(stored, RedactAnchor(anchor))[p], Resolved(run, anchor)[p], run, anchor)
<1> DEFINE M == MaxAnchorDepth
           N == M + 1
           kept == RedactAnchor(anchor)
           old == Resolved(run, anchor)
           new == Resolved(stored, kept)
           good == {n \in 0..N : \A p \in DOMAIN anchor : Len(p) > M - n => Fades(new[p], old[p], run, anchor)}
<1>0. M \in Nat /\ N \in Nat /\ N = M + 1  BY DepthAssumption
<1>1. IsAnchor(kept) /\ DOMAIN kept = DOMAIN anchor
      /\ \A p \in DOMAIN anchor : /\ kept[p].op = anchor[p].op /\ kept[p].args = anchor[p].args
                                  /\ Public(anchor[p].path) => kept[p] = anchor[p]
  BY RedactedAnchor
<1> HIDE DEF kept
<1>2. \A p \in DOMAIN anchor : old[p] = OutcomeAt(old, run, anchor, p)  BY ResolvedUnfolds
<1>3. \A p \in DOMAIN anchor : new[p] = OutcomeAt(new, stored, kept, p)  BY <1>1, ResolvedUnfolds
<1>4. \A p \in DOMAIN anchor : Len(p) \in Nat /\ \A i : Len(Append(p, i)) = Len(p) + 1  BY AnchorPlaces
<1>5. \A p \in DOMAIN anchor : anchor[p].args \in Nat /\ \A i \in 1..anchor[p].args : Append(p, i) \in DOMAIN anchor
  BY AnchorPlaces
<1>6. \A p \in DOMAIN anchor : anchor[p].path \in Seq(Segments)  BY AnchorPlaces
<1> HIDE DEF old, new
<1>7. ASSUME NEW p \in DOMAIN anchor, Len(p) > M PROVE Fades(new[p], old[p], run, anchor)
  <2>1. OutcomeAt(old, run, anchor, p) = Unresolvable /\ OutcomeAt(new, stored, kept, p) = Unresolvable
    BY <1>7 DEF OutcomeAt
  <2> QED  BY <1>2, <1>3, <2>1 DEF Fades
<1>8. ASSUME NEW p \in DOMAIN anchor, ~(Len(p) > M), anchor[p].op = ""
      PROVE  Fades(new[p], old[p], run, anchor)
  <2>1. ~WholeColumn(anchor[p]) /\ Public(anchor[p].path) /\ Backed(run, stored, anchor[p].q)
    BY <1>8 DEF Checkable
  <2>2. kept[p] = anchor[p]  BY <1>1, <2>1
  <2>3. \A x : ResolveOperand(x, anchor[p]) = Resolve(x, anchor[p])  BY <2>1 DEF ResolveOperand
  <2>4. old[p] = Resolve(run, anchor[p])  BY <1>2, <1>8, <2>3 DEF OutcomeAt
  <2>5. new[p] = Resolve(stored, anchor[p])  BY <1>3, <1>8, <2>2, <2>3 DEF OutcomeAt
  <2> DEFINE cell == anchor[p]
  <2>6. cell \in Cites(anchor)  BY <1>8 DEF Cites
  <2> HIDE DEF cell
  <2>7. cell.path \in Seq(Segments) /\ Public(cell.path) /\ Backed(run, stored, cell.q)  BY <1>6, <2>1 DEF cell
  <2>8. Resolve(stored, cell) = Resolve(run, cell) \/ (Resolve(stored, cell) = Unresolvable /\ Cut(run, cell))
    BY <2>7, BackedResolve
  <2> QED  BY <2>4, <2>5, <2>6, <2>8 DEF Fades, SomeCut, cell
<1>9. ASSUME NEW p \in DOMAIN anchor, ~(Len(p) > M), anchor[p].op # "",
             \A i \in 1..anchor[p].args : Fades(new[Append(p, i)], old[Append(p, i)], run, anchor)
      PROVE  Fades(new[p], old[p], run, anchor)
  <2> DEFINE op == anchor[p].op
             n == anchor[p].args
             x == Operands(old, anchor, p)
             y == Operands(new, kept, p)
  <2>1. old[p] = Combine(op, x)  BY <1>2, <1>9 DEF OutcomeAt
  <2>2. new[p] = Combine(op, y)  BY <1>1, <1>3, <1>9 DEF OutcomeAt
  <2>3. x = [i \in 1..n |-> old[Append(p, i)]]  BY DEF Operands
  <2>4. y = [i \in 1..n |-> new[Append(p, i)]]  BY <1>1 DEF Operands
  <2>5. n \in Nat  BY <1>5
  <2> HIDE DEF op, n, x, y
  <2>6. \A i \in 1..n : Fades(new[Append(p, i)], old[Append(p, i)], run, anchor)  BY <1>9 DEF n
  <2>7. x = [i \in 1..n |-> x[i]] /\ y = [i \in 1..n |-> y[i]]  BY <2>3, <2>4
  <2>8. \A i \in 1..n : Fades(y[i], x[i], run, anchor)  BY <2>3, <2>4, <2>6
  <2>9. Fades(Combine(op, y), Combine(op, x), run, anchor)  BY <2>5, <2>7, <2>8, CombineFades
  <2> QED  BY <2>1, <2>2, <2>9
<1>10. 0 \in good
  <2>1. \A p \in DOMAIN anchor : Len(p) > M - 0 => Len(p) > M  BY <1>0
  <2> QED  BY <1>0, <1>7, <2>1
<1>11. ASSUME NEW n \in 1..N, n - 1 \in good PROVE n \in good
  <2>1. ASSUME NEW p \in DOMAIN anchor, Len(p) > M - n PROVE Fades(new[p], old[p], run, anchor)
    <3>1. CASE Len(p) > M  BY <1>7, <3>1
    <3>2. CASE ~(Len(p) > M) /\ anchor[p].op = ""  BY <1>8, <3>2
    <3>3. CASE ~(Len(p) > M) /\ anchor[p].op # ""
      <4>1. ASSUME NEW i \in 1..anchor[p].args PROVE Fades(new[Append(p, i)], old[Append(p, i)], run, anchor)
        <5>1. Append(p, i) \in DOMAIN anchor  BY <1>5
        <5>2. Len(Append(p, i)) = Len(p) + 1 /\ Len(p) \in Nat  BY <1>4
        <5>3. Len(Append(p, i)) > M - (n - 1)
          <6>1. M \in Nat /\ n \in Nat  BY <1>0
          <6> QED  BY <2>1, <5>2, <6>1
        <5> QED  BY <1>11, <5>1, <5>3
      <4> QED  BY <1>9, <3>3, <4>1
    <3> QED  BY <3>1, <3>2, <3>3
  <2>2. n \in 0..N  BY <1>0
  <2> QED  BY <2>1, <2>2
<1> HIDE DEF good
<1>12. \A n \in 0..N : n \in good  BY <1>0, <1>10, <1>11, StepByStep
<1>13. N \in good  BY <1>0, <1>12
<1>14. \A p \in DOMAIN anchor : Len(p) > M - N  BY <1>0, <1>4
<1> QED  BY <1>13, <1>14 DEF good, new, old, kept

(* The verdict on a claim, from what its anchor resolves to.              *)
VerdictOn(top, claimed, outcome) ==
  IF top = NoCell \/ claimed = NaN THEN "unresolvable"
  ELSE IF outcome.why = "unsupported" THEN "derived_unsupported"
  ELSE IF outcome.why # "" THEN "unresolvable"
  ELSE IF RelClose(outcome.values[1], claimed) THEN "resolved" ELSE "mismatch"

LEMMA EvalUnfolds ==
  ASSUME NEW run, NEW claim
  PROVE  EvalAnchor(run, claim) =
           VerdictOn(claim.anchor[<<>>], ClaimedNumber(claim.number, claim.marks), Resolved(run, claim.anchor)[<<>>])
BY DEF EvalAnchor, ResolveAnchor, VerdictOn

LEMMA VerdictSame ==
  ASSUME NEW top, NEW other, NEW claimed, NEW outcome, top = NoCell <=> other = NoCell
  PROVE  VerdictOn(top, claimed, outcome) = VerdictOn(other, claimed, outcome)
<1>1. CASE top = NoCell \/ claimed = NaN
  <2>1. VerdictOn(top, claimed, outcome) = "unresolvable"  BY <1>1 DEF VerdictOn
  <2>2. VerdictOn(other, claimed, outcome) = "unresolvable"  BY <1>1 DEF VerdictOn
  <2> QED  BY <2>1, <2>2
<1>2. CASE ~(top = NoCell \/ claimed = NaN)
  <2> DEFINE rest == IF outcome.why = "unsupported" THEN "derived_unsupported"
                     ELSE IF outcome.why # "" THEN "unresolvable"
                     ELSE IF RelClose(outcome.values[1], claimed) THEN "resolved" ELSE "mismatch"
  <2>1. VerdictOn(top, claimed, outcome) = rest  BY <1>2 DEF VerdictOn
  <2>2. VerdictOn(other, claimed, outcome) = rest  BY <1>2 DEF VerdictOn
  <2> HIDE DEF rest
  <2> QED  BY <2>1, <2>2
<1> QED  BY <1>1, <1>2

LEMMA VerdictUnresolvable ==
  ASSUME NEW top, NEW claimed
  PROVE  VerdictOn(top, claimed, Unresolvable) = "unresolvable"
<1>1. Unresolvable.why = "unresolvable" /\ "unresolvable" # "unsupported" /\ "unresolvable" # ""
  BY DEF Unresolvable, Failed
<1> QED  BY <1>1 DEF VerdictOn

LEMMA ClaimFades ==
  ASSUME NEW run, NEW stored, NEW claim, IsAnchor(claim.anchor), Checkable(run, stored, claim.anchor)
  PROVE  \/ EvalAnchor(stored, RedactClaim(claim)) = EvalAnchor(run, claim)
         \/ EvalAnchor(stored, RedactClaim(claim)) = "unresolvable" /\ SomeCut(run, claim.anchor)
<1> DEFINE a == claim.anchor
           kept == RedactAnchor(a)
           root == <<>>
           c == ClaimedNumber(claim.number, claim.marks)
           old == Resolved(run, a)[root]
           new == Resolved(stored, kept)[root]
           it == RedactClaim(claim)
<1>1. EvalAnchor(run, claim) = VerdictOn(a[root], c, old)  BY EvalUnfolds
<1>2. EvalAnchor(stored, it) = VerdictOn(kept[root], c, new)
  <2>1. it.anchor = kept /\ it.number = claim.number /\ it.marks = claim.marks  BY DEF RedactClaim, Claim
  <2> HIDE DEF it
  <2>2. EvalAnchor(stored, it) =
          VerdictOn(it.anchor[<<>>], ClaimedNumber(it.number, it.marks), Resolved(stored, it.anchor)[<<>>])
    BY EvalUnfolds
  <2> QED  BY <2>1, <2>2
<1>3. root \in DOMAIN a  BY AnchorPlaces
<1>4. Fades(new, old, run, a)  BY <1>3, AnchorFades
<1>5. kept[root] = NoCell <=> a[root] = NoCell
  <2>1. /\ kept[root].op = a[root].op
        /\ Public(a[root].path) => kept[root] = a[root]
    BY <1>3, RedactedAnchor
  <2>2. NoCell.op = ""  BY DEF NoCell, Cite
  <2>3. CASE a[root].op = ""
    <3>1. Public(a[root].path)  BY <1>3, <2>3 DEF Checkable
    <3> QED  BY <2>1, <3>1
  <2>4. CASE a[root].op # ""
    <3>1. kept[root].op # "" /\ a[root].op # ""  BY <2>1, <2>4
    <3> QED  BY <2>2, <3>1
  <2> QED  BY <2>3, <2>4
<1> HIDE DEF it, kept, root, c, old, new
<1>6. VerdictOn(kept[root], c, new) = VerdictOn(a[root], c, new)  BY <1>5, VerdictSame
<1>7. CASE new = old  BY <1>1, <1>2, <1>6, <1>7 DEF it
<1>8. CASE new = Unresolvable /\ SomeCut(run, a)
  <2>1. VerdictOn(a[root], c, new) = "unresolvable"  BY <1>8, VerdictUnresolvable
  <2> QED  BY <1>2, <1>6, <1>8, <2>1 DEF it
<1> QED  BY <1>4, <1>7, <1>8 DEF Fades

-----------------------------------------------------------------------------
(* The numbering of the stored results                                     *)
LEMMA FilteredGrows ==
  ASSUME NEW T, NEW s \in Seq(T), NEW keep, NEW g \in [0..Len(s) -> Seq(T)], Keeps(g, s, keep),
         NEW B \in 0..Len(s)
  PROVE  \A k \in DOMAIN g[B] : k \in DOMAIN g[Len(s)] /\ g[Len(s)][k] = g[B][k]
<1> DEFINE N == Len(s)
           p == g[B]
           has == {n \in 0..N : n >= B => \A k \in DOMAIN p : k \in DOMAIN g[n] /\ g[n][k] = p[k]}
<1>1. N \in Nat /\ B \in 0..N /\ B \in Nat  OBVIOUS
<1>2. 0 \in has
  <2>1. 0 \in 0..N /\ (0 >= B => B = 0)  BY <1>1
  <2> QED  BY <2>1
<1>3. ASSUME NEW n \in 1..N, n - 1 \in has PROVE n \in has
  <2>1. n \in 0..N /\ n - 1 \in 0..N /\ (n >= B => n = B \/ n - 1 >= B)  BY <1>1
  <2>2. CASE n = B  BY <2>1, <2>2
  <2>3. CASE n - 1 >= B
    <3>1. \A k \in DOMAIN p : k \in DOMAIN g[n - 1] /\ g[n - 1][k] = p[k]  BY <1>3, <2>3
    <3> DEFINE old == g[n - 1]
    <3>2. old \in Seq(T) /\ s[n] \in T  BY <2>1
    <3>3. g[n] = IF n \in keep THEN Append(old, s[n]) ELSE old  BY DEF Keeps
    <3> HIDE DEF old
    <3>4. \A k \in DOMAIN old : k \in DOMAIN Append(old, s[n]) /\ Append(old, s[n])[k] = old[k]  BY <3>2
    <3>5. \A k \in DOMAIN old : k \in DOMAIN g[n] /\ g[n][k] = old[k]  BY <3>3, <3>4
    <3> QED  BY <2>1, <3>1, <3>5 DEF old
  <2>4. CASE ~(n >= B)  BY <2>1, <2>4
  <2> QED  BY <2>1, <2>2, <2>3, <2>4
<1> HIDE DEF has, N
<1>4. \A n \in 0..N : n \in has  BY <1>1, <1>2, <1>3, StepByStep
<1>5. N \in has /\ N >= B  BY <1>1, <1>4
<1> QED  BY <1>5 DEF has, N

Early(keep, n) == {m \in 1..n : m \in keep}

LEMMA CountOneMore ==
  ASSUME NEW n \in Nat \ {0}, NEW keep
  PROVE  /\ Cardinality(Early(keep, n)) =
              IF n \in keep THEN Cardinality(Early(keep, n - 1)) + 1 ELSE Cardinality(Early(keep, n - 1))
         /\ Cardinality(Early(keep, n - 1)) \in Nat
<1> DEFINE before == Early(keep, n - 1)
<1>1. IsFiniteSet(before) /\ n \notin before
  <2>1. IsFiniteSet(1..(n - 1))  BY FS_Interval
  <2> QED  BY <2>1, FS_Subset DEF Early
<1>2. Early(keep, n) = IF n \in keep THEN before \cup {n} ELSE before  BY DEF Early
<1> HIDE DEF before
<1>3. Cardinality(before \cup {n}) = Cardinality(before) + 1  BY <1>1, FS_AddElement
<1>4. Cardinality(before) \in Nat  BY <1>1, FS_CardinalityType
<1> QED  BY <1>2, <1>3, <1>4 DEF before

(* What the recorder stores.                                               *)
Outputs == {Redact(call) : call \in Calls}

LEMMA RedactedCall ==
  \A call \in Calls : /\ Redact(call).status = call.status
                      /\ Redact(call).json = RedactValue[call.json]
                      /\ Redact(call) \in Outputs /\ call.json \in Nodes
BY CapturedAssumption DEF Redact, Outputs

(* Up to a call before which none was lost, both count the same results.   *)
LEMMA CountAlike ==
  ASSUME NEW run \in Seq(Calls), NEW stored \in Seq(Outputs),
         NEW B \in 0..Len(run), \A n \in 1..B : n \in DOMAIN stored /\ stored[n] = Redact(run[n]),
         NEW g \in [0..Len(run) -> Seq(Calls)], Keeps(g, run, {n \in DOMAIN run : run[n].status = "OK"}),
         NEW h \in [0..Len(stored) -> Seq(Outputs)],
         Keeps(h, stored, {n \in DOMAIN stored : stored[n].status = "OK"})
  PROVE  /\ B \in 0..Len(stored)
         /\ Len(g[B]) = Cardinality({n \in 1..B : run[n].status = "OK"})
         /\ Len(h[B]) = Len(g[B]) /\ \A k \in 1..Len(g[B]) : h[B][k] = Redact(g[B][k])
<1> DEFINE ok == {n \in DOMAIN run : run[n].status = "OK"}
           kept == {n \in DOMAIN stored : stored[n].status = "OK"}
           Same(n) == /\ Len(g[n]) = Cardinality(Early(ok, n)) /\ Len(h[n]) = Len(g[n])
                      /\ \A k \in 1..Len(g[n]) : h[n][k] = Redact(g[n][k])
           good == {n \in 0..B : Same(n)}
<1>1. B \in Nat /\ Len(run) \in Nat /\ Len(stored) \in Nat /\ DOMAIN run = 1..Len(run)
      /\ DOMAIN stored = 1..Len(stored)
  OBVIOUS
<1>2. B \in 0..Len(stored)
  <2>1. CASE B = 0  BY <1>1, <2>1
  <2>2. CASE B # 0
    <3>1. B \in 1..B  BY <1>1, <2>2
    <3>2. B \in DOMAIN stored  BY <3>1
    <3> QED  BY <1>1, <3>2
  <2> QED  BY <2>1, <2>2
<1>3. 0 \in good
  <2>1. g[0] = <<>> /\ h[0] = <<>>  BY DEF Keeps
  <2>2. Early(ok, 0) = {}  BY DEF Early
  <2>3. Cardinality(Early(ok, 0)) = 0  BY <2>2, FS_EmptySet
  <2> QED  BY <1>1, <2>1, <2>3
<1>4. ASSUME NEW n \in 1..B, n - 1 \in good PROVE n \in good
  <2>1. /\ n \in 1..Len(run) /\ n \in 1..Len(stored) /\ n - 1 \in 0..B
        /\ n - 1 \in 0..Len(run) /\ n - 1 \in 0..Len(stored) /\ n \in Nat \ {0} /\ n \in 0..B
    BY <1>1, <1>2
  <2> DEFINE x == g[n - 1]
             y == h[n - 1]
  <2>2. x \in Seq(Calls) /\ y \in Seq(Outputs)  BY <2>1
  <2>3. run[n] \in Calls /\ stored[n] = Redact(run[n])  BY <1>1, <2>1
  <2>4. g[n] = IF n \in ok THEN Append(x, run[n]) ELSE x  BY <2>1 DEF Keeps
  <2>5. h[n] = IF n \in kept THEN Append(y, stored[n]) ELSE y  BY <2>1 DEF Keeps
  <2>6. n \in ok <=> n \in kept
    <3>1. Redact(run[n]).status = run[n].status  BY <2>3, RedactedCall
    <3> QED  BY <1>1, <2>1, <2>3, <3>1
  <2>7. Same(n - 1)  BY <1>4
  <2>8. /\ Cardinality(Early(ok, n)) = IF n \in ok THEN Cardinality(Early(ok, n - 1)) + 1 ELSE Cardinality(Early(ok, n - 1))
        /\ Cardinality(Early(ok, n - 1)) \in Nat
    <3> HIDE DEF ok
    <3> QED  BY <2>1, CountOneMore
  <2> HIDE DEF x, y, ok, kept
  <2>9. Len(x) = Cardinality(Early(ok, n - 1)) /\ Len(y) = Len(x) /\ \A k \in 1..Len(x) : y[k] = Redact(x[k])
    BY <2>7 DEF x, y
  <2>10. CASE n \notin ok
    <3>1. g[n] = x /\ h[n] = y /\ Cardinality(Early(ok, n)) = Cardinality(Early(ok, n - 1))  BY <2>4, <2>5, <2>6, <2>8, <2>10
    <3>2. Same(n)  BY <2>9, <3>1
    <3> QED  BY <2>1, <3>2
  <2>11. CASE n \in ok
    <3>1. g[n] = Append(x, run[n]) /\ h[n] = Append(y, stored[n])  BY <2>4, <2>5, <2>6, <2>11
    <3>2. Len(g[n]) = Len(x) + 1 /\ Len(h[n]) = Len(y) + 1 /\ Len(x) \in Nat  BY <2>2, <3>1
    <3>3. ASSUME NEW k \in 1..Len(g[n]) PROVE h[n][k] = Redact(g[n][k])
      <4>1. k = Len(x) + 1 \/ k \in 1..Len(x)  BY <3>2
      <4>2. CASE k = Len(x) + 1
        <5>1. g[n][k] = run[n] /\ h[n][k] = stored[n]  BY <2>2, <2>9, <3>1, <4>2
        <5> QED  BY <2>3, <5>1
      <4>3. CASE k \in 1..Len(x)
        <5>1. g[n][k] = x[k] /\ h[n][k] = y[k]  BY <2>2, <2>9, <3>1, <4>3
        <5> QED  BY <2>9, <4>3, <5>1
      <4> QED  BY <4>1, <4>2, <4>3
    <3>4. Len(g[n]) = Cardinality(Early(ok, n)) /\ Len(h[n]) = Len(g[n])  BY <2>8, <2>9, <2>11, <3>2
    <3>5. Same(n)  BY <3>3, <3>4
    <3> QED  BY <2>1, <3>5
  <2> QED  BY <2>10, <2>11
<1>5. \A n \in 0..B : n \in good
  <2> HIDE DEF good
  <2> QED  BY <1>1, <1>3, <1>4, StepByStep
<1>6. Same(B)
  <2>1. B \in good
    <3> HIDE DEF good
    <3> QED  BY <1>1, <1>5
  <2> HIDE DEF Same
  <2> QED  BY <2>1
<1>7. Early(ok, B) = {n \in 1..B : run[n].status = "OK"}  BY <1>1 DEF Early
<1> QED  BY <1>2, <1>6, <1>7

(* The stored steps are the outputs of the calls, until the first is lost. *)
Holds(run, stored, gone) ==
  /\ run \in Seq(Calls) /\ stored \in Seq(Outputs)
  /\ gone \subseteq DOMAIN run
  /\ gone = {} => Len(stored) = Len(run)
  /\ \A n \in DOMAIN run : (\A l \in gone : n < l) => n \in DOMAIN stored /\ stored[n] = Redact(run[n])

Stored == Holds(calls, steps, lost)

LEMMA Appended ==
  ASSUME NEW T, NEW s \in Seq(T), NEW e \in T
  PROVE  /\ Append(s, e) \in Seq(T) /\ Len(Append(s, e)) = Len(s) + 1
         /\ DOMAIN Append(s, e) = 1..(Len(s) + 1) /\ Append(s, e)[Len(s) + 1] = e
         /\ \A n \in 1..Len(s) : n \in DOMAIN s /\ Append(s, e)[n] = s[n]
         /\ Len(s) \in Nat /\ DOMAIN s = 1..Len(s)
OBVIOUS

LEMMA StepStored ==
  ASSUME NEW run, NEW stored, NEW gone, Holds(run, stored, gone), NEW call \in Calls
  PROVE  Holds(Append(run, call), Append(stored, Redact(call)), gone)
<1> DEFINE N == Len(run)
           L == Len(stored)
           output == Redact(call)
           run2 == Append(run, call)
           stored2 == Append(stored, output)
<1>1. run \in Seq(Calls) /\ stored \in Seq(Outputs) /\ output \in Outputs  BY RedactedCall DEF Holds
<1> HIDE DEF output
<1>2. /\ run2 \in Seq(Calls) /\ Len(run2) = N + 1 /\ DOMAIN run2 = 1..(N + 1) /\ run2[N + 1] = call
      /\ \A n \in 1..N : n \in DOMAIN run /\ run2[n] = run[n]
      /\ N \in Nat /\ DOMAIN run = 1..N
  BY <1>1, Appended
<1>3. /\ stored2 \in Seq(Outputs) /\ Len(stored2) = L + 1 /\ DOMAIN stored2 = 1..(L + 1)
      /\ stored2[L + 1] = output /\ \A n \in 1..L : n \in DOMAIN stored /\ stored2[n] = stored[n]
      /\ L \in Nat /\ DOMAIN stored = 1..L
  BY <1>1, Appended
<1> HIDE DEF N, L, run2, stored2
<1>4. gone \subseteq 1..N /\ (gone = {} => L = N)  BY <1>2 DEF Holds, N, L
<1>5. \A n \in 1..N : (\A l \in gone : n < l) => n \in 1..L /\ stored[n] = Redact(run[n])
  BY <1>2, <1>3 DEF Holds
<1>6. ASSUME NEW n \in 1..(N + 1), \A l \in gone : n < l
      PROVE  n \in DOMAIN stored2 /\ stored2[n] = Redact(run2[n])
  <2>1. CASE n \in 1..N
    <3>1. n \in 1..L /\ stored[n] = Redact(run[n])  BY <1>5, <1>6, <2>1
    <3>2. n \in 1..(L + 1)  BY <1>3, <3>1
    <3> QED  BY <1>2, <1>3, <2>1, <3>1, <3>2
  <2>2. CASE n = N + 1
    <3>1. gone = {}
      <4>1. ASSUME NEW l \in gone PROVE FALSE
        <5>1. l \in 1..N  BY <1>4
        <5>2. N + 1 < l  BY <1>6, <2>2
        <5> QED  BY <1>2, <5>1, <5>2
      <4> QED  BY <4>1
    <3>2. L = N  BY <1>4, <3>1
    <3>3. n \in 1..(L + 1)  BY <1>3, <2>2, <3>2
    <3> QED  BY <1>2, <1>3, <2>2, <3>2, <3>3 DEF output
  <2>3. n \in 1..N \/ n = N + 1  BY <1>2
  <2> QED  BY <2>1, <2>2, <2>3
<1>7. gone \subseteq DOMAIN run2  BY <1>2, <1>4
<1>8. gone = {} => Len(stored2) = Len(run2)  BY <1>2, <1>3, <1>4
<1>9. Holds(run2, stored2, gone)  BY <1>2, <1>3, <1>6, <1>7, <1>8 DEF Holds
<1> QED  BY <1>9 DEF run2, stored2, output

LEMMA StepLost ==
  ASSUME NEW run, NEW stored, NEW gone, Holds(run, stored, gone), NEW call \in Calls
  PROVE  Holds(Append(run, call), stored, gone \cup {Len(Append(run, call))})
<1> DEFINE N == Len(run)
           run2 == Append(run, call)
           gone2 == gone \cup {Len(run2)}
<1>1. run \in Seq(Calls) /\ stored \in Seq(Outputs)  BY DEF Holds
<1>2. /\ run2 \in Seq(Calls) /\ Len(run2) = N + 1 /\ DOMAIN run2 = 1..(N + 1)
      /\ \A n \in 1..N : n \in DOMAIN run /\ run2[n] = run[n]
      /\ N \in Nat /\ DOMAIN run = 1..N
  BY <1>1, Appended
<1> HIDE DEF N, run2
<1>3. gone2 \subseteq DOMAIN run2 /\ gone2 # {}
  <2>1. gone \subseteq 1..N  BY <1>2 DEF Holds
  <2>2. \A l \in 1..N : l \in 1..(N + 1)  BY <1>2
  <2>3. N + 1 \in 1..(N + 1)  BY <1>2
  <2> QED  BY <1>2, <2>1, <2>2, <2>3
<1>4. ASSUME NEW n \in 1..(N + 1), \A l \in gone2 : n < l
      PROVE  n \in DOMAIN stored /\ stored[n] = Redact(run2[n])
  <2>1. n < N + 1  BY <1>2, <1>4
  <2>2. n \in 1..N  BY <1>2, <2>1
  <2>3. \A l \in gone : n < l  BY <1>4
  <2>4. n \in DOMAIN run /\ run2[n] = run[n]  BY <1>2, <2>2
  <2> QED  BY <2>3, <2>4 DEF Holds
<1> HIDE DEF gone2
<1>5. Holds(run2, stored, gone2)  BY <1>1, <1>2, <1>3, <1>4 DEF Holds
<1> QED  BY <1>5 DEF run2, gone2

LEMMA RecordStores ==
  ASSUME Stored, NEW call \in Calls, Record(call)
  PROVE  Stored'
<1>1. calls' = Append(calls, call)  BY DEF Record, ToolCall, RecordToolCall
<1>2. CASE steps' = Append(steps, Redact(call)) /\ UNCHANGED lost
  <2>1. Holds(Append(calls, call), Append(steps, Redact(call)), lost)  BY StepStored DEF Stored
  <2> QED  BY <1>1, <1>2, <2>1 DEF Stored
<1>3. CASE lost' = lost \cup {Len(calls')} /\ UNCHANGED steps
  <2>1. Holds(Append(calls, call), steps, lost \cup {Len(Append(calls, call))})  BY StepLost DEF Stored
  <2> QED  BY <1>1, <1>3, <2>1 DEF Stored
<1> QED  BY <1>2, <1>3 DEF Record

LEMMA StepsStored == AuditSpec => []Stored
<1>1. AuditInit => Stored  BY DEF AuditInit, GradingInit, CaptureInit, Stored, Holds
<1>2. Stored /\ [AuditNext]_auditVars => Stored'
  <2> SUFFICES ASSUME Stored, [AuditNext]_auditVars PROVE Stored'  OBVIOUS
  <2>1. ASSUME NEW call \in Calls, Record(call) PROVE Stored'  BY <2>1, RecordStores
  <2>2. ASSUME NEW a \in Answers, Grade(a) PROVE Stored'
    BY <2>2 DEF Grade, Evaluate, captureVars, Stored
  <2>3. CASE Audit  BY <2>3 DEF Audit, gradingVars, captureVars, Stored
  <2>4. ASSUME NEW t \in TaskFiles, Another(t) PROVE Stored'
    BY <2>4 DEF Another, NextTask, NewCapture, Stored, Holds
  <2>5. CASE UNCHANGED auditVars  BY <2>5 DEF auditVars, gradingVars, captureVars, Stored
  <2> QED  BY <2>1, <2>2, <2>3, <2>4, <2>5 DEF AuditNext
<1> QED  BY <1>1, <1>2, PTL DEF AuditSpec

(* The calls before the first lost one are the first few of all.           *)
LEMMA BeforeLoss ==
  ASSUME Stored
  PROVE  \E B \in 0..Len(calls) : {n \in DOMAIN calls : \A l \in lost : n < l} = 1..B
<1> DEFINE before == {n \in DOMAIN calls : \A l \in lost : n < l}
<1>1. Len(calls) \in Nat /\ DOMAIN calls = 1..Len(calls) /\ lost \subseteq 1..Len(calls)  BY DEF Stored, Holds
<1>2. CASE lost = {}
  <2>1. before = 1..Len(calls) /\ Len(calls) \in 0..Len(calls)  BY <1>1, <1>2
  <2> QED  BY <2>1
<1>3. CASE lost # {}
  <2>1. lost \subseteq Nat  BY <1>1
  <2>2. PICK first \in lost : \A l \in lost : first <= l  BY <1>3, <2>1, SmallestNumber
  <2>3. first \in 1..Len(calls)  BY <1>1
  <2>4. \A n \in 1..Len(calls) : (\A l \in lost : n < l) <=> n < first
    <3>1. \A l \in lost : l \in Nat  BY <2>1
    <3> QED  BY <2>2, <2>3, <3>1
  <2>5. before = {n \in 1..Len(calls) : n < first}  BY <1>1, <2>4
  <2>6. {n \in 1..Len(calls) : n < first} = 1..(first - 1)  BY <1>1, <2>3
  <2>7. first - 1 \in 0..Len(calls)  BY <1>1, <2>3
  <2> QED  BY <2>5, <2>6, <2>7
<1> QED  BY <1>2, <1>3

LEMMA NumberedBacked ==
  ASSUME Stored, NEW q \in Numbered
  PROVE  Backed(calls, steps, q)
<1> DEFINE run == calls
           stored == steps
           ok == {n \in DOMAIN run : run[n].status = "OK"}
           kept == {n \in DOMAIN stored : stored[n].status = "OK"}
<1>1. run \in Seq(Calls) /\ stored \in Seq(Outputs)  BY DEF Stored, Holds
<1>2. PICK B \in 0..Len(run) : {n \in DOMAIN run : \A l \in lost : n < l} = 1..B  BY BeforeLoss
<1>3. \A n \in 1..B : n \in DOMAIN stored /\ stored[n] = Redact(run[n])
  <2>1. \A n \in 1..B : n \in DOMAIN run /\ \A l \in lost : n < l  BY <1>2
  <2> QED  BY <2>1 DEF Stored, Holds
<1>4. q \in 1..Cardinality({n \in 1..B : run[n].status = "OK"})  BY <1>2 DEF Numbered
<1>5. OKCalls(run) = Filtered(run, ok) /\ OKCalls(stored) = Filtered(stored, kept)  BY DEF OKCalls
<1> HIDE DEF run, stored
<1>6. PICK g \in [0..Len(run) -> Seq(Calls)] : Keeps(g, run, ok) /\ Filtered(run, ok) = g[Len(run)]
  BY <1>1, FilteredUnfolds
<1>7. PICK h \in [0..Len(stored) -> Seq(Outputs)] : Keeps(h, stored, kept) /\ Filtered(stored, kept) = h[Len(stored)]
  BY <1>1, FilteredUnfolds
<1>8. /\ B \in 0..Len(stored)
      /\ Len(g[B]) = Cardinality({n \in 1..B : run[n].status = "OK"})
      /\ Len(h[B]) = Len(g[B]) /\ \A k \in 1..Len(g[B]) : h[B][k] = Redact(g[B][k])
  BY <1>1, <1>3, <1>6, <1>7, CountAlike
<1> HIDE DEF ok, kept
<1>9. \A k \in DOMAIN g[B] : k \in DOMAIN g[Len(run)] /\ g[Len(run)][k] = g[B][k]
  BY <1>1, <1>6, FilteredGrows
<1>10. \A k \in DOMAIN h[B] : k \in DOMAIN h[Len(stored)] /\ h[Len(stored)][k] = h[B][k]
  <2>1. B \in 0..Len(stored)  BY <1>8
  <2> QED  BY <1>1, <1>7, <2>1, FilteredGrows
<1>11. g[B] \in Seq(Calls) /\ h[B] \in Seq(Outputs)  BY <1>8
<1> DEFINE x == g[B]
           y == h[B]
<1>12. x \in Seq(Calls) /\ y \in Seq(Outputs) /\ q \in 1..Len(x) /\ Len(y) = Len(x) /\ y[q] = Redact(x[q])
  BY <1>4, <1>8, <1>11
<1> HIDE DEF x, y
<1>13. q \in DOMAIN x /\ q \in DOMAIN y /\ x[q] \in Calls  BY <1>12
<1>14. q \in DOMAIN OKCalls(run) /\ OKCalls(run)[q] = x[q]  BY <1>5, <1>6, <1>9, <1>13 DEF x
<1>15. q \in DOMAIN OKCalls(stored) /\ OKCalls(stored)[q] = y[q]  BY <1>5, <1>7, <1>10, <1>13 DEF y
<1>16. x[q].json \in Nodes /\ y[q].json = RedactValue[x[q].json]  BY <1>12, <1>13, RedactedCall
<1>17. Backed(run, stored, q)  BY <1>14, <1>15, <1>16 DEF Backed
<1> QED  BY <1>17 DEF run, stored

(* What the audit found is what the stored steps say of the stored claims. *)
Found ==
  Audited =>
    /\ answer # NoAnswer
    /\ verdicts = [i \in DOMAIN answer.claims |-> Tally(EvalAnchor(steps, RedactClaim(answer.claims[i])))]

LEMMA VerdictsFound == AuditSpec => []Found
<1>1. AuditInit => Found  BY DEF AuditInit, Found, Audited
<1>2. Found /\ [AuditNext]_auditVars => Found'
  <2> SUFFICES ASSUME Found, [AuditNext]_auditVars PROVE Found'  OBVIOUS
  <2>1. ASSUME NEW call \in Calls, Record(call) PROVE Found'
    <3>1. answer = NoAnswer /\ verdicts' = verdicts  BY <2>1 DEF Record, ToolCall
    <3>2. ~Audited'  BY <3>1 DEF Found, Audited
    <3> QED  BY <3>2 DEF Found
  <2>2. ASSUME NEW a \in Answers, Grade(a) PROVE Found'
    <3>1. answer = NoAnswer /\ verdicts' = verdicts  BY <2>2 DEF Grade, Evaluate
    <3>2. ~Audited'  BY <3>1 DEF Found, Audited
    <3> QED  BY <3>2 DEF Found
  <2>3. CASE Audit
    <3> DEFINE claims == ParseAttributionOutput(FinalOutput(answer))
    <3>1. /\ answer # NoAnswer /\ claims # <<>> /\ answer' = answer /\ steps' = steps
          /\ verdicts' = [i \in DOMAIN claims |-> Tally(EvalAnchor(steps, claims[i]))]
      BY <2>3 DEF Audit, LoadToolCalls, gradingVars
    <3>2. FinalOutput(answer).block = answer.block
          /\ FinalOutput(answer).claims = [i \in DOMAIN answer.claims |-> RedactClaim(answer.claims[i])]
      BY DEF FinalOutput
    <3>3. claims = [i \in DOMAIN answer.claims |-> RedactClaim(answer.claims[i])]
      BY <3>1, <3>2 DEF ParseAttributionOutput
    <3> HIDE DEF claims
    <3>4. DOMAIN claims = DOMAIN answer.claims
          /\ \A i \in DOMAIN answer.claims : claims[i] = RedactClaim(answer.claims[i])
      BY <3>3
    <3>5. [i \in DOMAIN claims |-> Tally(EvalAnchor(steps, claims[i]))] =
            [i \in DOMAIN answer.claims |-> Tally(EvalAnchor(steps, RedactClaim(answer.claims[i])))]
      BY <3>4
    <3> QED  BY <3>1, <3>5 DEF Found
  <2>4. ASSUME NEW t \in TaskFiles, Another(t) PROVE Found'  BY <2>4 DEF Another, Found, Audited
  <2>5. CASE UNCHANGED auditVars  BY <2>5 DEF auditVars, gradingVars, captureVars, Found, Audited
  <2> QED  BY <2>1, <2>2, <2>3, <2>4, <2>5 DEF AuditNext
<1> QED  BY <1>1, <1>2, PTL DEF AuditSpec

(* A claim of which every cell can be checked.                             *)
LEMMA CellsCheckable ==
  ASSUME Stored, NEW anchor,
         \A c \in Cites(anchor) : ~WholeColumn(c) /\ c.q \in Numbered /\ Names(c) \cap (Private \cup {Placeholder}) = {}
  PROVE  Checkable(calls, steps, anchor)
<1>1. ASSUME NEW p \in DOMAIN anchor, anchor[p].op = ""
      PROVE  ~WholeColumn(anchor[p]) /\ Public(anchor[p].path) /\ Backed(calls, steps, anchor[p].q)
  <2> DEFINE cell == anchor[p]
  <2>1. cell \in Cites(anchor)  BY <1>1 DEF Cites
  <2> HIDE DEF cell
  <2>2. ~WholeColumn(cell) /\ cell.q \in Numbered /\ Names(cell) \cap (Private \cup {Placeholder}) = {}
    BY <2>1
  <2>3. Public(cell.path)  BY <2>2, NamesPublic
  <2>4. Backed(calls, steps, cell.q)  BY <2>2, NumberedBacked
  <2> QED  BY <2>2, <2>3, <2>4 DEF cell
<1> QED  BY <1>1 DEF Checkable

LEMMA FoundFades == Stored /\ Graded /\ Found => ShortenedNeverContradicts
<1> DEFINE cells(i) == Cites(answer.claims[i].anchor)
<1> SUFFICES ASSUME Stored, Graded, Found, Audited, NEW i \in DOMAIN verdicts,
                    \A c \in cells(i) : /\ ~WholeColumn(c) /\ c.q \in Numbered
                                        /\ Names(c) \cap (Private \cup {Placeholder}) = {}
             PROVE  \/ verdicts[i] = Live(i)
                    \/ /\ verdicts[i] = "unresolvable"
                       /\ \E c \in cells(i) : ~Short[OKCalls(calls)[c.q].json]
  BY DEF ShortenedNeverContradicts
<1> DEFINE claim == answer.claims[i]
<1>1. answer \in Answers /\ i \in DOMAIN answer.claims /\ verdicts[i] = Tally(EvalAnchor(steps, RedactClaim(claim)))
  BY DEF Found, Graded
<1>2. IsAnchor(claim.anchor)
  <2>1. claim \in ToSet(answer.claims)  BY <1>1 DEF ToSet
  <2> QED  BY <1>1, <2>1, AnswersAssumption
<1>3. Live(i) = Tally(EvalAnchor(calls, claim))  BY DEF Live
<1> HIDE DEF claim
<1>4. \A c \in Cites(claim.anchor) :
        ~WholeColumn(c) /\ c.q \in Numbered /\ Names(c) \cap (Private \cup {Placeholder}) = {}
  BY DEF claim
<1>5. Checkable(calls, steps, claim.anchor)  BY <1>4, CellsCheckable
<1>6. \/ EvalAnchor(steps, RedactClaim(claim)) = EvalAnchor(calls, claim)
      \/ EvalAnchor(steps, RedactClaim(claim)) = "unresolvable" /\ SomeCut(calls, claim.anchor)
  BY <1>2, <1>5, ClaimFades
<1>7. Tally("unresolvable") = "unresolvable"  BY DEF Tally
<1>8. SomeCut(calls, claim.anchor) => \E c \in cells(i) : ~Short[OKCalls(calls)[c.q].json]
  BY DEF SomeCut, Cut, claim
<1> QED  BY <1>1, <1>3, <1>6, <1>7, <1>8

(* The audit of a claim that it can still check agrees with its grading.   *)
THEOREM AuditAgrees == AuditSpec => []ShortenedNeverContradicts
<1>1. AuditSpec => []Graded  BY AuditsGraded, GradesStand, PTL
<1> QED  BY <1>1, StepsStored, VerdictsFound, FoundFades, PTL

=============================================================================
